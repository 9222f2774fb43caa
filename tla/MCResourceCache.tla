-------------------------- MODULE MCResourceCache --------------------------
(* Two panels over two URLs and two versions, small enough for TLC. *)
EXTENDS ResourceCache
=============================================================================
