--------------------------- MODULE MCFactReview ---------------------------
(* A document whose figures a parser change reads differently: both versions *)
(* read `b`, from a scan only the new one can measure and with no value of   *)
(* its own; `a`, from the text layer, only the old one reads.                *)
EXTENDS FactReview, TLC

CONSTANTS a, b, old, new

MCIdentities == {a, b}
MCVersions == {old, new}
MCYields == (old :> {a, b}) @@ (new :> {b})
MCMeasured == (old :> {}) @@ (new :> {b})
MCScanned == {b}
MCValued == {a}
=============================================================================
