----------------------------- MODULE LedgerRead -----------------------------
(***************************************************************************)
(* Requests reading the ledger through one pooled connection               *)
(* (packages/database/src/ledger.ts, readLedger and oneAtATime;            *)
(* apps/web/src/server/container.ts, a pool with max: 1).  A handler issues*)
(* its queries together; oneAtATime hands each to the client when the one  *)
(* before it has settled; the client sends its own queue in order.  A step *)
(* is one statement answered, with what its issuer does before the next    *)
(* answer can arrive.                                                      *)
(***************************************************************************)
EXTENDS Naturals, Sequences

CONSTANTS
    Requests,
    Reads,      \* queries a handler issues together
    MaxLoads,   \* bound on the ledger's states
    NoState

VARIABLES
    ledger,     \* the committed state, by number: a load commits the next one
    session,    \* the connection's transaction, as the database has it
    queue,      \* statements handed to the client and not yet answered
    holder,     \* the request the connection is lent to
    waiting,    \* requests waiting for it, in order
    request     \* what each request has asked and been told

reading == <<ledger, session, queue, holder, waiting, request>>

States == 0..MaxLoads

Statement == [by : Requests, what : {"BEGIN", "watermark", "read", "COMMIT", "ROLLBACK"},
              nth : 0..Reads]

Session == [open : BOOLEAN, aborted : BOOLEAN, snapshot : States \cup {NoState}]

\* `since` is the ledger's state when the request arrived; `got` holds what each
\* query saw, NoState for a query that failed.
Request == [stage : {"idle", "waiting", "reading", "ending", "answered", "failed"},
            since : States, version : States \cup {NoState},
            got : Seq(States \cup {NoState}), error : {"none", "own", "aborted"}]

ASSUME ReadsAssumption == Reads \in Nat \ {0} /\ MaxLoads \in Nat
ASSUME NullAssumption == NoState \notin States \cup Requests

-----------------------------------------------------------------------------
NoTransaction == [open |-> FALSE, aborted |-> FALSE, snapshot |-> NoState]

Ask(r, what) == [by |-> r, what |-> what, nth |-> 0]
AskRead(r, n) == [by |-> r, what |-> "read", nth |-> n]

ReadInit ==
    /\ ledger = 0
    /\ session = NoTransaction
    /\ queue = <<>>
    /\ holder = NoState
    /\ waiting = <<>>
    /\ request = [r \in Requests |->
                    [stage |-> "idle", since |-> 0, version |-> NoState,
                     got |-> <<>>, error |-> "none"]]

\* A load commits.
CommitLoad ==
    /\ ledger < MaxLoads
    /\ ledger' = ledger + 1
    /\ UNCHANGED <<session, queue, holder, waiting, request>>

Arrive(r) ==
    /\ request[r].stage = "idle"
    /\ waiting' = Append(waiting, r)
    /\ request' = [request EXCEPT ![r].stage = "waiting", ![r].since = ledger]
    /\ UNCHANGED <<ledger, session, queue, holder>>

\* The pool lends its one connection, and the request opens its transaction.
Lend ==
    /\ holder = NoState
    /\ waiting # <<>>
    /\ holder' = Head(waiting)
    /\ waiting' = Tail(waiting)
    /\ queue' = Append(queue, Ask(Head(waiting), "BEGIN"))
    /\ UNCHANGED <<ledger, session, request>>

-----------------------------------------------------------------------------
(* The database: REPEATABLE READ takes its snapshot at the first statement *)
(* that needs one; outside a transaction a statement sees what is          *)
(* committed; after a failure a transaction refuses everything.            *)

Answering(what) == queue # <<>> /\ Head(queue).what = what

Refused == session.open /\ session.aborted

\* Mutant of Sees: READ COMMITTED.
Sees_Committed == ledger

Sees == IF session.snapshot # NoState THEN session.snapshot ELSE ledger

\* What a query leaves of the transaction.
AfterQuery(ok) ==
    session' = IF ~session.open THEN session
               ELSE IF ok THEN [session EXCEPT !.snapshot = Sees]
               ELSE [session EXCEPT !.aborted = TRUE]

\* BEGIN inside a transaction is a warning and changes nothing.
Begin ==
    /\ Answering("BEGIN")
    /\ session' = IF session.open THEN session ELSE [NoTransaction EXCEPT !.open = TRUE]
    /\ queue' = Append(Tail(queue), Ask(Head(queue).by, "watermark"))
    /\ UNCHANGED <<ledger, holder, waiting, request>>

-----------------------------------------------------------------------------
(* The reader.                                                             *)

\* The first statement fixes the snapshot; then the handler runs, and the first
\* of its queries reaches the client.
Watermark ==
    LET r == Head(queue).by
        ok == ~Refused
    IN  /\ Answering("watermark")
        /\ AfterQuery(ok)
        /\ IF ok
             THEN /\ request' = [request EXCEPT ![r].stage = "reading", ![r].version = Sees]
                  /\ queue' = Append(Tail(queue), AskRead(r, 1))
             ELSE /\ request' = [request EXCEPT ![r].stage = "ending", ![r].error = "aborted"]
                  /\ queue' = Append(Tail(queue), Ask(r, "ROLLBACK"))
        /\ UNCHANGED <<ledger, holder, waiting>>

\* oneAtATime: whatever became of a query, the next one of its handler is issued.
NextQuery(r, n, ok) == IF n < Reads THEN <<AskRead(r, n + 1)>> ELSE <<>>

\* The next query is issued when this one settles, which is before the handler's
\* rejection reaches readLedger and its ROLLBACK is asked for.
AfterRejection(r, n, ok) == NextQuery(r, n, ok) \o <<Ask(r, "ROLLBACK")>>

\* A handler's query is answered.
ReadAnswered(r, n, ok) ==
    /\ Answering("read")
    /\ Head(queue).by = r
    /\ Head(queue).nth = n
    /\ ok => ~Refused
    /\ AfterQuery(ok)
    /\ UNCHANGED <<ledger, holder, waiting>>

WithAnswer(r, ok) == [request[r] EXCEPT !.got = Append(@, IF ok THEN Sees ELSE NoState)]

\* The handler goes on, or has everything and commits.
Read(r, n) ==
    /\ ReadAnswered(r, n, TRUE)
    /\ request[r].stage = "reading"
    /\ queue' = Tail(queue) \o (IF n < Reads THEN NextQuery(r, n, TRUE) ELSE <<Ask(r, "COMMIT")>>)
    /\ request' = [request EXCEPT ![r] =
                     [WithAnswer(r, TRUE) EXCEPT !.stage = IF n < Reads THEN "reading" ELSE "ending"]]

\* The query fails, or the handler throws on what it was given.
ReadFails(r, n, ok) ==
    /\ ReadAnswered(r, n, ok)
    /\ request[r].stage = "reading"
    /\ queue' = Tail(queue) \o AfterRejection(r, n, ok)
    /\ request' = [request EXCEPT ![r] =
                     [WithAnswer(r, ok) EXCEPT !.stage = "ending",
                                         !.error = IF Refused THEN "aborted" ELSE "own"]]

\* A query nobody waits for any more is answered like any other.
ReadLeftOver(r, n, ok) ==
    /\ ReadAnswered(r, n, ok)
    /\ request[r].stage # "reading"
    /\ queue' = Tail(queue) \o NextQuery(r, n, ok)
    /\ request' = [request EXCEPT ![r] = WithAnswer(r, ok)]

\* Mutant of Release: the connection is returned only after a COMMIT.
Release_OnCommit(what) == IF what = "COMMIT" THEN NoState ELSE holder

Release(what) == NoState

Ended(what) == NoTransaction

\* COMMIT or ROLLBACK is answered and the connection is returned, whatever is
\* still in the client's queue.
End(what) ==
    LET r == Head(queue).by
    IN  /\ Answering(what)
        /\ session' = Ended(what)
        /\ queue' = Tail(queue)
        /\ holder' = Release(what)
        /\ request' = [request EXCEPT ![r].stage = IF what = "COMMIT" THEN "answered" ELSE "failed"]
        /\ UNCHANGED <<ledger, waiting>>

-----------------------------------------------------------------------------
Respond ==
    \/ Begin
    \/ Watermark
    \/ \E r \in Requests, n \in 1..Reads :
         \/ Read(r, n)
         \/ \E ok \in BOOLEAN : ReadFails(r, n, ok) \/ ReadLeftOver(r, n, ok)
    \/ \E what \in {"COMMIT", "ROLLBACK"} : End(what)

ReadNext == CommitLoad \/ (\E r \in Requests : Arrive(r)) \/ Lend \/ Respond

\* The database answers what it is sent, and the pool lends what it has.
ReadFairness == WF_reading(Respond) /\ WF_reading(Lend)

ReadSpec == ReadInit /\ [][ReadNext]_reading /\ ReadFairness
-----------------------------------------------------------------------------
(* Properties.                                                             *)

\* Every variable has its type.
ReadTypeOK ==
    /\ ledger \in States
    /\ session \in Session
    /\ queue \in Seq(Statement)
    /\ holder \in Requests \cup {NoState}
    /\ waiting \in Seq(Requests)
    /\ request \in [Requests -> Request]

\* ledger.ts, WHY ONE SNAPSHOT: the version a response names describes every row
\* in it, although loads commit between its queries and another request's
\* queries may run in its transaction; and it is "at least as new as one committed
\* before the read" (ledger.integration.test.ts).
OneState ==
    \A r \in Requests :
        /\ request[r].stage = "answered" =>
             /\ Len(request[r].got) = Reads
             /\ \A n \in 1..Reads : request[r].got[n] = request[r].version
        /\ request[r].version # NoState => request[r].version >= request[r].since

\* No request fails because of another's failure: a transaction is aborted only
\* by a query of the request that opened it.
FailureIsItsOwn == \A r \in Requests : request[r].error # "aborted"

\* A failed read does not keep the connection: every request that arrives is
\* answered or fails; and "a failed query does not stall the ones behind it": each
\* query a handler issued is answered.
EveryRequestEnds ==
    \A r \in Requests :
        /\ request[r].stage = "waiting" ~> request[r].stage \in {"answered", "failed"}
        /\ request[r].stage = "reading" ~> Len(request[r].got) = Reads
=============================================================================
