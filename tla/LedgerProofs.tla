---------------------------- MODULE LedgerProofs ----------------------------
(***************************************************************************)
(* Proofs about the ledger as one database that many programs share: what  *)
(* a version says of an answer, and that no tender goes back to an earlier *)
(* one (LedgerVersions), a response is of one state of it (LedgerRead), its *)
(* schema is what it records of itself (Migrator), its places are told     *)
(* apart and filed without a loop (AdminUnits), and the names its readers  *)
(* are shown are the ones reviewers gave (Mentions).  For every number of  *)
(* requests, queries, loads, units, operators, checkouts and imports.      *)
(***************************************************************************)
EXTENDS LedgerRead, LedgerVersions, Migrator, AdminUnits, Mentions,
        SequenceTheorems, Inductions

(***************************************************************************)
(* LedgerVersions.  An id is dealt when a load opens, so of two loads the  *)
(* one that opened later has the later id, whichever commits first.        *)
(***************************************************************************)

\* A unit nobody has written has a content.
LEMMA NothingIsContent == Nothing \in Content
BY ConstantsAssumption DEF Nothing, Content

\* A load that is not open is a load like any other.
LEMMA ClosedIsLoad == Closed \in Load
BY ConstantsAssumption, NothingIsContent DEF Closed, Load

\* A load that is not open has no uncommitted writes.
LEMMA ClosedHoldsNothing ==
    ~Closed.open /\ \A u \in Units : Closed.mine[u] = Nothing
BY DEF Closed

\* Every variable keeps its type.
THEOREM TypeCorrect == Spec => []TypeOK
<1>1. Init => TypeOK
  <2> SUFFICES ASSUME Init PROVE TypeOK
    OBVIOUS
  <2>1. nextVersion \in 1..(MaxVersion + 1) /\ writes \in 0..MaxWrites
    BY ConstantsAssumption DEF Init
  <2> QED BY <2>1, NothingIsContent, ClosedIsLoad, ClosedHoldsNothing DEF Init, TypeOK
<1>2. TypeOK /\ [Next]_vars => TypeOK'
  <2> SUFFICES ASSUME TypeOK, [Next]_vars PROVE TypeOK'
    OBVIOUS
  <2>1. ASSUME NEW l \in Loads, Open(l) PROVE TypeOK'
    <3> DEFINE run == Opened(nextVersion)
    <3>1. nextVersion \in Ids
      BY <2>1, ConstantsAssumption DEF Open, TypeOK, Ids
    <3>2. run \in Load
      BY <3>1, ConstantsAssumption, NothingIsContent DEF Opened, Load, Ids
    <3>3. load' = [load EXCEPT ![l] = run]
      BY <2>1 DEF Open
    <3>4. load' \in [Loads -> Load]
      BY <3>2, <3>3 DEF TypeOK
    <3>5. nextVersion' \in 1..(MaxVersion + 1)
      BY <2>1, <3>1, ConstantsAssumption DEF Open, Ids
    <3>6. opened' \subseteq Ids
      BY <2>1, <3>1 DEF Open, Visible, TypeOK
    <3>7. load'[l].version \in Ids /\ \A k \in Loads \ {l} : load'[k] = load[k]
      BY <3>1, <3>3 DEF TypeOK, Opened
    <3> QED BY <2>1, <3>4, <3>5, <3>6, <3>7 DEF Open, TypeOK
  <2>2. ASSUME NEW l \in Loads, NEW u \in Units, WriteInTransaction(l, u) PROVE TypeOK'
    <3> DEFINE run == [load[l] EXCEPT !.mine = [@ EXCEPT ![u] = Written(l, u)]]
    <3>1. writes' \in 0..MaxWrites
      BY <2>2, ConstantsAssumption DEF WriteInTransaction, TypeOK
    <3>2. Written(l, u) \in Content
      <4>1. rows[u] \in Content /\ load[l].version \in 0..MaxVersion
        BY DEF TypeOK, Load
      <4>2. writes + 1 \in 0..MaxWrites
        BY <2>2, <3>1 DEF WriteInTransaction
      <4> QED BY <4>1, <4>2 DEF Written, Content
    <3>3. run \in Load
      BY <3>2 DEF TypeOK, Load
    <3>4. load' = [load EXCEPT ![l] = run]
      BY <2>2 DEF WriteInTransaction
    <3>5. run.open = load[l].open /\ run.version = load[l].version
      BY DEF TypeOK, Load
    <3>6. load'[l] = run /\ \A k \in Loads \ {l} : load'[k] = load[k]
      BY <3>4 DEF TypeOK
    <3> QED BY <2>2, <3>1, <3>3, <3>4, <3>5, <3>6 DEF WriteInTransaction, TypeOK
  <2>3. ASSUME NEW l \in Loads, NEW u \in Units, WriteAtOnce(l, u) PROVE TypeOK'
    <3>1. writes' \in 0..MaxWrites
      BY <2>3, ConstantsAssumption DEF WriteAtOnce, TypeOK
    <3>2. Written(l, u) \in Content
      <4>1. rows[u] \in Content /\ load[l].version \in 0..MaxVersion
        BY DEF TypeOK, Load
      <4>2. writes + 1 \in 0..MaxWrites
        BY <2>3, <3>1 DEF WriteAtOnce
      <4> QED BY <4>1, <4>2 DEF Written, Content
    <3> QED BY <2>3, <3>1, <3>2 DEF WriteAtOnce, TypeOK
  <2>4. ASSUME NEW l \in Loads, Commit(l) PROVE TypeOK'
    <3>1. opened' \subseteq Ids
      BY <2>4, ConstantsAssumption DEF Commit, Kept, TypeOK, Load, Ids
    <3>2. rows' \in [Units -> Content]
      BY <2>4 DEF Commit, TypeOK, Load
    <3>3. load' \in [Loads -> Load] /\ \A k \in Loads : load'[k].open => load[k].open
      BY <2>4, ClosedIsLoad, ClosedHoldsNothing DEF Commit, TypeOK
    <3>4. \A k \in Loads : load'[k].open => load'[k].version \in Ids
      BY <2>4, ClosedHoldsNothing DEF Commit, TypeOK
    <3> QED BY <2>4, <3>1, <3>2, <3>3, <3>4 DEF Commit, TypeOK
  <2>5. ASSUME NEW l \in Loads, Fail(l) PROVE TypeOK'
    BY <2>5, ClosedIsLoad, ClosedHoldsNothing DEF Fail, TypeOK
  <2>6. ASSUME NEW u \in Units, Decide(u) PROVE TypeOK'
    BY <2>6, ConstantsAssumption DEF Decide, TypeOK, Content
  <2>7. ASSUME Serve PROVE TypeOK'
    <3>1. UnderWay \subseteq Ids
      BY DEF UnderWay, TypeOK
    <3> QED BY <2>7, <3>1 DEF Serve, TypeOK, Answer
  <2> QED BY <2>1, <2>2, <2>3, <2>4, <2>5, <2>6, <2>7 DEF Next, TypeOK, vars
<1> QED BY <1>1, <1>2, PTL DEF Spec

\* A unit's rows are those of a version already visible; an open load's version
\* is visible unless its rows are not; only a transaction hides rows, its own.
Sound ==
    /\ \A u \in Units : rows[u].version \in opened \cup {0}
    /\ \A l \in Loads \ Transactional : load[l].open => load[l].version \in opened
    /\ \A l \in Loads, u \in Units : load[l].mine[u] # Nothing =>
         /\ l \in Transactional
         /\ load[l].open
         /\ load[l].mine[u].version = load[l].version
    /\ NamesNothingNewer

\* No step breaks Sound.
LEMMA StepIsSound == ASSUME TypeOK, Sound, [Next]_vars PROVE Sound'
<1>1. ASSUME NEW l \in Loads, Open(l) PROVE Sound'
  <2> DEFINE run == Opened(nextVersion)
  <2>1. run.open /\ run.version = nextVersion /\ \A u \in Units : run.mine[u] = Nothing
    BY DEF Opened
  <2>2. load'[l] = run /\ \A k \in Loads \ {l} : load'[k] = load[k]
    BY <1>1 DEF Open, TypeOK
  <2>3. opened \subseteq opened' /\ (l \notin Transactional => nextVersion \in opened')
    BY <1>1 DEF Open, Visible
  <2>4. rows' = rows /\ served' = served
    BY <1>1 DEF Open
  <2>5. ASSUME NEW k \in Loads, NEW u \in Units, load'[k].mine[u] # Nothing
        PROVE  /\ k \in Transactional
               /\ load'[k].open
               /\ load'[k].mine[u].version = load'[k].version
    <3>1. k # l
      BY <2>1, <2>2, <2>5
    <3> QED BY <2>2, <2>5, <3>1 DEF Sound
  <2>6. \A k \in Loads \ Transactional : load'[k].open => load'[k].version \in opened'
    <3> SUFFICES ASSUME NEW k \in Loads \ Transactional, load'[k].open
                 PROVE  load'[k].version \in opened'
      OBVIOUS
    <3>1. CASE k = l
      BY <2>1, <2>2, <2>3, <3>1
    <3>2. CASE k # l
      BY <2>2, <2>3, <3>2 DEF Sound
    <3> QED BY <3>1, <3>2
  <2>7. \A u \in Units : rows'[u].version \in opened' \cup {0}
    BY <2>3, <2>4 DEF Sound
  <2> QED BY <2>4, <2>5, <2>6, <2>7 DEF Sound, NamesNothingNewer
<1>2. ASSUME NEW l \in Loads, NEW u \in Units, WriteInTransaction(l, u) PROVE Sound'
  <2> DEFINE run == [load[l] EXCEPT !.mine = [@ EXCEPT ![u] = Written(l, u)]]
  <2>1. load'[l] = run /\ \A k \in Loads \ {l} : load'[k] = load[k]
    BY <1>2 DEF WriteInTransaction, TypeOK
  <2>2. /\ run.open = load[l].open /\ run.version = load[l].version
        /\ \A t \in Units \ {u} : run.mine[t] = load[l].mine[t]
        /\ run.mine[u].version = load[l].version
    BY DEF TypeOK, Load, Written, Content
  <2> QED BY <1>2, <2>1, <2>2 DEF WriteInTransaction, Sound, NamesNothingNewer
<1>3. ASSUME NEW l \in Loads, NEW u \in Units, WriteAtOnce(l, u) PROVE Sound'
  <2>1. load[l].version \in opened
    BY <1>3 DEF WriteAtOnce, Sound
  <2>2. rows'[u].version = load[l].version /\ \A t \in Units \ {u} : rows'[t] = rows[t]
    BY <1>3 DEF WriteAtOnce, TypeOK, Written, Content
  <2> QED BY <1>3, <2>1, <2>2 DEF WriteAtOnce, Sound, NamesNothingNewer
<1>4. ASSUME NEW l \in Loads, Commit(l) PROVE Sound'
  <2>1. ASSUME NEW u \in Units PROVE rows'[u].version \in opened' \cup {0}
    BY <1>4 DEF Commit, Kept, Sound
  <2>2. load'[l] = Closed /\ \A k \in Loads \ {l} : load'[k] = load[k]
    BY <1>4 DEF Commit, TypeOK
  <2>3. ~Closed.open /\ \A u \in Units : Closed.mine[u] = Nothing
    BY DEF Closed
  <2> QED BY <1>4, <2>1, <2>2, <2>3 DEF Commit, Sound, NamesNothingNewer
<1>5. ASSUME NEW l \in Loads, Fail(l) PROVE Sound'
  <2>1. load'[l] = Closed /\ \A k \in Loads \ {l} : load'[k] = load[k]
    BY <1>5 DEF Fail, TypeOK
  <2>2. ~Closed.open /\ \A u \in Units : Closed.mine[u] = Nothing
    BY DEF Closed
  <2> QED BY <1>5, <2>1, <2>2 DEF Fail, Sound, NamesNothingNewer
<1>6. ASSUME NEW u \in Units, Decide(u) PROVE Sound'
  <2>1. rows'[u].version = rows[u].version /\ \A t \in Units \ {u} : rows'[t] = rows[t]
    BY <1>6 DEF Decide, TypeOK, Content
  <2> QED BY <1>6, <2>1 DEF Decide, Sound, NamesNothingNewer
<1>7. ASSUME Serve PROVE Sound'
  <2>1. PICK v \in 0..MaxVersion :
          /\ IsWatermark(v)
          /\ served' = served \cup {[version |-> v, rows |-> rows, underway |-> UnderWay]}
    BY <1>7 DEF Serve, NamedBy
  <2>2. ASSUME NEW u \in Units PROVE rows[u].version <= v
    <3>1. v \in Nat
      BY ConstantsAssumption
    <3>2. rows[u].version \in opened \cup {0}
      BY DEF Sound
    <3>3. CASE opened = {}
      BY <2>1, <3>2, <3>3 DEF IsWatermark
    <3>4. CASE opened # {}
      BY <2>1, <3>1, <3>2, <3>4 DEF IsWatermark
    <3> QED BY <3>3, <3>4
  <2>3. NamesNothingNewer'
    BY <2>1, <2>2 DEF Sound, NamesNothingNewer
  <2> QED BY <1>7, <2>3 DEF Serve, Sound
<1> QED BY <1>1, <1>2, <1>3, <1>4, <1>5, <1>6, <1>7
        DEF Next, vars, Sound, NamesNothingNewer

\* So Sound holds in every reachable state.
LEMMA AlwaysSound == Spec => []Sound
<1>1. Init => Sound
  BY DEF Init, Sound, NamesNothingNewer, Nothing, Closed
<1> QED BY <1>1, StepIsSound, TypeCorrect, PTL DEF Spec

\* Whatever kinds of load run, and however they overlap or fail, no answer holds
\* a row of a load newer than the version it names.
THEOREM AnswersNameNothingNewer == Spec => []NamesNothingNewer
<1>1. Sound => NamesNothingNewer
  BY DEF Sound
<1> QED BY <1>1, AlwaysSound, PTL

-----------------------------------------------------------------------------
(* What the order in which ids are dealt says of the answers and the tenders. *)

\* Since `a` was read, unit u has changed only by a load that was under way then,
\* or by one that opened later and has an id `a` does not cover.
Excused(a, u) ==
    \/ a.rows[u].version = rows[u].version /\ a.rows[u].edition = rows[u].edition
    \/ rows[u].version \in a.underway
    \/ a.version < rows[u].version

\* Ids in use have been dealt.
Dealt ==
    /\ \A v \in opened : v < nextVersion
    /\ \A l \in Loads : load[l].open => load[l].version < nextVersion
    /\ \A a \in served : a.version < nextVersion

\* What an answer can differ in from those that come after it.
Covered ==
    /\ \A a \in served, l \in Loads : load[l].open =>
         load[l].version \in a.underway \/ a.version < load[l].version
    /\ \A a \in served, u \in Units : Excused(a, u)
    /\ OnlyLoadsUnderWayDiffer

\* The one sweep at work is of no earlier version than any tender.
SweptInOrder ==
    /\ \A k, l \in Sweeps : load[k].open /\ load[l].open => k = l
    /\ \A l \in Sweeps : load[l].open => \A u \in Swept : rows[u].version <= load[l].version
    /\ \A l \in Loads, u \in Units : load[l].mine[u] # Nothing => Writes(l, u)

\* Versions are numbers.
LEMMA VersionsAreNumbers ==
    ASSUME TypeOK
    PROVE  /\ nextVersion \in Nat
           /\ \A u \in Units : rows[u].version \in Nat
           /\ \A l \in Loads : load[l].version \in Nat
           /\ \A a \in served : a.version \in Nat
           /\ opened \subseteq Nat
BY ConstantsAssumption DEF TypeOK, Content, Load, Answer, Ids

\* Every step deals ids in order.
LEMMA StepDeals ==
    ASSUME TypeOK, Sound, Dealt, [Next]_vars PROVE Dealt'
<1>1. ASSUME NEW l \in Loads, Open(l) PROVE Dealt'
  <2> DEFINE run == Opened(nextVersion)
  <2>1. run.version = nextVersion
    BY DEF Opened
  <2>2. load'[l] = run /\ \A k \in Loads \ {l} : load'[k] = load[k]
    BY <1>1 DEF Open, TypeOK
  <2>3. \A k \in Loads : load'[k].open => load'[k].version <= nextVersion
    BY <2>1, <2>2, VersionsAreNumbers DEF Dealt
  <2>4. \A v \in opened' : v <= nextVersion
    BY <1>1, VersionsAreNumbers DEF Open, Visible, Dealt
  <2>5. \A a \in served' : a.version <= nextVersion
    BY <1>1, VersionsAreNumbers DEF Open, Dealt
  <2>6. nextVersion' = nextVersion + 1 /\ opened' \subseteq Nat /\ served' = served
    BY <1>1, VersionsAreNumbers DEF Open, Visible
  <2>7. \A k \in Loads : load'[k].version \in Nat
    BY <2>1, <2>2, VersionsAreNumbers
  <2> QED BY <2>3, <2>4, <2>5, <2>6, <2>7, VersionsAreNumbers DEF Dealt
<1>2. ASSUME NEW l \in Loads, NEW u \in Units, WriteInTransaction(l, u) PROVE Dealt'
  <2> DEFINE run == [load[l] EXCEPT !.mine = [@ EXCEPT ![u] = Written(l, u)]]
  <2>1. load'[l] = run /\ \A k \in Loads \ {l} : load'[k] = load[k]
    BY <1>2 DEF WriteInTransaction, TypeOK
  <2>2. run.open = load[l].open /\ run.version = load[l].version
    BY DEF TypeOK, Load
  <2> QED BY <1>2, <2>1, <2>2 DEF WriteInTransaction, Dealt
<1>3. ASSUME NEW l \in Loads, Commit(l) PROVE Dealt'
  <2>1. load'[l] = Closed /\ \A k \in Loads \ {l} : load'[k] = load[k]
    BY <1>3 DEF Commit, TypeOK
  <2>2. ~Closed.open
    BY DEF Closed
  <2>3. \A v \in opened' : v < nextVersion
    BY <1>3 DEF Commit, Kept, Dealt
  <2> QED BY <1>3, <2>1, <2>2, <2>3 DEF Commit, Dealt
<1>4. ASSUME NEW l \in Loads, Fail(l) PROVE Dealt'
  <2>1. load'[l] = Closed /\ \A k \in Loads \ {l} : load'[k] = load[k]
    BY <1>4 DEF Fail, TypeOK
  <2>2. ~Closed.open
    BY DEF Closed
  <2> QED BY <1>4, <2>1, <2>2 DEF Fail, Dealt
<1>5. ASSUME Serve PROVE Dealt'
  <2>1. PICK v \in 0..MaxVersion :
          /\ IsWatermark(v)
          /\ served' = served \cup {[version |-> v, rows |-> rows, underway |-> UnderWay]}
    BY <1>5 DEF Serve, NamedBy
  <2>2. nextVersion > 0
    BY DEF TypeOK
  <2>3. v < nextVersion
    BY <2>1, <2>2, VersionsAreNumbers DEF IsWatermark, Dealt
  <2> QED BY <1>5, <2>1, <2>3 DEF Serve, Dealt
<1>6. ASSUME UNCHANGED <<nextVersion, opened, load, served>> PROVE Dealt'
  BY <1>6 DEF Dealt
<1> QED BY <1>1, <1>2, <1>3, <1>4, <1>5, <1>6 DEF Next, WriteAtOnce, Decide, vars

\* What a step that serves nothing must do to leave the answers covered.
LEMMA StaysCovered ==
    ASSUME TypeOK, Covered, served' = served,
           \A l \in Loads : load'[l].open =>
             \/ load[l].open /\ load'[l].version = load[l].version
             \/ \A a \in served : a.version < load'[l].version,
           \A u \in Units :
             \/ rows'[u].version = rows[u].version /\ rows'[u].edition = rows[u].edition
             \/ \E l \in Loads : load[l].open /\ rows'[u].version = load[l].version
    PROVE  Covered'
<1>1. OnlyLoadsUnderWayDiffer'
  BY DEF Covered, OnlyLoadsUnderWayDiffer
<1>2. ASSUME NEW a \in served, NEW l \in Loads, load'[l].open
      PROVE  load'[l].version \in a.underway \/ a.version < load'[l].version
  BY <1>2 DEF Covered
<1>3. ASSUME NEW a \in served, NEW u \in Units PROVE Excused(a, u)'
  BY DEF Covered, Excused
<1> QED BY <1>1, <1>2, <1>3 DEF Covered

\* No step leaves an answer that differs from another in what neither excuses.
LEMMA StepIsCovered ==
    ASSUME TypeOK, Sound, Dealt, Covered, [Next]_vars PROVE Covered'
<1>1. ASSUME NEW l \in Loads, Open(l) PROVE Covered'
  <2> DEFINE run == Opened(nextVersion)
  <2>1. run.open /\ run.version = nextVersion
    BY DEF Opened
  <2>2. load'[l] = run /\ \A k \in Loads \ {l} : load'[k] = load[k]
    BY <1>1 DEF Open, TypeOK
  <2>3. served' = served /\ rows' = rows /\ \A a \in served : a.version < nextVersion
    BY <1>1 DEF Open, Dealt
  <2> QED BY <2>1, <2>2, <2>3, StaysCovered
<1>2. ASSUME NEW l \in Loads, NEW u \in Units, WriteInTransaction(l, u) PROVE Covered'
  <2> DEFINE run == [load[l] EXCEPT !.mine = [@ EXCEPT ![u] = Written(l, u)]]
  <2>1. load'[l] = run /\ \A k \in Loads \ {l} : load'[k] = load[k]
    BY <1>2 DEF WriteInTransaction, TypeOK
  <2>2. run.open = load[l].open /\ run.version = load[l].version
    BY DEF TypeOK, Load
  <2>3. served' = served /\ rows' = rows
    BY <1>2 DEF WriteInTransaction
  <2> QED BY <2>1, <2>2, <2>3, StaysCovered
<1>3. ASSUME NEW l \in Loads, NEW u \in Units, WriteAtOnce(l, u) PROVE Covered'
  <2>1. served' = served /\ load' = load /\ load[l].open
    BY <1>3 DEF WriteAtOnce
  <2>2. rows'[u].version = load[l].version /\ \A t \in Units \ {u} : rows'[t] = rows[t]
    BY <1>3 DEF WriteAtOnce, TypeOK, Written, Content
  <2> QED BY <2>1, <2>2, StaysCovered
<1>4. ASSUME NEW l \in Loads, Commit(l) PROVE Covered'
  <2>1. load'[l] = Closed /\ \A k \in Loads \ {l} : load'[k] = load[k]
    BY <1>4 DEF Commit, TypeOK
  <2>2. ~Closed.open
    BY DEF Closed
  <2>3. served' = served /\ load[l].open
    BY <1>4 DEF Commit
  <2>4. \A u \in Units : rows'[u] = rows[u] \/ rows'[u].version = load[l].version
    BY <1>4 DEF Commit, Sound
  <2> QED BY <2>1, <2>2, <2>3, <2>4, StaysCovered
<1>5. ASSUME NEW l \in Loads, Fail(l) PROVE Covered'
  <2>1. load'[l] = Closed /\ \A k \in Loads \ {l} : load'[k] = load[k]
    BY <1>5 DEF Fail, TypeOK
  <2>2. ~Closed.open
    BY DEF Closed
  <2>3. served' = served /\ rows' = rows
    BY <1>5 DEF Fail
  <2> QED BY <2>1, <2>2, <2>3, StaysCovered
<1>6. ASSUME NEW u \in Units, Decide(u) PROVE Covered'
  <2>1. served' = served /\ load' = load
    BY <1>6 DEF Decide
  <2>2. \A t \in Units : rows'[t].version = rows[t].version /\ rows'[t].edition = rows[t].edition
    BY <1>6 DEF Decide, TypeOK, Content
  <2> QED BY <2>1, <2>2, StaysCovered
<1>7. ASSUME Serve PROVE Covered'
  <2>1. PICK v \in 0..MaxVersion :
          /\ IsWatermark(v)
          /\ served' = served \cup {[version |-> v, rows |-> rows, underway |-> UnderWay]}
    BY <1>7 DEF Serve, NamedBy
  <2> DEFINE new == [version |-> v, rows |-> rows, underway |-> UnderWay]
  <2>2. rows' = rows /\ load' = load /\ v \in Nat
    BY <1>7, ConstantsAssumption DEF Serve
  <2>3. \A u \in Units : rows[u].version <= v
    <3>1. NamesNothingNewer'
      BY StepIsSound DEF Sound
    <3>2. new \in served'
      BY <2>1
    <3> QED BY <3>1, <3>2 DEF NamesNothingNewer
  <2>4. \A l \in Loads : load[l].open => load[l].version \in new.underway
    BY DEF UnderWay
  <2>5. ASSUME NEW a \in served, a.version = v, NEW u \in Units
        PROVE  \/ a.rows[u].version = rows[u].version /\ a.rows[u].edition = rows[u].edition
               \/ rows[u].version \in a.underway
    <3>1. Excused(a, u)
      BY DEF Covered
    <3>2. ~(a.version < rows[u].version)
      BY <2>2, <2>3, <2>5, VersionsAreNumbers
    <3> QED BY <3>1, <3>2 DEF Excused
  <2>6. OnlyLoadsUnderWayDiffer'
    <3> SUFFICES ASSUME NEW a \in served', NEW b \in served', a.version = b.version, NEW u \in Units
                 PROVE  \/ a.rows[u].version = b.rows[u].version /\ a.rows[u].edition = b.rows[u].edition
                        \/ b.rows[u].version \in a.underway
                        \/ a.rows[u].version \in b.underway
      BY DEF OnlyLoadsUnderWayDiffer
    <3>1. new.version = v /\ new.rows = rows
      OBVIOUS
    <3>2. (a = new \/ a \in served) /\ (b = new \/ b \in served)
      BY <2>1
    <3>3. CASE a \in served /\ b \in served
      BY <3>3 DEF Covered, OnlyLoadsUnderWayDiffer
    <3>4. CASE a = new /\ b = new
      BY <3>4
    <3>5. CASE a \in served /\ b = new
      <4>1. a.version = v /\ b.rows = rows
        BY <3>1, <3>5
      <4> QED BY <2>5, <3>5, <4>1
    <3>6. CASE a = new /\ b \in served
      <4>1. b.version = v /\ a.rows = rows
        BY <3>1, <3>6
      <4>2. \/ b.rows[u].version = rows[u].version /\ b.rows[u].edition = rows[u].edition
            \/ rows[u].version \in b.underway
        BY <2>5, <3>6, <4>1
      <4> QED BY <4>1, <4>2
    <3> QED BY <3>2, <3>3, <3>4, <3>5, <3>6
  <2>7. \A a \in served', l \in Loads : load'[l].open =>
          load'[l].version \in a.underway \/ a.version < load'[l].version
    BY <2>1, <2>2, <2>4 DEF Covered
  <2>8. \A a \in served', u \in Units : Excused(a, u)'
    BY <2>1, <2>2 DEF Covered, Excused
  <2> QED BY <2>6, <2>7, <2>8 DEF Covered
<1>8. CASE UNCHANGED vars
  BY <1>8 DEF vars, Covered, Excused, OnlyLoadsUnderWayDiffer
<1> QED BY <1>1, <1>2, <1>3, <1>4, <1>5, <1>6, <1>7, <1>8 DEF Next

\* The invariant of the ids and the answers.
LEMMA AlwaysCovered == Spec => [](Dealt /\ Covered)
<1>1. Init => Dealt /\ Covered
  BY DEF Init, Dealt, Covered, OnlyLoadsUnderWayDiffer, Closed
<1>2. TypeOK /\ Sound /\ Dealt /\ Covered /\ [Next]_vars => Dealt' /\ Covered'
  BY StepDeals, StepIsCovered
<1> QED BY <1>1, <1>2, TypeCorrect, AlwaysSound, PTL DEF Spec

\* However loads overlap, fail or die, in transactions or statement by statement,
\* and whatever is decided: two answers of one version differ only in what was
\* decided and in rows of loads under way when one of them was read
\* (ledger.ts, the watermark as a cache key).
THEOREM VersionsTellAnswersApart == Spec => []OnlyLoadsUnderWayDiffer
<1>1. Covered => OnlyLoadsUnderWayDiffer
  BY DEF Covered
<1> QED BY <1>1, AlwaysCovered, PTL

Forward == \A u \in Swept : rows[u].version <= rows'[u].version

\* No step breaks SweptInOrder or puts a tender back.
LEMMA StepIsForward ==
    ASSUME TypeOK, Sound, Dealt, SweptInOrder, [Next]_vars
    PROVE  SweptInOrder' /\ Forward
<1> DEFINE Goal == SweptInOrder' /\ Forward
<1>1. Swept \subseteq Units /\ Sweeps \subseteq Loads
  BY ConstantsAssumption
<1>2. /\ nextVersion \in Nat
      /\ \A u \in Swept : rows[u].version \in Nat
      /\ \A l \in Loads : load[l].version \in Nat
  BY <1>1, VersionsAreNumbers
<1>3. ASSUME \A u \in Swept : rows'[u].version = rows[u].version PROVE Forward
  BY <1>2, <1>3 DEF Forward
<1>4. ASSUME NEW l \in Loads, Open(l) PROVE Goal
  <2> DEFINE run == Opened(nextVersion)
  <2>1. run.open /\ run.version = nextVersion /\ \A u \in Units : run.mine[u] = Nothing
    BY DEF Opened
  <2>2. load'[l] = run /\ \A k \in Loads \ {l} : load'[k] = load[k]
    BY <1>4 DEF Open, TypeOK
  <2>3. rows' = rows /\ (l \in Sweeps => \A k \in Sweeps : ~load[k].open)
    BY <1>4 DEF Open, MayOpen
  <2>4. \A u \in Swept : rows[u].version <= nextVersion
    <3>1. nextVersion > 0
      BY DEF TypeOK
    <3>2. \A u \in Swept : rows[u].version \in opened \cup {0}
      BY <1>1 DEF Sound
    <3> QED BY <1>2, <3>1, <3>2 DEF Dealt
  <2>5. \A j, k \in Sweeps : load'[j].open /\ load'[k].open => j = k
    BY <1>1, <2>2, <2>3 DEF SweptInOrder
  <2>6. \A k \in Sweeps : load'[k].open => \A u \in Swept : rows'[u].version <= load'[k].version
    BY <1>1, <2>1, <2>2, <2>3, <2>4 DEF SweptInOrder
  <2>7. \A k \in Loads, u \in Units : load'[k].mine[u] # Nothing => Writes(k, u)
    BY <2>1, <2>2 DEF SweptInOrder
  <2> QED BY <1>3, <2>3, <2>5, <2>6, <2>7 DEF SweptInOrder, Writes
<1>5. ASSUME NEW l \in Loads, NEW u \in Units, WriteInTransaction(l, u) PROVE Goal
  <2> DEFINE run == [load[l] EXCEPT !.mine = [@ EXCEPT ![u] = Written(l, u)]]
  <2>1. load'[l] = run /\ \A k \in Loads \ {l} : load'[k] = load[k]
    BY <1>5 DEF WriteInTransaction, TypeOK
  <2>2. /\ run.open = load[l].open /\ run.version = load[l].version
        /\ \A t \in Units \ {u} : run.mine[t] = load[l].mine[t]
    BY DEF TypeOK, Load
  <2>3. rows' = rows /\ Writes(l, u)
    BY <1>5 DEF WriteInTransaction
  <2>4. ASSUME NEW k \in Loads, NEW t \in Units, load'[k].mine[t] # Nothing
        PROVE  Writes(k, t)
    <3>1. CASE k = l /\ t = u
      BY <2>3, <3>1
    <3>2. CASE k # l \/ t # u
      <4>1. load'[k].mine[t] = load[k].mine[t]
        BY <2>1, <2>2, <3>2
      <4> QED BY <2>4, <4>1 DEF SweptInOrder
    <3> QED BY <3>1, <3>2
  <2>5. \A k \in Loads : load'[k].open = load[k].open /\ load'[k].version = load[k].version
    BY <2>1, <2>2
  <2> QED BY <1>1, <1>3, <2>3, <2>4, <2>5 DEF SweptInOrder, Writes
<1>6. ASSUME NEW l \in Loads, NEW u \in Units, WriteAtOnce(l, u) PROVE Goal
  <2>1. load' = load /\ load[l].open /\ Writes(l, u)
    BY <1>6 DEF WriteAtOnce
  <2>2. rows'[u].version = load[l].version /\ \A t \in Units \ {u} : rows'[t] = rows[t]
    BY <1>6 DEF WriteAtOnce, TypeOK, Written, Content
  <2>3. CASE u \notin Swept
    BY <1>1, <1>3, <2>1, <2>2, <2>3 DEF SweptInOrder, Writes
  <2>4. CASE u \in Swept
    <3>1. l \in Sweeps
      BY <2>1, <2>4 DEF Writes
    <3>2. \A k \in Sweeps : load[k].open => k = l
      BY <2>1, <3>1 DEF SweptInOrder
    <3>3. \A t \in Swept : rows[t].version <= load[l].version
      BY <2>1, <3>1 DEF SweptInOrder
    <3>4. \A t \in Swept : rows'[t].version = rows[t].version \/ rows'[t].version = load[l].version
      BY <1>1, <2>2
    <3>5. Forward
      BY <1>2, <3>3, <3>4 DEF Forward
    <3> QED BY <1>2, <2>1, <3>2, <3>3, <3>4, <3>5 DEF SweptInOrder, Writes
  <2> QED BY <2>3, <2>4
<1>7. ASSUME NEW l \in Loads, Commit(l) PROVE Goal
  <2>1. load'[l] = Closed /\ \A k \in Loads \ {l} : load'[k] = load[k]
    BY <1>7 DEF Commit, TypeOK
  <2>2. ~Closed.open /\ \A u \in Units : Closed.mine[u] = Nothing
    BY DEF Closed
  <2>3. \A k \in Loads : load'[k].open => load[k].open /\ load'[k] = load[k] /\ k # l
    BY <2>1, <2>2
  <2>4. \A k \in Loads, u \in Units : load'[k].mine[u] # Nothing => Writes(k, u)
    BY <2>1, <2>2 DEF SweptInOrder
  <2>5. \A u \in Units : \/ rows'[u] = rows[u]
                         \/ load[l].mine[u] # Nothing /\ rows'[u].version = load[l].version
    BY <1>7 DEF Commit, Sound
  <2>6. CASE l \notin Sweeps
    <3>1. \A u \in Swept : rows'[u] = rows[u]
      BY <1>1, <2>5, <2>6 DEF SweptInOrder, Writes
    <3> QED BY <1>1, <1>3, <2>3, <2>4, <3>1 DEF SweptInOrder, Writes
  <2>7. CASE l \in Sweeps
    <3>1. \A k \in Sweeps : ~load'[k].open
      BY <1>1, <1>7, <2>3, <2>7 DEF Commit, SweptInOrder
    <3>2. \A u \in Swept : rows[u].version <= load[l].version
      BY <1>7, <2>7 DEF Commit, SweptInOrder
    <3>3. \A u \in Swept : rows'[u].version = rows[u].version \/ rows'[u].version = load[l].version
      BY <1>1, <2>5
    <3>4. Forward
      BY <1>1, <1>2, <2>7, <3>2, <3>3 DEF Forward
    <3> QED BY <2>4, <3>1, <3>4 DEF SweptInOrder, Writes
  <2> QED BY <2>6, <2>7
<1>8. ASSUME NEW l \in Loads, Fail(l) PROVE Goal
  <2>1. load'[l] = Closed /\ \A k \in Loads \ {l} : load'[k] = load[k]
    BY <1>8 DEF Fail, TypeOK
  <2>2. ~Closed.open /\ \A u \in Units : Closed.mine[u] = Nothing
    BY DEF Closed
  <2>3. rows' = rows
    BY <1>8 DEF Fail
  <2> QED BY <1>1, <1>3, <2>1, <2>2, <2>3 DEF SweptInOrder, Writes
<1>9. ASSUME NEW u \in Units, Decide(u) PROVE Goal
  <2>1. load' = load
    BY <1>9 DEF Decide
  <2>2. \A w \in Units : rows'[w].version = rows[w].version
    BY <1>9 DEF Decide, TypeOK, Content
  <2> QED BY <1>1, <1>3, <2>1, <2>2 DEF SweptInOrder, Writes
<1>10. ASSUME UNCHANGED <<rows, load>> PROVE Goal
  BY <1>3, <1>10 DEF SweptInOrder, Writes
<1> QED BY <1>4, <1>5, <1>6, <1>7, <1>8, <1>9, <1>10 DEF Next, Serve, vars

\* Whatever loads beside it, fails or is killed, and whatever reviewers decide of
\* it, no tender is put back to an earlier sweep's reading (advisory-lock.ts).
THEOREM TendersGoForward == Spec => SweepsGoForward
<1>1. Init => SweptInOrder
  BY ConstantsAssumption DEF Init, SweptInOrder, Closed, Nothing
<1>2. TypeOK /\ Sound /\ Dealt /\ SweptInOrder /\ [Next]_vars => SweptInOrder'
  BY StepIsForward
<1>3. TypeOK /\ Sound /\ Dealt /\ SweptInOrder /\ [Next]_vars =>
        [\A u \in Swept : rows[u].version <= rows'[u].version]_vars
  BY StepIsForward DEF Forward
<1> QED BY <1>1, <1>2, <1>3, TypeCorrect, AlwaysSound, AlwaysCovered, PTL DEF Spec, SweepsGoForward

-----------------------------------------------------------------------------
(***************************************************************************)
(* LedgerRead.  A statement in the client's queue is waited for, or it is  *)
(* left over from a handler that has failed.  One at most is waited for,   *)
(* and it is the holder's; what is left over can only fix the snapshot     *)
(* early, or spoil a transaction, never change what it sees.               *)
(***************************************************************************)

\* A statement whose issuer waits for its answer, as against a query of a handler
\* that has already failed.
Live(s) == s.what # "read" \/ request[s.by].stage = "reading"

\* The first n queries of a request saw what its version names.
AllSeen(r, n) ==
    /\ Len(request[r].got) = n
    /\ \A k \in 1..n : request[r].got[k] = request[r].version

\* What is so of the session and of the issuer while a statement is in the queue.
InStep(s) ==
    /\ s.what = "BEGIN" => request[s.by].stage = "waiting" /\ ~session.open
    /\ s.what = "watermark" => request[s.by].stage = "waiting" /\ session.open
    /\ s.what = "read" => s.nth \in 1..Reads
    /\ s.what = "read" /\ request[s.by].stage = "reading" =>
         /\ session.open
         /\ request[s.by].version # NoState
         /\ session.snapshot = request[s.by].version
         /\ AllSeen(s.by, s.nth - 1)
    /\ s.what \in {"COMMIT", "ROLLBACK"} => request[s.by].stage = "ending"
    /\ s.what = "COMMIT" => request[s.by].error = "none" /\ AllSeen(s.by, Reads)

StatementIsSound(s) ==
    /\ InStep(s)
    /\ ~Live(s) => request[s.by].error # "none"
    /\ Live(s) => s.by = holder

QueueIsInStep ==
    /\ \A i \in 1..Len(queue) : StatementIsSound(queue[i])
    /\ \A i, j \in 1..Len(queue) : Live(queue[i]) /\ Live(queue[j]) => i = j

LineIsInStep ==
    /\ \A i \in 1..Len(waiting) : request[waiting[i]].stage = "waiting" /\ waiting[i] # holder
    /\ \A i, j \in 1..Len(waiting) : waiting[i] = waiting[j] => i = j

SessionIsTheHolders ==
    /\ ~session.open => session = NoTransaction
    /\ session.open => holder # NoState
    /\ session.snapshot # NoState => session.snapshot >= request[holder].since
    /\ holder # NoState => request[holder].stage \in {"waiting", "reading", "ending"}

RequestIsSound(r) ==
    /\ request[r].since <= ledger
    /\ request[r].stage \in {"idle", "waiting"} =>
         request[r].version = NoState /\ request[r].got = <<>>
    /\ request[r].stage \notin {"ending", "failed"} => request[r].error = "none"
    /\ request[r].stage = "answered" => AllSeen(r, Reads)
    /\ request[r].version # NoState => request[r].version >= request[r].since

ReadInv ==
    /\ ReadTypeOK
    /\ QueueIsInStep
    /\ LineIsInStep
    /\ SessionIsTheHolders
    /\ \A r \in Requests : RequestIsSound(r)

\* The invariant says what OneState says.
LEMMA ReadInvImplies == ReadInv => OneState
BY DEF ReadInv, RequestIsSound, OneState, AllSeen

\* It holds before any request.
LEMMA ReadStarts == ReadInit => ReadInv
<1> SUFFICES ASSUME ReadInit
             PROVE  ReadInv
  OBVIOUS
<1>0. 0 \in States /\ MaxLoads \in Nat
  BY ReadsAssumption DEF States
<1>1. ReadTypeOK
  BY <1>0 DEF ReadInit, ReadTypeOK, NoTransaction, Session, Request
<1>2. QueueIsInStep /\ LineIsInStep
  BY DEF ReadInit, QueueIsInStep, LineIsInStep
<1>3. SessionIsTheHolders
  BY DEF ReadInit, SessionIsTheHolders, NoTransaction
<1>4. ASSUME NEW r \in Requests
      PROVE  RequestIsSound(r)
  <2>1. /\ ledger = 0 /\ request[r].stage = "idle" /\ request[r].since = 0
        /\ request[r].version = NoState /\ request[r].got = <<>> /\ request[r].error = "none"
    BY DEF ReadInit
  <2> QED
    BY <2>1 DEF RequestIsSound
<1> QED
  BY <1>1, <1>2, <1>3, <1>4 DEF ReadInv

\* What is left of a queue when its head has been answered and more is sent.
LEMMA Sent ==
    ASSUME NEW q \in Seq(Statement), q # <<>>, NEW t \in Seq(Statement)
    PROVE  /\ Tail(q) \o t \in Seq(Statement)
           /\ Len(Tail(q) \o t) = Len(q) - 1 + Len(t)
           /\ \A i \in 1..(Len(q) - 1) : (Tail(q) \o t)[i] = q[i + 1]
           /\ \A i \in 1..Len(t) : (Tail(q) \o t)[Len(q) - 1 + i] = t[i]
           /\ Head(q) = q[1] /\ Head(q) \in Statement /\ Len(q) \in Nat \ {0} /\ Len(t) \in Nat
<1>1. Len(q) \in Nat \ {0} /\ Len(t) \in Nat
  BY LenProperties, EmptySeq
<1>2. /\ Tail(q) \in Seq(Statement) /\ Len(Tail(q)) = Len(q) - 1
      /\ \A i \in 1..Len(Tail(q)) : Tail(q)[i] = q[i + 1]
  BY HeadTailProperties
<1>3. Head(q) = q[1] /\ Head(q) \in Statement
  BY HeadTailProperties
<1>4. /\ Tail(q) \o t \in Seq(Statement)
      /\ Len(Tail(q) \o t) = Len(Tail(q)) + Len(t)
      /\ \A i \in 1..Len(Tail(q)) + Len(t) :
            (Tail(q) \o t)[i] = IF i <= Len(Tail(q)) THEN Tail(q)[i] ELSE t[i - Len(Tail(q))]
  BY <1>2, ConcatProperties
<1> QED
  BY <1>1, <1>2, <1>3, <1>4

\* The statement being answered, and those behind it.
LEMMA AtHead ==
    ASSUME ReadInv, queue # <<>>
    PROVE  /\ Head(queue) \in Statement /\ StatementIsSound(Head(queue))
           /\ \A i \in 2..Len(queue) :
                /\ queue[i] \in Statement /\ StatementIsSound(queue[i])
                /\ Live(Head(queue)) => ~Live(queue[i])
<1>1. queue \in Seq(Statement)
  BY DEF ReadInv, ReadTypeOK
<1>2. Len(queue) \in Nat \ {0} /\ Head(queue) = queue[1]
  BY <1>1, EmptySeq, LenProperties, HeadTailProperties
<1>3. \A i \in 1..Len(queue) : queue[i] \in Statement
  BY <1>1, ElementOfSeq
<1> QED
  BY <1>2, <1>3 DEF ReadInv, QueueIsInStep

Behind(s) == \E i \in 2..Len(queue) : s = queue[i]

\* The queue after an answer: those that were behind are sound and none of them
\* has come to life, and what is sent is sound and at most one of it live, in the
\* place of the one that was answered.
LEMMA QueueAdvances ==
    ASSUME ReadInv, queue # <<>>, NEW t \in Seq(Statement),
           queue' = Tail(queue) \o t,
           \A s \in Statement : Behind(s) => StatementIsSound(s)' /\ (Live(s)' => Live(s)),
           \A i \in 1..Len(t) : StatementIsSound(t[i])' /\ (Live(t[i])' => Live(Head(queue))),
           \A i, j \in 1..Len(t) : Live(t[i])' /\ Live(t[j])' => i = j
    PROVE  QueueIsInStep' /\ queue' \in Seq(Statement)
<1> DEFINE n == Len(queue) - 1
<1>1. queue \in Seq(Statement)
  BY DEF ReadInv, ReadTypeOK
<1>2. /\ queue' \in Seq(Statement) /\ Len(queue') = n + Len(t)
      /\ \A i \in 1..n : queue'[i] = queue[i + 1]
      /\ \A i \in 1..Len(t) : queue'[n + i] = t[i]
      /\ Len(queue) \in Nat \ {0} /\ Len(t) \in Nat /\ n \in Nat
  BY <1>1, Sent
<1>3. ASSUME NEW i \in 1..Len(queue'), i <= n
      PROVE  /\ queue'[i] = queue[i + 1] /\ i + 1 \in 2..Len(queue)
             /\ StatementIsSound(queue[i])' /\ (Live(queue[i])' => Live(queue[i + 1]))
  <2>1. queue'[i] = queue[i + 1] /\ i + 1 \in 2..Len(queue)
    BY <1>2, <1>3
  <2>2. PICK s \in Statement : s = queue[i + 1]
    BY <2>1, AtHead
  <2>3. Behind(s) /\ s = queue'[i]
    BY <2>1, <2>2 DEF Behind
  <2> QED
    BY <2>1, <2>2, <2>3
<1>4. ASSUME NEW i \in 1..Len(queue'), ~(i <= n)
      PROVE  \E k \in 1..Len(t) :
                /\ i = n + k
                /\ StatementIsSound(queue[i])' /\ (Live(queue[i])' => Live(Head(queue)))
                /\ Live(queue[i])' => Live(t[k])'
  <2>1. i \in Nat /\ i - n \in 1..Len(t) /\ i = n + (i - n)
    BY <1>2, <1>4
  <2>2. PICK k \in 1..Len(t) : k = i - n
    BY <2>1
  <2>3. PICK s : s = t[k]
    OBVIOUS
  <2>4. queue'[i] = s /\ i = n + k
    BY <1>2, <2>1, <2>2, <2>3
  <2>5. StatementIsSound(s)' /\ (Live(s)' => Live(Head(queue)))
    BY <2>3
  <2> QED
    BY <2>3, <2>4, <2>5
<1>5. ASSUME NEW i \in 1..Len(queue'), NEW j \in 1..Len(queue'), Live(queue[i])', Live(queue[j])'
      PROVE  i = j
  <2>1. \A k, l \in 1..Len(queue) : Live(queue[k]) /\ Live(queue[l]) => k = l
    BY DEF ReadInv, QueueIsInStep
  <2>2. \A k \in 2..Len(queue) : Live(Head(queue)) => ~Live(queue[k])
    BY AtHead
  <2>3. CASE i <= n /\ j <= n
    <3>1. i + 1 = j + 1
      BY <1>3, <1>5, <2>1, <2>3
    <3> QED
      BY <1>2, <3>1
  <2>4. CASE i <= n /\ ~(j <= n)
    BY <1>3, <1>4, <1>5, <2>2, <2>4
  <2>5. CASE ~(i <= n) /\ j <= n
    BY <1>3, <1>4, <1>5, <2>2, <2>5
  <2>6. CASE ~(i <= n) /\ ~(j <= n)
    <3>1. PICK k \in 1..Len(t) : i = n + k /\ Live(t[k])'
      BY <1>4, <1>5, <2>6
    <3>2. PICK l \in 1..Len(t) : j = n + l /\ Live(t[l])'
      BY <1>4, <1>5, <2>6
    <3> QED
      BY <3>1, <3>2
  <2> QED
    BY <2>3, <2>4, <2>5, <2>6
<1> QED
  BY <1>2, <1>3, <1>4, <1>5 DEF QueueIsInStep

\* One statement is sent.
LEMMA QueueAdvancesByOne ==
    ASSUME ReadInv, queue # <<>>, NEW t \in Statement, queue' = Append(Tail(queue), t),
           \A s \in Statement : Behind(s) => StatementIsSound(s)' /\ (Live(s)' => Live(s)),
           StatementIsSound(t)', Live(t)' => Live(Head(queue))
    PROVE  QueueIsInStep' /\ queue' \in Seq(Statement)
<1>1. /\ <<t>> \in Seq(Statement) /\ Len(<<t>>) = 1
      /\ \A i \in 1..Len(<<t>>) : i = 1 /\ <<t>>[i] = t
  OBVIOUS
<1>2. queue' = Tail(queue) \o <<t>>
  BY AppendIsConcat, HeadTailProperties DEF ReadInv, ReadTypeOK
<1>3. \A i \in 1..Len(<<t>>) :
         StatementIsSound(<<t>>[i])' /\ (Live(<<t>>[i])' => Live(Head(queue)))
  BY <1>1
<1> QED
  BY <1>1, <1>2, <1>3, QueueAdvances

\* A query nobody waits for, and then a statement.
LEMMA QueueAdvancesByTwo ==
    ASSUME ReadInv, queue # <<>>, NEW t \in Statement, NEW u \in Statement,
           queue' = Tail(queue) \o <<t, u>>,
           \A s \in Statement : Behind(s) => StatementIsSound(s)' /\ (Live(s)' => Live(s)),
           StatementIsSound(t)', ~Live(t)', StatementIsSound(u)', Live(u)' => Live(Head(queue))
    PROVE  QueueIsInStep' /\ queue' \in Seq(Statement)
<1>1. /\ <<t, u>> \in Seq(Statement) /\ Len(<<t, u>>) = 2
      /\ \A i \in 1..Len(<<t, u>>) : i \in {1, 2}
      /\ <<t, u>>[1] = t /\ <<t, u>>[2] = u
  OBVIOUS
<1>2. \A i \in 1..Len(<<t, u>>) :
         StatementIsSound(<<t, u>>[i])' /\ (Live(<<t, u>>[i])' => i = 2 /\ Live(Head(queue)))
  BY <1>1
<1>3. \A i, j \in 1..Len(<<t, u>>) : Live(<<t, u>>[i])' /\ Live(<<t, u>>[j])' => i = j
  BY <1>2
<1> QED
  BY <1>1, <1>2, <1>3, QueueAdvances

\* Nothing is sent.
LEMMA QueueAdvancesByNone ==
    ASSUME ReadInv, queue # <<>>, queue' = Tail(queue),
           \A s \in Statement : Behind(s) => StatementIsSound(s)' /\ (Live(s)' => Live(s))
    PROVE  QueueIsInStep' /\ queue' \in Seq(Statement)
<1>1. queue' = Tail(queue) \o <<>>
  BY ConcatEmptySeq, HeadTailProperties DEF ReadInv, ReadTypeOK
<1>2. <<>> \in Seq(Statement) /\ 1..Len(<<>>) = {}
  OBVIOUS
<1> QED
  BY <1>1, <1>2, QueueAdvances

\* A query nobody waits for is of a request that has failed.
LEMMA StrayIsOfFailed ==
    ASSUME ReadInv, NEW s \in Statement, StatementIsSound(s), ~Live(s)
    PROVE  /\ s.what = "read" /\ s.by \in Requests
           /\ request[s.by].stage \in {"ending", "failed"} /\ request[s.by].error # "none"
<1>1. s.what = "read" /\ s.by \in Requests /\ request[s.by].error # "none"
  BY DEF StatementIsSound, Live, Statement
<1>2. RequestIsSound(s.by)
  BY <1>1 DEF ReadInv
<1> QED
  BY <1>1, <1>2 DEF RequestIsSound

\* A statement that is waited for is the holder's.
LEMMA LiveIsTheHolders ==
    ASSUME ReadInv, NEW s \in Statement, StatementIsSound(s), Live(s)
    PROVE  /\ s.by = holder /\ s.by \in Requests
           /\ request[s.by].stage \in {"waiting", "reading", "ending"}
           /\ s.what \in {"BEGIN", "watermark"} => request[s.by].stage = "waiting"
           /\ s.what = "read" => request[s.by].stage = "reading"
           /\ s.what \in {"COMMIT", "ROLLBACK"} => request[s.by].stage = "ending"
BY DEF StatementIsSound, InStep, Live, Statement

\* It stays so, as long as its request does not come back to reading.
LEMMA StraysStay ==
    ASSUME ReadInv, NEW s \in Statement, StatementIsSound(s), ~Live(s),
           request'[s.by].stage # "reading", request'[s.by].error # "none"
    PROVE  StatementIsSound(s)' /\ ~Live(s)'
BY DEF StatementIsSound, InStep, Live

\* A statement sees a state of the ledger.
LEMMA SeesAState ==
    ASSUME ReadInv
    PROVE  Sees \in States /\ Sees # NoState
BY NullAssumption DEF ReadInv, ReadTypeOK, Session, Sees

\* What a query leaves of the transaction.
LEMMA QueryKeepsSession ==
    ASSUME ReadInv, NEW ok \in BOOLEAN, AfterQuery(ok), holder' = holder,
           \A r \in Requests : request'[r].since = request[r].since,
           holder # NoState => request'[holder].stage \in {"waiting", "reading", "ending"}
    PROVE  /\ SessionIsTheHolders' /\ session' \in Session
           /\ session'.open = session.open
           /\ session.snapshot # NoState => session'.snapshot = session.snapshot
           /\ session.open /\ ok => session'.snapshot = Sees
<1>1. session \in Session /\ holder \in Requests \cup {NoState} /\ ledger \in States
  BY DEF ReadInv, ReadTypeOK
<1>2. SessionIsTheHolders
  BY DEF ReadInv
<1>3. CASE ~session.open
  BY <1>1, <1>2, <1>3 DEF AfterQuery, SessionIsTheHolders, NoTransaction
<1>4. CASE session.open /\ ok
  <2>1. session' = [session EXCEPT !.snapshot = Sees]
    BY <1>4 DEF AfterQuery
  <2>2. session' \in Session /\ session'.open /\ session'.snapshot = Sees
    BY <1>1, <1>4, <2>1, SeesAState DEF Session
  <2>3. holder \in Requests /\ RequestIsSound(holder)
    BY <1>1, <1>2, <1>4 DEF SessionIsTheHolders, ReadInv
  <2>4. Sees >= request[holder].since
    BY <1>2, <2>3 DEF Sees, SessionIsTheHolders, RequestIsSound
  <2>5. session.snapshot # NoState => session'.snapshot = session.snapshot
    BY <2>2 DEF Sees
  <2> QED
    BY <1>2, <1>4, <2>2, <2>3, <2>4, <2>5 DEF SessionIsTheHolders
<1>5. CASE session.open /\ ~ok
  <2>1. session' = [session EXCEPT !.aborted = TRUE]
    BY <1>5 DEF AfterQuery
  <2>2. session' \in Session /\ session'.open /\ session'.snapshot = session.snapshot
    BY <1>1, <1>5, <2>1 DEF Session
  <2>3. holder \in Requests
    BY <1>1, <1>2, <1>5 DEF SessionIsTheHolders
  <2> QED
    BY <1>2, <1>5, <2>2, <2>3 DEF SessionIsTheHolders
<1> QED
  BY <1>3, <1>4, <1>5

-----------------------------------------------------------------------------

\* A load commits.
LEMMA LoadKeepsReads ==
    ASSUME ReadInv, CommitLoad
    PROVE  ReadInv'
<1>0. /\ ledger' = ledger + 1 /\ ledger < MaxLoads
      /\ UNCHANGED <<session, queue, holder, waiting, request>>
  BY DEF CommitLoad
<1>1. ReadTypeOK'
  BY <1>0, ReadsAssumption DEF ReadInv, ReadTypeOK, States
<1>2. QueueIsInStep' /\ LineIsInStep' /\ SessionIsTheHolders'
  BY <1>0 DEF ReadInv, QueueIsInStep, LineIsInStep, SessionIsTheHolders,
              StatementIsSound, InStep, Live, AllSeen
<1>3. ASSUME NEW r \in Requests
      PROVE  RequestIsSound(r)'
  <2>1. request[r].since \in Nat /\ ledger \in Nat /\ RequestIsSound(r)
    BY DEF ReadInv, ReadTypeOK, Request, States
  <2> QED
    BY <1>0, <2>1 DEF RequestIsSound, AllSeen
<1> QED
  BY <1>1, <1>2, <1>3 DEF ReadInv

\* A request arrives.
LEMMA ArriveKeeps ==
    ASSUME ReadInv, NEW r \in Requests, Arrive(r)
    PROVE  ReadInv'
<1>0. /\ request[r].stage = "idle" /\ waiting' = Append(waiting, r)
      /\ UNCHANGED <<ledger, session, queue, holder>>
  BY DEF Arrive
<1>1. ReadTypeOK /\ RequestIsSound(r)
  BY DEF ReadInv
<1>2. /\ request'[r] = [request[r] EXCEPT !.stage = "waiting", !.since = ledger]
      /\ \A q \in Requests : q # r => request'[q] = request[q]
      /\ request' \in [Requests -> Request]
  <2>1. request \in [Requests -> Request] /\ ledger \in States
    BY <1>1 DEF ReadTypeOK
  <2>2. request' = [request EXCEPT ![r].stage = "waiting", ![r].since = ledger]
    BY DEF Arrive
  <2>3. /\ request'[r] = [request[r] EXCEPT !.stage = "waiting", !.since = ledger]
        /\ \A q \in Requests : q # r => request'[q] = request[q]
    BY <2>1, <2>2
  <2>4. [request[r] EXCEPT !.stage = "waiting", !.since = ledger] \in Request
    BY <2>1 DEF Request
  <2> QED
    BY <2>1, <2>2, <2>3, <2>4
<1>3. /\ request'[r].stage = "waiting" /\ request'[r].since = ledger
      /\ request'[r].version = NoState /\ request'[r].got = <<>> /\ request'[r].error = "none"
  BY <1>0, <1>1, <1>2 DEF RequestIsSound, ReadTypeOK, Request
<1>4. /\ waiting' \in Seq(Requests) /\ Len(waiting') = Len(waiting) + 1
      /\ waiting'[Len(waiting) + 1] = r /\ Len(waiting) \in Nat
      /\ \A i \in 1..Len(waiting) : waiting'[i] = waiting[i] /\ waiting[i] \in Requests
  BY <1>0, <1>1, AppendProperties, LenProperties, ElementOfSeq DEF ReadTypeOK
<1>5. ReadTypeOK'
  BY <1>0, <1>1, <1>2, <1>4 DEF ReadTypeOK
<1>6. holder # r
  BY <1>0, NullAssumption DEF ReadInv, SessionIsTheHolders
<1>7. QueueIsInStep'
  <2>1. \A i \in 1..Len(queue) : queue[i] \in Statement /\ StatementIsSound(queue[i])
    BY ElementOfSeq DEF ReadInv, ReadTypeOK, QueueIsInStep
  <2>2. \A i \in 1..Len(queue) : queue[i].by \in Requests /\ queue[i].by # r
    BY <1>0, <2>1, StrayIsOfFailed, LiveIsTheHolders
  <2>3. \A i \in 1..Len(queue) : request'[queue[i].by] = request[queue[i].by]
    BY <1>2, <2>2
  <2>4. queue' = queue /\ session' = session /\ holder' = holder
    BY <1>0
  <2>5. \A i \in 1..Len(queue) : Live(queue[i])' <=> Live(queue[i])
    BY <2>3, <2>4 DEF Live
  <2>6. \A i \in 1..Len(queue) : InStep(queue[i])'
    <3>1. TAKE i \in 1..Len(queue)
    <3>2. InStep(queue[i])
      BY <2>1 DEF StatementIsSound
    <3>3. request'[queue[i].by] = request[queue[i].by] /\ session' = session /\ queue' = queue
      BY <2>3, <2>4
    <3> QED
      BY <3>2, <3>3 DEF InStep, AllSeen
  <2>7. \A i \in 1..Len(queue) : StatementIsSound(queue[i])'
    BY <2>1, <2>3, <2>4, <2>5, <2>6 DEF StatementIsSound
  <2>8. \A i, j \in 1..Len(queue) : Live(queue[i]) /\ Live(queue[j]) => i = j
    BY DEF ReadInv, QueueIsInStep
  <2>9. \A i, j \in 1..Len(queue) : Live(queue[i])' /\ Live(queue[j])' => i = j
    BY <2>5, <2>8
  <2> QED
    BY <2>4, <2>7, <2>9 DEF QueueIsInStep
<1>8. LineIsInStep'
  <2>1. \A i \in 1..Len(waiting) : waiting[i] # r
    BY <1>0 DEF ReadInv, LineIsInStep
  <2>2. \A i \in 1..Len(waiting') : i \in 1..Len(waiting) \/ i = Len(waiting) + 1
    BY <1>4
  <2>3. \A i \in 1..Len(waiting') : request'[waiting'[i]].stage = "waiting" /\ waiting'[i] # holder
    <3>1. \A i \in 1..Len(waiting) : request'[waiting[i]] = request[waiting[i]]
      BY <1>2, <1>4, <2>1
    <3> QED
      BY <1>3, <1>4, <1>6, <2>2, <3>1 DEF ReadInv, LineIsInStep
  <2>4. \A i, j \in 1..Len(waiting') : waiting'[i] = waiting'[j] => i = j
    <3>1. \A i, j \in 1..Len(waiting) : waiting[i] = waiting[j] => i = j
      BY DEF ReadInv, LineIsInStep
    <3> QED
      BY <1>4, <2>1, <2>2, <3>1
  <2> QED
    BY <1>0, <2>3, <2>4 DEF LineIsInStep
<1>9. SessionIsTheHolders'
  <2>1. holder # NoState => request'[holder] = request[holder]
    BY <1>1, <1>2, <1>6 DEF ReadTypeOK
  <2>2. session.snapshot # NoState => holder # NoState
    BY DEF ReadInv, SessionIsTheHolders, NoTransaction
  <2> QED
    BY <1>0, <2>1, <2>2 DEF ReadInv, SessionIsTheHolders
<1>10. ASSUME NEW q \in Requests
       PROVE  RequestIsSound(q)'
  <2>1. CASE q = r
    <3>1. ledger \in Nat
      BY <1>1 DEF ReadTypeOK, States
    <3> QED
      BY <1>0, <1>3, <2>1, <3>1 DEF RequestIsSound
  <2>2. CASE q # r
    BY <1>0, <1>2, <2>2 DEF ReadInv, RequestIsSound, AllSeen
  <2> QED
    BY <2>1, <2>2
<1> QED
  BY <1>5, <1>7, <1>8, <1>9, <1>10 DEF ReadInv

\* The connection is lent: whatever is still in its queue is nobody's.
LEMMA LendKeeps ==
    ASSUME ReadInv, Lend
    PROVE  ReadInv'
<1>0. /\ holder = NoState /\ waiting # <<>> /\ holder' = Head(waiting) /\ waiting' = Tail(waiting)
      /\ UNCHANGED <<ledger, session, request>>
  BY DEF Lend
<1>1. PICK r \in Requests : r = Head(waiting)
  BY <1>0, HeadTailProperties DEF ReadInv, ReadTypeOK
<1>2. queue' = Append(queue, Ask(r, "BEGIN")) /\ Ask(r, "BEGIN") \in Statement
  BY <1>1, ReadsAssumption DEF Lend, Ask, Statement
<1>3. /\ queue' \in Seq(Statement) /\ Len(queue') = Len(queue) + 1 /\ Len(queue) \in Nat
      /\ queue'[Len(queue) + 1] = Ask(r, "BEGIN")
      /\ \A i \in 1..Len(queue) : queue'[i] = queue[i] /\ queue[i] \in Statement
  BY <1>2, AppendProperties, LenProperties, ElementOfSeq DEF ReadInv, ReadTypeOK
<1>4. /\ waiting' \in Seq(Requests) /\ Len(waiting') = Len(waiting) - 1
      /\ \A i \in 1..Len(waiting') : waiting'[i] = waiting[i + 1]
      /\ Len(waiting) \in Nat \ {0} /\ r = waiting[1]
  BY <1>0, <1>1, HeadTailProperties, LenProperties, EmptySeq DEF ReadInv, ReadTypeOK
<1>5. ReadTypeOK'
  BY <1>0, <1>1, <1>3, <1>4 DEF ReadInv, ReadTypeOK
<1>6. session = NoTransaction /\ request[r].stage = "waiting"
  BY <1>0, <1>4 DEF ReadInv, SessionIsTheHolders, LineIsInStep
<1>7. QueueIsInStep'
  <2>1. \A i \in 1..Len(queue) : ~Live(queue[i]) /\ StatementIsSound(queue[i])
    <3> SUFFICES ASSUME NEW i \in 1..Len(queue)
                 PROVE  ~Live(queue[i]) /\ StatementIsSound(queue[i])
      OBVIOUS
    <3>1. StatementIsSound(queue[i]) /\ queue[i] \in Statement
      BY <1>3 DEF ReadInv, QueueIsInStep
    <3>2. Live(queue[i]) => queue[i].by = NoState /\ queue[i].by \in Requests
      BY <1>0, <3>1, LiveIsTheHolders
    <3> QED
      BY <3>1, <3>2, NullAssumption
  <2>2. ASSUME NEW i \in 1..Len(queue)
        PROVE  StatementIsSound(queue[i])' /\ ~Live(queue[i])'
    <3>1. PICK s \in Statement : s = queue[i]
      BY <1>3
    <3>2. StatementIsSound(s)' /\ ~Live(s)'
      BY <1>0, <2>1, <3>1, StrayIsOfFailed, StraysStay
    <3> QED
      BY <1>3, <3>1, <3>2
  <2>3. StatementIsSound(Ask(r, "BEGIN"))'
    BY <1>0, <1>1, <1>6 DEF StatementIsSound, InStep, Live, Ask, NoTransaction
  <2>4. \A i \in 1..Len(queue') : i \in 1..Len(queue) \/ i = Len(queue) + 1
    BY <1>3
  <2> QED
    BY <1>3, <2>2, <2>3, <2>4 DEF QueueIsInStep
<1>8. LineIsInStep'
  <2>1. \A i \in 1..Len(waiting') : i + 1 \in 1..Len(waiting) /\ i + 1 # 1
    BY <1>4
  <2>2. \A i \in 1..Len(waiting) : i # 1 => waiting[i] # r
    BY <1>4 DEF ReadInv, LineIsInStep
  <2> QED
    BY <1>0, <1>1, <1>4, <2>1, <2>2 DEF ReadInv, LineIsInStep
<1>9. SessionIsTheHolders'
  BY <1>0, <1>1, <1>6, NullAssumption DEF SessionIsTheHolders, NoTransaction
<1>10. ASSUME NEW q \in Requests
       PROVE  RequestIsSound(q)'
  BY <1>0 DEF ReadInv, RequestIsSound, AllSeen
<1> QED
  BY <1>5, <1>7, <1>8, <1>9, <1>10 DEF ReadInv

-----------------------------------------------------------------------------
(* Statements answered.                                                    *)

\* The transaction is open.
LEMMA BeginKeeps ==
    ASSUME ReadInv, Begin
    PROVE  ReadInv'
<1> DEFINE b == Head(queue)
<1>0. /\ queue # <<>> /\ b.what = "BEGIN" /\ UNCHANGED <<ledger, holder, waiting, request>>
  BY DEF Begin, Answering
<1>1. b \in Statement /\ StatementIsSound(b) /\ Live(b)
  BY <1>0, AtHead DEF Live
<1>2. PICK r \in Requests : r = b.by /\ r = holder
  BY <1>1, LiveIsTheHolders
<1>3. request[r].stage = "waiting" /\ ~session.open
  BY <1>0, <1>1, <1>2 DEF StatementIsSound, InStep
<1>4. session' = [NoTransaction EXCEPT !.open = TRUE]
  BY <1>3 DEF Begin
<1>5. session' \in Session /\ session'.open /\ session'.snapshot = NoState
  BY <1>4 DEF Session, NoTransaction
<1>6. Ask(r, "watermark") \in Statement
  BY ReadsAssumption DEF Ask, Statement
<1>7. queue' = Append(Tail(queue), Ask(r, "watermark"))
  BY <1>2 DEF Begin
<1>8. \A s \in Statement : Behind(s) => StatementIsSound(s)' /\ ~Live(s)'
  BY <1>0, <1>1, AtHead, StrayIsOfFailed, StraysStay DEF Behind
<1>9. StatementIsSound(Ask(r, "watermark"))'
  BY <1>0, <1>2, <1>3, <1>5 DEF StatementIsSound, InStep, Live, Ask
<1>10. QueueIsInStep' /\ queue' \in Seq(Statement)
  BY <1>0, <1>1, <1>6, <1>7, <1>8, <1>9, QueueAdvancesByOne
<1>11. ReadTypeOK' /\ LineIsInStep'
  BY <1>0, <1>5, <1>10 DEF ReadInv, ReadTypeOK, LineIsInStep
<1>12. SessionIsTheHolders'
  BY <1>0, <1>2, <1>3, <1>5, NullAssumption DEF SessionIsTheHolders
<1>13. \A q \in Requests : RequestIsSound(q)'
  BY <1>0 DEF ReadInv, RequestIsSound, AllSeen
<1> QED
  BY <1>10, <1>11, <1>12, <1>13 DEF ReadInv

\* The first statement fixes the snapshot, if nothing has fixed it before.
LEMMA WatermarkKeeps ==
    ASSUME ReadInv, Watermark
    PROVE  ReadInv'
<1> DEFINE b == Head(queue)
           ok == ~Refused
<1>0. /\ queue # <<>> /\ b.what = "watermark" /\ UNCHANGED <<ledger, holder, waiting>>
      /\ AfterQuery(ok)
  BY DEF Watermark, Answering
<1>1. b \in Statement /\ StatementIsSound(b) /\ Live(b)
  BY <1>0, AtHead DEF Live
<1>2. PICK r \in Requests : r = b.by /\ r = holder
  BY <1>1, LiveIsTheHolders
<1>3. request[r].stage = "waiting" /\ session.open
  BY <1>0, <1>1, <1>2 DEF StatementIsSound, InStep
<1>4. /\ request[r] \in Request /\ RequestIsSound(r)
      /\ request[r].error = "none" /\ request[r].got = <<>> /\ request[r].version = NoState
  BY <1>3 DEF ReadInv, ReadTypeOK, RequestIsSound
<1>5. ok \in BOOLEAN
  BY DEF Refused
<1>6. PICK t \in Statement :
        /\ queue' = Append(Tail(queue), t)
        /\ t = IF ok THEN AskRead(r, 1) ELSE Ask(r, "ROLLBACK")
  BY <1>2, ReadsAssumption DEF Watermark, AskRead, Ask, Statement
<1>7. PICK now \in Request :
        /\ request' = [request EXCEPT ![r] = now]
        /\ now.since = request[r].since /\ now.got = <<>>
        /\ ok => now.stage = "reading" /\ now.version = Sees /\ now.error = "none"
        /\ ~ok => now.stage = "ending" /\ now.version = NoState /\ now.error = "aborted"
  <2>1. CASE ok
    <3> DEFINE now == [request[r] EXCEPT !.stage = "reading", !.version = Sees]
    <3>1. request' = [request EXCEPT ![r] = now]
      BY <1>2, <2>1 DEF Watermark, ReadInv, ReadTypeOK
    <3>2. /\ now \in Request /\ now.since = request[r].since /\ now.got = <<>>
          /\ now.stage = "reading" /\ now.version = Sees /\ now.error = "none"
      BY <1>4, SeesAState DEF Request
    <3> QED
      BY <2>1, <3>1, <3>2
  <2>2. CASE ~ok
    <3> DEFINE now == [request[r] EXCEPT !.stage = "ending", !.error = "aborted"]
    <3>1. request' = [request EXCEPT ![r] = now]
      BY <1>2, <2>2 DEF Watermark, ReadInv, ReadTypeOK
    <3>2. /\ now \in Request /\ now.since = request[r].since /\ now.got = <<>>
          /\ now.stage = "ending" /\ now.version = NoState /\ now.error = "aborted"
      BY <1>4 DEF Request
    <3> QED
      BY <2>2, <3>1, <3>2
  <2> QED
    BY <2>1, <2>2
<1>8. /\ request' \in [Requests -> Request] /\ request'[r] = now
      /\ \A q \in Requests : q # r => request'[q] = request[q]
  BY <1>7 DEF ReadInv, ReadTypeOK
<1>9. /\ SessionIsTheHolders' /\ session' \in Session /\ session'.open
      /\ session.snapshot # NoState => session'.snapshot = session.snapshot
      /\ ok => session'.snapshot = Sees
  BY <1>0, <1>2, <1>3, <1>5, <1>7, <1>8, QueryKeepsSession
<1>10. ASSUME NEW s \in Statement, Behind(s)
       PROVE  StatementIsSound(s)' /\ ~Live(s)'
  <2>1. StatementIsSound(s) /\ ~Live(s)
    BY <1>0, <1>1, <1>10, AtHead DEF Behind
  <2>2. s.by # r
    BY <1>3, <2>1, StrayIsOfFailed
  <2> QED
    BY <1>8, <2>1, <2>2, StrayIsOfFailed, StraysStay
<1>11. StatementIsSound(t)'
  <2>1. CASE ok
    <3>1. t.what = "read" /\ t.by = r /\ t.nth = 1
      BY <1>6, <2>1 DEF AskRead
    <3>2. request'[r].stage = "reading" /\ request'[r].version = Sees /\ request'[r].got = <<>>
      BY <1>7, <1>8, <2>1
    <3>3. AllSeen(r, 0)'
      BY <3>2 DEF AllSeen
    <3>4. 1 \in 1..Reads
      BY ReadsAssumption
    <3> QED
      BY <1>0, <1>2, <1>9, <2>1, <3>1, <3>2, <3>3, <3>4, SeesAState DEF StatementIsSound, InStep, Live
  <2>2. CASE ~ok
    BY <1>0, <1>2, <1>6, <1>7, <1>8, <2>2 DEF StatementIsSound, InStep, Live, Ask
  <2> QED
    BY <2>1, <2>2
<1>12. QueueIsInStep' /\ queue' \in Seq(Statement)
  BY <1>0, <1>1, <1>6, <1>10, <1>11, QueueAdvancesByOne
<1>13. ReadTypeOK'
  BY <1>0, <1>8, <1>9, <1>12 DEF ReadInv, ReadTypeOK
<1>14. LineIsInStep'
  <2>1. \A i \in 1..Len(waiting) : waiting[i] \in Requests /\ waiting[i] # r
    BY <1>2, ElementOfSeq DEF ReadInv, ReadTypeOK, LineIsInStep
  <2> QED
    BY <1>0, <1>8, <2>1 DEF ReadInv, LineIsInStep
<1>15. ASSUME NEW q \in Requests
       PROVE  RequestIsSound(q)'
  <2>1. CASE q # r
    BY <1>0, <1>8, <2>1 DEF ReadInv, RequestIsSound, AllSeen
  <2>2. CASE q = r /\ ok
    <3>1. Sees >= now.since
      BY <1>0, <1>2, <1>8, <1>9, <2>2, SeesAState DEF SessionIsTheHolders
    <3> QED
      BY <1>0, <1>4, <1>7, <1>8, <2>2, <3>1 DEF RequestIsSound
  <2>3. CASE q = r /\ ~ok
    BY <1>0, <1>4, <1>7, <1>8, <2>3 DEF RequestIsSound
  <2> QED
    BY <2>1, <2>2, <2>3
<1> QED
  BY <1>9, <1>12, <1>13, <1>14, <1>15 DEF ReadInv

\* What a query leaves its request with.
LEMMA AnswerIsKept ==
    ASSUME ReadInv, NEW r \in Requests, NEW ok \in BOOLEAN
    PROVE  /\ WithAnswer(r, ok) \in Request
           /\ WithAnswer(r, ok).stage = request[r].stage
           /\ WithAnswer(r, ok).since = request[r].since
           /\ WithAnswer(r, ok).version = request[r].version
           /\ WithAnswer(r, ok).error = request[r].error
           /\ WithAnswer(r, ok).got = Append(request[r].got, IF ok THEN Sees ELSE NoState)
<1>1. request[r] \in Request /\ request[r].got \in Seq(States \cup {NoState})
  BY DEF ReadInv, ReadTypeOK, Request
<1>2. Append(request[r].got, IF ok THEN Sees ELSE NoState) \in Seq(States \cup {NoState})
  BY <1>1, SeesAState
<1> QED
  BY <1>1, <1>2 DEF WithAnswer, Request

\* A query sees what its request's version names.
LEMMA ReadKeeps ==
    ASSUME ReadInv, NEW r \in Requests, NEW n \in 1..Reads, Read(r, n)
    PROVE  ReadInv'
<1> DEFINE b == Head(queue)
           last == ~(n < Reads)
<1>0. /\ queue # <<>> /\ b.what = "read" /\ b.by = r /\ b.nth = n
      /\ UNCHANGED <<ledger, holder, waiting>>
      /\ AfterQuery(TRUE) /\ request[r].stage = "reading"
  BY DEF Read, ReadAnswered, Answering
<1>1. b \in Statement /\ StatementIsSound(b) /\ Live(b) /\ r = holder
  BY <1>0, AtHead DEF Live, StatementIsSound
<1>2. /\ session.open /\ request[r].version # NoState /\ session.snapshot = request[r].version
      /\ Sees = request[r].version /\ AllSeen(r, n - 1)
  BY <1>0, <1>1 DEF StatementIsSound, InStep, Sees
<1>3. request[r] \in Request /\ RequestIsSound(r) /\ request[r].error = "none"
  BY <1>0 DEF ReadInv, ReadTypeOK, RequestIsSound
<1>4. PICK t \in Statement :
        /\ queue' = Append(Tail(queue), t)
        /\ t = IF last THEN Ask(r, "COMMIT") ELSE AskRead(r, n + 1)
  <2>1. CASE last
    BY <2>1, ReadsAssumption, AppendIsConcat, HeadTailProperties
       DEF Read, Ask, Statement, ReadInv, ReadTypeOK, ReadAnswered, Answering
  <2>2. CASE ~last
    BY <2>2, ReadsAssumption, AppendIsConcat, HeadTailProperties
       DEF Read, AskRead, NextQuery, Statement, ReadInv, ReadTypeOK, ReadAnswered, Answering
  <2> QED
    BY <2>1, <2>2
<1>5. PICK now \in Request :
        /\ request' = [request EXCEPT ![r] = now]
        /\ now.since = request[r].since /\ now.version = request[r].version /\ now.error = "none"
        /\ now.stage = (IF last THEN "ending" ELSE "reading")
        /\ now.got = Append(request[r].got, Sees)
  <2> DEFINE now == [WithAnswer(r, TRUE) EXCEPT !.stage = IF n < Reads THEN "reading" ELSE "ending"]
  <2>1. request' = [request EXCEPT ![r] = now]
    BY DEF Read
  <2>2. /\ now \in Request
        /\ now.since = request[r].since /\ now.version = request[r].version /\ now.error = "none"
        /\ now.stage = (IF last THEN "ending" ELSE "reading")
        /\ now.got = Append(request[r].got, Sees)
    BY <1>3, AnswerIsKept DEF Request
  <2> QED
    BY <2>1, <2>2
<1>6. /\ request' \in [Requests -> Request] /\ request'[r] = now
      /\ \A q \in Requests : q # r => request'[q] = request[q]
  BY <1>5 DEF ReadInv, ReadTypeOK
<1>7. /\ SessionIsTheHolders' /\ session' \in Session /\ session'.open
      /\ session'.snapshot = request[r].version
  BY <1>0, <1>1, <1>2, <1>5, <1>6, QueryKeepsSession
<1>8. Len(now.got) = n /\ \A k \in 1..n : now.got[k] = now.version
  <2>1. /\ request[r].got \in Seq(States \cup {NoState}) /\ Len(request[r].got) = n - 1
        /\ \A k \in 1..(n - 1) : request[r].got[k] = request[r].version
    BY <1>2, <1>3 DEF AllSeen, Request
  <2> QED
    BY <1>2, <1>5, <2>1, AppendProperties
<1>9. AllSeen(r, n)'
  BY <1>6, <1>8 DEF AllSeen
<1>10. ASSUME NEW s \in Statement, Behind(s)
       PROVE  StatementIsSound(s)' /\ ~Live(s)'
  <2>1. StatementIsSound(s) /\ ~Live(s)
    BY <1>0, <1>1, <1>10, AtHead DEF Behind
  <2>2. s.by # r
    BY <1>0, <2>1, StrayIsOfFailed
  <2> QED
    BY <1>6, <2>1, <2>2, StrayIsOfFailed, StraysStay
<1>11. StatementIsSound(t)'
  <2>1. CASE last
    <3>1. n = Reads /\ t.what = "COMMIT" /\ t.by = r
      BY <1>4, <2>1, ReadsAssumption DEF Ask
    <3>2. request'[r].stage = "ending" /\ request'[r].error = "none"
      BY <1>5, <1>6, <2>1
    <3>3. AllSeen(r, Reads)'
      BY <1>9, <3>1
    <3> QED
      BY <1>0, <1>1, <3>1, <3>2, <3>3 DEF StatementIsSound, InStep, Live
  <2>2. CASE ~last
    <3>1. t.what = "read" /\ t.by = r /\ t.nth = n + 1 /\ t.nth - 1 = n /\ t.nth \in 1..Reads
      BY <1>4, <2>2, ReadsAssumption DEF AskRead
    <3>2. request'[r].stage = "reading" /\ request'[r].version = request[r].version
      BY <1>5, <1>6, <2>2
    <3>3. AllSeen(t.by, t.nth - 1)'
      BY <1>9, <3>1
    <3> QED
      BY <1>0, <1>1, <1>2, <1>7, <3>1, <3>2, <3>3 DEF StatementIsSound, InStep, Live
  <2> QED
    BY <2>1, <2>2
<1>12. QueueIsInStep' /\ queue' \in Seq(Statement)
  BY <1>0, <1>1, <1>4, <1>10, <1>11, QueueAdvancesByOne
<1>13. ReadTypeOK'
  BY <1>0, <1>6, <1>7, <1>12 DEF ReadInv, ReadTypeOK
<1>14. LineIsInStep'
  <2>1. \A i \in 1..Len(waiting) : waiting[i] \in Requests /\ waiting[i] # r
    BY <1>1, ElementOfSeq DEF ReadInv, ReadTypeOK, LineIsInStep
  <2> QED
    BY <1>0, <1>6, <2>1 DEF ReadInv, LineIsInStep
<1>15. ASSUME NEW q \in Requests
       PROVE  RequestIsSound(q)'
  <2>1. CASE q # r
    BY <1>0, <1>6, <2>1 DEF ReadInv, RequestIsSound, AllSeen
  <2>2. CASE q = r
    BY <1>0, <1>3, <1>5, <1>6, <2>2 DEF RequestIsSound
  <2> QED
    BY <2>1, <2>2
<1> QED
  BY <1>7, <1>12, <1>13, <1>14, <1>15 DEF ReadInv

\* What is asked after a failure is left over.
LEMMA ReadFailsKeeps ==
    ASSUME ReadInv, NEW r \in Requests, NEW n \in 1..Reads, NEW ok \in BOOLEAN, ReadFails(r, n, ok)
    PROVE  ReadInv'
<1> DEFINE b == Head(queue)
<1>0. /\ queue # <<>> /\ b.what = "read" /\ b.by = r /\ b.nth = n
      /\ UNCHANGED <<ledger, holder, waiting>>
      /\ AfterQuery(ok) /\ request[r].stage = "reading"
  BY DEF ReadFails, ReadAnswered, Answering
<1>1. b \in Statement /\ StatementIsSound(b) /\ Live(b) /\ r = holder
  BY <1>0, AtHead DEF Live, StatementIsSound
<1>2. request[r].version # NoState
  BY <1>0, <1>1 DEF StatementIsSound, InStep
<1>3. request[r] \in Request /\ RequestIsSound(r) /\ request[r].error = "none"
  BY <1>0 DEF ReadInv, ReadTypeOK, RequestIsSound
<1>4. PICK now \in Request :
        /\ request' = [request EXCEPT ![r] = now]
        /\ now.since = request[r].since /\ now.version = request[r].version
        /\ now.stage = "ending" /\ now.error # "none"
  <2> DEFINE why == IF Refused THEN "aborted" ELSE "own"
             now == [WithAnswer(r, ok) EXCEPT !.stage = "ending", !.error = why]
  <2>1. request' = [request EXCEPT ![r] = now]
    BY DEF ReadFails
  <2>2. /\ now \in Request
        /\ now.since = request[r].since /\ now.version = request[r].version
        /\ now.stage = "ending" /\ now.error # "none"
    BY <1>3, AnswerIsKept DEF Request
  <2> QED
    BY <2>1, <2>2
<1>5. /\ request' \in [Requests -> Request] /\ request'[r] = now
      /\ \A q \in Requests : q # r => request'[q] = request[q]
  BY <1>4 DEF ReadInv, ReadTypeOK
<1>6. SessionIsTheHolders' /\ session' \in Session
  BY <1>0, <1>1, <1>4, <1>5, QueryKeepsSession
<1>7. ASSUME NEW s \in Statement, Behind(s)
      PROVE  StatementIsSound(s)' /\ ~Live(s)'
  <2>1. StatementIsSound(s) /\ ~Live(s)
    BY <1>0, <1>1, <1>7, AtHead DEF Behind
  <2>2. s.by # r
    BY <1>0, <2>1, StrayIsOfFailed
  <2> QED
    BY <1>5, <2>1, <2>2, StrayIsOfFailed, StraysStay
<1>8. Ask(r, "ROLLBACK") \in Statement /\ StatementIsSound(Ask(r, "ROLLBACK"))'
  BY <1>0, <1>1, <1>4, <1>5, ReadsAssumption DEF StatementIsSound, InStep, Live, Ask, Statement
<1>9. QueueIsInStep' /\ queue' \in Seq(Statement)
  <2>1. CASE n < Reads
    <3> DEFINE next == AskRead(r, n + 1)
    <3>1. next \in Statement /\ next.what = "read" /\ next.by = r /\ next.nth \in 1..Reads
      BY <2>1, ReadsAssumption DEF AskRead, Statement
    <3>2. StatementIsSound(next)' /\ ~Live(next)'
      BY <1>4, <1>5, <3>1 DEF StatementIsSound, InStep, Live, AskRead
    <3>3. queue' = Tail(queue) \o <<next, Ask(r, "ROLLBACK")>>
      BY <2>1, <3>1, <1>8 DEF ReadFails, AfterRejection, NextQuery
    <3> QED
      BY <1>0, <1>1, <1>7, <1>8, <3>1, <3>2, <3>3, QueueAdvancesByTwo
  <2>2. CASE ~(n < Reads)
    <3>1. queue' = Append(Tail(queue), Ask(r, "ROLLBACK"))
      BY <1>0, <1>8, <2>2, AppendIsConcat, HeadTailProperties
         DEF ReadFails, AfterRejection, NextQuery, ReadInv, ReadTypeOK
    <3> QED
      BY <1>0, <1>1, <1>7, <1>8, <3>1, QueueAdvancesByOne
  <2> QED
    BY <2>1, <2>2
<1>10. ReadTypeOK'
  BY <1>0, <1>5, <1>6, <1>9 DEF ReadInv, ReadTypeOK
<1>11. LineIsInStep'
  <2>1. \A i \in 1..Len(waiting) : waiting[i] \in Requests /\ waiting[i] # r
    BY <1>1, ElementOfSeq DEF ReadInv, ReadTypeOK, LineIsInStep
  <2> QED
    BY <1>0, <1>5, <2>1 DEF ReadInv, LineIsInStep
<1>12. ASSUME NEW q \in Requests
       PROVE  RequestIsSound(q)'
  <2>1. CASE q # r
    BY <1>0, <1>5, <2>1 DEF ReadInv, RequestIsSound, AllSeen
  <2>2. CASE q = r
    BY <1>0, <1>3, <1>4, <1>5, <2>2 DEF RequestIsSound
  <2> QED
    BY <2>1, <2>2
<1> QED
  BY <1>6, <1>9, <1>10, <1>11, <1>12 DEF ReadInv

\* The query of a request that has failed may run in the transaction of another:
\* what it sees then is what the other sees, or fixes it.
LEMMA LeftOverKeeps ==
    ASSUME ReadInv, NEW r \in Requests, NEW n \in 1..Reads, NEW ok \in BOOLEAN,
           ReadLeftOver(r, n, ok)
    PROVE  ReadInv'
<1> DEFINE b == Head(queue)
<1>0. /\ queue # <<>> /\ b.what = "read" /\ b.by = r /\ b.nth = n
      /\ UNCHANGED <<ledger, holder, waiting>>
      /\ AfterQuery(ok) /\ request[r].stage # "reading"
  BY DEF ReadLeftOver, ReadAnswered, Answering
<1>1. b \in Statement /\ StatementIsSound(b) /\ ~Live(b)
  BY <1>0, AtHead DEF Live
<1>2. request[r].stage \in {"ending", "failed"} /\ request[r].error # "none"
  BY <1>0, <1>1, StrayIsOfFailed
<1>3. request[r] \in Request /\ RequestIsSound(r)
  BY DEF ReadInv, ReadTypeOK
<1>4. PICK now \in Request :
        /\ request' = [request EXCEPT ![r] = now]
        /\ now.since = request[r].since /\ now.version = request[r].version
        /\ now.stage = request[r].stage /\ now.error = request[r].error
  BY AnswerIsKept DEF ReadLeftOver
<1>5. /\ request' \in [Requests -> Request] /\ request'[r] = now
      /\ \A q \in Requests : q # r => request'[q] = request[q]
  BY <1>4 DEF ReadInv, ReadTypeOK
<1>6. /\ SessionIsTheHolders' /\ session' \in Session
      /\ session'.open = session.open
      /\ session.snapshot # NoState => session'.snapshot = session.snapshot
  <2>1. \A q \in Requests : request'[q].since = request[q].since /\ request'[q].stage = request[q].stage
    BY <1>4, <1>5
  <2>2. holder # NoState =>
          holder \in Requests /\ request[holder].stage \in {"waiting", "reading", "ending"}
    BY DEF ReadInv, ReadTypeOK, SessionIsTheHolders
  <2> QED
    BY <1>0, <2>1, <2>2, QueryKeepsSession
<1>7. ASSUME NEW s \in Statement, Behind(s)
      PROVE  StatementIsSound(s)' /\ (Live(s)' => Live(s))
  <2>1. StatementIsSound(s) /\ s.by \in Requests
    BY <1>0, <1>7, AtHead DEF Behind, Statement
  <2>2. CASE ~Live(s)
    BY <1>4, <1>5, <2>1, <2>2, StrayIsOfFailed, StraysStay
  <2>3. CASE Live(s) /\ s.by = r
    <3>1. s.what = "ROLLBACK" /\ request[r].stage = "ending"
      BY <1>2, <2>1, <2>3, LiveIsTheHolders DEF StatementIsSound, InStep, Statement
    <3> QED
      BY <1>0, <1>4, <1>5, <2>1, <2>3, <3>1 DEF StatementIsSound, InStep, Live
  <2>4. CASE Live(s) /\ s.by # r
    <3>1. request'[s.by] = request[s.by]
      BY <1>5, <2>1, <2>4
    <3>2. Live(s)' /\ s.by = holder'
      BY <1>0, <2>1, <2>4, <3>1 DEF StatementIsSound, Live
    <3>3. InStep(s)'
      BY <1>6, <2>1, <3>1 DEF StatementIsSound, InStep, AllSeen
    <3> QED
      BY <2>4, <3>2, <3>3 DEF StatementIsSound
  <2> QED
    BY <2>2, <2>3, <2>4
<1>8. QueueIsInStep' /\ queue' \in Seq(Statement)
  <2>1. CASE n < Reads
    <3> DEFINE next == AskRead(r, n + 1)
    <3>1. next \in Statement /\ next.what = "read" /\ next.by = r /\ next.nth \in 1..Reads
      BY <2>1, ReadsAssumption DEF AskRead, Statement
    <3>2. StatementIsSound(next)' /\ ~Live(next)'
      BY <1>2, <1>4, <1>5, <3>1 DEF StatementIsSound, InStep, Live, AskRead
    <3>3. queue' = Append(Tail(queue), next)
      BY <1>0, <2>1, <3>1, AppendIsConcat, HeadTailProperties
         DEF ReadLeftOver, NextQuery, ReadInv, ReadTypeOK
    <3> QED
      BY <1>0, <1>7, <3>1, <3>2, <3>3, QueueAdvancesByOne
  <2>2. CASE ~(n < Reads)
    <3>1. queue' = Tail(queue)
      BY <1>0, <2>2, ConcatEmptySeq, HeadTailProperties
         DEF ReadLeftOver, NextQuery, ReadInv, ReadTypeOK
    <3> QED
      BY <1>0, <1>7, <3>1, QueueAdvancesByNone
  <2> QED
    BY <2>1, <2>2
<1>9. ReadTypeOK'
  BY <1>0, <1>5, <1>6, <1>8 DEF ReadInv, ReadTypeOK
<1>10. LineIsInStep'
  <2>1. \A i \in 1..Len(waiting) : waiting[i] \in Requests /\ waiting[i] # r
    BY <1>2, ElementOfSeq DEF ReadInv, ReadTypeOK, LineIsInStep
  <2> QED
    BY <1>0, <1>5, <2>1 DEF ReadInv, LineIsInStep
<1>11. ASSUME NEW q \in Requests
       PROVE  RequestIsSound(q)'
  <2>1. CASE q # r
    BY <1>0, <1>5, <2>1 DEF ReadInv, RequestIsSound, AllSeen
  <2>2. CASE q = r
    BY <1>0, <1>2, <1>3, <1>4, <1>5, <2>2 DEF RequestIsSound
  <2> QED
    BY <2>1, <2>2
<1> QED
  BY <1>6, <1>8, <1>9, <1>10, <1>11 DEF ReadInv

\* The transaction ends, and with it what is known of its snapshot.
LEMMA EndKeeps ==
    ASSUME ReadInv, NEW what \in {"COMMIT", "ROLLBACK"}, End(what)
    PROVE  ReadInv'
<1> DEFINE b == Head(queue)
           stage == IF what = "COMMIT" THEN "answered" ELSE "failed"
<1>0. /\ queue # <<>> /\ b.what = what
      /\ session' = NoTransaction /\ queue' = Tail(queue) /\ holder' = NoState
      /\ UNCHANGED <<ledger, waiting>>
  BY DEF End, Answering, Ended, Release
<1>1. b \in Statement /\ StatementIsSound(b) /\ Live(b)
  BY <1>0, AtHead DEF Live
<1>2. PICK r \in Requests : r = b.by /\ r = holder
  BY <1>1, LiveIsTheHolders
<1>3. /\ request[r].stage = "ending"
      /\ what = "COMMIT" => request[r].error = "none" /\ AllSeen(r, Reads)
  BY <1>0, <1>1, <1>2 DEF StatementIsSound, InStep
<1>4. request[r] \in Request /\ RequestIsSound(r)
  BY DEF ReadInv, ReadTypeOK
<1>5. PICK now \in Request :
        /\ request' = [request EXCEPT ![r] = now]
        /\ now.since = request[r].since /\ now.version = request[r].version
        /\ now.stage = stage /\ now.error = request[r].error /\ now.got = request[r].got
  <2> DEFINE now == [request[r] EXCEPT !.stage = stage]
  <2>1. request' = [request EXCEPT ![r] = now]
    BY <1>2 DEF End, ReadInv, ReadTypeOK
  <2>2. /\ now \in Request
        /\ now.since = request[r].since /\ now.version = request[r].version
        /\ now.stage = stage /\ now.error = request[r].error /\ now.got = request[r].got
    BY <1>4 DEF Request
  <2> QED
    BY <2>1, <2>2
<1>6. /\ request' \in [Requests -> Request] /\ request'[r] = now
      /\ \A q \in Requests : q # r => request'[q] = request[q]
  BY <1>5 DEF ReadInv, ReadTypeOK
<1>7. ASSUME NEW s \in Statement, Behind(s)
      PROVE  StatementIsSound(s)' /\ ~Live(s)'
  <2>1. StatementIsSound(s) /\ ~Live(s)
    BY <1>0, <1>1, <1>7, AtHead DEF Behind
  <2> QED
    BY <1>5, <1>6, <2>1, StrayIsOfFailed, StraysStay
<1>8. QueueIsInStep' /\ queue' \in Seq(Statement)
  BY <1>0, <1>7, QueueAdvancesByNone
<1>9. ReadTypeOK'
  BY <1>0, <1>6, <1>8 DEF ReadInv, ReadTypeOK, Session, NoTransaction
<1>10. LineIsInStep'
  <2>1. \A i \in 1..Len(waiting) : waiting[i] \in Requests /\ waiting[i] # r
    BY <1>2, ElementOfSeq DEF ReadInv, ReadTypeOK, LineIsInStep
  <2> QED
    BY <1>0, <1>6, <2>1, NullAssumption DEF ReadInv, LineIsInStep
<1>11. SessionIsTheHolders'
  BY <1>0 DEF SessionIsTheHolders, NoTransaction
<1>12. ASSUME NEW q \in Requests
       PROVE  RequestIsSound(q)'
  <2>1. CASE q # r
    BY <1>0, <1>6, <2>1 DEF ReadInv, RequestIsSound, AllSeen
  <2>2. CASE q = r
    BY <1>0, <1>3, <1>4, <1>5, <1>6, <2>2 DEF RequestIsSound, AllSeen
  <2> QED
    BY <2>1, <2>2
<1> QED
  BY <1>8, <1>9, <1>10, <1>11, <1>12 DEF ReadInv

\* Every step keeps the invariant.
LEMMA ReadSteps ==
    ASSUME ReadInv, [ReadNext]_reading
    PROVE  ReadInv'
<1>1. CASE UNCHANGED reading
  BY <1>1 DEF reading, ReadInv, ReadTypeOK, QueueIsInStep, StatementIsSound, InStep, Live, AllSeen,
              LineIsInStep, SessionIsTheHolders, RequestIsSound
<1>2. CASE Respond
  BY <1>2, BeginKeeps, WatermarkKeeps, ReadKeeps, ReadFailsKeeps, LeftOverKeeps, EndKeeps DEF Respond
<1> QED
  BY <1>1, <1>2, LoadKeepsReads, ArriveKeeps, LendKeeps DEF ReadNext

\* ReadTypeOK: every variable of LedgerRead has its type.
THEOREM ReadTypes == ReadSpec => []ReadTypeOK
<1>1. ReadInv => ReadTypeOK
  BY DEF ReadInv
<1> QED
  BY <1>1, ReadStarts, ReadSteps, PTL DEF ReadSpec

\* OneState: every row of a response is of the version it names, however many
\* requests share the connection and whatever the loads commit meanwhile.
THEOREM ResponsesAreOfOneState == ReadSpec => []OneState
  BY ReadStarts, ReadSteps, ReadInvImplies, PTL DEF ReadSpec

-----------------------------------------------------------------------------
(***************************************************************************)
(* Migrator.  A program works upwards from the lowest file it has left;    *)
(* everything of its checkout below that is recorded, with the checkout's  *)
(* text, and whatever is recorded was executed.                            *)
(***************************************************************************)

\* A program with files left has a lowest one.
LEMMA HasLowest ==
    ASSUME NEW S, S \subseteq Nat, S # {}
    PROVE  Lowest(S) \in S /\ \A k \in S : Lowest(S) <= k
BY LeastOf DEF Lowest

-----------------------------------------------------------------------------

\* What a migration leaves in the schema: the file's name and text, and the
\* checkout it came from.
Executions == UNION {{<<n, c[n], c>> : n \in DOMAIN c} : c \in Checkouts}

Programs ==
    [stage : {"off", "ensure", "status", "read", "apply", "executed", "recorded"},
     files : Checkouts \cup {NoFiles}, pending : SUBSET Nat, open : Executions \cup {<<>>},
     says : {"nothing", "error", "status", "up to date", "applied"}]

Held(n, text) == n \in DOMAIN recorded /\ recorded[n] = text

\* What a running program has left to do, and what its own files say is done.
ProgramIsSound(m) ==
    /\ m.stage # "off" => m.files \in Checkouts
    /\ m.stage \in {"apply", "executed", "recorded"} =>
         /\ m.pending # {} /\ m.pending \subseteq DOMAIN m.files
         /\ \A n \in DOMAIN m.files \ m.pending : Held(n, m.files[n])
    /\ m.stage \in {"executed", "recorded"} =>
         m.open = <<Lowest(m.pending), m.files[Lowest(m.pending)], m.files>>
    /\ m.stage = "recorded" => m.open[1] \notin DOMAIN recorded
    /\ m.says \in {"applied", "up to date"} => \A n \in DOMAIN m.files : Held(n, m.files[n])

\* No two open transactions hold the key of the same file.
KeysAreApart ==
    \A o, p \in Operators :
        o # p /\ migrator[o].stage = "recorded" /\ migrator[p].stage = "recorded" =>
            migrator[o].open[1] # migrator[p].open[1]

RecordedWasExecuted ==
    \A n \in DOMAIN recorded :
        \E k \in 1..Len(schema) : schema[k][1] = n /\ schema[k][2] = recorded[n]

\* The first part of SchemaIsAsRecorded, of one migration of the schema.
InOrder(n) ==
    /\ schema[n][1] \in DOMAIN recorded
    /\ recorded[schema[n][1]] = schema[n][2]
    /\ \A k \in 1..(n - 1) : schema[k][1] # schema[n][1]
    /\ \A low \in DOMAIN schema[n][3] : low < schema[n][1] =>
          \E k \in 1..(n - 1) : schema[k][1] = low /\ schema[k][2] = schema[n][3][low]

MigratorInv ==
    /\ schema \in Seq(Executions)
    /\ migrator \in [Operators -> Programs]
    /\ \A o \in Operators : ProgramIsSound(migrator[o])
    /\ KeysAreApart
    /\ RecordedWasExecuted
    /\ \A n \in 1..Len(schema) : InOrder(n)

\* The invariant says what SchemaIsAsRecorded says.
LEMMA MigratorInvImplies == MigratorInv => SchemaIsAsRecorded
<1> SUFFICES ASSUME MigratorInv
             PROVE  SchemaIsAsRecorded
  OBVIOUS
<1>1. ASSUME NEW o \in Operators, migrator[o].says \in {"applied", "up to date"},
             NEW n \in DOMAIN migrator[o].files
      PROVE  \E k \in 1..Len(schema) : schema[k][1] = n /\ schema[k][2] = migrator[o].files[n]
  <2>1. Held(n, migrator[o].files[n])
    BY <1>1 DEF MigratorInv, ProgramIsSound
  <2> QED
    BY <2>1 DEF MigratorInv, RecordedWasExecuted, Held
<1> QED
  BY <1>1 DEF MigratorInv, InOrder, SchemaIsAsRecorded

\* It holds of an empty database.
LEMMA MigratorStarts == MigratorInit => MigratorInv
<1> SUFFICES ASSUME MigratorInit
             PROVE  MigratorInv
  OBVIOUS
<1>1. Stopped \in Programs /\ ProgramIsSound(Stopped)
  BY DEF Stopped, Programs, ProgramIsSound
<1>2. \A o \in Operators : migrator[o] = Stopped /\ migrator[o].stage = "off"
  BY DEF MigratorInit, Stopped
<1> QED
  BY <1>1, <1>2 DEF MigratorInit, MigratorInv, KeysAreApart, RecordedWasExecuted, NoFiles

\* A step of one program that writes nothing to the database keeps the invariant
\* if it leaves that program sound and its key its own.
LEMMA ProgramMoves ==
    ASSUME MigratorInv, NEW o \in Operators, NEW now \in Programs,
           migrator' = [migrator EXCEPT ![o] = now], UNCHANGED <<recorded, schema>>,
           ProgramIsSound(now),
           now.stage = "recorded" => now.open[1] \notin HeldByOthers(o)
    PROVE  MigratorInv'
<1>1. migrator' \in [Operators -> Programs]
  BY DEF MigratorInv
<1>2. \A p \in Operators : ProgramIsSound(migrator[p])'
  <2>1. ProgramIsSound(migrator[o])'
    <3>1. migrator'[o] = now
      BY DEF MigratorInv
    <3> QED
      BY <3>1 DEF ProgramIsSound, Held
  <2>2. ASSUME NEW p \in Operators, p # o
        PROVE  ProgramIsSound(migrator[p])'
    <3>1. migrator'[p] = migrator[p] /\ ProgramIsSound(migrator[p])
      BY <2>2 DEF MigratorInv
    <3> QED
      BY <3>1 DEF ProgramIsSound, Held
  <2> QED
    BY <2>1, <2>2
<1>3. KeysAreApart'
  <2> SUFFICES ASSUME NEW p \in Operators, NEW q \in Operators, p # q,
                      migrator'[p].stage = "recorded", migrator'[q].stage = "recorded"
               PROVE  migrator'[p].open[1] # migrator'[q].open[1]
    BY DEF KeysAreApart
  <2>1. \A r \in Operators \ {o} : migrator'[r] = migrator[r]
    BY DEF MigratorInv
  <2>2. migrator'[o] = now
    BY DEF MigratorInv
  <2>3. CASE p = o
    BY <2>1, <2>2, <2>3 DEF HeldByOthers
  <2>4. CASE q = o
    BY <2>1, <2>2, <2>4 DEF HeldByOthers
  <2>5. CASE p # o /\ q # o
    BY <2>1, <2>5 DEF MigratorInv, KeysAreApart
  <2> QED
    BY <2>3, <2>4, <2>5
<1>4. RecordedWasExecuted' /\ (\A n \in 1..Len(schema) : InOrder(n))'
  <2>1. RecordedWasExecuted /\ \A n \in 1..Len(schema) : InOrder(n)
    BY DEF MigratorInv
  <2> QED
    BY <2>1 DEF RecordedWasExecuted, InOrder
<1>5. (schema \in Seq(Executions))'
  BY DEF MigratorInv
<1> QED
  BY <1>1, <1>2, <1>3, <1>4, <1>5 DEF MigratorInv

\* A program that stops with an error, or is stopped.
LEMMA ProgramStops ==
    ASSUME MigratorInv, NEW o \in Operators, NEW says \in {"error", "status"},
           migrator' = [migrator EXCEPT ![o] = [Stopped EXCEPT !.says = says]],
           UNCHANGED <<recorded, schema>>
    PROVE  MigratorInv'
<1> DEFINE now == [Stopped EXCEPT !.says = says]
<1>1. now \in Programs /\ ProgramIsSound(now) /\ now.stage = "off"
  BY DEF Programs, ProgramIsSound, Stopped
<1> QED
  BY <1>1, ProgramMoves

\* The checkout is read.
LEMMA LoadKeeps ==
    ASSUME MigratorInv, NEW o \in Operators, NEW files \in Checkouts,
           NEW asks \in {"ensure", "status"}, LoadMigrations(o, files, asks)
    PROVE  MigratorInv'
<1>1. CASE files \in MisnamedIn
  BY <1>1, ProgramStops DEF LoadMigrations
<1>2. CASE files \notin MisnamedIn
  <2> DEFINE now == [Stopped EXCEPT !.stage = asks, !.files = files]
  <2>1. now \in Programs /\ ProgramIsSound(now) /\ now.stage # "recorded"
    BY DEF Programs, ProgramIsSound, Stopped
  <2> QED
    BY <1>2, <2>1, ProgramMoves DEF LoadMigrations
<1> QED
  BY <1>1, <1>2

\* The table is there.
LEMMA EnsureKeeps ==
    ASSUME MigratorInv, NEW o \in Operators, EnsureMigrationTable(o)
    PROVE  MigratorInv'
<1> DEFINE now == [migrator[o] EXCEPT !.stage = "read"]
<1>1. migrator[o] \in Programs /\ ProgramIsSound(migrator[o]) /\ migrator[o].stage = "ensure"
  BY DEF MigratorInv, EnsureMigrationTable
<1>2. now \in Programs /\ ProgramIsSound(now) /\ now.stage # "recorded"
  BY <1>1 DEF Programs, ProgramIsSound
<1> QED
  BY <1>2, ProgramMoves DEF EnsureMigrationTable

\* A program that goes on has found what is recorded in its checkout,
\* unchanged.
LEMMA ReadAppliedKeeps ==
    ASSUME MigratorInv, NEW o \in Operators, ReadApplied(o)
    PROVE  MigratorInv'
<1> DEFINE m == migrator[o]
           left == Pending(m.files, recorded)
           wrong == IsChanged(m.files, recorded) \/ IsAhead(m.files, recorded)
<1>1. m \in Programs /\ m.stage = "read" /\ m.files \in Checkouts
  BY DEF MigratorInv, ReadApplied, ProgramIsSound
<1>2. CASE wrong
  BY <1>2, ProgramStops DEF ReadApplied
<1>3. ASSUME ~wrong
      PROVE  \A n \in DOMAIN m.files \ left : Held(n, m.files[n])
  BY <1>3 DEF IsChanged, Pending, Held
<1>4. CASE ~wrong /\ left = {}
  <2> DEFINE now == [m EXCEPT !.stage = "off", !.says = "up to date"]
  <2>1. now \in Programs /\ ProgramIsSound(now) /\ now.stage # "recorded"
    BY <1>1, <1>3, <1>4 DEF Programs, ProgramIsSound
  <2>2. migrator' = [migrator EXCEPT ![o] = now] /\ UNCHANGED <<recorded, schema>>
    BY <1>4 DEF ReadApplied
  <2> QED
    BY <2>1, <2>2, ProgramMoves
<1>5. CASE ~wrong /\ left # {}
  <2> DEFINE now == [m EXCEPT !.stage = "apply", !.pending = left]
  <2>1. left \subseteq DOMAIN m.files /\ left \subseteq Nat
    BY <1>1, CheckoutsAssumption DEF Pending
  <2>2. now \in Programs
    BY <1>1, <2>1 DEF Programs
  <2>3. ProgramIsSound(now) /\ now.stage # "recorded"
    <3>1. /\ now.stage = "apply" /\ now.files = m.files /\ now.pending = left
          /\ now.says = m.says
      BY <1>1 DEF Programs
    <3>2. m.says \in {"applied", "up to date"} => \A n \in DOMAIN m.files : Held(n, m.files[n])
      BY DEF MigratorInv, ProgramIsSound
    <3> QED
      BY <1>1, <1>3, <1>5, <2>1, <3>1, <3>2 DEF ProgramIsSound
  <2>4. migrator' = [migrator EXCEPT ![o] = now] /\ UNCHANGED <<recorded, schema>>
    BY <1>5 DEF ReadApplied
  <2> QED
    BY <2>2, <2>3, <2>4, ProgramMoves
<1> QED
  BY <1>2, <1>4, <1>5

\* The file a program is at is the lowest that is left of its checkout.
LEMMA AtLowest ==
    ASSUME MigratorInv, NEW o \in Operators,
           migrator[o].stage \in {"apply", "executed", "recorded"},
           NEW n, n = Lowest(migrator[o].pending)
    PROVE  /\ n \in migrator[o].pending /\ n \in DOMAIN migrator[o].files /\ n \in Nat
           /\ \A k \in migrator[o].pending : n <= k
           /\ <<n, migrator[o].files[n], migrator[o].files>> \in Executions
<1> DEFINE m == migrator[o]
<1>1. m \in Programs /\ ProgramIsSound(m)
  BY DEF MigratorInv
<1>2. /\ m.files \in Checkouts
      /\ m.pending # {} /\ m.pending \subseteq DOMAIN m.files
  BY <1>1 DEF ProgramIsSound
<1>3. DOMAIN m.files \subseteq Nat
  BY <1>2, CheckoutsAssumption
<1>4. n \in m.pending /\ \A k \in m.pending : n <= k
  BY <1>2, <1>3, HasLowest
<1>5. <<n, m.files[n], m.files>> \in Executions
  BY <1>2, <1>4 DEF Executions
<1> QED
  BY <1>2, <1>3, <1>4, <1>5

\* The lowest file is executed.
LEMMA ExecuteKeeps ==
    ASSUME MigratorInv, NEW o \in Operators, ExecuteText(o)
    PROVE  MigratorInv'
<1> DEFINE m == migrator[o]
           n == Lowest(m.pending)
           now == [m EXCEPT !.stage = "executed", !.open = <<n, m.files[n], m.files>>]
<1>1. m \in Programs /\ ProgramIsSound(m) /\ m.stage = "apply"
  BY DEF MigratorInv, ExecuteText
<1>2. <<n, m.files[n], m.files>> \in Executions
  BY <1>1, AtLowest
<1>3. now \in Programs
  BY <1>1, <1>2 DEF Programs
<1>4. /\ now.stage = "executed" /\ now.open = <<n, m.files[n], m.files>>
      /\ now.files = m.files /\ now.pending = m.pending /\ now.says = m.says
  BY <1>1 DEF Programs
<1>5. ProgramIsSound(now)
  BY <1>1, <1>4 DEF ProgramIsSound
<1> QED
  BY <1>3, <1>4, <1>5, ProgramMoves DEF ExecuteText

\* Its record is inserted: the key is nobody else's.
LEMMA RecordKeeps ==
    ASSUME MigratorInv, NEW o \in Operators, RecordMigration(o)
    PROVE  MigratorInv'
<1> DEFINE m == migrator[o]
           now == [m EXCEPT !.stage = "recorded"]
<1>1. m \in Programs /\ ProgramIsSound(m) /\ m.stage = "executed"
  BY DEF MigratorInv, RecordMigration
<1>2. now \in Programs
  BY <1>1 DEF Programs
<1>3. /\ now.stage = "recorded" /\ now.open = m.open
      /\ now.files = m.files /\ now.pending = m.pending /\ now.says = m.says
  BY <1>1 DEF Programs
<1>4. m.open[1] \notin HeldByOthers(o) \cup DOMAIN recorded
  BY DEF RecordMigration
<1>5. ProgramIsSound(now)
  BY <1>1, <1>3, <1>4 DEF ProgramIsSound
<1> QED
  BY <1>2, <1>3, <1>4, <1>5, ProgramMoves DEF RecordMigration

\* The step that writes: a transaction that holds the key of the lowest file left
\* commits the file and its record together.
LEMMA CommitKeeps ==
    ASSUME MigratorInv, NEW o \in Operators, CommitMigration(o)
    PROVE  MigratorInv'
<1> DEFINE m == migrator[o]
           n == Lowest(m.pending)
           text == m.files[n]
           entry == <<n, text, m.files>>
           left == m.pending \ {n}
<1>1. m \in Programs /\ ProgramIsSound(m) /\ m.stage = "recorded"
  BY DEF MigratorInv, CommitMigration
<1>2. m.open = entry /\ m.open[1] = n /\ m.open[2] = text /\ n \notin DOMAIN recorded
  <2>1. m.open = entry /\ m.open[1] \notin DOMAIN recorded
    BY <1>1 DEF ProgramIsSound
  <2> QED
    BY <2>1
<1>3. /\ n \in m.pending /\ n \in DOMAIN m.files /\ n \in Nat
      /\ \A k \in m.pending : n <= k
      /\ entry \in Executions
  BY <1>1, AtLowest
<1>4. /\ schema' = Append(schema, entry)
      /\ recorded' = [k \in DOMAIN recorded \cup {n} |-> IF k = n THEN text ELSE recorded[k]]
  BY <1>2 DEF CommitMigration
<1>5. /\ schema' \in Seq(Executions) /\ Len(schema') = Len(schema) + 1
      /\ schema'[Len(schema) + 1] = entry
      /\ \A k \in 1..Len(schema) : schema'[k] = schema[k]
  BY <1>3, <1>4, AppendProperties DEF MigratorInv
<1>6. Len(schema) \in Nat
  BY LenProperties DEF MigratorInv
<1>7. /\ DOMAIN recorded' = DOMAIN recorded \cup {n}
      /\ recorded'[n] = text
      /\ \A k \in DOMAIN recorded : recorded'[k] = recorded[k]
  BY <1>2, <1>4
<1>8. RecordedWasExecuted'
  <2> SUFFICES ASSUME NEW k \in DOMAIN recorded'
               PROVE  \E j \in 1..Len(schema') : schema'[j][1] = k /\ schema'[j][2] = recorded'[k]
    BY DEF RecordedWasExecuted
  <2>1. CASE k = n
    BY <1>5, <1>6, <1>7, <2>1
  <2>2. CASE k # n
    <3>1. k \in DOMAIN recorded
      BY <1>7, <2>2
    <3>2. PICK j \in 1..Len(schema) : schema[j][1] = k /\ schema[j][2] = recorded[k]
      BY <3>1 DEF MigratorInv, RecordedWasExecuted
    <3> QED
      BY <1>5, <1>6, <1>7, <3>1, <3>2
  <2> QED
    BY <2>1, <2>2
<1>9. ASSUME NEW k \in 1..Len(schema')
      PROVE  InOrder(k)'
  <2>1. CASE k \in 1..Len(schema)
    <3>1. InOrder(k) /\ \A j \in 1..k : j \in 1..Len(schema) /\ schema'[j] = schema[j]
      BY <1>5, <1>6, <2>1 DEF MigratorInv
    <3>2. schema'[k] = schema[k] /\ \A j \in 1..(k - 1) : schema'[j] = schema[j]
      BY <1>6, <2>1, <3>1
    <3> QED
      BY <1>7, <3>1, <3>2 DEF InOrder
  <2>2. CASE k = Len(schema) + 1
    <3>1. schema'[k] = entry /\ 1..(k - 1) = 1..Len(schema)
      BY <1>5, <1>6, <2>2
    <3>2. \A j \in 1..Len(schema) : schema'[j][1] # n
      BY <1>2, <1>5 DEF MigratorInv, InOrder
    <3>3. ASSUME NEW low \in DOMAIN m.files, low < n
          PROVE  \E j \in 1..Len(schema) : schema'[j][1] = low /\ schema'[j][2] = m.files[low]
      <4>1. m.files \in Checkouts /\ low \in Nat
        BY <1>1, <3>3, CheckoutsAssumption DEF ProgramIsSound
      <4>2. low \notin m.pending
        BY <1>3, <3>3, <4>1
      <4>3. Held(low, m.files[low])
        BY <1>1, <4>2 DEF ProgramIsSound
      <4> QED
        BY <1>5, <4>3 DEF MigratorInv, RecordedWasExecuted, Held
    <3> QED
      BY <1>7, <3>1, <3>2, <3>3 DEF InOrder
  <2> QED
    BY <1>5, <1>6, <2>1, <2>2
<1>10. migrator'[o] \in Programs /\ ProgramIsSound(migrator[o])' /\ migrator'[o].stage # "recorded"
  <2>1. \A k \in DOMAIN m.files \ left : k \in DOMAIN recorded' /\ recorded'[k] = m.files[k]
    <3> SUFFICES ASSUME NEW k \in DOMAIN m.files \ left
                 PROVE  k \in DOMAIN recorded' /\ recorded'[k] = m.files[k]
      OBVIOUS
    <3>1. CASE k = n
      BY <1>7, <3>1
    <3>2. CASE k # n
      <4>1. Held(k, m.files[k])
        BY <1>1, <3>2 DEF ProgramIsSound
      <4> QED
        BY <1>7, <4>1 DEF Held
    <3> QED
      BY <3>1, <3>2
  <2>2. CASE left = {}
    <3> DEFINE now == [m EXCEPT !.stage = "off", !.pending = {}, !.open = <<>>, !.says = "applied"]
    <3>1. migrator'[o] = now
      BY <1>2, <2>2 DEF CommitMigration, MigratorInv
    <3>2. now \in Programs /\ now.stage = "off" /\ now.files = m.files /\ now.says = "applied"
      BY <1>1 DEF Programs
    <3> QED
      BY <2>1, <2>2, <3>1, <3>2 DEF ProgramIsSound, Held
  <2>3. CASE left # {}
    <3> DEFINE now == [m EXCEPT !.stage = "apply", !.pending = left, !.open = <<>>]
    <3>1. migrator'[o] = now
      BY <1>2, <2>3 DEF CommitMigration, MigratorInv
    <3>2. /\ now \in Programs /\ now.stage = "apply" /\ now.files = m.files
          /\ now.pending = left /\ now.says = m.says
      BY <1>1 DEF Programs
    <3>3. left \subseteq DOMAIN m.files
      BY <1>1 DEF ProgramIsSound
    <3>4. m.files \in Checkouts
      BY <1>1 DEF ProgramIsSound
    <3>5. m.says \in {"applied", "up to date"} =>
            \A k \in DOMAIN m.files : k \in DOMAIN recorded' /\ recorded'[k] = m.files[k]
      BY <1>1, <1>7 DEF ProgramIsSound, Held
    <3> QED
      BY <2>1, <2>3, <3>1, <3>2, <3>3, <3>4, <3>5 DEF ProgramIsSound, Held
  <2> QED
    BY <2>2, <2>3
<1>11. ASSUME NEW p \in Operators, p # o
       PROVE  migrator'[p] = migrator[p] /\ migrator[p] \in Programs /\ ProgramIsSound(migrator[p])'
  <2>1. migrator'[p] = migrator[p] /\ migrator[p] \in Programs /\ ProgramIsSound(migrator[p])
    BY <1>11 DEF CommitMigration, MigratorInv
  <2>2. migrator[p].stage = "recorded" => migrator[p].open[1] # n
    BY <1>1, <1>2, <1>11 DEF MigratorInv, KeysAreApart
  <2> QED
    BY <1>7, <2>1, <2>2 DEF ProgramIsSound, Held
<1>12. migrator' \in [Operators -> Programs]
  BY <1>10, <1>11 DEF CommitMigration, MigratorInv
<1>13. KeysAreApart'
  BY <1>10, <1>11 DEF MigratorInv, KeysAreApart
<1> QED
  BY <1>5, <1>8, <1>9, <1>10, <1>11, <1>12, <1>13 DEF MigratorInv

\* Every step keeps the invariant.
LEMMA MigratorSteps ==
    ASSUME MigratorInv, [MigratorNext]_migrating
    PROVE  MigratorInv'
<1>1. CASE UNCHANGED migrating
  <2>1. UNCHANGED <<recorded, schema, migrator>>
    BY <1>1 DEF migrating
  <2>2. \A o \in Operators : ProgramIsSound(migrator[o])'
    BY <2>1 DEF MigratorInv, ProgramIsSound, Held
  <2>3. RecordedWasExecuted'
    BY <2>1 DEF MigratorInv, RecordedWasExecuted
  <2>5. \A n \in 1..Len(schema') : InOrder(n)'
    BY <2>1 DEF MigratorInv, InOrder
  <2>4. KeysAreApart'
    BY <2>1 DEF MigratorInv, KeysAreApart
  <2> QED
    BY <2>1, <2>2, <2>3, <2>4, <2>5 DEF MigratorInv
<1>2. ASSUME NEW o \in Operators, StatusOf(o)
      PROVE  MigratorInv'
  <2>1. PICK says \in {"error", "status"} :
           migrator' = [migrator EXCEPT ![o] = [Stopped EXCEPT !.says = says]]
    BY <1>2 DEF StatusOf
  <2> QED
    BY <1>2, <2>1, ProgramStops DEF StatusOf
<1>3. ASSUME NEW o \in Operators, FailToMigrate(o)
      PROVE  MigratorInv'
  BY <1>3, ProgramStops DEF FailToMigrate, AfterFailure
<1> QED
  BY <1>1, <1>2, <1>3, LoadKeeps, EnsureKeeps, ReadAppliedKeeps, ExecuteKeeps, RecordKeeps, CommitKeeps
     DEF MigratorNext

\* SchemaIsAsRecorded: whatever the checkouts and however many operators migrate
\* at once, the schema is what schema_migration says it is, in order.
THEOREM SchemaStaysAsRecorded == MigratorSpec => []SchemaIsAsRecorded
<1>1. MigratorSpec => []MigratorInv
  BY MigratorStarts, MigratorSteps, PTL DEF MigratorSpec
<1> QED
  BY <1>1, MigratorInvImplies, PTL

-----------------------------------------------------------------------------
(***************************************************************************)
(* Mentions.  What a load has in hand was earned by a decision; while      *)
(* nobody decides or commits beside it, it is what the decisions say.      *)
(***************************************************************************)

LoadFields == {"stage", "scope", "wanted", "made", "added", "dropped", "fresh"}

\* What a load has in hand: mentions it may make, the bodies they need, and, if
\* nobody has decided or committed since it read, exactly what is to be changed.
LoadIsSound(x) ==
    /\ x.wanted \subseteq earned /\ x.added \subseteq x.wanted
    /\ \A m \in x.wanted \cup x.dropped : InScope(m.fact, x.scope)
    /\ x.made \subseteq Needed(x.wanted, x.scope.kind)
    /\ x.stage \in {"written", "withdrawn"} => Needed(x.wanted, x.scope.kind) \subseteq bodies \cup x.made
    /\ x.fresh =>
         /\ x.wanted = Wanted(x.scope)
         /\ x.stage \in {"written", "withdrawn"} => x.added = x.wanted \ mentions
         /\ x.stage = "withdrawn" =>
              x.dropped = {m \in mentions : InScope(m.fact, x.scope) /\ m \notin x.wanted}

\* Whoever is shown to be decided for has earned its mentions.
DecidedIsEarned ==
    \A f \in Names : InFavour(f) =>
        \A h \in HoldersOf(Value(f), StateOf(f)) : [of |-> h, fact |-> f] \in earned

MentionsShape ==
    /\ DOMAIN verdict = Names /\ DOMAIN corrected = Names /\ DOMAIN loading = Loaders
    /\ \A l \in Loaders : LoadFields \subseteq DOMAIN loading[l]
    /\ \A m \in earned : m = [of |-> m.of, fact |-> m.fact] /\ m.fact \in Names

BodiesAreHeld ==
    /\ \A m \in mentions : OfKind(m.fact, "body") => m.of \in bodies
    /\ \A b \in bodies : ParentOf(b) \subseteq bodies

MentionsInv ==
    /\ MentionsShape
    /\ DecidedIsEarned
    /\ mentions \subseteq earned
    /\ BodiesAreHeld
    /\ \A l \in Loaders : LoadIsSound(loading[l])

\* The invariant says what NamesAreEarned says.
LEMMA MentionsInvImplies == MentionsInv => NamesAreEarned
<1> SUFFICES ASSUME MentionsInv
             PROVE  NamesAreEarned
  OBVIOUS
<1>1. \A m \in ShownMentions : m \in mentions /\ InFavour(m.fact) /\ m \in earned
  BY DEF ShownMentions, MentionsInv
<1>2. \A m \in ShownMentions : OfKind(m.fact, "body") => m.of \in bodies
  BY <1>1 DEF MentionsInv, BodiesAreHeld
<1>3. ASSUME NEW u \in DOMAIN UnitRows, NEW p \in NamedWithin(u)
      PROVE  \E f \in Names : InFavour(f) /\ [of |-> p, fact |-> f] \in earned
  <2>1. PICK m \in ShownMentions : m.of = p
    BY DEF NamedWithin, ShownOf
  <2>2. m = [of |-> p, fact |-> m.fact] /\ m.fact \in Names
    BY <1>1, <2>1 DEF MentionsInv, MentionsShape
  <2> QED
    BY <1>1, <2>1, <2>2
<1> QED
  BY <1>2, <1>3 DEF MentionsInv, BodiesAreHeld, NamesAreEarned

\* A load that has not begun.
LEMMA NoLoadIsSound == LoadIsSound(NoLoad) /\ LoadFields \subseteq DOMAIN NoLoad
BY DEF LoadIsSound, NoLoad, LoadFields, Needed

\* It holds before any decision.
LEMMA MentionsStart == MentionsInit => MentionsInv
<1> SUFFICES ASSUME MentionsInit
             PROVE  MentionsInv
  OBVIOUS
<1>1. \A l \in Loaders : loading[l] = NoLoad
  BY DEF MentionsInit
<1>2. \A f \in Names : ~InFavour(f)
  BY DEF MentionsInit, InFavour
<1>3. DOMAIN corrected = Names
  BY NamesAssumption DEF MentionsInit
<1> QED
  BY <1>1, <1>2, <1>3, NoLoadIsSound
     DEF MentionsInit, MentionsInv, MentionsShape, DecidedIsEarned, BodiesAreHeld

\* What a load would make is told by the decisions alone.
LEMMA WantedByDecisions ==
    ASSUME UNCHANGED <<verdict, corrected>>
    PROVE  \A scope : Wanted(scope)' = Wanted(scope)
BY DEF Wanted, Confirmed, InFavour, Value, InScope

\* A step of one load that commits nothing.
LEMMA LoadMoves ==
    ASSUME MentionsInv, NEW l \in Loaders, NEW now,
           loading' = [loading EXCEPT ![l] = now],
           LoadFields \subseteq DOMAIN now, LoadIsSound(now),
           UNCHANGED <<verdict, corrected, bodies, mentions, earned>>
    PROVE  MentionsInv'
<1>1. DOMAIN loading' = Loaders /\ loading'[l] = now /\ \A k \in Loaders : k # l => loading'[k] = loading[k]
  BY DEF MentionsInv, MentionsShape
<1>2. MentionsShape'
  BY <1>1 DEF MentionsInv, MentionsShape
<1>3. ASSUME NEW x, LoadIsSound(x)
      PROVE  LoadIsSound(x)'
  <2>1. Wanted(x.scope)' = Wanted(x.scope)
    BY WantedByDecisions
  <2> QED
    BY <1>3, <2>1 DEF LoadIsSound
<1>4. ASSUME NEW k \in Loaders
      PROVE  LoadIsSound(loading[k])'
  <2>1. PICK x : x = loading'[k]
    OBVIOUS
  <2>2. LoadIsSound(x)
    BY <1>1, <2>1 DEF MentionsInv
  <2>3. LoadIsSound(x)'
    BY <1>3, <2>2
  <2> QED
    BY <2>1, <2>3
<1>5. DecidedIsEarned' /\ BodiesAreHeld' /\ (mentions \subseteq earned)'
  BY DEF MentionsInv, DecidedIsEarned, InFavour, Value, BodiesAreHeld
<1> QED
  BY <1>2, <1>4, <1>5 DEF MentionsInv

\* A load reads what the decisions say: all of it is earned.
LEMMA ReadConfirmedKeeps ==
    ASSUME MentionsInv, NEW l \in Loaders, ReadConfirmed(l)
    PROVE  MentionsInv'
<1>1. PICK scope \in Scopes :
         loading' = [loading EXCEPT ![l] = [NoLoad EXCEPT !.stage = "read", !.scope = scope,
                                                    !.wanted = Wanted(scope), !.fresh = TRUE]]
  BY DEF ReadConfirmed
<1> DEFINE now == [NoLoad EXCEPT !.stage = "read", !.scope = scope,
                                 !.wanted = Wanted(scope), !.fresh = TRUE]
<1>2. /\ LoadFields \subseteq DOMAIN now
      /\ now.stage = "read" /\ now.scope = scope /\ now.wanted = Wanted(scope)
      /\ now.made = {} /\ now.added = {} /\ now.dropped = {} /\ now.fresh
  BY DEF NoLoad, LoadFields
<1>3. ASSUME NEW m \in Wanted(scope)
      PROVE  m \in earned /\ InScope(m.fact, scope)
  <2>1. PICK f \in Confirmed(scope) :
           \E h \in HoldersOf(Value(f), StateOf(f)) : m = [of |-> h, fact |-> f]
    BY <1>3 DEF Wanted
  <2>2. f \in Names /\ InScope(f, scope) /\ InFavour(f)
    BY DEF Confirmed
  <2> QED
    BY <2>1, <2>2 DEF MentionsInv, DecidedIsEarned
<1>4. LoadIsSound(now)
  BY <1>2, <1>3 DEF LoadIsSound
<1> QED
  BY <1>1, <1>2, <1>4, LoadMoves DEF ReadConfirmed

\* It writes what is missing of the bodies and the mentions.
LEMMA WriteKeeps ==
    ASSUME MentionsInv, NEW l \in Loaders, Write(l)
    PROVE  MentionsInv'
<1> DEFINE x == loading[l]
           missing == Needed(x.wanted, x.scope.kind) \ bodies
           now == [x EXCEPT !.stage = "written", !.made = missing, !.added = x.wanted \ mentions]
<1>1. LoadFields \subseteq DOMAIN x /\ LoadIsSound(x) /\ x.stage \in {"read", "waits"}
  BY DEF MentionsInv, MentionsShape, Write
<1>2. /\ LoadFields \subseteq DOMAIN now
      /\ now.stage = "written" /\ now.scope = x.scope /\ now.wanted = x.wanted /\ now.made = missing
      /\ now.added = x.wanted \ mentions /\ now.dropped = x.dropped /\ now.fresh = x.fresh
  BY <1>1 DEF LoadFields
<1>3. LoadIsSound(now)
  BY <1>1, <1>2 DEF LoadIsSound
<1>4. loading' = [loading EXCEPT ![l] = now]
  BY DEF Write
<1> QED
  BY <1>2, <1>3, <1>4, LoadMoves DEF Write

\* It waits for another load's body.
LEMMA WaitKeeps ==
    ASSUME MentionsInv, NEW l \in Loaders, Wait(l)
    PROVE  MentionsInv'
<1> DEFINE x == loading[l]
           now == [x EXCEPT !.stage = "waits"]
<1>1. LoadFields \subseteq DOMAIN x /\ LoadIsSound(x)
  BY DEF MentionsInv, MentionsShape
<1>2. /\ LoadFields \subseteq DOMAIN now
      /\ now.stage = "waits" /\ now.scope = x.scope /\ now.wanted = x.wanted /\ now.made = x.made
      /\ now.added = x.added /\ now.dropped = x.dropped /\ now.fresh = x.fresh
  BY <1>1 DEF LoadFields
<1>3. LoadIsSound(now)
  BY <1>1, <1>2 DEF LoadIsSound
<1>4. loading' = [loading EXCEPT ![l] = now]
  BY DEF Wait
<1> QED
  BY <1>2, <1>3, <1>4, LoadMoves DEF Wait

\* It takes back what is no longer wanted.
LEMMA WithdrawKeeps ==
    ASSUME MentionsInv, NEW l \in Loaders, Withdraw(l)
    PROVE  MentionsInv'
<1> DEFINE x == loading[l]
           now == [x EXCEPT !.stage = "withdrawn", !.dropped = Withdrawn(l)]
<1>1. LoadFields \subseteq DOMAIN x /\ LoadIsSound(x) /\ x.stage = "written"
  BY DEF MentionsInv, MentionsShape, Withdraw
<1>2. /\ LoadFields \subseteq DOMAIN now
      /\ now.stage = "withdrawn" /\ now.scope = x.scope /\ now.wanted = x.wanted /\ now.made = x.made
      /\ now.added = x.added /\ now.dropped = Withdrawn(l) /\ now.fresh = x.fresh
  BY <1>1 DEF LoadFields
<1>3. LoadIsSound(now)
  BY <1>1, <1>2 DEF LoadIsSound, Withdrawn
<1>4. loading' = [loading EXCEPT ![l] = now]
  BY DEF Withdraw
<1> QED
  BY <1>2, <1>3, <1>4, LoadMoves DEF Withdraw

\* It is rolled back.
LEMMA AbandonKeeps ==
    ASSUME MentionsInv, NEW l \in Loaders, Abandon(l)
    PROVE  MentionsInv'
BY NoLoadIsSound, LoadMoves DEF Abandon

\* A load that is not fresh asks less: nothing that is decided or committed beside
\* it makes it unsound.
LEMMA StaleIsSound ==
    ASSUME MentionsInv, NEW k \in Loaders, earned \subseteq earned', bodies \subseteq bodies'
    PROVE  LoadFields \subseteq DOMAIN Stale[k] /\ \A x : x = Stale[k] => LoadIsSound(x)'
<1> DEFINE y == loading[k]
<1>1. LoadFields \subseteq DOMAIN y /\ LoadIsSound(y)
  BY DEF MentionsInv, MentionsShape
<1>2. /\ LoadFields \subseteq DOMAIN Stale[k]
      /\ Stale[k].stage = y.stage /\ Stale[k].scope = y.scope /\ Stale[k].wanted = y.wanted
      /\ Stale[k].made = y.made /\ Stale[k].added = y.added /\ Stale[k].dropped = y.dropped
      /\ Stale[k].fresh = FALSE
  BY <1>1 DEF LoadFields, Stale
<1> QED
  BY <1>1, <1>2 DEF LoadIsSound

\* It commits: each mention with its body, each body with its government.
LEMMA CommitMentionsKeeps ==
    ASSUME MentionsInv, NEW l \in Loaders, CommitMentions(l)
    PROVE  MentionsInv'
<1> DEFINE x == loading[l]
<1>0. /\ x.stage = "withdrawn"
      /\ bodies' = bodies \cup x.made
      /\ mentions' = (mentions \cup x.added) \ x.dropped
      /\ UNCHANGED <<verdict, corrected, earned>>
  BY DEF CommitMentions
<1>1. LoadIsSound(x) /\ Needed(x.wanted, x.scope.kind) \subseteq bodies'
  BY <1>0 DEF MentionsInv, LoadIsSound
<1>2. ASSUME NEW k \in Loaders
      PROVE  LoadFields \subseteq DOMAIN loading'[k] /\ LoadIsSound(loading[k])'
  <2>1. loading'[k] \in {NoLoad, Stale[k]}
    BY DEF CommitMentions
  <2>2. PICK y : y = loading'[k]
    OBVIOUS
  <2>3. CASE y = NoLoad
    <3>1. LoadIsSound(y)'
      BY <2>3 DEF LoadIsSound, NoLoad, Needed
    <3> QED
      BY <2>2, <2>3, <3>1, NoLoadIsSound
  <2>4. CASE y = Stale[k]
    BY <1>0, <2>2, <2>4, StaleIsSound
  <2> QED
    BY <2>1, <2>2, <2>3, <2>4
<1>3. MentionsShape'
  BY <1>0, <1>2 DEF MentionsInv, MentionsShape, CommitMentions
<1>4. (mentions \subseteq earned)'
  BY <1>0, <1>1 DEF MentionsInv, LoadIsSound
<1>5. DecidedIsEarned'
  BY <1>0 DEF MentionsInv, DecidedIsEarned, InFavour, Value
<1>6. ASSUME NEW m \in mentions', OfKind(m.fact, "body")
      PROVE  m.of \in bodies'
  <2>1. CASE m \in mentions
    BY <1>0, <1>6, <2>1 DEF MentionsInv, BodiesAreHeld
  <2>2. CASE m \in x.added
    <3>1. m \in x.wanted /\ OfKind(m.fact, x.scope.kind)
      BY <1>1, <2>2 DEF LoadIsSound, InScope
    <3>2. x.scope.kind # "place"
      BY <1>6, <3>1 DEF OfKind, Sorts
    <3> QED
      BY <1>1, <3>1, <3>2 DEF Needed
  <2> QED
    BY <1>0, <1>6, <2>1, <2>2
<1>7. ASSUME NEW b \in bodies'
      PROVE  ParentOf(b) \subseteq bodies'
  <2>1. CASE b \in bodies
    BY <1>0, <2>1 DEF MentionsInv, BodiesAreHeld
  <2>2. CASE b \in x.made
    <3>1. b \in Needed(x.wanted, x.scope.kind) /\ x.scope.kind # "place"
      BY <1>1, <2>2 DEF LoadIsSound, Needed
    <3>2. PICK m \in x.wanted : b \in {m.of} \cup ParentOf(m.of)
      BY <3>1 DEF Needed
    <3>3. CASE b = m.of
      BY <1>1, <3>1, <3>2, <3>3 DEF Needed
    <3>4. CASE b \in ParentOf(m.of)
      BY <3>4 DEF ParentOf, GovernmentOf, Body
    <3> QED
      BY <3>2, <3>3, <3>4
  <2> QED
    BY <1>0, <2>1, <2>2
<1> QED
  BY <1>2, <1>3, <1>4, <1>5, <1>6, <1>7 DEF MentionsInv, BodiesAreHeld

\* A reviewer decides: what the decision gives is earned, and no load is fresh.
LEMMA DecideNameKeeps ==
    ASSUME MentionsInv, NEW f \in Names, DecideName(f)
    PROVE  MentionsInv'
<1>1. PICK v \in {"verified", "rejected", "corrected"}, value \in NamedFor[f] :
        /\ verdict' = [verdict EXCEPT ![f] = v]
        /\ corrected' = [corrected EXCEPT ![f] = IF v = "corrected" THEN value ELSE NameOf[f]]
        /\ earned' = IF v = "rejected" THEN earned
                     ELSE earned \cup {[of |-> h, fact |-> f] :
                            h \in HoldersOf(IF v = "corrected" THEN value ELSE NameOf[f], StateOf(f))}
  BY DEF DecideName
<1>2. loading' = Stale /\ UNCHANGED <<bodies, mentions>>
  BY DEF DecideName
<1>3. earned \subseteq earned'
  BY <1>1
<1>4. ASSUME NEW k \in Loaders
      PROVE  LoadFields \subseteq DOMAIN loading'[k] /\ LoadIsSound(loading[k])'
  <2>1. PICK y : y = Stale[k] /\ y = loading'[k]
    BY <1>2
  <2> QED
    BY <1>2, <1>3, <2>1, StaleIsSound
<1>5. DecidedIsEarned'
  <2> SUFFICES ASSUME NEW g \in Names, InFavour(g)', NEW h, (h \in HoldersOf(Value(g), StateOf(g)))'
               PROVE  [of |-> h, fact |-> g] \in earned'
    BY DEF DecidedIsEarned
  <2>1. CASE g = f
    <3>1. verdict'[f] = v /\ corrected'[f] = IF v = "corrected" THEN value ELSE NameOf[f]
      BY <1>1 DEF MentionsInv, MentionsShape
    <3>2. v # "rejected" /\ h \in HoldersOf(IF v = "corrected" THEN value ELSE NameOf[f], StateOf(f))
      BY <2>1, <3>1 DEF InFavour, Value
    <3> QED
      BY <1>1, <2>1, <3>2
  <2>2. CASE g # f
    <3>1. verdict'[g] = verdict[g] /\ corrected'[g] = corrected[g]
      BY <1>1, <2>2 DEF MentionsInv, MentionsShape
    <3>2. InFavour(g) /\ h \in HoldersOf(Value(g), StateOf(g))
      BY <3>1 DEF InFavour, Value
    <3> QED
      BY <1>3, <3>2 DEF MentionsInv, DecidedIsEarned
  <2> QED
    BY <2>1, <2>2
<1>6. MentionsShape'
  <2>1. DOMAIN verdict' = Names /\ DOMAIN corrected' = Names /\ DOMAIN loading' = Loaders
    BY <1>1, <1>2 DEF MentionsInv, MentionsShape, Stale
  <2>2. \A m \in earned' : m = [of |-> m.of, fact |-> m.fact] /\ m.fact \in Names
    BY <1>1 DEF MentionsInv, MentionsShape
  <2> QED
    BY <1>4, <2>1, <2>2 DEF MentionsShape
<1>7. BodiesAreHeld' /\ (mentions \subseteq earned)'
  BY <1>2, <1>3 DEF MentionsInv, BodiesAreHeld
<1> QED
  BY <1>4, <1>5, <1>6, <1>7 DEF MentionsInv

\* Every step keeps the invariant.
LEMMA MentionsSteps ==
    ASSUME MentionsInv, [MentionsNext]_mentioning
    PROVE  MentionsInv'
<1>1. CASE UNCHANGED mentioning
  <2>1. UNCHANGED <<verdict, corrected, bodies, mentions, earned, loading>>
    BY <1>1 DEF mentioning
  <2>2. \A s : Wanted(s)' = Wanted(s)
    BY <2>1, WantedByDecisions
  <2>3. \A l \in Loaders : LoadIsSound(loading[l])'
    BY <2>1, <2>2 DEF MentionsInv, LoadIsSound
  <2> QED
    BY <2>1, <2>3 DEF MentionsInv, MentionsShape, DecidedIsEarned, InFavour, Value, BodiesAreHeld
<1> QED
  BY <1>1, ReadConfirmedKeeps, WaitKeeps, WriteKeeps, WithdrawKeeps, CommitMentionsKeeps,
     AbandonKeeps, DecideNameKeeps DEF MentionsNext

\* What a load takes and leaves when it commits.
LEMMA CommitAgrees == MentionsInv => LoadsAgree
<1> SUFFICES ASSUME MentionsInv, NEW l \in Loaders, CommitMentions(l)
             PROVE  /\ loading[l].fresh =>
                         {m \in mentions' : InScope(m.fact, loading[l].scope)} = Wanted(loading[l].scope)
                    /\ \A m \in mentions \ mentions' : InScope(m.fact, loading[l].scope)
  BY DEF LoadsAgree
<1> DEFINE x == loading[l]
<1>1. x.stage = "withdrawn" /\ mentions' = (mentions \cup x.added) \ x.dropped /\ LoadIsSound(x)
  BY DEF CommitMentions, MentionsInv
<1> QED
  BY <1>1 DEF LoadIsSound

\* MentionsAgree: what readers are shown was earned by a decision, and a load that
\* nobody decides beside leaves exactly what the decisions say.
THEOREM MentionsAgreeWithDecisions == MentionsSpec => MentionsAgree
<1>1. MentionsSpec => []MentionsInv
  BY MentionsStart, MentionsSteps, PTL DEF MentionsSpec
<1> QED
  BY <1>1, MentionsInvImplies, CommitAgrees, PTL DEF MentionsAgree, MentionsSpec

-----------------------------------------------------------------------------
(***************************************************************************)
(* AdminUnits.  Every unit is the directory's or its relation's, and lies  *)
(* in the smallest shape around it; what a load stores keeps its place.    *)
(***************************************************************************)

Codes == StateCodes \cup TagCodes \cup {NoTag}

UnitOf ==
    [lgd : Codes, level : Levels, relation : Relations \cup {NoTag}, parent : Nat,
     namedBy : {"directory", "map"}, shape : BOOLEAN]

\* What the map answers for a place lists no states or countries but those of a
\* country, or the place itself.
AnswersLieWithin ==
    \A r \in Relations : \A answer \in Answers[r] : \A n \in DOMAIN answer :
        IsAccepted(answer[n]) /\ answer[n] # r /\ DepthOf[TaggedLevel[answer[n]]] <= 1
        => TaggedLevel[r] \in Levels /\ DepthOf[TaggedLevel[r]] < DepthOf[TaggedLevel[answer[n]]]

\* A code of another register is not the code of a place that is held.
ForeignCodesNameNothing ==
    \A r \in Relations : RefOf[r] # NoTag /\ RefOf[r].kind # TaggedLevel[r] =>
        /\ RefOf[r].kind = "state" => RefOf[r].code \notin StateCodes
        /\ \A q \in Relations : TaggedLevel[q] = RefOf[r].kind => CodeKept(q) # RefOf[r].code

\* A unit the map named or drew is its relation's; the others are the
\* directory's states, filed under nothing.
IsFiled(t, i) ==
    /\ t[i].shape <=> t[i].relation # NoTag
    /\ t[i].relation # NoTag =>
         t[i].level = TaggedLevel[t[i].relation] /\ t[i].lgd = CodeKept(t[i].relation)
    /\ t[i].relation = NoTag =>
         t[i].level = "state" /\ t[i].lgd \in StateCodes /\ t[i].parent = NoUnit
    /\ t[i].parent \in {NoUnit} \cup DOMAIN t
    /\ DepthOf[t[i].level] <= 1 /\ t[i].parent # NoUnit =>
         DepthOf[t[t[i].parent].level] < DepthOf[t[i].level]

TableInv(t) == t \in Seq(UnitOf) /\ IsLawful(t) /\ \A i \in DOMAIN t : IsFiled(t, i)

\* A unit lies in the smallest shape around it, if there is any.
IsSettled(t) == \A i \in DOMAIN t : Holders(t, i) # {} => t[i].parent \in Holders(t, i)

UnitsInv ==
    /\ TableInv(unit) /\ IsSettled(unit)
    /\ DOMAIN walk = Mappers
    /\ \A o \in Mappers : \A target \in walk[o] :
         /\ target[2] \in Relations
         /\ target[1] \in DOMAIN unit /\ unit[target[1]].relation = target[2]

-----------------------------------------------------------------------------

LEMMA Depths ==
    /\ \A l \in Levels : DepthOf[l] \in Nat
    /\ DepthOf["state"] = 1 /\ "state" \in Levels
BY DEF DepthOf, Levels

\* A relation that is read has a level, and a code that is kept is its tag's.
LEMMA TagsAre ==
    ASSUME NEW r \in Relations
    PROVE  /\ r # NoTag
           /\ IsAccepted(r) => TaggedLevel[r] \in Levels
           /\ CodeKept(r) \in Codes
           /\ CodeKept(r) # NoTag => RefOf[r] = [kind |-> TaggedLevel[r], code |-> CodeKept(r)]
           /\ RefOf[r] # NoTag =>
                /\ RefOf[r] = [kind |-> RefOf[r].kind, code |-> RefOf[r].code]
                /\ RefOf[r].code # NoTag
                /\ RefOf[r].kind = TaggedLevel[r] => CodeKept(r) = RefOf[r].code
<1>1. r # NoTag /\ TaggedLevel[r] \in Levels \cup {NoTag}
  BY AnswersAreRelations
<1>2. RefOf[r] # NoTag =>
        /\ RefOf[r].code \in TagCodes /\ RefOf[r].code # NoTag
        /\ RefOf[r] = [kind |-> RefOf[r].kind, code |-> RefOf[r].code]
  BY AnswersAreRelations DEF TagCodes
<1> QED
  BY <1>1, <1>2 DEF IsAccepted, CodeKept, KindMatches, Codes

\* What may be said of a unit when another is filed: it keeps its place.
KeepsPlace(t, s) ==
    /\ DOMAIN t \subseteq DOMAIN s
    /\ \A i \in DOMAIN t :
         /\ s[i].level = t[i].level /\ s[i].lgd = t[i].lgd
         /\ t[i].relation # NoTag => s[i].relation = t[i].relation

\* What storing a relation leaves of a unit.
IsStored(t, s, r, parent, i) ==
    /\ s[i].level = t[i].level /\ s[i].lgd = t[i].lgd
    /\ \/ s[i].relation = t[i].relation
       \/ /\ t[i].relation = NoTag /\ s[i].relation = r
          /\ t[i].lgd = CodeKept(r) /\ t[i].level = TaggedLevel[r]
    /\ s[i].parent = IF s[i].relation = r /\ parent # NoUnit THEN parent ELSE t[i].parent
    /\ s[i].shape <=> t[i].shape \/ s[i].relation = r

IsNew(s, r, parent, i) ==
    /\ s[i].level = TaggedLevel[r] /\ s[i].lgd = CodeKept(r)
    /\ s[i].relation = r /\ s[i].parent = parent /\ s[i].shape

UnitFields == {"lgd", "level", "relation", "parent", "namedBy", "shape"}

LEMMA StoredIs ==
    ASSUME NEW t, TableInv(t), NEW r \in Relations, IsAccepted(r),
           NEW parent \in {NoUnit} \cup DOMAIN t, StoreUnit(t, r, parent) # t
    PROVE  LET s == StoreUnit(t, r, parent)
           IN  /\ s \in Seq(UnitOf) /\ IsLawful(s) /\ DOMAIN t \subseteq DOMAIN s
               /\ \A i \in DOMAIN t : IsStored(t, s, r, parent, i)
               /\ \A i \in DOMAIN s \ DOMAIN t : IsNew(s, r, parent, i)
<1>1. PICK c : c = ClaimDirectoryUnit(t, r)
  OBVIOUS
<1>2. PICK u : u = Upserted(c, r, parent)
  OBVIOUS
<1>3. PICK s : s = Drawn(u, r)
  OBVIOUS
<1>4. StoreUnit(t, r, parent) = s /\ IsLawful(c) /\ IsLawful(s)
  BY <1>1, <1>2, <1>3 DEF StoreUnit
<1>5. /\ t \in Seq(UnitOf) /\ DOMAIN t = 1..Len(t) /\ Len(t) \in Nat
      /\ \A i \in DOMAIN t : IsFiled(t, i) /\ t[i] \in UnitOf
  BY DEF TableInv
<1>6. /\ r # NoTag /\ TaggedLevel[r] \in Levels /\ CodeKept(r) \in Codes
      /\ parent \in Nat /\ parent \in 0..Len(t)
  <2>1. parent \in Nat /\ parent \in 0..Len(t)
    BY <1>5 DEF NoUnit
  <2> QED
    BY <2>1, TagsAre
<1> DEFINE claimed(i) == /\ CodeKept(r) # NoTag /\ t[i].relation = NoTag
                         /\ t[i].lgd = CodeKept(r) /\ t[i].level = TaggedLevel[r]
<1>7. /\ DOMAIN c = DOMAIN t
      /\ \A i \in DOMAIN t :
           /\ c[i].lgd = t[i].lgd /\ c[i].level = t[i].level /\ c[i].parent = t[i].parent
           /\ c[i].shape = t[i].shape /\ c[i] \in UnitOf
           /\ c[i].relation = IF claimed(i) THEN r ELSE t[i].relation
  <2>1. /\ DOMAIN c = DOMAIN t
        /\ \A i \in DOMAIN t : c[i] = IF claimed(i) THEN [t[i] EXCEPT !.relation = r] ELSE t[i]
    BY <1>1 DEF ClaimDirectoryUnit
  <2> SUFFICES ASSUME NEW i \in DOMAIN t
               PROVE  /\ c[i].lgd = t[i].lgd /\ c[i].level = t[i].level /\ c[i].parent = t[i].parent
                      /\ c[i].shape = t[i].shape /\ c[i] \in UnitOf
                      /\ c[i].relation = IF claimed(i) THEN r ELSE t[i].relation
    BY <2>1
  <2>2. t[i] \in UnitOf
    BY <1>5
  <2>3. CASE claimed(i)
    <3>1. c[i] = [t[i] EXCEPT !.relation = r]
      BY <2>1, <2>3
    <3> HIDE DEF claimed
    <3> QED
      BY <2>2, <2>3, <3>1 DEF UnitOf
  <2>4. CASE ~claimed(i)
    <3>1. c[i] = t[i]
      BY <2>1, <2>4
    <3> HIDE DEF claimed
    <3> QED
      BY <2>2, <2>4, <3>1
  <2> QED
    BY <2>3, <2>4
<1>8. c \in Seq(UnitOf) /\ Len(c) = Len(t)
  <2>1. c = [i \in 1..Len(t) |-> c[i]]
    <3>1. c = [i \in DOMAIN t |-> c[i]]
      BY <1>1, <1>7 DEF ClaimDirectoryUnit
    <3> QED
      BY <3>1, <1>5
  <2>2. \A i \in 1..Len(t) : c[i] \in UnitOf
    BY <1>5, <1>7
  <2> QED
    BY <1>5, <2>1, <2>2
<1> HIDE DEF claimed
<1>9. CASE RowOf(c, r) = {}
  <2>1. PICK new : new = [lgd |-> CodeKept(r), level |-> TaggedLevel[r], relation |-> r,
                          parent |-> parent, namedBy |-> "map", shape |-> FALSE]
    OBVIOUS
  <2>2. new \in UnitOf
    BY <1>6, <2>1 DEF UnitOf
  <2>3. u = Append(c, new)
    BY <1>2, <1>9, <2>1 DEF Upserted
  <2>4. /\ u \in Seq(UnitOf) /\ DOMAIN u = 1..(Len(t) + 1) /\ u[Len(t) + 1] = new
        /\ \A i \in DOMAIN t : u[i] = c[i]
    BY <1>5, <1>8, <2>2, <2>3
  <2>5. /\ DOMAIN s = DOMAIN u
        /\ \A i \in DOMAIN u : s[i] = [u[i] EXCEPT !.shape = u[i].shape \/ u[i].relation = r]
    BY <1>3 DEF Drawn
  <2>6. \A i \in DOMAIN u : s[i] \in UnitOf /\ \A g \in UnitFields \ {"shape"} : s[i][g] = u[i][g]
    <3> SUFFICES ASSUME NEW i \in DOMAIN u
                 PROVE  s[i] \in UnitOf /\ \A g \in UnitFields \ {"shape"} : s[i][g] = u[i][g]
      OBVIOUS
    <3>1. u[i] \in UnitOf /\ s[i] = [u[i] EXCEPT !.shape = u[i].shape \/ u[i].relation = r]
      BY <2>4, <2>5
    <3> QED
      BY <3>1 DEF UnitOf, UnitFields
  <2>7. s \in Seq(UnitOf)
    <3>1. s = [i \in 1..(Len(t) + 1) |-> s[i]]
      <4>1. s = [i \in DOMAIN u |-> s[i]]
        BY <1>3, <2>5 DEF Drawn
      <4> QED
        BY <2>4, <4>1
    <3>2. \A i \in 1..(Len(t) + 1) : s[i] \in UnitOf
      BY <2>4, <2>6
    <3> QED
      BY <1>5, <3>1, <3>2
  <2>8. \A i \in DOMAIN u : s[i].shape <=> u[i].shape \/ u[i].relation = r
    <3> SUFFICES ASSUME NEW i \in DOMAIN u
                 PROVE  s[i].shape <=> u[i].shape \/ u[i].relation = r
      OBVIOUS
    <3>1. u[i] \in UnitOf /\ s[i] = [u[i] EXCEPT !.shape = u[i].shape \/ u[i].relation = r]
      BY <2>4, <2>5
    <3> QED
      BY <3>1 DEF UnitOf
  <2>9. ASSUME NEW i \in DOMAIN t
        PROVE  IsStored(t, s, r, parent, i)
    <3>1. i \in DOMAIN u /\ u[i] = c[i] /\ c[i].relation # r
      BY <1>5, <1>7, <1>9, <2>4 DEF RowOf
    <3>2. s[i].relation = t[i].relation /\ s[i].relation # r
      BY <1>7, <2>6, <3>1 DEF UnitFields
    <3>3. s[i].level = t[i].level /\ s[i].lgd = t[i].lgd /\ s[i].parent = t[i].parent
      BY <1>7, <2>6, <3>1 DEF UnitFields
    <3>4. s[i].shape <=> t[i].shape
      BY <1>7, <2>8, <3>1
    <3> QED
      BY <3>2, <3>3, <3>4 DEF IsStored
  <2>10. ASSUME NEW i \in DOMAIN s \ DOMAIN t
         PROVE  IsNew(s, r, parent, i)
    <3>1. i = Len(t) + 1 /\ i \in DOMAIN u /\ u[i] = new
      BY <1>5, <2>4, <2>5
    <3> QED
      BY <2>1, <2>6, <2>8, <3>1 DEF UnitFields, IsNew
  <2>11. DOMAIN t \subseteq DOMAIN s
    BY <1>5, <2>4, <2>5
  <2> QED
    BY <1>4, <2>7, <2>9, <2>10, <2>11
<1>10. CASE RowOf(c, r) # {}
  <2>1. /\ DOMAIN u = DOMAIN c
        /\ \A i \in DOMAIN c :
             u[i] = IF c[i].relation # r THEN c[i]
                    ELSE [c[i] EXCEPT !.lgd = IF c[i].lgd = NoTag THEN CodeKept(r) ELSE c[i].lgd,
                                      !.parent = IF parent # NoUnit THEN parent ELSE c[i].parent]
    BY <1>2, <1>10 DEF Upserted
  <2>2. /\ DOMAIN s = DOMAIN u
        /\ \A i \in DOMAIN u : s[i] = [u[i] EXCEPT !.shape = u[i].shape \/ u[i].relation = r]
    BY <1>3 DEF Drawn
  <2>3. \A i \in DOMAIN t : s[i] \in UnitOf /\ IsStored(t, s, r, parent, i)
    <3> SUFFICES ASSUME NEW i \in DOMAIN t
                 PROVE  s[i] \in UnitOf /\ IsStored(t, s, r, parent, i)
      OBVIOUS
    <3>1. c[i] \in UnitOf /\ t[i] \in UnitOf /\ i \in DOMAIN c /\ IsFiled(t, i)
      BY <1>5, <1>7
    <3>2. PICK d : d = u[i]
      OBVIOUS
    <3>3. PICK lgd \in Codes : lgd = IF c[i].relation = r /\ c[i].lgd = NoTag THEN CodeKept(r) ELSE c[i].lgd
      BY <1>6, <3>1 DEF UnitOf
    <3>4. PICK above \in Nat : above = IF c[i].relation = r /\ parent # NoUnit THEN parent ELSE c[i].parent
      BY <1>6, <3>1 DEF UnitOf
    <3>5. /\ d \in UnitOf /\ d.lgd = lgd /\ d.parent = above /\ d.level = c[i].level
          /\ d.relation = c[i].relation /\ d.shape = c[i].shape
      <4>1. CASE c[i].relation = r
        <5>1. d = [c[i] EXCEPT !.lgd = lgd, !.parent = above]
          BY <2>1, <3>1, <3>2, <3>3, <3>4, <4>1
        <5> QED
          BY <3>1, <5>1 DEF UnitOf
      <4>2. CASE c[i].relation # r
        <5>1. d = c[i]
          BY <2>1, <3>1, <3>2, <4>2
        <5> QED
          BY <3>1, <3>3, <3>4, <4>2, <5>1
      <4> QED
        BY <4>1, <4>2
    <3>6. s[i] = [d EXCEPT !.shape = d.shape \/ d.relation = r]
      BY <2>1, <2>2, <3>1, <3>2
    <3>7. /\ s[i] \in UnitOf /\ s[i].lgd = d.lgd /\ s[i].parent = d.parent /\ s[i].level = d.level
          /\ s[i].relation = d.relation
      BY <3>5, <3>6 DEF UnitOf
    <3>8. s[i].shape <=> d.shape \/ d.relation = r
      BY <3>5, <3>6 DEF UnitOf
    <3>9. c[i].relation = r => c[i].lgd = CodeKept(r)
      <4>1. CASE claimed(i)
        BY <1>7, <4>1 DEF claimed
      <4>2. CASE ~claimed(i)
        BY <1>6, <1>7, <3>1, <4>2 DEF IsFiled
      <4> QED
        BY <4>1, <4>2
    <3>10. s[i].lgd = t[i].lgd /\ s[i].level = t[i].level
      BY <1>7, <3>3, <3>5, <3>7, <3>9
    <3>11. \/ s[i].relation = t[i].relation
           \/ /\ t[i].relation = NoTag /\ s[i].relation = r
              /\ t[i].lgd = CodeKept(r) /\ t[i].level = TaggedLevel[r]
      BY <1>7, <3>5, <3>7 DEF claimed
    <3>12. s[i].parent = IF s[i].relation = r /\ parent # NoUnit THEN parent ELSE t[i].parent
      BY <1>7, <3>4, <3>5, <3>7
    <3>13. s[i].shape <=> t[i].shape \/ s[i].relation = r
      BY <1>7, <3>5, <3>7, <3>8
    <3> QED
      BY <3>7, <3>10, <3>11, <3>12, <3>13 DEF IsStored
  <2>4. s \in Seq(UnitOf)
    <3>1. s = [i \in 1..Len(t) |-> s[i]]
      <4>1. s = [i \in DOMAIN u |-> s[i]]
        BY <1>3, <2>2 DEF Drawn
      <4>2. DOMAIN u = 1..Len(t)
        BY <1>5, <1>7, <2>1
      <4> QED
        BY <4>1, <4>2
    <3>2. \A i \in 1..Len(t) : s[i] \in UnitOf
      BY <1>5, <2>3
    <3> QED
      BY <1>5, <3>1, <3>2
  <2>5. DOMAIN s = DOMAIN t
    BY <1>7, <2>1, <2>2
  <2> QED
    BY <1>4, <2>3, <2>4, <2>5
<1> QED
  BY <1>9, <1>10

\* The unit that an operator says the asked place is.
IsAsked(t, parent, r) ==
    \/ parent = NoUnit
    \/ /\ parent \in DOMAIN t /\ t[parent].level = TaggedLevel[r]
       /\ \/ t[parent].relation = r
          \/ t[parent].lgd = CodeKept(r) /\ t[parent].lgd # NoTag

LEMMA StoreUnitKeeps ==
    ASSUME NEW t, TableInv(t), NEW asked \in Relations, NEW parent, IsAsked(t, parent, asked),
           NEW r \in Relations, IsAccepted(r),
           r # asked /\ DepthOf[TaggedLevel[r]] <= 1 =>
              DepthOf[TaggedLevel[asked]] < DepthOf[TaggedLevel[r]]
    PROVE  LET s == StoreUnit(t, r, parent)
           IN  TableInv(s) /\ KeepsPlace(t, s) /\ IsAsked(s, parent, asked)
<1>1. PICK s : s = StoreUnit(t, r, parent)
  OBVIOUS
<1>2. CASE s = t
  BY <1>1, <1>2 DEF KeepsPlace
<1>3. CASE s # t
  <2>1. parent \in {NoUnit} \cup DOMAIN t
    BY DEF IsAsked
  <2>2. /\ s \in Seq(UnitOf) /\ IsLawful(s) /\ DOMAIN t \subseteq DOMAIN s
        /\ \A i \in DOMAIN t : IsStored(t, s, r, parent, i)
        /\ \A i \in DOMAIN s \ DOMAIN t : IsNew(s, r, parent, i)
    BY <1>1, <1>3, <2>1, StoredIs
  <2>3. /\ \A i \in DOMAIN t : IsFiled(t, i) /\ t[i] \in UnitOf
        /\ r # NoTag /\ asked # NoTag /\ NoUnit \notin DOMAIN t
    <3>1. t \in Seq(UnitOf) /\ \A i \in DOMAIN t : IsFiled(t, i)
      BY DEF TableInv
    <3>2. DOMAIN t = 1..Len(t) /\ \A i \in DOMAIN t : t[i] \in UnitOf
      BY <3>1
    <3>3. NoUnit \notin DOMAIN t
      BY <3>1, <3>2 DEF NoUnit
    <3>4. r # NoTag /\ asked # NoTag
      BY TagsAre
    <3> QED
      BY <3>1, <3>2, <3>3, <3>4
  <2>4. KeepsPlace(t, s)
    <3>1. \A i \in DOMAIN t : /\ s[i].level = t[i].level /\ s[i].lgd = t[i].lgd
                              /\ t[i].relation # NoTag => s[i].relation = t[i].relation
      BY <2>2 DEF IsStored
    <3> QED
      BY <2>2, <3>1 DEF KeepsPlace
  <2>5. IsAsked(s, parent, asked)
    BY <2>3, <2>4 DEF IsAsked, KeepsPlace
  <2>6. ASSUME NEW i \in DOMAIN s, s[i].relation = r, s[i].parent = parent, parent # NoUnit,
               s[i].lgd = CodeKept(r), s[i].level = TaggedLevel[r]
        PROVE  /\ parent \in DOMAIN s
               /\ DepthOf[s[i].level] <= 1 => DepthOf[s[parent].level] < DepthOf[s[i].level]
    <3>1. parent \in DOMAIN s /\ s[parent].level = TaggedLevel[asked]
      BY <2>5, <2>6 DEF IsAsked
    <3>2. r # asked
      <4> SUFFICES ASSUME r = asked
                   PROVE  FALSE
        OBVIOUS
      <4>1. parent # i
        BY <2>2, <2>6 DEF IsLawful
      <4>2. s[parent].relation # r
        BY <2>2, <2>3, <2>6, <3>1, <4>1 DEF IsLawful
      <4>3. s[parent].lgd = s[i].lgd /\ s[parent].lgd # NoTag /\ s[parent].level = s[i].level
        BY <2>5, <2>6, <3>1, <4>2 DEF IsAsked
      <4> QED
        BY <2>2, <2>6, <3>1, <4>1, <4>3 DEF IsLawful
    <3> QED
      BY <2>6, <3>1, <3>2
  <2>7. ASSUME NEW i \in DOMAIN t
        PROVE  IsFiled(s, i)
    <3>1. IsStored(t, s, r, parent, i) /\ IsFiled(t, i) /\ i \in DOMAIN s
      BY <2>2, <2>3
    <3>2. s[i].shape <=> s[i].relation # NoTag
      BY <2>3, <3>1 DEF IsStored, IsFiled
    <3>3. s[i].relation # NoTag =>
            s[i].level = TaggedLevel[s[i].relation] /\ s[i].lgd = CodeKept(s[i].relation)
      BY <2>3, <3>1 DEF IsStored, IsFiled
    <3>4. s[i].relation = NoTag =>
            s[i].level = "state" /\ s[i].lgd \in StateCodes /\ s[i].parent = NoUnit
      BY <2>3, <3>1 DEF IsStored, IsFiled
    <3>5. /\ s[i].parent \in {NoUnit} \cup DOMAIN s
          /\ DepthOf[s[i].level] <= 1 /\ s[i].parent # NoUnit =>
               DepthOf[s[s[i].parent].level] < DepthOf[s[i].level]
      <4>1. CASE s[i].relation = r /\ parent # NoUnit
        <5>1. s[i].parent = parent /\ s[i].lgd = CodeKept(r) /\ s[i].level = TaggedLevel[r]
          BY <2>3, <3>1, <3>3, <4>1 DEF IsStored
        <5> QED
          BY <2>6, <3>1, <4>1, <5>1
      <4>2. CASE ~(s[i].relation = r /\ parent # NoUnit)
        <5>1. s[i].parent = t[i].parent /\ s[i].level = t[i].level
          BY <3>1, <4>2 DEF IsStored
        <5>2. t[i].parent \in {NoUnit} \cup DOMAIN t
          BY <3>1 DEF IsFiled
        <5>3. t[i].parent # NoUnit => s[t[i].parent].level = t[t[i].parent].level
          BY <2>4, <5>2 DEF KeepsPlace
        <5> QED
          BY <2>2, <3>1, <5>1, <5>2, <5>3 DEF IsFiled
      <4> QED
        BY <4>1, <4>2
    <3> QED
      BY <3>2, <3>3, <3>4, <3>5 DEF IsFiled
  <2>8. ASSUME NEW i \in DOMAIN s \ DOMAIN t
        PROVE  IsFiled(s, i)
    <3>1. /\ s[i].level = TaggedLevel[r] /\ s[i].lgd = CodeKept(r)
          /\ s[i].relation = r /\ s[i].parent = parent /\ s[i].shape
      BY <2>2 DEF IsNew
    <3>2. CASE parent = NoUnit
      BY <2>3, <3>1, <3>2 DEF IsFiled
    <3>3. CASE parent # NoUnit
      BY <2>3, <2>6, <3>1, <3>3 DEF IsFiled
    <3> QED
      BY <3>2, <3>3
  <2>9. TableInv(s)
    BY <2>2, <2>7, <2>8 DEF TableInv
  <2> QED
    BY <1>1, <2>4, <2>5, <2>9
<1> QED
  BY <1>2, <1>3

\* Filing every unit in the smallest shape around it settles the table.
LEMMA AssignParentsSettles ==
    ASSUME NEW t, TableInv(t)
    PROVE  LET s == AssignParents(t)
           IN  TableInv(s) /\ IsSettled(s) /\ KeepsPlace(t, s) /\ DOMAIN s = DOMAIN t
<1>1. PICK s : s = AssignParents(t)
  OBVIOUS
<1>2. /\ t \in Seq(UnitOf) /\ DOMAIN t = 1..Len(t) /\ Len(t) \in Nat
      /\ \A i \in DOMAIN t : IsFiled(t, i) /\ t[i] \in UnitOf
  BY DEF TableInv
<1>3. DOMAIN s = DOMAIN t
  BY <1>1 DEF AssignParents
<1>4. ASSUME NEW c \in DOMAIN t, Holders(t, c) # {}
      PROVE  /\ s[c] \in UnitOf /\ s[c].parent \in Holders(t, c)
             /\ \A g \in UnitFields \ {"parent"} : s[c][g] = t[c][g]
  <2> DEFINE H == Holders(t, c)
             areas == {AreaOf[t[p].relation] : p \in H}
  <2>1. \A p \in H : p \in DOMAIN t /\ AreaOf[t[p].relation] \in Nat
    <3>1. \A p \in H : p \in DOMAIN t /\ t[p].relation \in Relations
      BY <1>2 DEF Holders, IsFiled, UnitOf
    <3> QED
      BY <3>1, AnswersAreRelations
  <2>2. PICK n \in areas : \A k \in areas : n <= k
    <3>1. areas \subseteq Nat /\ areas # {}
      BY <1>4, <2>1
    <3> HIDE DEF areas
    <3> QED
      BY <3>1, LeastOf
  <2>3. \E p \in H : \A q \in H : AreaOf[t[p].relation] <= AreaOf[t[q].relation]
    BY <2>2
  <2>4. PICK p \in H : s[c] = [t[c] EXCEPT !.parent = p]
    <3>1. s[c] = [t[c] EXCEPT !.parent =
             CHOOSE p \in H : \A q \in H : AreaOf[t[p].relation] <= AreaOf[t[q].relation]]
      BY <1>1, <1>4 DEF AssignParents
    <3> HIDE DEF H
    <3> QED
      BY <2>3, <3>1
  <2>5. t[c] \in UnitOf /\ p \in Nat /\ p \in Holders(t, c)
    BY <1>2, <2>1
  <2> QED
    BY <2>4, <2>5 DEF UnitOf, UnitFields
<1>5. ASSUME NEW c \in DOMAIN t, Holders(t, c) = {}
      PROVE  s[c] = t[c]
  BY <1>1, <1>5 DEF AssignParents
<1>6. \A c \in DOMAIN t : /\ s[c] \in UnitOf
                          /\ s[c].level = t[c].level /\ s[c].lgd = t[c].lgd
                          /\ s[c].relation = t[c].relation /\ s[c].shape = t[c].shape
  <2>1. UnitFields \ {"parent"} = {"lgd", "level", "relation", "namedBy", "shape"}
    BY DEF UnitFields
  <2> QED
    BY <1>2, <1>4, <1>5, <2>1
<1>7. \A c \in DOMAIN t : Holders(s, c) = Holders(t, c)
  BY <1>3, <1>6 DEF Holders
<1>8. IsSettled(s)
  BY <1>3, <1>4, <1>7 DEF IsSettled
<1>9. KeepsPlace(t, s)
  BY <1>3, <1>6 DEF KeepsPlace
<1>10. \A c \in DOMAIN t : \/ Holders(t, c) = {} /\ s[c].parent = t[c].parent
                           \/ /\ s[c].parent \in DOMAIN t /\ s[c].parent # c /\ t[c].shape
                              /\ DepthOf[t[s[c].parent].level] < DepthOf[t[c].level]
  BY <1>4, <1>5 DEF Holders
<1>11. \A c \in DOMAIN s : IsFiled(s, c)
  <2> SUFFICES ASSUME NEW c \in DOMAIN t
               PROVE  IsFiled(s, c)
    BY <1>3
  <2>1. IsFiled(t, c) /\ NoUnit \notin DOMAIN t
    BY <1>2 DEF NoUnit
  <2>2. CASE s[c].parent = t[c].parent
    BY <1>3, <1>6, <2>1, <2>2 DEF IsFiled
  <2>3. CASE /\ s[c].parent \in DOMAIN t /\ t[c].shape
             /\ DepthOf[t[s[c].parent].level] < DepthOf[t[c].level]
    BY <1>3, <1>6, <2>1, <2>3 DEF IsFiled
  <2> QED
    BY <1>10, <2>2, <2>3
<1>12. IsLawful(s)
  <2>1. IsLawful(t)
    BY DEF TableInv
  <2>2. \A c \in DOMAIN s : s[c].parent # c
    BY <1>3, <1>10, <2>1 DEF IsLawful
  <2> QED
    BY <1>3, <1>6, <2>1, <2>2 DEF IsLawful
<1>13. s \in Seq(UnitOf)
  <2>1. s = [i \in 1..Len(t) |-> s[i]]
    <3>1. s = [i \in DOMAIN t |-> s[i]]
      BY <1>1, <1>3 DEF AssignParents
    <3> QED
      BY <1>2, <3>1
  <2>2. \A i \in 1..Len(t) : s[i] \in UnitOf
    BY <1>2, <1>6
  <2> QED
    BY <1>2, <2>1, <2>2
<1> QED
  BY <1>1, <1>3, <1>8, <1>9, <1>11, <1>12, <1>13 DEF TableInv

\* A load that read anything leaves the table settled.
LEMMA LoadBoundariesKeeps ==
    ASSUME UnitsInv, AnswersLieWithin, NEW asked \in Relations, NEW parent, IsAsked(unit, parent, asked),
           NEW answer \in Answers[asked], NEW read \in SUBSET ParseRelations(answer)
    PROVE  LET s == LoadBoundaries(answer, read, parent)
           IN  TableInv(s) /\ IsSettled(s) /\ KeepsPlace(unit, s)
<1> DEFINE N == Len(answer)
           Good(t) == TableInv(t) /\ KeepsPlace(unit, t) /\ IsAsked(t, parent, asked)
           Next1(t, r) == IF r \in read THEN StoreUnit(t, r, parent) ELSE t
           Equation(g) == g = [n \in 0..N |->
                                 IF n = 0 THEN unit
                                 ELSE IF answer[n] \in read
                                      THEN StoreUnit(g[n - 1], answer[n], parent)
                                 ELSE g[n - 1]]
           loaded == CHOOSE g : Equation(g)
           Tables == {t \in Seq(UnitOf) : Good(t)}
<1>1. answer \in Seq(Relations) /\ N \in Nat /\ \A n \in 1..N : answer[n] \in Relations
  BY AnswersAreRelations
<1>2. unit \in Tables
  <2>1. TableInv(unit) /\ KeepsPlace(unit, unit)
    BY DEF UnitsInv, KeepsPlace
  <2>2. unit \in Seq(UnitOf)
    BY <2>1 DEF TableInv
  <2> QED
    BY <2>1, <2>2
<1>3. ASSUME NEW t \in Tables, NEW n \in 1..N
      PROVE  Next1(t, answer[n]) \in Tables
  <2>1. CASE answer[n] \notin read
    BY <2>1
  <2>2. CASE answer[n] \in read
    <3>1. PICK r \in Relations : r = answer[n]
      BY <1>1
    <3>2. IsAccepted(r) /\ n \in DOMAIN answer
      BY <1>1, <2>2, <3>1 DEF ParseRelations
    <3>3. r # asked /\ DepthOf[TaggedLevel[r]] <= 1 =>
             DepthOf[TaggedLevel[asked]] < DepthOf[TaggedLevel[r]]
      BY <3>1, <3>2 DEF AnswersLieWithin
    <3>4. TableInv(t) /\ KeepsPlace(unit, t) /\ IsAsked(t, parent, asked)
      OBVIOUS
    <3>5. PICK s : s = StoreUnit(t, r, parent)
      OBVIOUS
    <3>6. TableInv(s) /\ KeepsPlace(t, s) /\ IsAsked(s, parent, asked)
      BY <3>2, <3>3, <3>4, <3>5, StoreUnitKeeps
    <3>7. KeepsPlace(unit, s)
      BY <3>4, <3>6 DEF KeepsPlace
    <3>8. s \in Tables
      BY <3>6, <3>7 DEF TableInv
    <3> QED
      BY <2>2, <3>1, <3>5, <3>8
  <2> QED
    BY <2>1, <2>2
<1> HIDE DEF Good, Tables
<1>4. \E g : Equation(g)
  <2> DEFINE step == [n \in 1..N |-> [t \in Tables |-> Next1(t, answer[n])]]
  <2>1. step \in [1..N -> [Tables -> Tables]]
    BY <1>3
  <2>2. PICK h : IsListOf(h, Tables, unit, N, step)
    <3>1. N \in Nat
      BY <1>1
    <3> HIDE DEF step, N
    <3> QED
      BY <1>2, <2>1, <3>1, StepsExist
  <2>3. h \in [0..N -> Tables] /\ h[0] = unit /\ \A n \in 1..N : h[n] = step[n][h[n - 1]]
    BY <2>2 DEF IsListOf
  <2>4. \A n \in 1..N : h[n] = Next1(h[n - 1], answer[n])
    <3> SUFFICES ASSUME NEW n \in 1..N
                 PROVE  h[n] = Next1(h[n - 1], answer[n])
      OBVIOUS
    <3>1. n - 1 \in 0..N /\ h[n - 1] \in Tables
      BY <1>1, <2>3
    <3>2. step[n] = [t \in Tables |-> Next1(t, answer[n])]
      OBVIOUS
    <3> HIDE DEF step, Next1
    <3> QED
      BY <2>3, <3>1, <3>2
  <2> HIDE DEF step
  <2>5. \A n \in 0..N : h[n] = IF n = 0 THEN unit
                               ELSE IF answer[n] \in read
                                    THEN StoreUnit(h[n - 1], answer[n], parent)
                               ELSE h[n - 1]
    BY <1>1, <2>3, <2>4
  <2>6. Equation(h)
    BY <2>3, <2>5
  <2> QED
    BY <2>6
<1>5. Equation(loaded)
  BY <1>4
<1>6. loaded[0] = unit /\ \A n \in 1..N : loaded[n] = Next1(loaded[n - 1], answer[n])
  <2> HIDE DEF loaded
  <2>1. \A n \in 0..N : loaded[n] = IF n = 0 THEN unit
                                    ELSE IF answer[n] \in read
                                         THEN StoreUnit(loaded[n - 1], answer[n], parent)
                                    ELSE loaded[n - 1]
    BY <1>5
  <2> QED
    BY <1>1, <2>1
<1>7. LoadBoundaries(answer, read, parent) = AssignParents(loaded[N])
  BY DEF LoadBoundaries
<1>8. loaded[N] \in Tables
  <2> DEFINE G == {n \in 0..N : loaded[n] \in Tables}
  <2> HIDE DEF loaded, Next1
  <2>1. 0 \in G
    BY <1>1, <1>2, <1>6
  <2>2. ASSUME NEW n \in 1..N, n - 1 \in G
        PROVE  n \in G
    <3>1. loaded[n - 1] \in Tables /\ n \in 0..N
      BY <1>1, <2>2
    <3> QED
      BY <1>3, <1>6, <3>1
  <2>3. 0..N \subseteq G
    <3> HIDE DEF G, N
    <3> QED
      BY <1>1, <2>1, <2>2, StepByStep
  <2> QED
    BY <1>1, <2>3
<1> HIDE DEF loaded, Next1
<1>9. PICK t : t = loaded[N]
  OBVIOUS
<1>10. TableInv(t) /\ KeepsPlace(unit, t)
  BY <1>8, <1>9 DEF Tables, Good
<1>11. PICK s : s = AssignParents(t)
  OBVIOUS
<1>12. TableInv(s) /\ IsSettled(s) /\ KeepsPlace(t, s)
  BY <1>10, <1>11, AssignParentsSettles
<1>13. KeepsPlace(unit, s)
  BY <1>10, <1>12 DEF KeepsPlace
<1> QED
  BY <1>7, <1>9, <1>11, <1>12, <1>13

\* Whoever walks a place keeps to the units it read there.
LEMMA WalksStand ==
    ASSUME UnitsInv, TableInv(unit'), IsSettled(unit'), KeepsPlace(unit, unit'),
           DOMAIN walk' = Mappers, \A o \in Mappers : walk'[o] \subseteq walk[o]
    PROVE  UnitsInv'
<1>1. ASSUME NEW o \in Mappers, NEW target \in walk'[o]
      PROVE  /\ target[2] \in Relations
             /\ target[1] \in DOMAIN unit' /\ unit'[target[1]].relation = target[2]
  <2>1. /\ target[2] \in Relations /\ target[2] # NoTag
        /\ target[1] \in DOMAIN unit /\ unit[target[1]].relation = target[2]
    BY TagsAre DEF UnitsInv
  <2> QED
    BY <2>1 DEF KeepsPlace
<1> QED
  BY <1>1 DEF UnitsInv, TableInv, IsLawful, IsFiled, IsSettled, Holders

LEMMA IngestKeeps ==
    ASSUME UnitsInv, AnswersLieWithin, NEW r \in Relations, NEW parent, IsAsked(unit, parent, r),
           Ingest(r, parent)
    PROVE  TableInv(unit') /\ IsSettled(unit') /\ KeepsPlace(unit, unit')
<1>1. PICK answer \in Answers[r] :
        \/ unit' = unit
        \/ \E refused \in SUBSET ParseRelations(answer) :
              unit' = LoadBoundaries(answer, ParseRelations(answer) \ refused, parent)
  BY DEF Ingest
<1>2. CASE unit' = unit
  BY <1>2 DEF UnitsInv, KeepsPlace
<1>3. ASSUME NEW refused \in SUBSET ParseRelations(answer),
             unit' = LoadBoundaries(answer, ParseRelations(answer) \ refused, parent)
      PROVE  TableInv(unit') /\ IsSettled(unit') /\ KeepsPlace(unit, unit')
  <2>1. PICK read \in SUBSET ParseRelations(answer) : read = ParseRelations(answer) \ refused
    OBVIOUS
  <2> QED
    BY <1>3, <2>1, LoadBoundariesKeeps
<1> QED
  BY <1>1, <1>2, <1>3

LEMMA LoadStateKeeps ==
    ASSUME UnitsInv, NEW c \in StateCodes, LoadState(c)
    PROVE  UnitsInv'
<1>1. /\ unit \in Seq(UnitOf) /\ DOMAIN unit = 1..Len(unit) /\ Len(unit) \in Nat
      /\ \A i \in DOMAIN unit : IsFiled(unit, i) /\ unit[i] \in UnitOf
      /\ IsLawful(unit) /\ IsSettled(unit)
  BY DEF UnitsInv, TableInv
<1>2. PICK s : s = unit'
  OBVIOUS
<1>3. c # NoTag /\ c \in Codes /\ NoTag \in Relations \cup {NoTag}
  BY AnswersAreRelations DEF Codes
<1>4. CASE \E i \in DOMAIN unit : unit[i].lgd = c /\ unit[i].level = "state"
  <2>1. s = [i \in DOMAIN unit |->
               IF unit[i].lgd = c /\ unit[i].level = "state"
               THEN [unit[i] EXCEPT !.namedBy = "directory"] ELSE unit[i]]
    BY <1>2, <1>4 DEF LoadState
  <2>2. \A i \in DOMAIN unit :
          /\ s[i] \in UnitOf /\ s[i].level = unit[i].level /\ s[i].lgd = unit[i].lgd
          /\ s[i].relation = unit[i].relation /\ s[i].parent = unit[i].parent
          /\ s[i].shape = unit[i].shape
    <3> SUFFICES ASSUME NEW i \in DOMAIN unit
                 PROVE  /\ s[i] \in UnitOf /\ s[i].level = unit[i].level /\ s[i].lgd = unit[i].lgd
                        /\ s[i].relation = unit[i].relation /\ s[i].parent = unit[i].parent
                        /\ s[i].shape = unit[i].shape
      OBVIOUS
    <3>1. unit[i] \in UnitOf
      BY <1>1
    <3>2. s[i] = unit[i] \/ s[i] = [unit[i] EXCEPT !.namedBy = "directory"]
      BY <2>1
    <3> QED
      BY <3>1, <3>2 DEF UnitOf
  <2>3. DOMAIN s = DOMAIN unit
    BY <2>1
  <2>4. s \in Seq(UnitOf)
    <3>1. s = [i \in 1..Len(unit) |-> s[i]]
      <4>1. s = [i \in DOMAIN unit |-> s[i]]
        BY <2>1, <2>3
      <4> QED
        BY <1>1, <4>1
    <3>2. \A i \in 1..Len(unit) : s[i] \in UnitOf
      BY <1>1, <2>2
    <3> QED
      BY <1>1, <3>1, <3>2
  <2>5. IsLawful(s)
    BY <1>1, <2>2, <2>3 DEF IsLawful
  <2>6. \A i \in DOMAIN s : IsFiled(s, i)
    BY <1>1, <2>2, <2>3 DEF IsFiled
  <2>7. IsSettled(s)
    <3>1. \A i \in DOMAIN s : Holders(s, i) = Holders(unit, i)
      BY <2>2, <2>3 DEF Holders
    <3> QED
      BY <1>1, <2>2, <2>3, <3>1 DEF IsSettled
  <2>8. KeepsPlace(unit, s)
    BY <2>2, <2>3 DEF KeepsPlace
  <2> QED
    BY <1>2, <2>4, <2>5, <2>6, <2>7, <2>8, WalksStand DEF TableInv, LoadState, UnitsInv
<1>5. CASE ~\E i \in DOMAIN unit : unit[i].lgd = c /\ unit[i].level = "state"
  <2>1. PICK new : new = [lgd |-> c, level |-> "state", relation |-> NoTag, parent |-> NoUnit,
                          namedBy |-> "directory", shape |-> FALSE]
    OBVIOUS
  <2>2. new \in UnitOf
    BY <1>3, <2>1, Depths DEF UnitOf, NoUnit
  <2>3. s = Append(unit, new)
    BY <1>2, <1>5, <2>1 DEF LoadState
  <2>4. /\ s \in Seq(UnitOf) /\ DOMAIN s = DOMAIN unit \cup {Len(unit) + 1}
        /\ s[Len(unit) + 1] = new /\ \A i \in DOMAIN unit : s[i] = unit[i]
        /\ Len(unit) + 1 \notin DOMAIN unit /\ Len(unit) + 1 # NoUnit
    BY <1>1, <2>2, <2>3 DEF NoUnit
  <2>5. IsLawful(s)
    BY <1>1, <1>3, <1>5, <2>1, <2>4 DEF IsLawful
  <2>6. \A i \in DOMAIN s : IsFiled(s, i)
    <3>1. \A i \in DOMAIN unit : IsFiled(s, i)
      BY <1>1, <2>4 DEF IsFiled
    <3>2. IsFiled(s, Len(unit) + 1)
      BY <2>1, <2>4 DEF IsFiled
    <3> QED
      BY <2>4, <3>1, <3>2
  <2>7. IsSettled(s)
    <3>1. \A i \in DOMAIN unit : Holders(s, i) = Holders(unit, i)
      BY <2>1, <2>4 DEF Holders
    <3>2. Holders(s, Len(unit) + 1) = {}
      BY <2>1, <2>4 DEF Holders
    <3> QED
      BY <1>1, <2>4, <3>1, <3>2 DEF IsSettled
  <2>8. KeepsPlace(unit, s)
    BY <2>4 DEF KeepsPlace
  <2> QED
    BY <1>2, <2>4, <2>5, <2>6, <2>7, <2>8, WalksStand DEF TableInv, LoadState, UnitsInv
<1> QED
  BY <1>4, <1>5

LEMMA IngestOneKeeps ==
    ASSUME UnitsInv, AnswersLieWithin, NEW r \in Relations, IngestOne(r)
    PROVE  UnitsInv'
<1>1. PICK parent \in {NoUnit} \cup RowOf(unit, r) \cup
                      {i \in DOMAIN unit : unit[i].relation = NoTag /\ unit[i].lgd = CodeKept(r)
                                           /\ unit[i].level = TaggedLevel[r]} : Ingest(r, parent)
  BY DEF IngestOne
<1>2. IsAsked(unit, parent, r)
  <2>1. \A i \in DOMAIN unit : IsFiled(unit, i)
    BY DEF UnitsInv, TableInv
  <2>2. CASE parent \in RowOf(unit, r)
    BY <2>1, <2>2, TagsAre DEF RowOf, IsFiled, IsAsked
  <2>3. CASE parent \in {i \in DOMAIN unit : unit[i].relation = NoTag /\ unit[i].lgd = CodeKept(r)
                                             /\ unit[i].level = TaggedLevel[r]}
    <3>1. /\ parent \in DOMAIN unit /\ unit[parent].relation = NoTag
          /\ unit[parent].lgd = CodeKept(r) /\ unit[parent].level = TaggedLevel[r]
      BY <2>3
    <3>2. unit[parent].lgd # NoTag
      BY <2>1, <3>1, AnswersAreRelations DEF IsFiled
    <3> QED
      BY <3>1, <3>2 DEF IsAsked
  <2>4. CASE parent = NoUnit
    BY <2>4 DEF IsAsked
  <2> QED
    BY <1>1, <2>2, <2>3, <2>4
<1>3. TableInv(unit') /\ IsSettled(unit') /\ KeepsPlace(unit, unit')
  BY <1>1, <1>2, IngestKeeps
<1>4. walk' = walk
  BY DEF IngestOne
<1> QED
  BY <1>3, <1>4, WalksStand DEF UnitsInv

LEMMA StartWalkKeeps ==
    ASSUME UnitsInv, NEW o \in Mappers, NEW u, StartWalk(o, u)
    PROVE  UnitsInv'
<1>1. unit' = unit /\ DOMAIN walk = Mappers
  BY DEF StartWalk, UnitsInv
<1>2. walk' = [walk EXCEPT ![o] = {<<i, unit[i].relation>> :
                 i \in {j \in DOMAIN unit : unit[j].parent = u /\ unit[j].relation # NoTag}}]
  BY DEF StartWalk
<1>3. ASSUME NEW p \in Mappers, NEW target \in walk'[p]
      PROVE  /\ target[2] \in Relations
             /\ target[1] \in DOMAIN unit /\ unit[target[1]].relation = target[2]
  <2>1. CASE p # o
    BY <1>1, <1>2, <1>3, <2>1 DEF UnitsInv
  <2>2. CASE p = o
    <3>1. PICK i \in DOMAIN unit : target = <<i, unit[i].relation>> /\ unit[i].relation # NoTag
      BY <1>1, <1>2, <1>3, <2>2
    <3>2. unit[i] \in UnitOf
      BY <3>1 DEF UnitsInv, TableInv
    <3> QED
      BY <3>1, <3>2 DEF UnitOf
  <2> QED
    BY <2>1, <2>2
<1>4. DOMAIN walk' = Mappers
  BY <1>1, <1>2
<1>5. TableInv(unit') /\ IsSettled(unit')
  BY <1>1 DEF UnitsInv
<1> QED
  BY <1>1, <1>3, <1>4, <1>5 DEF UnitsInv, TableInv, IsLawful, IsFiled, IsSettled, Holders

LEMMA WalkOnKeeps ==
    ASSUME UnitsInv, AnswersLieWithin, NEW o \in Mappers, WalkOn(o)
    PROVE  UnitsInv'
<1>1. PICK target \in walk[o] :
        /\ walk' = [walk EXCEPT ![o] = walk[o] \ {target}]
        /\ Ingest(target[2], target[1]) \/ unit' = unit
  BY DEF WalkOn
<1>2. /\ target[2] \in Relations
      /\ target[1] \in DOMAIN unit /\ unit[target[1]].relation = target[2]
  BY DEF UnitsInv
<1>3. IsAsked(unit, target[1], target[2])
  <2>1. IsFiled(unit, target[1])
    BY <1>2 DEF UnitsInv, TableInv
  <2> QED
    BY <1>2, <2>1, TagsAre DEF IsFiled, IsAsked
<1>4. TableInv(unit') /\ IsSettled(unit') /\ KeepsPlace(unit, unit')
  <2>1. CASE unit' = unit
    BY <2>1 DEF UnitsInv, KeepsPlace
  <2>2. CASE Ingest(target[2], target[1])
    BY <1>2, <1>3, <2>2, IngestKeeps
  <2> QED
    BY <1>1, <2>1, <2>2
<1>5. DOMAIN walk' = Mappers /\ \A p \in Mappers : walk'[p] \subseteq walk[p]
  BY <1>1 DEF UnitsInv
<1> QED
  BY <1>4, <1>5, WalksStand

LEMMA UnitsStart == UnitsInit => UnitsInv
<1> SUFFICES ASSUME UnitsInit
             PROVE  UnitsInv
  OBVIOUS
<1>1. unit = <<>> /\ unit \in Seq(UnitOf) /\ DOMAIN unit = {}
  <2>1. <<>> \in Seq(UnitOf)
    OBVIOUS
  <2> QED
    BY <2>1 DEF UnitsInit
<1>2. DOMAIN walk = Mappers /\ \A o \in Mappers : walk[o] = {}
  BY DEF UnitsInit
<1> QED
  BY <1>1, <1>2 DEF UnitsInv, TableInv, IsLawful, IsSettled

LEMMA UnitsSteps == ASSUME AnswersLieWithin PROVE UnitsInv /\ [UnitsNext]_units => UnitsInv'
<1> SUFFICES ASSUME UnitsInv, [UnitsNext]_units
             PROVE  UnitsInv'
  OBVIOUS
<1>1. CASE UNCHANGED units
  <2>1. unit' = unit /\ walk' = walk
    BY <1>1 DEF units
  <2>2. TableInv(unit)'
    BY <2>1 DEF UnitsInv, TableInv, IsLawful, IsFiled
  <2>3. IsSettled(unit)'
    BY <2>1 DEF UnitsInv, IsSettled, Holders
  <2> QED
    BY <2>1, <2>2, <2>3 DEF UnitsInv
<1>2. CASE UnitsNext
  BY <1>2, LoadStateKeeps, IngestOneKeeps, StartWalkKeeps, WalkOnKeeps DEF UnitsNext
<1> QED
  BY <1>1, <1>2

LEMMA UnitsInvImplies == ASSUME UnitsInv, ForeignCodesNameNothing PROVE PlacesAreSound
<1>1. /\ \A i \in DOMAIN unit : IsFiled(unit, i) /\ unit[i] \in UnitOf
      /\ IsLawful(unit) /\ IsSettled(unit)
  BY DEF UnitsInv, TableInv
<1>2. ASSUME NEW i \in DOMAIN unit, unit[i].relation # NoTag, unit[i].lgd # NoTag
      PROVE  RefOf[unit[i].relation] = [kind |-> unit[i].level, code |-> unit[i].lgd]
  <2>1. PICK r \in Relations : r = unit[i].relation
    BY <1>1, <1>2 DEF UnitOf
  <2>2. unit[i].level = TaggedLevel[r] /\ unit[i].lgd = CodeKept(r)
    BY <1>1, <1>2, <2>1 DEF IsFiled
  <2> QED
    BY <1>2, <2>1, <2>2, TagsAre
<1>3. ASSUME NEW i \in DOMAIN unit, NEW j \in DOMAIN unit, i # j, unit[i].relation # NoTag,
             RefOf[unit[i].relation] = [kind |-> unit[j].level, code |-> unit[j].lgd]
      PROVE  FALSE
  <2>1. PICK r \in Relations : r = unit[i].relation
    BY <1>1, <1>3 DEF UnitOf
  <2>2. unit[i].level = TaggedLevel[r] /\ unit[i].lgd = CodeKept(r)
    BY <1>1, <1>3, <2>1 DEF IsFiled
  <2>3. RefOf[r] # NoTag
    <3>1. unit[j].level \in Levels /\ unit[j].lgd \in Codes
      BY <1>1 DEF UnitOf
    <3> QED
      BY <1>3, <2>1, <3>1, AnswersAreRelations DEF Codes
  <2>4. RefOf[r].kind = unit[j].level /\ RefOf[r].code = unit[j].lgd
    BY <1>3, <2>1
  <2>5. CASE RefOf[r].kind = TaggedLevel[r]
    <3>1. unit[j].level = unit[i].level /\ unit[j].lgd = unit[i].lgd /\ unit[i].lgd # NoTag
      BY <2>2, <2>3, <2>4, <2>5, TagsAre
    <3> QED
      BY <1>1, <1>3, <3>1 DEF IsLawful
  <2>6. CASE RefOf[r].kind # TaggedLevel[r]
    <3>1. CASE unit[j].relation = NoTag
      BY <1>1, <2>3, <2>4, <2>6, <3>1 DEF IsFiled, ForeignCodesNameNothing
    <3>2. CASE unit[j].relation # NoTag
      <4>1. PICK q \in Relations : q = unit[j].relation
        BY <1>1, <3>2 DEF UnitOf
      <4>2. unit[j].level = TaggedLevel[q] /\ unit[j].lgd = CodeKept(q)
        BY <1>1, <3>2, <4>1 DEF IsFiled
      <4> QED
        BY <2>3, <2>4, <2>6, <4>2 DEF ForeignCodesNameNothing
    <3> QED
      BY <3>1, <3>2
  <2> QED
    BY <2>5, <2>6
<1>4. OneUnitPerPlace
  BY <1>2, <1>3 DEF OneUnitPerPlace
<1>5. ParentsAreShallower
  <2> SUFFICES ASSUME \A i \in DOMAIN unit :
                         unit[i].shape /\ DepthOf[unit[i].level] > 1 => Holders(unit, i) # {},
                      NEW i \in DOMAIN unit, unit[i].parent # NoUnit
               PROVE  DepthOf[unit[unit[i].parent].level] < DepthOf[unit[i].level]
    BY DEF ParentsAreShallower
  <2>1. IsFiled(unit, i) /\ unit[i].shape /\ DepthOf[unit[i].level] \in Nat
    BY <1>1, Depths DEF IsFiled, UnitOf
  <2>2. CASE DepthOf[unit[i].level] <= 1
    BY <2>1, <2>2 DEF IsFiled
  <2>3. CASE DepthOf[unit[i].level] > 1
    <3>1. unit[i].parent \in Holders(unit, i)
      BY <1>1, <2>1, <2>3 DEF IsSettled
    <3> QED
      BY <3>1 DEF Holders
  <2> QED
    BY <2>1, <2>2, <2>3
<1> QED
  BY <1>4, <1>5 DEF PlacesAreSound

\* However the directory and the map came upon a place, it is one unit with the
\* identifiers of one place, and each is filed under a shallower one, so that
\* whoever walks up the parents comes to an end (lgd/load.ts, osm/load.ts): for
\* any relations, tags, shapes and answers, any number of operators and imports,
\* whichever units the database refuses and whenever a walk is broken off.  It
\* takes of the map that what it answers for a place lies within it
\* (AnswersLieWithin), and that a code of another register is no place's that
\* is held (ForeignCodesNameNothing).
THEOREM PlacesStaySound ==
    ASSUME AnswersLieWithin, ForeignCodesNameNothing
    PROVE  UnitsSpec => []PlacesAreSound
<1>1. UnitsInit => UnitsInv
  BY UnitsStart
<1>2. UnitsInv /\ [UnitsNext]_units => UnitsInv'
  BY UnitsSteps
<1>3. UnitsInv => PlacesAreSound
  BY UnitsInvImplies
<1> QED
  BY <1>1, <1>2, <1>3, PTL DEF UnitsSpec
=============================================================================
