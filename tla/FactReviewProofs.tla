-------------------------- MODULE FactReviewProofs --------------------------
(***************************************************************************)
(* Proofs about FactReview, for every set of identities, versions,         *)
(* reviewers and loaders and every bound, and about ReviewDesk: that what  *)
(* the terminal decides many at a time rests on each candidate's evidence. *)
(***************************************************************************)
EXTENDS FactReview, ReviewDesk, Inductions

\* A decision a reviewer may submit is one the table accepts.
LEMMA SubmittedIsSound ==
    ASSUME NEW r \in Reviewers, NEW d \in Decisions(r)
    PROVE  d \in Decision /\ DecisionSound(d) /\ d.status # "unverified"
BY ConstantsAssumption DEF Decisions, DecisionSound, Decision

\* An undecided row is a row like any other.
LEMMA UndecidedIsSound == Undecided \in Decision /\ DecisionSound(Undecided)
BY DEF Undecided, Decision, Statuses, DecisionSound

\* A run that is not under way is a run like any other.
LEMMA IdleIsLoad == Idle \in Load
BY DEF Idle, Load, HeldRow

\* Every variable keeps its type and every decision on file is one the table
\* accepts: no step of the parser or of a reviewer leaves a row half decided.
THEOREM TypeCorrect == Spec => []TypeOK
<1>1. Init => TypeOK
  <2> SUFFICES ASSUME Init PROVE TypeOK
    OBVIOUS
  <2>1. load \in [Loaders -> Load] /\ \A l \in Loaders : LoadSound(load[l])
    BY IdleIsLoad DEF Init, LoadSound, Idle
  <2>2. past \in [RowIds -> Seq(Decision)]
    BY DEF Init
  <2>3. nextId \in 1..(MaxRows + 1)
    BY ConstantsAssumption DEF Init
  <2> QED BY <2>1, <2>2, <2>3 DEF Init, TypeOK, Rows
<1>2. TypeOK /\ [Next]_vars => TypeOK'
  <2> SUFFICES ASSUME TypeOK, [Next]_vars PROVE TypeOK'
    OBVIOUS
  <2> USE DEF TypeOK, Rows
  <2>1. ASSUME NEW l \in Loaders, NEW v \in Versions, StartLoad(l, v) PROVE TypeOK'
    <3>1. PICK h \in HeldByIdentity :
            load' = [load EXCEPT ![l] =
                     [stage |-> "loading", version |-> v,
                      held |-> [i \in Identities |-> IF h[i] = Null THEN Null ELSE HeldAs(h[i])],
                      todo |-> Yields[v], stamp |-> Null]]
      BY <2>1 DEF StartLoad
    <3>2. \A i \in Identities : h[i] # Null => HeldAs(h[i]) \in HeldRow
      BY DEF HeldByIdentity, HeldAs, HeldRow, Row, Decided
    <3>3. load' \in [Loaders -> Load]
      BY <3>1, <3>2, ConstantsAssumption DEF Load
    <3>4. \A k \in Loaders : LoadSound(load'[k])
      BY <3>1 DEF LoadSound
    <3> QED BY <3>3, <3>4, <2>1 DEF StartLoad
  <2>2. ASSUME NEW l \in Loaders, NEW i \in Identities, Measure(l, i) PROVE TypeOK'
    <3> DEFINE held == load[l].held[i]
               v == load[l].version
    <3>1. held \in HeldRow /\ v \in Versions
      BY <2>2 DEF Measure, Candidate, Load, LoadSound
    <3>2. fact' \in [RowIds -> Row \cup {Null}]
      BY <3>1, <2>2, ZenonT(60) DEF Measure, HeldRow, Row
    <3>3. \A f \in RowIds : fact'[f] # Null =>
            fact[f] # Null /\ fact'[f].decision = fact[f].decision
      BY <3>1, <2>2 DEF Measure, HeldRow, Row
    <3>4. load' \in [Loaders -> Load]
      <4> DEFINE run == [load[l] EXCEPT !.todo = @ \ {i},
                           !.stamp = IF NeedsStamp(held, v) THEN i ELSE Null]
      <4>1. run \in Load
        BY DEF Load
      <4>2. load' = [load EXCEPT ![l] = run]
        BY <2>2 DEF Measure
      <4> QED BY <4>1, <4>2
    <3>5. \A k \in Loaders : LoadSound(load'[k])
      BY <3>1, <2>2, NullAssumption, ZenonT(60) DEF Measure, Candidate, Load, LoadSound, NeedsStamp
    <3> QED BY <3>2, <3>3, <3>4, <3>5, <2>2 DEF Measure
  <2>3. ASSUME NEW l \in Loaders, Restamp(l) PROVE TypeOK'
    <3> DEFINE held == load[l].held[load[l].stamp]
               v == load[l].version
    <3>1. held \in HeldRow /\ v \in Versions
      BY <2>3, ConstantsAssumption DEF Restamp, Load, LoadSound
    <3>2. fact' \in [RowIds -> Row \cup {Null}]
      BY <3>1, <2>3, ZenonT(60) DEF Restamp, HeldRow, Row
    <3>3. \A f \in RowIds : fact'[f] # Null =>
            fact[f] # Null /\ fact'[f].decision = fact[f].decision
      BY <3>1, <2>3 DEF Restamp, HeldRow, Row
    <3>4. load' \in [Loaders -> Load] /\ \A k \in Loaders : LoadSound(load'[k])
      BY <2>3, ZenonT(60) DEF Restamp, Load, LoadSound
    <3> QED BY <3>2, <3>3, <3>4, <2>3 DEF Restamp
  <2>4. ASSUME NEW l \in Loaders, NEW i \in Identities, Insert(l, i) PROVE TypeOK'
    <3> DEFINE row == [ident |-> i, version |-> load[l].version, read |-> load[l].version,
                       decision |-> Undecided]
    <3>1. row \in Row /\ DecisionSound(row.decision)
      BY <2>4, UndecidedIsSound DEF Insert, Candidate, Load, LoadSound, Row
    <3>2. nextId \in RowIds /\ nextId' \in 1..(MaxRows + 1)
      BY <2>4, ConstantsAssumption DEF Insert, RowIds
    <3>3. fact' = [fact EXCEPT ![nextId] = row]
      BY <2>4 DEF Insert
    <3>4. load' \in [Loaders -> Load] /\ \A k \in Loaders : LoadSound(load'[k])
      <4> DEFINE run == [load[l] EXCEPT !.todo = @ \ {i}]
      <4>1. run \in Load /\ LoadSound(run)
        BY DEF Load, LoadSound
      <4>2. load' = [load EXCEPT ![l] = run]
        BY <2>4 DEF Insert
      <4> QED BY <4>1, <4>2
    <3>5. \A f \in RowIds : fact'[f] # Null => f < nextId' /\ DecisionSound(fact'[f].decision)
      BY <3>1, <3>2, <3>3, <2>4, ConstantsAssumption DEF Insert, RowIds
    <3> QED BY <3>1, <3>2, <3>3, <3>4, <3>5, <2>4 DEF Insert
  <2>5. ASSUME NEW l \in Loaders, Retire(l) PROVE TypeOK'
    <3>1. load' \in [Loaders -> Load] /\ \A k \in Loaders : LoadSound(load'[k])
      BY <2>5, IdleIsLoad DEF Retire, Load, LoadSound, Idle
    <3> QED BY <3>1, <2>5 DEF Retire
  <2>6. ASSUME NEW l \in Loaders, Crash(l) PROVE TypeOK'
    <3>1. load' \in [Loaders -> Load] /\ \A k \in Loaders : LoadSound(load'[k])
      BY <2>6, IdleIsLoad DEF Crash, Load, LoadSound, Idle
    <3> QED BY <3>1, <2>6 DEF Crash
  <2>7. ASSUME NEW r \in Reviewers, NEW f \in RowIds, NEW d \in Decisions(r), f \in Rows,
               Write(f, d), UNCHANGED <<nextId, load>>, screen' \in [Reviewers -> Screen \cup {Null}]
        PROVE  TypeOK'
    <3>1. d \in Decision /\ DecisionSound(d)
      BY SubmittedIsSound
    <3>2. fact' \in [RowIds -> Row \cup {Null}]
      BY <3>1, <2>7 DEF Write, Row
    <3>3. \A g \in RowIds : fact'[g] # Null =>
            fact[g] # Null /\ DecisionSound(fact'[g].decision)
      BY <3>1, <2>7 DEF Write, Row
    <3>4. past' \in [RowIds -> Seq(Decision)]
      BY <2>7 DEF Write, Supersede, Row
    <3> QED BY <3>2, <3>3, <3>4, <2>7
  <2>8. ASSUME NEW r \in Reviewers, NEW f \in RowIds, RecordDecision(r, f) PROVE TypeOK'
    BY <2>7, <2>8 DEF RecordDecision
  <2>9. ASSUME NEW r \in Reviewers, NEW f \in RowIds, ReadForRevision(r, f) PROVE TypeOK'
    BY <2>9 DEF ReadForRevision, Revisable, Screen, Row
  <2>10. ASSUME NEW r \in Reviewers, ReviseWhatWasRead(r) PROVE TypeOK'
    <3>1. screen[r].row \in RowIds /\ screen' \in [Reviewers -> Screen \cup {Null}]
      BY <2>10 DEF ReviseWhatWasRead, Screen
    <3> QED BY <3>1, <2>7, <2>10 DEF ReviseWhatWasRead, Revise, Revisable
  <2>11. ASSUME NEW r \in Reviewers, LeaveUnchanged(r) PROVE TypeOK'
    BY <2>11 DEF LeaveUnchanged
  <2>12. ASSUME NEW r \in Reviewers, NEW f \in RowIds, ReviseNamed(r, f) PROVE TypeOK'
    BY <2>7, <2>12 DEF ReviseNamed, Revise, Revisable
  <2>13. CASE UNCHANGED vars
    BY <2>13 DEF vars
  <2> QED
    BY <2>1, <2>2, <2>3, <2>4, <2>5, <2>6, <2>8, <2>9, <2>10, <2>11, <2>12, <2>13
    DEF Next, LoaderStep, ReviewerStep
<1> QED BY <1>1, <1>2, PTL DEF Spec

-----------------------------------------------------------------------------
(* While nobody decides during a run, what a run holds stays true.         *)

\* What a run read of a row that is still there is what the row says.
HeldIsCurrent ==
    \A l \in Loaders : load[l].stage = "loading" =>
        \A i \in Identities : load[l].held[i] # Null =>
            LET held == load[l].held[i]
            IN  /\ held.id < nextId
                /\ fact[held.id] # Null => held.open = ~Decided(held.id)

\* Writing a decision touches that decision and the row's history, no other.
LEMMA WriteChangesOneDecision ==
    ASSUME TypeOK, NEW r \in Reviewers, NEW d \in Decisions(r), NEW f \in Rows, Write(f, d)
    PROVE  /\ \A g \in RowIds : (fact'[g] = Null) <=> (fact[g] = Null)
           /\ \A g \in RowIds \ {f} : fact'[g] = fact[g] /\ past'[g] = past[g]
           /\ fact'[f].decision = d
           /\ fact'[f].ident = fact[f].ident
           /\ fact'[f].version = fact[f].version
           /\ fact'[f].read = fact[f].read
           /\ Decided(f) => SupersededOnRecord(f)
<1> USE DEF TypeOK, Rows
<1>1. f \in RowIds /\ fact[f] \in Row
  OBVIOUS
<1>2. fact' = [fact EXCEPT ![f] = [fact[f] EXCEPT !.decision = d]]
  BY <1>1 DEF Write, Row
<1>3. [fact[f] EXCEPT !.decision = d] # Null
  BY <1>1, SubmittedIsSound, NullAssumption DEF Row
<1>4. fact'[f] = [fact[f] EXCEPT !.decision = d]
  BY <1>1, <1>2
<1>5. \A g \in RowIds \ {f} : fact'[g] = fact[g] /\ past'[g] = past[g]
  BY <1>2 DEF Write, Supersede
<1>6. Decided(f) => SupersededOnRecord(f)
  BY <1>1, <1>4, SubmittedIsSound DEF Write, Supersede, SupersededOnRecord, Row
<1> QED BY <1>1, <1>3, <1>4, <1>5, <1>6 DEF Row

\* A reviewer's step either leaves the rows alone or writes one decision, and
\* never touches a run.
LEMMA ReviewerWrites ==
    ASSUME TypeOK, NEW r \in Reviewers, ReviewerStep(r)
    PROVE  /\ UNCHANGED <<nextId, load>>
           /\ \/ UNCHANGED <<fact, past>>
              \/ MayReview /\ \E f \in Rows, d \in Decisions(r) : Write(f, d)
BY DEF ReviewerStep, RecordDecision, ReadForRevision, ReviseWhatWasRead, LeaveUnchanged,
       ReviseNamed, Revise, Revisable

\* A measurement changes what a row's reading is and nothing else.
LEMMA MeasureKeepsDecisions ==
    ASSUME TypeOK, NEW l \in Loaders, NEW i \in Identities, Measure(l, i)
    PROVE  /\ \A f \in RowIds : (fact'[f] = Null) <=> (fact[f] = Null)
           /\ \A f \in Rows : /\ fact'[f].decision = fact[f].decision
                              /\ fact'[f].ident = fact[f].ident
                              /\ fact'[f].version = fact[f].version
                              /\ fact'[f].read = IF f = load[l].held[i].id
                                                  THEN load[l].version ELSE fact[f].read
<1> DEFINE held == load[l].held[i]
           v == load[l].version
<1>1. held \in HeldRow /\ v \in Versions
  BY DEF TypeOK, Measure, Candidate, Load, LoadSound
<1>2. held.id \in RowIds
  BY <1>1 DEF HeldRow
<1>3. CASE fact[held.id] = Null
  BY <1>3, <1>2 DEF Measure, Rows
<1>4. CASE fact[held.id] # Null
  <2> DEFINE new == [fact[held.id] EXCEPT !.read = v]
  <2>1. fact[held.id] \in Row
    BY <1>2, <1>4 DEF TypeOK
  <2>2. new \in Row
    BY <2>1, <1>1 DEF Row
  <2>3. fact' = [fact EXCEPT ![held.id] = new]
    BY <1>4 DEF Measure
  <2>4. fact'[held.id] = new /\ \A f \in RowIds \ {held.id} : fact'[f] = fact[f]
    BY <2>3, <1>2 DEF TypeOK
  <2>5. /\ new.decision = fact[held.id].decision
        /\ new.ident = fact[held.id].ident
        /\ new.version = fact[held.id].version
        /\ new.read = v
    BY <2>1 DEF Row
  <2> QED BY <1>2, <1>4, <2>2, <2>4, <2>5, NullAssumption DEF Rows
<1> QED BY <1>3, <1>4

\* A stamp changes one row's parser version and nothing else.
LEMMA RestampKeepsDecisions ==
    ASSUME TypeOK, NEW l \in Loaders, Restamp(l)
    PROVE  /\ \A f \in RowIds : (fact'[f] = Null) <=> (fact[f] = Null)
           /\ \A f \in Rows : /\ fact'[f].decision = fact[f].decision
                              /\ fact'[f].ident = fact[f].ident
                              /\ fact'[f].read = fact[f].read
                              /\ fact'[f].version = IF f = load[l].held[load[l].stamp].id
                                                     THEN load[l].version ELSE fact[f].version
<1> DEFINE held == load[l].held[load[l].stamp]
           v == load[l].version
<1>1. held \in HeldRow /\ v \in Versions
  BY ConstantsAssumption DEF TypeOK, Restamp, Load, LoadSound
<1>2. held.id \in RowIds
  BY <1>1 DEF HeldRow
<1>3. CASE fact[held.id] = Null
  BY <1>3, <1>2 DEF Restamp, Rows
<1>4. CASE fact[held.id] # Null
  <2> DEFINE new == [fact[held.id] EXCEPT !.version = v]
  <2>1. fact[held.id] \in Row
    BY <1>2, <1>4 DEF TypeOK
  <2>2. new \in Row
    BY <2>1, <1>1 DEF Row
  <2>3. fact' = [fact EXCEPT ![held.id] = new]
    BY <1>4 DEF Restamp
  <2>4. fact'[held.id] = new /\ \A f \in RowIds \ {held.id} : fact'[f] = fact[f]
    BY <2>3, <1>2 DEF TypeOK
  <2>5. /\ new.decision = fact[held.id].decision
        /\ new.ident = fact[held.id].ident
        /\ new.read = fact[held.id].read
        /\ new.version = v
    BY <2>1 DEF Row
  <2> QED BY <1>2, <1>4, <2>2, <2>4, <2>5, NullAssumption DEF Rows
<1> QED BY <1>3, <1>4

\* An insert adds one undecided row under an id never used before.
LEMMA InsertAddsOneRow ==
    ASSUME TypeOK, NEW l \in Loaders, NEW i \in Identities, Insert(l, i)
    PROVE  /\ nextId \in RowIds /\ nextId' = nextId + 1
           /\ fact[nextId] = Null
           /\ \A f \in RowIds \ {nextId} : fact'[f] = fact[f]
           /\ fact'[nextId] = [ident |-> i, version |-> load[l].version,
                               read |-> load[l].version, decision |-> Undecided]
           /\ fact'[nextId] # Null
           /\ load[l].version \in Versions
<1>1. nextId \in RowIds /\ load[l].version \in Versions
  BY ConstantsAssumption DEF TypeOK, Insert, Candidate, RowIds, LoadSound
<1>2. fact[nextId] = Null
  BY <1>1 DEF TypeOK, Rows, RowIds
<1>3. [ident |-> i, version |-> load[l].version, read |-> load[l].version,
       decision |-> Undecided] \in Row
  BY <1>1, UndecidedIsSound DEF Row
<1> QED BY <1>1, <1>2, <1>3, NullAssumption DEF TypeOK, Insert

\* A step of the system keeps every decision of a row that stays, or puts it in
\* the history.
LEMMA StepKeepsTrail ==
    ASSUME TypeOK, [Next]_vars
    PROVE  \A f \in Rows : Decided(f) /\ fact'[f] # Null => SupersededOnRecord(f)
<1> SUFFICES ASSUME NEW f \in Rows, Decided(f), fact'[f] # Null
             PROVE  SupersededOnRecord(f)
  OBVIOUS
<1>1. f \in RowIds /\ fact[f] # Null /\ f < nextId
  BY DEF Rows, TypeOK
<1>2. ASSUME NEW l \in Loaders, NEW i \in Identities, Measure(l, i)
      PROVE  SupersededOnRecord(f)
  BY <1>1, <1>2, MeasureKeepsDecisions DEF Measure, SupersededOnRecord
<1>3. ASSUME NEW l \in Loaders, Restamp(l) PROVE SupersededOnRecord(f)
  BY <1>1, <1>3, RestampKeepsDecisions DEF Restamp, SupersededOnRecord
<1>4. ASSUME NEW l \in Loaders, NEW i \in Identities, Insert(l, i)
      PROVE  SupersededOnRecord(f)
  BY <1>1, <1>4, InsertAddsOneRow DEF Insert, SupersededOnRecord
<1>5. ASSUME NEW l \in Loaders, Retire(l) PROVE SupersededOnRecord(f)
  BY <1>1, <1>5 DEF Retire, SupersededOnRecord
<1>6. ASSUME NEW r \in Reviewers, ReviewerStep(r) PROVE SupersededOnRecord(f)
  <2>1. CASE UNCHANGED <<fact, past>>
    BY <2>1 DEF SupersededOnRecord
  <2>2. CASE \E g \in Rows, d \in Decisions(r) : Write(g, d)
    <3>1. PICK g \in Rows, d \in Decisions(r) : Write(g, d)
      BY <2>2
    <3> QED BY <1>1, <3>1, WriteChangesOneDecision DEF SupersededOnRecord
  <2> QED BY <1>6, <2>1, <2>2, ReviewerWrites
<1>7. ASSUME UNCHANGED <<fact, past>> PROVE SupersededOnRecord(f)
  BY <1>7 DEF SupersededOnRecord
<1> QED
  BY <1>2, <1>3, <1>4, <1>5, <1>6, <1>7
  DEF Next, LoaderStep, StartLoad, Crash, vars

\* However parser runs and reviewers interleave, a row that stays never loses a
\* decision from its trail and never goes back to the queue.
THEOREM TrailIsKept == Spec => TrailIsComplete
<1>1. TypeOK /\ [Next]_vars =>
        [\A f \in Rows : Decided(f) /\ fact'[f] # Null => SupersededOnRecord(f)]_vars
  BY StepKeepsTrail
<1> QED BY <1>1, TypeCorrect, PTL DEF Spec, TrailIsComplete

\* A step keeps what every run holds current, when nobody decides meanwhile.
LEMMA HeldStaysCurrent ==
    ASSUME ~Overlap
    PROVE  TypeOK /\ HeldIsCurrent /\ [Next]_vars => HeldIsCurrent'
<1> SUFFICES ASSUME TypeOK, HeldIsCurrent, [Next]_vars PROVE HeldIsCurrent'
  OBVIOUS
<1> DEFINE Current(l, i) ==
      load[l].held[i] # Null =>
          /\ load[l].held[i].id < nextId
          /\ fact[load[l].held[i].id] # Null =>
               load[l].held[i].open = ~Decided(load[l].held[i].id)
<1>1. SUFFICES ASSUME NEW k \in Loaders, NEW j \in Identities, load'[k].stage = "loading"
               PROVE  Current(k, j)'
  BY DEF HeldIsCurrent
<1>2. nextId \in Nat
  BY ConstantsAssumption DEF TypeOK
<1>3. load[k].stage = "loading" /\ load[k].held[j] # Null =>
        Current(k, j) /\ load[k].held[j] \in HeldRow /\ load[k].held[j].id \in RowIds
  BY DEF HeldIsCurrent, TypeOK, Load, HeldRow
<1> DEFINE Stays == /\ load'[k].held = load[k].held
                    /\ load[k].stage = "loading"
                    /\ nextId \in Nat /\ nextId' \in Nat /\ nextId <= nextId'
                    /\ \A f \in RowIds : f < nextId /\ fact'[f] # Null =>
                         fact[f] # Null /\ fact'[f].decision = fact[f].decision
<1>4. Stays => Current(k, j)'
  <2> SUFFICES ASSUME Stays, load[k].held[j] # Null PROVE Current(k, j)'
    OBVIOUS
  <2>1. load[k].held[j].id \in Nat
    BY <1>3, ConstantsAssumption DEF RowIds
  <2> QED BY <1>3, <2>1 DEF Decided
<1>5. ASSUME NEW l \in Loaders, NEW v \in Versions, StartLoad(l, v) PROVE Current(k, j)'
  <2>1. CASE k = l
    <3>1. PICK h \in HeldByIdentity :
            load' = [load EXCEPT ![l] =
                     [stage |-> "loading", version |-> v,
                      held |-> [i \in Identities |-> IF h[i] = Null THEN Null ELSE HeldAs(h[i])],
                      todo |-> Yields[v], stamp |-> Null]]
      BY <1>5 DEF StartLoad
    <3>2. load'[k].held[j] = IF h[j] = Null THEN Null ELSE HeldAs(h[j])
      BY <3>1, <2>1 DEF TypeOK
    <3>3. h[j] # Null => h[j] \in Rows
      BY DEF HeldByIdentity
    <3> QED BY <3>2, <3>3, <1>5 DEF StartLoad, HeldAs, TypeOK, Decided
  <2>2. CASE k # l
    <3>1. load'[k] = load[k] /\ UNCHANGED <<fact, nextId>>
      BY <1>5, <2>2 DEF StartLoad, TypeOK
    <3> QED BY <1>1, <1>2, <1>4, <3>1
  <2> QED BY <2>1, <2>2
<1>6. ASSUME NEW l \in Loaders, NEW i \in Identities, Measure(l, i) PROVE Current(k, j)'
  <2>1. load'[k].held = load[k].held /\ load[k].stage = "loading"
    BY <1>6, <1>1 DEF Measure, TypeOK, Load
  <2>2. nextId' = nextId
    BY <1>6 DEF Measure
  <2>3. \A f \in RowIds : fact'[f] # Null => fact[f] # Null /\ fact'[f].decision = fact[f].decision
    BY <1>6, MeasureKeepsDecisions DEF Rows
  <2> QED BY <1>4, <1>2, <2>1, <2>2, <2>3
<1>7. ASSUME NEW l \in Loaders, Restamp(l) PROVE Current(k, j)'
  <2>1. load'[k].held = load[k].held /\ load[k].stage = "loading"
    BY <1>7, <1>1 DEF Restamp, TypeOK, Load
  <2>2. nextId' = nextId
    BY <1>7 DEF Restamp
  <2>3. \A f \in RowIds : fact'[f] # Null => fact[f] # Null /\ fact'[f].decision = fact[f].decision
    BY <1>7, RestampKeepsDecisions DEF Rows
  <2> QED BY <1>4, <1>2, <2>1, <2>2, <2>3
<1>8. ASSUME NEW l \in Loaders, NEW i \in Identities, Insert(l, i) PROVE Current(k, j)'
  <2>1. load'[k].held = load[k].held /\ load[k].stage = "loading"
    BY <1>8, <1>1 DEF Insert, TypeOK, Load
  <2>2. nextId' = nextId + 1
    BY <1>8 DEF Insert
  <2>3. \A f \in RowIds : f < nextId => fact'[f] = fact[f]
    <3>1. \A f \in RowIds \ {nextId} : fact'[f] = fact[f]
      BY <1>8, InsertAddsOneRow
    <3> QED BY <1>2, <3>1
  <2> QED BY <1>4, <1>2, <2>1, <2>2, <2>3
<1>9. ASSUME NEW l \in Loaders, Retire(l) PROVE Current(k, j)'
  <2>1. k # l
    BY <1>9, <1>1 DEF Retire, TypeOK, Idle
  <2> QED BY <1>2, <1>4, <1>9, <1>1, <2>1 DEF Retire, TypeOK
<1>10. ASSUME NEW l \in Loaders, Crash(l) PROVE Current(k, j)'
  <2>1. k # l
    BY <1>10, <1>1 DEF Crash, TypeOK, Idle
  <2> QED BY <1>2, <1>4, <1>10, <1>1, <2>1 DEF Crash, TypeOK
<1>11. ASSUME NEW r \in Reviewers, ReviewerStep(r) PROVE Current(k, j)'
  <2>1. UNCHANGED <<nextId, load>> /\ load[k].stage = "loading"
    BY <1>11, <1>1, ReviewerWrites
  <2>2. ~MayReview
    BY <2>1 DEF MayReview
  <2>3. UNCHANGED <<fact, past>>
    BY <1>11, <2>2, ReviewerWrites
  <2> QED BY <1>2, <1>4, <2>1, <2>3
<1>12. CASE UNCHANGED vars
  BY <1>2, <1>4, <1>12, <1>1 DEF vars
<1> QED
  BY <1>5, <1>6, <1>7, <1>8, <1>9, <1>10, <1>11, <1>12 DEF Next, LoaderStep

\* While nobody decides during a run, a decided row stays on file.
LEMMA DecidedRowStays ==
    ASSUME TypeOK, HeldIsCurrent, [Next]_vars
    PROVE  \A f \in Rows : Decided(f) => fact'[f] # Null
<1> SUFFICES ASSUME NEW f \in Rows, Decided(f) PROVE fact'[f] # Null
  OBVIOUS
<1>1. f \in RowIds /\ fact[f] # Null /\ f < nextId
  BY DEF Rows, TypeOK
<1>2. ASSUME NEW l \in Loaders, NEW i \in Identities, Measure(l, i) PROVE fact'[f] # Null
  BY <1>1, <1>2, MeasureKeepsDecisions
<1>3. ASSUME NEW l \in Loaders, Restamp(l) PROVE fact'[f] # Null
  BY <1>1, <1>3, RestampKeepsDecisions
<1>4. ASSUME NEW l \in Loaders, NEW i \in Identities, Insert(l, i) PROVE fact'[f] # Null
  BY <1>1, <1>4, InsertAddsOneRow
<1>5. ASSUME NEW l \in Loaders, Retire(l) PROVE fact'[f] # Null
  <2>1. f \notin Retirable(l)
    BY <1>1, <1>5 DEF Retire, Retirable, HeldIsCurrent
  <2> QED BY <1>1, <1>5, <2>1 DEF Retire
<1>6. ASSUME NEW r \in Reviewers, ReviewerStep(r) PROVE fact'[f] # Null
  <2>1. CASE \E g \in Rows, d \in Decisions(r) : Write(g, d)
    <3>1. PICK g \in Rows, d \in Decisions(r) : Write(g, d)
      BY <2>1
    <3> QED BY <1>1, <3>1, WriteChangesOneDecision
  <2> QED BY <1>1, <1>6, <2>1, ReviewerWrites
<1> QED
  BY <1>1, <1>2, <1>3, <1>4, <1>5, <1>6 DEF Next, LoaderStep, StartLoad, Crash, vars

\* Nor does the parser restate the version it was decided on.
LEMMA DecidedVersionStays ==
    ASSUME TypeOK, HeldIsCurrent, [Next]_vars
    PROVE  \A f \in Rows : Decided(f) /\ fact'[f] # Null => fact'[f].version = fact[f].version
<1> SUFFICES ASSUME NEW f \in Rows, Decided(f), fact'[f] # Null
             PROVE  fact'[f].version = fact[f].version
  OBVIOUS
<1>1. f \in RowIds /\ fact[f] # Null /\ f < nextId
  BY DEF Rows, TypeOK
<1>2. ASSUME NEW l \in Loaders, NEW i \in Identities, Measure(l, i)
      PROVE  fact'[f].version = fact[f].version
  BY <1>1, <1>2, MeasureKeepsDecisions
<1>3. ASSUME NEW l \in Loaders, Restamp(l) PROVE fact'[f].version = fact[f].version
  <2>1. /\ load[l].stamp \in Identities
        /\ load[l].stage = "loading"
        /\ load[l].held[load[l].stamp] # Null
        /\ load[l].held[load[l].stamp].open
    BY <1>3 DEF Restamp, TypeOK, Load, LoadSound
  <2>2. f # load[l].held[load[l].stamp].id
    BY <1>1, <2>1 DEF HeldIsCurrent
  <2> QED BY <1>1, <1>3, <2>2, RestampKeepsDecisions
<1>4. ASSUME NEW l \in Loaders, NEW i \in Identities, Insert(l, i)
      PROVE  fact'[f].version = fact[f].version
  BY <1>1, <1>4, InsertAddsOneRow
<1>5. ASSUME NEW l \in Loaders, Retire(l) PROVE fact'[f].version = fact[f].version
  BY <1>1, <1>5 DEF Retire
<1>6. ASSUME NEW r \in Reviewers, ReviewerStep(r) PROVE fact'[f].version = fact[f].version
  <2>1. CASE \E g \in Rows, d \in Decisions(r) : Write(g, d)
    <3>1. PICK g \in Rows, d \in Decisions(r) : Write(g, d)
      BY <2>1
    <3> QED BY <1>1, <3>1, WriteChangesOneDecision
  <2> QED BY <1>1, <1>6, <2>1, ReviewerWrites
<1> QED
  BY <1>1, <1>2, <1>3, <1>4, <1>5, <1>6 DEF Next, LoaderStep, StartLoad, Crash, vars

\* What a run holds is current from the start.
LEMMA HeldIsAlwaysCurrent == ASSUME ~Overlap PROVE Spec => []HeldIsCurrent
<1>1. Init => HeldIsCurrent
  BY DEF Init, HeldIsCurrent, Idle
<1>2. TypeOK /\ HeldIsCurrent /\ [Next]_vars => HeldIsCurrent'
  BY HeldStaysCurrent
<1> QED BY <1>1, <1>2, TypeCorrect, PTL DEF Spec

\* When nobody decides during a parser run, no decision is ever lost: it stays,
\* or the next one puts it in the history.
THEOREM DecisionsAreKept == ASSUME ~Overlap PROVE Spec => DecisionIsKept
<1>1. TypeOK /\ HeldIsCurrent /\ [Next]_vars =>
        [\A f \in Rows : Decided(f) => fact'[f] # Null /\ SupersededOnRecord(f)]_vars
  BY DecidedRowStays, StepKeepsTrail
<1> QED BY <1>1, TypeCorrect, HeldIsAlwaysCurrent, PTL DEF Spec, DecisionIsKept

\* When nobody decides during a parser run, a decided row keeps the parser
\* version it was decided on.
THEOREM VersionsAreKept == ASSUME ~Overlap PROVE Spec => VersionAsReviewed
<1>1. TypeOK /\ HeldIsCurrent /\ [Next]_vars =>
        [\A f \in Rows : Decided(f) /\ fact'[f] # Null
           => fact'[f].version = fact[f].version]_vars
  BY DecidedVersionStays
<1> QED BY <1>1, TypeCorrect, HeldIsAlwaysCurrent, PTL DEF Spec, VersionAsReviewed

-----------------------------------------------------------------------------
(* One run at a time.                                                      *)

OneLoader == \A k, l \in Loaders : k = l

\* A row the run holds under `i` is on file, is the figure `i`, is read as open
\* if it still is, and keeps the version it was read with until it is written.
HoldsItsRow(l, i) ==
    LET held == load[l].held[i]
    IN  /\ held.id \in Rows
        /\ fact[held.id].ident = i
        /\ ~Decided(held.id) => held.open
        /\ i \in load[l].todo => fact[held.id].version = held.version

\* A row on file is one the run holds, or one it inserted.
KnowsRow(l, f) ==
    LET i == fact[f].ident
    IN  IF load[l].held[i] = Null
          THEN i \in Yields[load[l].version] \ load[l].todo
          ELSE load[l].held[i].id = f

\* A row the run is done with says so, but for a stamp it is about to write.
Written(l, f) ==
    LET i == fact[f].ident
        v == load[l].version
    IN  i \in Yields[v] \ load[l].todo =>
            /\ fact[f].read = v
            /\ ~Decided(f) => fact[f].version = v \/ load[l].stamp = i

OnTrack(l) ==
    load[l].stage = "loading" =>
        /\ load[l].todo \subseteq Yields[load[l].version]
        /\ load[l].stamp \notin load[l].todo
        /\ \A i \in Identities : load[l].held[i] # Null => HoldsItsRow(l, i)
        /\ \A f \in Rows : KnowsRow(l, f) /\ Written(l, f)
        /\ \A i \in Yields[load[l].version] \ load[l].todo : \E f \in Rows : fact[f].ident = i

ReviewInv == OneIdentityOneRow /\ Reconciled /\ \A l \in Loaders : OnTrack(l)

\* Reading every row once holds each row under its own identity.
LEMMA StartIsOnTrack ==
    ASSUME TypeOK, OneIdentityOneRow, NEW l \in Loaders, NEW v \in Versions, StartLoad(l, v)
    PROVE  OnTrack(l)' /\ load'[l].stage = "loading"
<1>1. PICK h \in HeldByIdentity :
        load' = [load EXCEPT ![l] =
                 [stage |-> "loading", version |-> v,
                  held |-> [i \in Identities |-> IF h[i] = Null THEN Null ELSE HeldAs(h[i])],
                  todo |-> Yields[v], stamp |-> Null]]
  BY DEF StartLoad
<1>2. /\ load'[l].stage = "loading"
      /\ load'[l].version = v
      /\ load'[l].todo = Yields[v]
      /\ load'[l].stamp = Null
      /\ \A i \in Identities :
           load'[l].held[i] = IF h[i] = Null THEN Null ELSE HeldAs(h[i])
  BY <1>1 DEF TypeOK
<1>3. fact' = fact
  BY DEF StartLoad
<1>4. Yields[v] \subseteq Identities /\ Null \notin Yields[v]
  BY ConstantsAssumption
<1>5. ASSUME NEW i \in Identities, load'[l].held[i] # Null PROVE HoldsItsRow(l, i)'
  <2>1. h[i] \in Rows /\ fact[h[i]].ident = i /\ load'[l].held[i] = HeldAs(h[i])
    BY <1>2, <1>5 DEF HeldByIdentity, Rows
  <2>2. /\ load'[l].held[i].id = h[i]
        /\ load'[l].held[i].open = ~Decided(h[i])
        /\ load'[l].held[i].version = fact[h[i]].version
    <3>1. /\ HeldAs(h[i]).id = h[i]
          /\ HeldAs(h[i]).version = fact[h[i]].version
      BY DEF HeldAs
    <3>2. HeldAs(h[i]).open = ~Decided(h[i])
      BY Zenon DEF HeldAs
    <3> QED BY <2>1, <3>1, <3>2
  <2>3. Rows' = Rows /\ Decided(h[i])' = Decided(h[i])
    BY <1>3 DEF Rows, Decided
  <2> QED BY <1>3, <2>1, <2>2, <2>3 DEF HoldsItsRow
<1>6. ASSUME NEW f \in Rows PROVE KnowsRow(l, f)' /\ Written(l, f)'
  <2>1. fact[f].ident \in Identities
    BY DEF TypeOK, Row, Rows
  <2>2. h[fact[f].ident] = f
    <3>1. h[fact[f].ident] # Null /\ fact[h[fact[f].ident]].ident = fact[f].ident
      BY <2>1 DEF HeldByIdentity
    <3>2. h[fact[f].ident] \in Rows
      BY <2>1, <3>1 DEF HeldByIdentity
    <3> QED BY <3>1, <3>2 DEF OneIdentityOneRow
  <2>3. f # Null
    BY <2>1, <2>2 DEF HeldByIdentity
  <2>4. HeldAs(f) # Null
    <3>1. HeldAs(f) \in HeldRow
      BY DEF HeldAs, HeldRow, TypeOK, Row, Rows, Decided
    <3> QED BY <3>1, NullAssumption
  <2>5. load'[l].held[fact[f].ident] = HeldAs(f) /\ HeldAs(f).id = f
    BY <1>2, <2>1, <2>2, <2>3 DEF HeldAs
  <2> QED BY <1>2, <1>3, <2>4, <2>5 DEF KnowsRow, Written
<1> QED BY <1>2, <1>3, <1>4, <1>5, <1>6 DEF OnTrack, Rows

\* Steps that leave the runs alone and only take rows off the queue disturb
\* nothing.
LEMMA DecidingDisturbsNothing ==
    ASSUME ReviewInv, load' = load,
           \A f \in RowIds : (fact'[f] = Null) <=> (fact[f] = Null),
           \A f \in Rows : fact'[f].ident = fact[f].ident,
           \A f \in Rows : fact'[f].version = fact[f].version,
           \A f \in Rows : fact'[f].read = fact[f].read,
           \A f \in Rows : Decided(f) => fact'[f].decision.status # "unverified"
    PROVE  ReviewInv'
<1>1. Rows' = Rows
  BY DEF Rows
<1>2. ASSUME NEW f \in Rows PROVE Decided(f) => Decided(f)'
  BY DEF Decided
<1>3. OneIdentityOneRow'
  BY <1>1 DEF ReviewInv, OneIdentityOneRow
<1>4. Reconciled'
  <2> SUFFICES ASSUME NEW l \in Loaders, load[l].stage = "done"
               PROVE  LET v == load[l].version
                      IN  /\ \A i \in Yields[v] : \E f \in Rows : fact'[f].ident = i
                          /\ \A f \in Rows :
                               /\ fact'[f].ident \in Yields[v] => fact'[f].read = v
                               /\ ~Decided(f)' => fact'[f].ident \in Yields[v] /\ fact'[f].version = v
    BY <1>1 DEF Reconciled
  <2> QED BY <1>2 DEF ReviewInv, Reconciled
<1>5. ASSUME NEW l \in Loaders PROVE OnTrack(l)'
  <2> SUFFICES ASSUME load[l].stage = "loading" PROVE OnTrack(l)'
    BY DEF OnTrack
  <2>1. OnTrack(l)
    BY DEF ReviewInv
  <2>2. ASSUME NEW i \in Identities, load[l].held[i] # Null PROVE HoldsItsRow(l, i)'
    <3>1. HoldsItsRow(l, i)
      BY <2>1, <2>2 DEF OnTrack
    <3> QED BY <1>1, <1>2, <3>1 DEF HoldsItsRow
  <2>3. ASSUME NEW f \in Rows PROVE KnowsRow(l, f)' /\ Written(l, f)'
    <3>1. KnowsRow(l, f) /\ Written(l, f)
      BY <2>1 DEF OnTrack
    <3> QED BY <1>2, <3>1 DEF KnowsRow, Written
  <2> QED BY <1>1, <2>1, <2>2, <2>3 DEF OnTrack
<1> QED BY <1>3, <1>4, <1>5 DEF ReviewInv

\* One measurement finishes a row or leaves only its stamp to write.
LEMMA MeasureStaysOnTrack ==
    ASSUME TypeOK, ReviewInv, OneLoader, NEW l \in Loaders, NEW i \in Identities, Measure(l, i)
    PROVE  ReviewInv'
<1> DEFINE held == load[l].held[i]
           v == load[l].version
<1>1. /\ load[l].stage = "loading" /\ load[l].stamp = Null /\ i \in load[l].todo
      /\ held # Null /\ held \in HeldRow
  BY DEF Measure, Candidate, TypeOK, Load
<1>2. /\ load'[l].stage = "loading"
      /\ load'[l].version = v
      /\ load'[l].held = load[l].held
      /\ load'[l].todo = load[l].todo \ {i}
      /\ load'[l].stamp = IF NeedsStamp(held, v) THEN i ELSE Null
  BY <1>1 DEF Measure, TypeOK, Load
<1>3. OnTrack(l) /\ HoldsItsRow(l, i)
  BY <1>1 DEF ReviewInv, OnTrack
<1>4. Rows' = Rows
  BY MeasureKeepsDecisions DEF Rows
<1>5. \A f \in Rows : /\ fact'[f].decision = fact[f].decision
                      /\ fact'[f].ident = fact[f].ident
                      /\ fact'[f].version = fact[f].version
                      /\ fact'[f].read = IF f = held.id THEN v ELSE fact[f].read
  BY MeasureKeepsDecisions
<1>6. OneIdentityOneRow'
  BY <1>4, <1>5 DEF ReviewInv, OneIdentityOneRow
<1>7. Reconciled'
  BY <1>2 DEF OneLoader, Reconciled
<1>8. ASSUME NEW j \in Identities, load[l].held[j] # Null PROVE HoldsItsRow(l, j)'
  <2>1. HoldsItsRow(l, j)
    BY <1>1, <1>3, <1>8 DEF OnTrack
  <2> QED BY <1>2, <1>4, <1>5, <2>1 DEF HoldsItsRow, Decided
<1>9. ASSUME NEW f \in Rows PROVE KnowsRow(l, f)' /\ Written(l, f)'
  <2>1. KnowsRow(l, f) /\ Written(l, f)
    BY <1>1, <1>3 DEF OnTrack
  <2>2. CASE fact[f].ident = i
    <3>1. f = held.id
      BY <1>1, <2>1, <2>2 DEF KnowsRow
    <3>2. ~Decided(f) => held.open /\ fact[f].version = held.version
      BY <1>1, <1>3, <3>1 DEF HoldsItsRow
    <3>3. held.open \in BOOLEAN
      BY <1>1 DEF HeldRow
    <3>4. ~Decided(f) => fact'[f].version = v \/ load'[l].stamp = i
      BY <1>2, <1>5, <3>2, <3>3 DEF NeedsStamp
    <3> QED BY <1>1, <1>2, <1>5, <2>2, <3>1, <3>4 DEF KnowsRow, Written, Decided
  <2>3. CASE fact[f].ident # i
    <3>1. f # held.id
      BY <1>3, <2>3 DEF HoldsItsRow
    <3>2. fact[f].ident \in Identities /\ fact[f].ident # Null
      BY ConstantsAssumption DEF TypeOK, Row, Rows
    <3> QED BY <1>1, <1>2, <1>5, <2>1, <2>3, <3>1, <3>2 DEF KnowsRow, Written, Decided
  <2> QED BY <2>2, <2>3
<1>10. ASSUME NEW j \in Yields[v] \ load'[l].todo PROVE \E f \in Rows : fact'[f].ident = j
  <2>1. CASE j = i
    BY <1>3, <1>5, <2>1 DEF HoldsItsRow
  <2>2. CASE j # i
    BY <1>1, <1>2, <1>3, <1>5, <1>10, <2>2 DEF OnTrack
  <2> QED BY <2>1, <2>2
<1>11. load'[l].todo \subseteq Yields[v] /\ load'[l].stamp \notin load'[l].todo
  BY <1>1, <1>2, <1>3 DEF OnTrack
<1>12. OnTrack(l)'
  BY <1>2, <1>4, <1>8, <1>9, <1>10, <1>11 DEF OnTrack
<1> QED BY <1>6, <1>7, <1>12 DEF OneLoader, ReviewInv

\* A stamp completes the row it is written to.
LEMMA RestampStaysOnTrack ==
    ASSUME TypeOK, ReviewInv, OneLoader, NEW l \in Loaders, Restamp(l)
    PROVE  ReviewInv'
<1> DEFINE i == load[l].stamp
           held == load[l].held[i]
           v == load[l].version
<1>1. /\ load[l].stage = "loading" /\ i # Null /\ i \in Identities
      /\ held # Null /\ held \in HeldRow
  BY DEF Restamp, TypeOK, Load, LoadSound
<1>2. /\ load'[l].stage = "loading"
      /\ load'[l].version = v
      /\ load'[l].held = load[l].held
      /\ load'[l].todo = load[l].todo
      /\ load'[l].stamp = Null
  BY <1>1 DEF Restamp, TypeOK, Load
<1>3. OnTrack(l) /\ HoldsItsRow(l, i)
  BY <1>1 DEF ReviewInv, OnTrack
<1>4. Rows' = Rows
  BY RestampKeepsDecisions DEF Rows
<1>5. \A f \in Rows : /\ fact'[f].decision = fact[f].decision
                      /\ fact'[f].ident = fact[f].ident
                      /\ fact'[f].read = fact[f].read
                      /\ fact'[f].version = IF f = held.id THEN v ELSE fact[f].version
  BY RestampKeepsDecisions
<1>6. OneIdentityOneRow'
  BY <1>4, <1>5 DEF ReviewInv, OneIdentityOneRow
<1>7. Reconciled'
  BY <1>2 DEF OneLoader, Reconciled
<1>8. ASSUME NEW j \in Identities, load[l].held[j] # Null PROVE HoldsItsRow(l, j)'
  <2>1. HoldsItsRow(l, j)
    BY <1>1, <1>3, <1>8 DEF OnTrack
  <2>2. i \notin load[l].todo
    BY <1>1, <1>3 DEF OnTrack
  <2>3. j \in load[l].todo => load[l].held[j].id # held.id
    BY <1>3, <2>1, <2>2 DEF HoldsItsRow
  <2> QED BY <1>2, <1>4, <1>5, <2>1, <2>3 DEF HoldsItsRow, Decided
<1>9. ASSUME NEW f \in Rows PROVE KnowsRow(l, f)' /\ Written(l, f)'
  <2>1. KnowsRow(l, f) /\ Written(l, f)
    BY <1>1, <1>3 DEF OnTrack
  <2>2. fact[f].ident = i => f = held.id
    BY <1>1, <2>1 DEF KnowsRow
  <2> QED BY <1>1, <1>2, <1>5, <2>1, <2>2 DEF KnowsRow, Written, Decided
<1>10. ASSUME NEW j \in Yields[v] \ load'[l].todo PROVE \E f \in Rows : fact'[f].ident = j
  BY <1>1, <1>2, <1>3, <1>5, <1>10 DEF OnTrack
<1>11. load'[l].todo \subseteq Yields[v] /\ load'[l].stamp \notin load'[l].todo
  BY <1>1, <1>2, <1>3, ConstantsAssumption DEF OnTrack, TypeOK, Load
<1>12. OnTrack(l)'
  BY <1>2, <1>4, <1>8, <1>9, <1>10, <1>11 DEF OnTrack
<1> QED BY <1>6, <1>7, <1>12 DEF OneLoader, ReviewInv

\* An identity the run holds no row for has none on file until it is inserted.
LEMMA InsertStaysOnTrack ==
    ASSUME TypeOK, ReviewInv, OneLoader, NEW l \in Loaders, NEW i \in Identities, Insert(l, i)
    PROVE  ReviewInv'
<1> DEFINE v == load[l].version
<1> PICK g : g = nextId
  OBVIOUS
<1>1. /\ load[l].stage = "loading" /\ load[l].stamp = Null /\ i \in load[l].todo
      /\ load[l].held[i] = Null
  BY DEF Insert, Candidate, Insertable
<1>2. /\ load'[l].stage = "loading"
      /\ load'[l].version = v
      /\ load'[l].held = load[l].held
      /\ load'[l].todo = load[l].todo \ {i}
      /\ load'[l].stamp = Null
  BY <1>1 DEF Insert, TypeOK, Load
<1>3. OnTrack(l)
  BY DEF ReviewInv
<1>4. /\ g \in RowIds /\ fact[g] = Null /\ fact'[g] # Null
      /\ \A f \in RowIds \ {g} : fact'[f] = fact[f]
      /\ fact'[g].ident = i /\ fact'[g].read = v /\ fact'[g].version = v
  <2>1. fact'[g] = [ident |-> i, version |-> v, read |-> v, decision |-> Undecided]
    BY InsertAddsOneRow
  <2> QED BY <2>1, InsertAddsOneRow
<1>5. Rows' = Rows \cup {g} /\ g \notin Rows
  BY <1>4 DEF Rows
<1>6. \A f \in Rows : fact'[f] = fact[f]
  BY <1>4 DEF Rows
<1>7. \A f \in Rows : fact[f].ident # i
  BY <1>1, <1>3 DEF OnTrack, KnowsRow
<1>8. OneIdentityOneRow'
  BY <1>4, <1>5, <1>6, <1>7 DEF ReviewInv, OneIdentityOneRow
<1>9. Reconciled'
  BY <1>2 DEF OneLoader, Reconciled
<1>10. ASSUME NEW j \in Identities, load[l].held[j] # Null PROVE HoldsItsRow(l, j)'
  <2>1. HoldsItsRow(l, j)
    BY <1>1, <1>3, <1>10 DEF OnTrack
  <2> QED BY <1>2, <1>5, <1>6, <2>1 DEF HoldsItsRow, Decided
<1>11. ASSUME NEW f \in Rows PROVE KnowsRow(l, f)' /\ Written(l, f)'
  <2>1. KnowsRow(l, f) /\ Written(l, f) /\ fact[f].ident # i /\ fact'[f] = fact[f]
    BY <1>1, <1>3, <1>6, <1>7 DEF OnTrack
  <2>2. fact[f].ident # Null
    BY ConstantsAssumption DEF TypeOK, Row, Rows
  <2> QED BY <1>1, <1>2, <2>1, <2>2 DEF KnowsRow, Written, Decided
<1>12. i \in Yields[v]
  BY <1>1, <1>3 DEF OnTrack
<1>13. KnowsRow(l, g)' /\ Written(l, g)'
  BY <1>1, <1>2, <1>4, <1>12 DEF KnowsRow, Written
<1>14. ASSUME NEW j \in Yields[v] \ load'[l].todo PROVE \E f \in Rows' : fact'[f].ident = j
  <2>1. CASE j = i
    BY <1>4, <1>5, <2>1
  <2>2. CASE j # i
    BY <1>1, <1>2, <1>3, <1>5, <1>6, <1>14, <2>2 DEF OnTrack
  <2> QED BY <2>1, <2>2
<1>15. load'[l].todo \subseteq Yields[v] /\ load'[l].stamp \notin load'[l].todo
  BY <1>1, <1>2, <1>3 DEF OnTrack
<1>16. OnTrack(l)'
  BY <1>2, <1>5, <1>10, <1>11, <1>13, <1>14, <1>15 DEF OnTrack
<1> QED BY <1>8, <1>9, <1>16 DEF OneLoader, ReviewInv

\* Withdrawing what was read as undecided and was not produced reconciles the
\* document.
LEMMA RetireStaysOnTrack ==
    ASSUME TypeOK, ReviewInv, OneLoader, NEW l \in Loaders, Retire(l)
    PROVE  ReviewInv'
<1> DEFINE v == load[l].version
<1>1. load[l].stage = "loading" /\ load[l].todo = {} /\ load[l].stamp = Null
  BY DEF Retire
<1>2. load'[l].stage = "done" /\ load'[l].version = v
  BY <1>1 DEF Retire, TypeOK, Load, Idle
<1>3. OnTrack(l)
  BY DEF ReviewInv
<1>4. \A f \in RowIds : fact'[f] = IF f \in Retirable(l) THEN Null ELSE fact[f]
  BY DEF Retire
<1>5. Rows' \subseteq Rows /\ \A f \in Rows' : fact'[f] = fact[f] /\ f \notin Retirable(l)
  BY <1>4 DEF Rows
<1>6. OneIdentityOneRow'
  BY <1>5 DEF ReviewInv, OneIdentityOneRow
<1>7. ASSUME NEW f \in Rows
      PROVE  /\ fact[f].ident \in Yields[v] => f \notin Retirable(l)
             /\ fact[f].ident \in Yields[v] => fact[f].read = v
             /\ fact[f].ident \in Yields[v] /\ ~Decided(f) => fact[f].version = v
             /\ fact[f].ident \notin Yields[v] /\ ~Decided(f) => f \in Retirable(l)
  <2>1. fact[f].ident \in Identities /\ fact[f].ident # Null /\ f \in RowIds
    BY ConstantsAssumption DEF TypeOK, Row, Rows
  <2>2. KnowsRow(l, f) /\ Written(l, f)
    BY <1>1, <1>3 DEF OnTrack
  <2>3. ASSUME f \in Retirable(l) PROVE fact[f].ident \notin Yields[v]
    <3>1. PICK i \in Identities \ Yields[v] : load[l].held[i] # Null /\ load[l].held[i].id = f
      BY <2>3 DEF Retirable
    <3>2. fact[f].ident = i
      BY <1>1, <1>3, <3>1 DEF OnTrack, HoldsItsRow
    <3> QED BY <3>1, <3>2
  <2>4. ASSUME fact[f].ident \notin Yields[v], ~Decided(f) PROVE f \in Retirable(l)
    <3>1. load[l].held[fact[f].ident] # Null /\ load[l].held[fact[f].ident].id = f
      BY <2>2, <2>4 DEF KnowsRow
    <3>2. load[l].held[fact[f].ident].open
      BY <1>1, <1>3, <2>1, <2>4, <3>1 DEF OnTrack, HoldsItsRow
    <3> QED BY <2>1, <2>4, <3>1, <3>2 DEF Retirable
  <2> QED BY <1>1, <2>1, <2>2, <2>3, <2>4 DEF Written
<1>8. \A i \in Yields[v] : \E f \in Rows' : fact'[f].ident = i
  <2> SUFFICES ASSUME NEW i \in Yields[v] PROVE \E f \in Rows' : fact'[f].ident = i
    OBVIOUS
  <2>1. PICK f \in Rows : fact[f].ident = i
    BY <1>1, <1>3 DEF OnTrack
  <2>2. f \in RowIds /\ f \notin Retirable(l) /\ fact[f] # Null
    BY <1>7, <2>1 DEF Rows
  <2>3. f \in Rows' /\ fact'[f] = fact[f]
    BY <1>4, <2>2 DEF Rows
  <2> QED BY <2>1, <2>3
<1>9. \A f \in Rows' :
        /\ fact'[f].ident \in Yields[v] => fact'[f].read = v
        /\ ~Decided(f)' => fact'[f].ident \in Yields[v] /\ fact'[f].version = v
  BY <1>5, <1>7 DEF Decided
<1>10. Reconciled'
  BY <1>2, <1>8, <1>9 DEF OneLoader, Reconciled
<1> QED BY <1>2, <1>6, <1>10 DEF OneLoader, ReviewInv, OnTrack

\* Every step keeps one row for every identity and the run on track.
LEMMA StepStaysOnTrack ==
    ASSUME OneLoader, TypeOK, ReviewInv, [Next]_vars
    PROVE  ReviewInv'
<1>1. ASSUME NEW l \in Loaders, NEW v \in Versions, StartLoad(l, v) PROVE ReviewInv'
  <2>1. OneIdentityOneRow
    BY DEF ReviewInv
  <2>2. OnTrack(l)' /\ load'[l].stage = "loading"
    BY <1>1, <2>1, StartIsOnTrack
  <2>3. fact' = fact
    BY <1>1 DEF StartLoad
  <2>4. OneIdentityOneRow'
    BY <2>1, <2>3 DEF OneIdentityOneRow, Rows
  <2> QED BY <2>2, <2>4 DEF OneLoader, ReviewInv, Reconciled
<1>2. ASSUME NEW l \in Loaders, NEW i \in Identities, Measure(l, i) PROVE ReviewInv'
  BY <1>2, MeasureStaysOnTrack
<1>3. ASSUME NEW l \in Loaders, Restamp(l) PROVE ReviewInv'
  BY <1>3, RestampStaysOnTrack
<1>4. ASSUME NEW l \in Loaders, NEW i \in Identities, Insert(l, i) PROVE ReviewInv'
  BY <1>4, InsertStaysOnTrack
<1>5. ASSUME NEW l \in Loaders, Retire(l) PROVE ReviewInv'
  BY <1>5, RetireStaysOnTrack
<1>6. ASSUME NEW l \in Loaders, Crash(l) PROVE ReviewInv'
  <2>1. load'[l].stage = "idle" /\ fact' = fact
    BY <1>6 DEF Crash, TypeOK, Idle
  <2>2. OneIdentityOneRow'
    BY <2>1 DEF ReviewInv, OneIdentityOneRow, Rows
  <2> QED BY <2>1, <2>2 DEF OneLoader, ReviewInv, Reconciled, OnTrack
<1>7. ASSUME fact' = fact, load' = load PROVE ReviewInv'
  BY <1>7, DecidingDisturbsNothing DEF Decided
<1>8. ASSUME NEW r \in Reviewers, ReviewerStep(r) PROVE ReviewInv'
  <2>1. load' = load
    BY <1>8 DEF ReviewerStep, RecordDecision, ReadForRevision, ReviseWhatWasRead,
                LeaveUnchanged, ReviseNamed
  <2>2. CASE \E f \in Rows, d \in Decisions(r) : Write(f, d)
    <3>1. PICK f \in Rows, d \in Decisions(r) : Write(f, d)
      BY <2>2
    <3>2. \A g \in Rows : fact'[g].decision = fact[g].decision
                          \/ fact'[g].decision.status # "unverified"
      <4>1. d.status # "unverified"
        BY DEF Decisions
      <4>2. fact'[f].decision = d /\ \A g \in RowIds \ {f} : fact'[g] = fact[g]
        BY <3>1, WriteChangesOneDecision
      <4> QED BY <4>1, <4>2 DEF Rows
    <3>3. \A g \in Rows : Decided(g) => fact'[g].decision.status # "unverified"
      BY <3>2 DEF Decided
    <3>4. \A g \in RowIds : (fact'[g] = Null) <=> (fact[g] = Null)
      BY <3>1, WriteChangesOneDecision
    <3>5. \A g \in Rows : /\ fact'[g].ident = fact[g].ident
                          /\ fact'[g].version = fact[g].version
                          /\ fact'[g].read = fact[g].read
      BY <3>1, WriteChangesOneDecision DEF Rows
    <3> QED BY <2>1, <3>3, <3>4, <3>5, DecidingDisturbsNothing
  <2>3. CASE fact' = fact
    BY <1>7, <2>1, <2>3
  <2> QED BY <1>8, <2>2, <2>3, ReviewerWrites
<1> QED BY <1>1, <1>2, <1>3, <1>4, <1>5, <1>6, <1>7, <1>8 DEF Next, LoaderStep, vars

\* So the one run is on track in every reachable state.
LEMMA AlwaysOnTrack == ASSUME OneLoader PROVE Spec => []ReviewInv
<1>1. Init => ReviewInv
  BY DEF Init, ReviewInv, OneIdentityOneRow, Reconciled, OnTrack, Idle, Rows
<1>2. TypeOK /\ ReviewInv /\ [Next]_vars => ReviewInv'
  BY StepStaysOnTrack
<1> QED BY <1>1, <1>2, TypeCorrect, PTL DEF Spec

\* With one parser run at a time, whatever reviewers decide while it runs and
\* however often it dies, no figure is ever on file twice.
THEOREM OneRowPerIdentity == ASSUME OneLoader PROVE Spec => []OneIdentityOneRow
<1>1. ReviewInv => OneIdentityOneRow
  BY DEF ReviewInv
<1> QED BY <1>1, AlwaysOnTrack, PTL

\* And a run that finished leaves the document's open rows as its version has
\* them.
THEOREM FinishedRunReconciles == ASSUME OneLoader PROVE Spec => []Reconciled
<1>1. ReviewInv => Reconciled
  BY DEF ReviewInv
<1> QED BY <1>1, AlwaysOnTrack, PTL

-----------------------------------------------------------------------------
(* The rows implement the ledger of claims.                                *)

\* A row nobody has decided has no history, and neither has an id not in use.
OnlyDecidedHavePast ==
    \A f \in RowIds : fact[f] = Null \/ ~Decided(f) => past[f] = <<>>

LEMMA PastStaysWithDecisions ==
    ASSUME TypeOK, OnlyDecidedHavePast, [Next]_vars
    PROVE  OnlyDecidedHavePast'
<1> SUFFICES ASSUME NEW f \in RowIds, fact'[f] = Null \/ fact'[f].decision.status = "unverified"
             PROVE  past'[f] = <<>>
  BY DEF OnlyDecidedHavePast, Decided
<1>1. f \in Rows => fact[f] \in Row /\ fact[f].decision \in Decision
  BY DEF TypeOK, Rows, Row
<1>2. ASSUME NEW l \in Loaders, NEW i \in Identities, Measure(l, i) PROVE past'[f] = <<>>
  <2>1. past' = past
    BY <1>2 DEF Measure
  <2>2. fact[f] = Null \/ fact[f].decision.status = "unverified"
    BY <1>2, MeasureKeepsDecisions DEF Rows
  <2> QED BY <2>1, <2>2 DEF OnlyDecidedHavePast, Decided
<1>3. ASSUME NEW l \in Loaders, Restamp(l) PROVE past'[f] = <<>>
  <2>1. past' = past
    BY <1>3 DEF Restamp
  <2>2. fact[f] = Null \/ fact[f].decision.status = "unverified"
    BY <1>3, RestampKeepsDecisions DEF Rows
  <2> QED BY <2>1, <2>2 DEF OnlyDecidedHavePast, Decided
<1>4. ASSUME NEW l \in Loaders, NEW i \in Identities, Insert(l, i) PROVE past'[f] = <<>>
  <2>1. past' = past
    BY <1>4 DEF Insert
  <2>2. fact[f] = Null \/ fact[f].decision.status = "unverified"
    BY <1>4, InsertAddsOneRow
  <2> QED BY <2>1, <2>2 DEF OnlyDecidedHavePast, Decided
<1>5. ASSUME NEW l \in Loaders, Retire(l) PROVE past'[f] = <<>>
  <2>1. CASE f \in Retirable(l)
    BY <1>5, <2>1 DEF Retire
  <2>2. CASE f \notin Retirable(l)
    <3>1. fact'[f] = fact[f] /\ past'[f] = past[f]
      BY <1>5, <2>2 DEF Retire
    <3> QED BY <3>1 DEF OnlyDecidedHavePast, Decided
  <2> QED BY <2>1, <2>2
<1>6. ASSUME NEW r \in Reviewers, ReviewerStep(r) PROVE past'[f] = <<>>
  <2>1. CASE UNCHANGED <<fact, past>>
    BY <2>1 DEF OnlyDecidedHavePast, Decided
  <2>2. ASSUME NEW g \in Rows, NEW d \in Decisions(r), Write(g, d) PROVE past'[f] = <<>>
    <3>1. CASE f = g
      <4>1. fact'[f].decision = d /\ fact'[f] # Null
        BY <2>2, <3>1, WriteChangesOneDecision DEF Rows
      <4>2. d.status # "unverified"
        BY SubmittedIsSound
      <4> QED BY <4>1, <4>2
    <3>2. CASE f # g
      <4>1. fact'[f] = fact[f] /\ past'[f] = past[f]
        BY <2>2, <3>2, WriteChangesOneDecision
      <4> QED BY <4>1 DEF OnlyDecidedHavePast, Decided
    <3> QED BY <3>1, <3>2
  <2> QED BY <1>6, <2>1, <2>2, ReviewerWrites
<1>7. ASSUME UNCHANGED <<fact, past>> PROVE past'[f] = <<>>
  BY <1>7 DEF OnlyDecidedHavePast, Decided
<1> QED
  BY <1>2, <1>3, <1>4, <1>5, <1>6, <1>7 DEF Next, LoaderStep, StartLoad, Crash, vars

\* A claim's entry is that of its one row.
LEMMA EntryOfRow ==
    ASSUME TypeOK, OneIdentityOneRow, NEW f \in Rows
    PROVE  /\ LedgerEntry(fact[f].ident) = [ruling |-> fact[f].decision, replaced |-> past[f]]
           /\ LedgerEntry(fact[f].ident) \in Entry
           /\ LedgerEntry(fact[f].ident) # Null
<1> PICK i : i = fact[f].ident
  OBVIOUS
<1>1. (CHOOSE g \in Rows : fact[g].ident = i) = f
  BY DEF OneIdentityOneRow
<1>2. LedgerEntry(i) = [ruling |-> fact[f].decision, replaced |-> past[f]]
  BY <1>1 DEF LedgerEntry
<1>3. fact[f].decision \in Decision /\ past[f] \in Seq(Decision)
  BY DEF TypeOK, Rows, Row
<1>4. LedgerEntry(i) \in Entry
  BY <1>2, <1>3 DEF Entry
<1> QED BY <1>2, <1>4, NullAssumption

LEMMA NoRowNoEntry ==
    ASSUME NEW i, \A f \in Rows : fact[f].ident # i
    PROVE  LedgerEntry(i) = Null
BY DEF LedgerEntry

\* Steps that leave every row's identity, decision and history leave the ledger.
LEMMA EntriesStand ==
    ASSUME Rows' = Rows, past' = past,
           \A f \in Rows : fact'[f].decision = fact[f].decision /\ fact'[f].ident = fact[f].ident,
           TypeOK, TypeOK', OneIdentityOneRow, OneIdentityOneRow', NEW i \in Identities
    PROVE  LedgerEntry(i)' = LedgerEntry(i)
<1>1. ASSUME NEW f \in Rows, fact[f].ident = i PROVE LedgerEntry(i)' = LedgerEntry(i)
  <2>1. LedgerEntry(i) = [ruling |-> fact[f].decision, replaced |-> past[f]]
    BY <1>1, EntryOfRow
  <2>2. LedgerEntry(i)' = [ruling |-> fact'[f].decision, replaced |-> past'[f]]
    <3>1. (CHOOSE g \in Rows' : fact'[g].ident = i) = f
      BY <1>1 DEF OneIdentityOneRow
    <3>2. \E g \in Rows' : fact'[g].ident = i
      BY <1>1
    <3> QED BY <3>1, <3>2 DEF LedgerEntry
  <2> QED BY <1>1, <2>1, <2>2
<1>2. ASSUME \A f \in Rows : fact[f].ident # i PROVE LedgerEntry(i)' = LedgerEntry(i)
  BY <1>2 DEF LedgerEntry
<1> QED BY <1>1, <1>2

\* The ledger the rows implement: what stands for `ledger` in ReviewLedger.
Claims == [i \in Identities |-> LedgerEntry(i)]

\* A step that writes one row leaves every claim that row is not of.
LEMMA OthersStand ==
    ASSUME TypeOK, OneIdentityOneRow, OneIdentityOneRow', NEW g,
           \A f \in Rows \ {g} : /\ f \in Rows' /\ past'[f] = past[f]
                                 /\ fact'[f].decision = fact[f].decision
                                 /\ fact'[f].ident = fact[f].ident,
           Rows' \subseteq Rows \cup {g},
           NEW i \in Identities,
           g \in Rows => fact[g].ident # i,
           g \in Rows' => fact'[g].ident # i
    PROVE  LedgerEntry(i)' = LedgerEntry(i)
<1>1. ASSUME NEW f \in Rows, fact[f].ident = i PROVE LedgerEntry(i)' = LedgerEntry(i)
  <2>1. LedgerEntry(i) = [ruling |-> fact[f].decision, replaced |-> past[f]]
    BY <1>1, EntryOfRow
  <2>2. f # g /\ f \in Rows' /\ fact'[f].ident = i
    BY <1>1
  <2>3. (CHOOSE h \in Rows' : fact'[h].ident = i) = f
    BY <2>2 DEF OneIdentityOneRow
  <2>4. LedgerEntry(i)' = [ruling |-> fact'[f].decision, replaced |-> past'[f]]
    BY <2>2, <2>3 DEF LedgerEntry
  <2> QED BY <1>1, <2>1, <2>2, <2>4
<1>2. ASSUME \A f \in Rows : fact[f].ident # i PROVE LedgerEntry(i)' = LedgerEntry(i)
  <2>1. \A f \in Rows' : fact'[f].ident # i
    BY <1>2
  <2> QED BY <1>2, <2>1 DEF LedgerEntry
<1> QED BY <1>1, <1>2

\* A row inserted offers a claim that was not on offer.
LEMMA InsertOffers ==
    ASSUME TypeOK, ReviewInv, ReviewInv', OnlyDecidedHavePast,
           NEW l \in Loaders, NEW i \in Identities, Insert(l, i)
    PROVE  Ledger!Offer(i)
<1> PICK g : g = nextId
  OBVIOUS
<1>1. /\ g \in RowIds /\ fact[g] = Null /\ fact'[g] # Null
      /\ \A f \in RowIds \ {g} : fact'[f] = fact[f]
      /\ fact'[g].ident = i /\ fact'[g].decision = Undecided
  <2>1. fact'[g] = [ident |-> i, version |-> load[l].version, read |-> load[l].version,
                    decision |-> Undecided]
    BY InsertAddsOneRow
  <2> QED BY <2>1, InsertAddsOneRow
<1>2. Rows' = Rows \cup {g} /\ g \notin Rows
  BY <1>1 DEF Rows
<1>3. \A f \in Rows : fact[f].ident # i
  BY DEF Insert, Candidate, Insertable, ReviewInv, OnTrack, KnowsRow
<1>4. past' = past /\ past[g] = <<>>
  BY <1>1 DEF Insert, OnlyDecidedHavePast
<1>5. LedgerEntry(i) = Null
  BY <1>3, NoRowNoEntry
<1>6. LedgerEntry(i)' = [ruling |-> Undecided, replaced |-> <<>>]
  <2>1. (CHOOSE h \in Rows' : fact'[h].ident = i) = g
    BY <1>1, <1>2 DEF ReviewInv, OneIdentityOneRow
  <2>2. \E h \in Rows' : fact'[h].ident = i
    BY <1>1, <1>2
  <2>3. LedgerEntry(i)' = [ruling |-> fact'[g].decision, replaced |-> past'[g]]
    BY <2>1, <2>2 DEF LedgerEntry
  <2> QED BY <1>1, <1>4, <2>3
<1>7. ASSUME NEW j \in Identities, j # i PROVE LedgerEntry(j)' = LedgerEntry(j)
  <2>1. \A f \in Rows \ {g} : /\ f \in Rows' /\ past'[f] = past[f]
                              /\ fact'[f].decision = fact[f].decision
                              /\ fact'[f].ident = fact[f].ident
    BY <1>1, <1>2, <1>4 DEF Rows
  <2> QED BY <1>1, <1>2, <1>7, <2>1, OthersStand DEF ReviewInv
<1>8. Claims[i] = Null
  BY <1>5 DEF Claims
<1>9. Claims' = [Claims EXCEPT ![i] = [ruling |-> Undecided, replaced |-> <<>>]]
  BY <1>6, <1>7 DEF Claims
<1> QED BY <1>8, <1>9 DEF Ledger!Offer, Claims

\* The rows withdrawn at the end of a run were claims still open, when nobody
\* decided meanwhile.
LEMMA RetireWithdraws ==
    ASSUME TypeOK, ReviewInv, ReviewInv', HeldIsCurrent, OnlyDecidedHavePast,
           NEW l \in Loaders, Retire(l)
    PROVE  Claims' = Claims \/ \E S \in SUBSET Identities : Ledger!Withdraw(S)
<1> PICK S : S = {i \in Identities : \E f \in Rows \cap Retirable(l) : fact[f].ident = i}
  OBVIOUS
<1>1. \A f \in RowIds : /\ fact'[f] = IF f \in Retirable(l) THEN Null ELSE fact[f]
                        /\ past'[f] = IF f \in Retirable(l) THEN <<>> ELSE past[f]
  BY DEF Retire
<1>2. Rows' = Rows \ Retirable(l)
  BY <1>1 DEF Rows
<1>3. \A f \in Rows' : f \in Rows /\ fact'[f] = fact[f] /\ past'[f] = past[f]
  BY <1>1, <1>2 DEF Rows
<1>4. ASSUME NEW f \in Rows \cap Retirable(l)
      PROVE  fact[f].decision = Undecided /\ past[f] = <<>>
  <2>1. load[l].stage = "loading"
    BY DEF Retire
  <2>2. PICK i \in Identities : load[l].held[i] # Null /\ load[l].held[i].id = f /\ load[l].held[i].open
    BY DEF Retirable
  <2>3. ~Decided(f)
    BY <2>1, <2>2 DEF HeldIsCurrent, Rows
  <2>4. fact[f].decision = Undecided
    BY <2>3 DEF TypeOK, DecisionSound, Decided
  <2>5. past[f] = <<>>
    BY <2>3 DEF OnlyDecidedHavePast, Rows
  <2> QED BY <2>4, <2>5
<1>5. ASSUME NEW i \in S PROVE LedgerEntry(i)' = Null /\ Claims[i] # Null /\ Claims[i].ruling = Undecided
  <2>1. PICK f \in Rows \cap Retirable(l) : fact[f].ident = i
    OBVIOUS
  <2>2. LedgerEntry(i) = [ruling |-> Undecided, replaced |-> <<>>] /\ LedgerEntry(i) # Null
    BY <1>4, <2>1, EntryOfRow DEF ReviewInv
  <2>3. \A g \in Rows' : fact'[g].ident # i
    BY <1>2, <1>3, <2>1 DEF ReviewInv, OneIdentityOneRow
  <2>4. LedgerEntry(i)' = Null
    BY <2>3 DEF LedgerEntry
  <2> QED BY <2>2, <2>4 DEF Claims
<1>6. ASSUME NEW i \in Identities \ S PROVE LedgerEntry(i)' = LedgerEntry(i)
  <2>1. ASSUME NEW f \in Rows, fact[f].ident = i PROVE LedgerEntry(i)' = LedgerEntry(i)
    <3>1. f \in Rows' /\ fact'[f] = fact[f] /\ past'[f] = past[f]
      BY <1>2, <1>3, <1>6, <2>1
    <3>2. LedgerEntry(i) = [ruling |-> fact[f].decision, replaced |-> past[f]]
      BY <2>1, EntryOfRow DEF ReviewInv
    <3>3. (CHOOSE h \in Rows' : fact'[h].ident = i) = f
      BY <2>1, <3>1 DEF ReviewInv, OneIdentityOneRow
    <3>4. LedgerEntry(i)' = [ruling |-> fact'[f].decision, replaced |-> past'[f]]
      BY <2>1, <3>1, <3>3 DEF LedgerEntry
    <3> QED BY <3>1, <3>2, <3>4
  <2>2. ASSUME \A f \in Rows : fact[f].ident # i PROVE LedgerEntry(i)' = LedgerEntry(i)
    <3>1. \A f \in Rows' : fact'[f].ident # i
      BY <1>3, <2>2
    <3> QED BY <2>2, <3>1 DEF LedgerEntry
  <2> QED BY <2>1, <2>2
<1>7. Claims' = [i \in Identities |-> IF i \in S THEN Null ELSE Claims[i]]
  BY <1>5, <1>6 DEF Claims
<1>8. CASE S = {}
  BY <1>7, <1>8 DEF Claims
<1>9. CASE S # {}
  <2>1. S \in SUBSET Identities
    OBVIOUS
  <2>2. Ledger!Withdraw(S)
    BY <1>5, <1>7, <1>9 DEF Ledger!Withdraw, Ledger!Open, Claims
  <2> QED BY <2>1, <2>2
<1> QED BY <1>8, <1>9

\* A decision written to a row rules its claim, repeats its ruling, or replaces
\* it and keeps the one replaced.
LEMMA WriteRules ==
    ASSUME TypeOK, ReviewInv, ReviewInv', OnlyDecidedHavePast,
           NEW r \in Reviewers, NEW d \in Decisions(r), NEW f \in Rows, Write(f, d)
    PROVE  LET i == fact[f].ident
           IN  Claims' = Claims \/ Ledger!Rule(i, d) \/ Ledger!Replace(i, d)
<1> PICK i : i = fact[f].ident
  OBVIOUS
<1>1. /\ Rows' = Rows
      /\ \A g \in RowIds \ {f} : fact'[g] = fact[g] /\ past'[g] = past[g]
      /\ fact'[f].decision = d
      /\ fact'[f].ident = i
  BY WriteChangesOneDecision DEF Rows
<1>2. i \in Identities /\ f \in RowIds /\ fact[f].decision \in Decision /\ past[f] \in Seq(Decision)
  BY DEF TypeOK, Rows, Row
<1>3. d \in Decision /\ d.status # "unverified"
  BY SubmittedIsSound
<1>4. past'[f] = IF Decided(f) /\ fact[f].decision # d
                   THEN Append(past[f], fact[f].decision) ELSE past[f]
  BY <1>2 DEF Write, Supersede, TypeOK
<1>5. LedgerEntry(i) = [ruling |-> fact[f].decision, replaced |-> past[f]] /\ LedgerEntry(i) # Null
  BY EntryOfRow DEF ReviewInv
<1>6. LedgerEntry(i)' = [ruling |-> d, replaced |-> past'[f]]
  <2>1. (CHOOSE h \in Rows' : fact'[h].ident = i) = f
    BY <1>1 DEF ReviewInv, OneIdentityOneRow
  <2>2. LedgerEntry(i)' = [ruling |-> fact'[f].decision, replaced |-> past'[f]]
    BY <1>1, <2>1 DEF LedgerEntry
  <2> QED BY <1>1, <2>2
<1>7. ASSUME NEW j \in Identities, j # i PROVE LedgerEntry(j)' = LedgerEntry(j)
  <2>1. \A h \in Rows \ {f} : /\ h \in Rows' /\ past'[h] = past[h]
                              /\ fact'[h].decision = fact[h].decision
                              /\ fact'[h].ident = fact[h].ident
    BY <1>1 DEF Rows
  <2> QED BY <1>1, <1>7, <2>1, OthersStand DEF ReviewInv
<1>8. Claims[i] = [ruling |-> fact[f].decision, replaced |-> past[f]] /\ Claims[i] # Null
  BY <1>2, <1>5 DEF Claims
<1>9. Claims' = [Claims EXCEPT ![i] = [ruling |-> d, replaced |-> past'[f]]]
  BY <1>2, <1>6, <1>7 DEF Claims
<1>10. ~Decided(f) <=> fact[f].decision = Undecided
  BY DEF TypeOK, DecisionSound, Decided, Undecided
<1>11. CASE ~Decided(f)
  <2>1. Claims[i].ruling = Undecided /\ past'[f] = past[f]
    BY <1>4, <1>8, <1>10, <1>11
  <2>2. [Claims EXCEPT ![i].ruling = d] = [Claims EXCEPT ![i] = [ruling |-> d, replaced |-> past[f]]]
    <3> PICK was : was = fact[f].decision
      OBVIOUS
    <3> PICK before : before = past[f]
      OBVIOUS
    <3>1. [[ruling |-> was, replaced |-> before] EXCEPT !.ruling = d]
             = [ruling |-> d, replaced |-> before]
      OBVIOUS
    <3>2. [Claims[i] EXCEPT !.ruling = d] = [ruling |-> d, replaced |-> before]
      BY <1>8, <3>1
    <3> HIDE DEF Claims
    <3> QED BY <3>2
  <2>3. Ledger!Rule(i, d)
    BY <1>8, <1>9, <2>1, <2>2 DEF Ledger!Rule, Ledger!Open, Claims
  <2> QED BY <2>3
<1>12. CASE Decided(f) /\ fact[f].decision = d
  <2>1. past'[f] = past[f]
    BY <1>4, <1>12
  <2>2. LedgerEntry(i)' = LedgerEntry(i)
    BY <1>5, <1>6, <1>12, <2>1
  <2> QED BY <1>7, <2>2 DEF Claims
<1>13. CASE Decided(f) /\ fact[f].decision # d
  <2>1. past'[f] = Append(past[f], fact[f].decision)
    BY <1>4, <1>13
  <2>2. Claims[i].ruling \notin {Undecided, d}
    BY <1>8, <1>10, <1>13
  <2>3. Claims' = [Claims EXCEPT ![i] = [ruling |-> d, replaced |-> Append(@.replaced, @.ruling)]]
    <3>1. Claims[i].replaced = past[f] /\ Claims[i].ruling = fact[f].decision
      BY <1>8
    <3> QED BY <1>9, <2>1, <3>1
  <2>4. Ledger!Replace(i, d)
    BY <1>8, <2>2, <2>3 DEF Ledger!Replace, Claims
  <2> QED BY <2>4
<1> QED BY <1>11, <1>12, <1>13

\* The hypotheses under which the table keeps the ledger's promise are those the
\* code leaves to whoever runs it: one parser run, and nobody deciding meanwhile.
LEMMA StepIsTheLedgers ==
    ASSUME OneLoader, ~Overlap, TypeOK, TypeOK', ReviewInv, ReviewInv', HeldIsCurrent,
           OnlyDecidedHavePast, [Next]_vars
    PROVE  Ledger!Next \/ Claims' = Claims
<1>1. ASSUME UNCHANGED <<fact, past>> PROVE Claims' = Claims
  BY <1>1 DEF Claims, LedgerEntry, Rows
<1>2. ASSUME NEW l \in Loaders, NEW i \in Identities, Measure(l, i) PROVE Claims' = Claims
  <2>1. Rows' = Rows /\ past' = past
    BY <1>2, MeasureKeepsDecisions DEF Rows, Measure
  <2>2. \A j \in Identities : LedgerEntry(j)' = LedgerEntry(j)
    BY <1>2, <2>1, MeasureKeepsDecisions, EntriesStand DEF ReviewInv
  <2> QED BY <2>2 DEF Claims
<1>3. ASSUME NEW l \in Loaders, Restamp(l) PROVE Claims' = Claims
  <2>1. Rows' = Rows /\ past' = past
    BY <1>3, RestampKeepsDecisions DEF Rows, Restamp
  <2>2. \A j \in Identities : LedgerEntry(j)' = LedgerEntry(j)
    BY <1>3, <2>1, RestampKeepsDecisions, EntriesStand DEF ReviewInv
  <2> QED BY <2>2 DEF Claims
<1>4. ASSUME NEW l \in Loaders, NEW i \in Identities, Insert(l, i) PROVE Ledger!Next
  BY <1>4, InsertOffers DEF Ledger!Next
<1>5. ASSUME NEW l \in Loaders, Retire(l) PROVE Ledger!Next \/ Claims' = Claims
  BY <1>5, RetireWithdraws DEF Ledger!Next
<1>6. ASSUME NEW r \in Reviewers, ReviewerStep(r) PROVE Ledger!Next \/ Claims' = Claims
  <2>1. ASSUME NEW f \in Rows, NEW d \in Decisions(r), Write(f, d)
        PROVE  Ledger!Next \/ Claims' = Claims
    <3>1. fact[f].ident \in Identities /\ d \in UNION {Decisions(s) : s \in Reviewers}
      BY DEF TypeOK, Rows, Row
    <3> QED BY <2>1, <3>1, WriteRules DEF Ledger!Next
  <2> QED BY <1>1, <1>6, <2>1, ReviewerWrites
<1> QED
  BY <1>1, <1>2, <1>3, <1>4, <1>5, <1>6 DEF Next, LoaderStep, StartLoad, Crash, vars

\* With one parser run at a time and nobody deciding during it, the rows, runs
\* and sessions of one document keep the ledger's promise about every claim:
\* offered, withdrawn only while open, ruled once, and after that changed only
\* by a decision that keeps the one it replaces (facts-load.ts, decide.ts, 0009).
THEOREM RowsImplementTheLedger == ASSUME OneLoader, ~Overlap PROVE Spec => ImplementsLedger
<1>1. Init => OnlyDecidedHavePast
  BY DEF Init, OnlyDecidedHavePast
<1>2. TypeOK /\ OnlyDecidedHavePast /\ [Next]_vars => OnlyDecidedHavePast'
  BY PastStaysWithDecisions
<1>3. Init => Ledger!Init
  BY DEF Init, Ledger!Init, LedgerEntry, Rows
<1>4. TypeOK /\ TypeOK' /\ ReviewInv /\ ReviewInv' /\ HeldIsCurrent /\ OnlyDecidedHavePast
        /\ [Next]_vars => [Ledger!Next]_[i \in Identities |-> LedgerEntry(i)]
  BY StepIsTheLedgers DEF Claims
<1> QED
  BY <1>1, <1>2, <1>3, <1>4, TypeCorrect, AlwaysOnTrack, HeldIsAlwaysCurrent, PTL
  DEF Spec, ImplementsLedger, Ledger!Spec

-----------------------------------------------------------------------------
(* The terminal (ReviewDesk): what a session offers and decides.             *)

\* What a sequence lists.
Listed(queue) == {queue[n] : n \in 1..Len(queue)}

\* Those of the first n of a queue that are in a set, in a queue of their own.
IsAmong(kept, queue, set, n) ==
    /\ kept \in Seq(Candidates)
    /\ Listed(kept) = {queue[k] : k \in 1..n} \cap set

LEMMA AmongIs ==
    ASSUME NEW queue \in Seq(Candidates), NEW set
    PROVE  Among(queue, set) \in Seq(Candidates) /\ Listed(Among(queue, set)) = Listed(queue) \cap set
<1> DEFINE N == Len(queue)
           Goes(x, n) == IF queue[n] \in set THEN Append(x, queue[n]) ELSE x
           Equation(g) == g = [n \in 0..N |-> IF n = 0 THEN <<>>
                                              ELSE IF queue[n] \in set THEN Append(g[n - 1], queue[n]) ELSE g[n - 1]]
           kept == CHOOSE g : Equation(g)
<1>1. N \in Nat /\ \A n \in 1..N : queue[n] \in Candidates
  OBVIOUS
<1>2. \E g : Equation(g)
  <2> DEFINE step == [n \in 1..N |-> [x \in Seq(Candidates) |-> Goes(x, n)]]
  <2>1. step \in [1..N -> [Seq(Candidates) -> Seq(Candidates)]]
    BY <1>1
  <2>2. PICK h : IsListOf(h, Seq(Candidates), <<>>, N, step)
    <3>1. N \in Nat /\ <<>> \in Seq(Candidates)
      BY <1>1
    <3> HIDE DEF step, N
    <3> QED
      BY <2>1, <3>1, StepsExist
  <2> HIDE DEF step
  <2>3. h \in [0..N -> Seq(Candidates)] /\ h[0] = <<>> /\ \A n \in 1..N : h[n] = step[n][h[n - 1]]
    BY <2>2 DEF IsListOf
  <2>4. \A n \in 1..N : h[n] = Goes(h[n - 1], n)
    <3> SUFFICES ASSUME NEW n \in 1..N
                 PROVE  h[n] = Goes(h[n - 1], n)
      OBVIOUS
    <3>1. n - 1 \in 0..N /\ h[n - 1] \in Seq(Candidates)
      BY <1>1, <2>3
    <3>2. step[n] = [x \in Seq(Candidates) |-> Goes(x, n)]
      BY DEF step
    <3> QED
      BY <2>3, <3>1, <3>2
  <2>5. ASSUME NEW n \in 0..N
        PROVE  h[n] = IF n = 0 THEN <<>>
                      ELSE IF queue[n] \in set THEN Append(h[n - 1], queue[n]) ELSE h[n - 1]
    <3>1. CASE n = 0
      BY <2>3, <3>1
    <3>2. CASE n # 0
      <4>1. n \in 1..N
        BY <1>1, <3>2
      <4> QED
        BY <2>4, <3>2, <4>1
    <3> QED
      BY <3>1, <3>2
  <2>6. Equation(h)
    BY <2>3, <2>5
  <2> QED
    BY <2>6
<1>3. Equation(kept)
  BY <1>2
<1>4. /\ kept[0] = <<>>
      /\ \A n \in 1..N : kept[n] = Goes(kept[n - 1], n)
  <2> HIDE DEF kept
  <2>1. \A n \in 0..N : kept[n] = IF n = 0 THEN <<>>
                                  ELSE IF queue[n] \in set THEN Append(kept[n - 1], queue[n]) ELSE kept[n - 1]
    BY <1>3
  <2>2. 0 \in 0..N /\ \A n \in 1..N : n \in 0..N /\ n # 0
    BY <1>1
  <2> QED
    BY <2>1, <2>2
<1>5. Among(queue, set) = kept[N]
  BY DEF Among
<1> HIDE DEF kept
<1> DEFINE G == {n \in 0..N : IsAmong(kept[n], queue, set, n)}
<1>6. 0 \in G
  <2>1. IsAmong(<<>>, queue, set, 0)
    BY DEF IsAmong, Listed
  <2> QED
    BY <1>1, <1>4, <2>1
<1>7. ASSUME NEW n \in 1..N, n - 1 \in G
      PROVE  n \in G
  <2>1. PICK old : old = kept[n - 1]
    OBVIOUS
  <2>2. PICK new : new = kept[n]
    OBVIOUS
  <2>3. /\ old \in Seq(Candidates) /\ Listed(old) = {queue[k] : k \in 1..(n - 1)} \cap set
        /\ new = Goes(old, n)
    BY <1>4, <1>7, <2>1, <2>2 DEF IsAmong
  <2>4. {queue[k] : k \in 1..n} = {queue[k] : k \in 1..(n - 1)} \cup {queue[n]}
    <3>1. \A k \in 1..n : k \in 1..(n - 1) \/ k = n
      BY <1>1
    <3>2. n \in 1..n /\ \A k \in 1..(n - 1) : k \in 1..n
      BY <1>1
    <3> QED
      BY <3>1, <3>2
  <2>5. CASE queue[n] \in set
    <3>1. new = Append(old, queue[n]) /\ queue[n] \in Candidates
      BY <1>1, <2>3, <2>5
    <3>2. new \in Seq(Candidates) /\ Len(new) = Len(old) + 1 /\ Len(old) \in Nat
      BY <2>3, <3>1
    <3>3. new[Len(old) + 1] = queue[n] /\ \A k \in 1..Len(old) : new[k] = old[k]
      BY <2>3, <3>1
    <3>4. \A k \in 1..Len(new) : k \in 1..Len(old) \/ k = Len(old) + 1
      BY <3>2
    <3>5. \A k \in 1..Len(old) : k \in 1..Len(new)
      BY <3>2
    <3>6. Len(old) + 1 \in 1..Len(new)
      BY <3>2
    <3>7. Listed(new) = Listed(old) \cup {queue[n]}
      BY <3>3, <3>4, <3>5, <3>6 DEF Listed
    <3>8. IsAmong(new, queue, set, n)
      BY <2>3, <2>4, <2>5, <3>2, <3>7 DEF IsAmong
    <3> QED
      BY <1>1, <2>2, <3>8
  <2>6. CASE queue[n] \notin set
    <3>1. IsAmong(new, queue, set, n)
      BY <2>3, <2>4, <2>6 DEF IsAmong
    <3> QED
      BY <1>1, <2>2, <3>1
  <2> QED
    BY <2>5, <2>6
<1>8. 0..N \subseteq G
  <2> HIDE DEF G, N
  <2> QED
    BY <1>1, <1>6, <1>7, StepByStep
<1>9. IsAmong(kept[N], queue, set, N)
  BY <1>1, <1>8
<1> QED
  BY <1>5, <1>9 DEF IsAmong, Listed

\* The rank of a candidate among others tells it from them, and each rank there
\* can be is some candidate's.
LEMMA RanksAreTaken ==
    ASSUME NEW set \in SUBSET Candidates
    PROVE  /\ IsFiniteSet(set) /\ Cardinality(set) \in Nat
           /\ \A f, g \in set : Cardinality({h \in set : Before(h, f)}) = Cardinality({h \in set : Before(h, g)})
                                  => f = g
           /\ \A f \in set : Cardinality({h \in set : Before(h, f)}) \in 0..(Cardinality(set) - 1)
           /\ \A n \in 1..Cardinality(set) : \E f \in set : Cardinality({h \in set : Before(h, f)}) = n - 1
<1> DEFINE pred(f) == {h \in set : Before(h, f)}
           rank == [f \in set |-> Cardinality(pred(f))]
           N == Cardinality(set)
<1>1. IsFiniteSet(set) /\ N \in Nat
  BY CandidatesAreIds, FS_Subset, FS_CardinalityType
<1>2. \A f \in set : f \in Nat /\ PlaceIn[f] \in Nat \X Nat
  BY CandidatesAreIds
<1>3. \A f, g \in set : /\ ~Before(f, f)
                        /\ f # g => Before(f, g) \/ Before(g, f)
  BY <1>2 DEF Before
<1>4. \A f, g, h \in set : Before(f, g) /\ Before(g, h) => Before(f, h)
  <2> SUFFICES ASSUME NEW f \in set, NEW g \in set, NEW h \in set, Before(f, g), Before(g, h)
               PROVE  Before(f, h)
    OBVIOUS
  <2>1. /\ f \in Nat /\ g \in Nat /\ h \in Nat
        /\ PlaceIn[f] \in Nat \X Nat /\ PlaceIn[g] \in Nat \X Nat /\ PlaceIn[h] \in Nat \X Nat
    BY <1>2
  <2> QED
    BY <2>1 DEF Before
<1>5. \A f \in set : /\ pred(f) \in SUBSET set /\ f \notin pred(f)
                     /\ IsFiniteSet(pred(f)) /\ Cardinality(pred(f)) \in Nat
  <2> SUFFICES ASSUME NEW f \in set
               PROVE  /\ pred(f) \in SUBSET set /\ f \notin pred(f)
                      /\ IsFiniteSet(pred(f)) /\ Cardinality(pred(f)) \in Nat
    OBVIOUS
  <2>1. pred(f) \in SUBSET set /\ f \notin pred(f)
    BY <1>3
  <2> HIDE DEF pred
  <2>2. IsFiniteSet(pred(f))
    BY <1>1, <2>1, FS_Subset
  <2>3. Cardinality(pred(f)) \in Nat
    BY <2>2, FS_CardinalityType
  <2> QED
    BY <2>1, <2>2, <2>3
<1>6. ASSUME NEW f \in set, NEW g \in set, Before(f, g)
      PROVE  Cardinality(pred(f)) < Cardinality(pred(g))
  <2>1. pred(f) \cup {f} \in SUBSET pred(g)
    BY <1>4, <1>6
  <2> HIDE DEF pred
  <2>2. Cardinality(pred(f) \cup {f}) = Cardinality(pred(f)) + 1
    BY <1>5, FS_AddElement
  <2>3. Cardinality(pred(f) \cup {f}) <= Cardinality(pred(g))
    BY <1>5, <2>1, FS_Subset
  <2> QED
    BY <1>5, <2>2, <2>3
<1>7. \A f, g \in set : Cardinality(pred(f)) = Cardinality(pred(g)) => f = g
  <2> SUFFICES ASSUME NEW f \in set, NEW g \in set, f # g, Cardinality(pred(f)) = Cardinality(pred(g))
               PROVE  FALSE
    OBVIOUS
  <2>1. Before(f, g) \/ Before(g, f)
    BY <1>3
  <2> HIDE DEF pred
  <2> QED
    BY <1>5, <1>6, <2>1
<1>8. \A f \in set : Cardinality(pred(f)) \in 0..(N - 1)
  <2> SUFFICES ASSUME NEW f \in set
               PROVE  Cardinality(pred(f)) \in 0..(N - 1)
    OBVIOUS
  <2> HIDE DEF pred
  <2>1. pred(f) \cup {f} \in SUBSET set
    BY <1>5
  <2>2. Cardinality(pred(f) \cup {f}) = Cardinality(pred(f)) + 1
    BY <1>5, FS_AddElement
  <2>3. Cardinality(pred(f) \cup {f}) <= N
    BY <1>1, <2>1, FS_Subset
  <2> QED
    BY <1>1, <1>5, <2>2, <2>3
<1>9. rank \in Injection(set, 0..(N - 1))
  <2>1. rank \in [set -> 0..(N - 1)]
    BY <1>8
  <2>2. \A f, g \in set : rank[f] = rank[g] => f = g
    BY <1>7
  <2> HIDE DEF rank
  <2> QED
    BY <2>1, <2>2 DEF Injection, IsInjective
<1>10. IsFiniteSet(0..(N - 1)) /\ Cardinality(0..(N - 1)) = N
  <2>1. 0 \in Int /\ N - 1 \in Int
    BY <1>1
  <2> HIDE DEF N
  <2>2. Cardinality(0..(N - 1)) = IF 0 > N - 1 THEN 0 ELSE N - 1 - 0 + 1
    BY <2>1, FS_Interval
  <2>3. IsFiniteSet(0..(N - 1))
    BY <2>1, FS_Interval
  <2> QED
    BY <1>1, <2>2, <2>3
<1>11. rank \in Surjection(set, 0..(N - 1))
  <2> HIDE DEF rank
  <2> QED
    BY <1>9, <1>10, FS_Injection
<1>12. ASSUME NEW n \in 1..N
       PROVE  \E f \in set : Cardinality(pred(f)) = n - 1
  <2>1. n - 1 \in 0..(N - 1)
    BY <1>1
  <2>2. \E f \in set : rank[f] = n - 1
    <3> HIDE DEF rank, N
    <3> QED
      BY <1>11, <2>1 DEF Surjection
  <2> QED
    BY <2>2
<1> QED
  BY <1>1, <1>7, <1>8, <1>12

\* A queue has each of its set once, in the order of the reports.
LEMMA QueuedIs ==
    ASSUME NEW set \in SUBSET Candidates
    PROVE  /\ Queued(set) \in Seq(Candidates) /\ Len(Queued(set)) = Cardinality(set)
           /\ Listed(Queued(set)) = set /\ Cardinality(set) \in Nat
<1> DEFINE N == Cardinality(set)
           rank(f) == Cardinality({h \in set : Before(h, f)})
<1>1. /\ N \in Nat
      /\ \A f, g \in set : rank(f) = rank(g) => f = g
      /\ \A f \in set : rank(f) \in 0..(N - 1)
      /\ \A n \in 1..N : \E f \in set : rank(f) = n - 1
  BY RanksAreTaken
<1>2. PICK queue : queue = Queued(set)
  OBVIOUS
<1> DEFINE nth(n) == CHOOSE f \in set : rank(f) = n - 1
<1>3. queue = [n \in 1..N |-> nth(n)]
  BY <1>2 DEF Queued
<1> HIDE DEF N, rank
<1>4. \A n \in 1..N : nth(n) \in set /\ rank(nth(n)) = n - 1
  BY <1>1
<1> HIDE DEF nth
<1>5. \A n \in 1..N : queue[n] \in set /\ rank(queue[n]) = n - 1
  BY <1>3, <1>4
<1>6. queue \in [1..N -> Candidates]
  BY <1>3, <1>5
<1>7. queue \in Seq(Candidates) /\ Len(queue) = N
  BY <1>1, <1>6
<1>8. \A f \in set : \E n \in 1..N : queue[n] = f
  <2> SUFFICES ASSUME NEW f \in set
               PROVE  \E n \in 1..N : queue[n] = f
    OBVIOUS
  <2>1. rank(f) + 1 \in 1..N /\ rank(f) + 1 - 1 = rank(f)
    BY <1>1
  <2>2. queue[rank(f) + 1] = f
    BY <1>1, <1>5, <2>1
  <2> QED
    BY <2>1, <2>2
<1>9. Listed(queue) = set
  BY <1>5, <1>7, <1>8 DEF Listed
<1> QED
  BY <1>1, <1>2, <1>7, <1>9 DEF N

LEMMA FirstOfIs ==
    ASSUME NEW queue \in Seq(Candidates), NEW n \in Nat
    PROVE  /\ FirstOf(queue, n) \in Seq(Candidates) /\ Listed(FirstOf(queue, n)) \subseteq Listed(queue)
           /\ n >= Len(queue) => FirstOf(queue, n) = queue
           /\ Len(FirstOf(queue, n)) \in 0..Len(queue)
           /\ \A k \in 1..Len(FirstOf(queue, n)) : FirstOf(queue, n)[k] = queue[k]
<1>1. PICK m : m = IF n < Len(queue) THEN n ELSE Len(queue)
  OBVIOUS
<1>2. PICK first : first = FirstOf(queue, n)
  OBVIOUS
<1>3. m \in 0..Len(queue) /\ first = SubSeq(queue, 1, m) /\ Len(queue) \in Nat
  BY <1>1, <1>2 DEF FirstOf
<1>4. first \in Seq(Candidates) /\ Len(first) = m
  BY <1>3
<1>5. \A k \in 1..m : first[k] = queue[k] /\ k \in 1..Len(queue)
  BY <1>3
<1>6. Listed(first) \subseteq Listed(queue)
  BY <1>4, <1>5 DEF Listed
<1>7. n >= Len(queue) => first = queue
  <2> SUFFICES ASSUME n >= Len(queue) PROVE first = queue
    OBVIOUS
  <2>1. m = Len(queue)
    BY <1>1, <1>3
  <2> QED
    BY <1>3, <1>4, <1>5, <2>1
<1> QED
  BY <1>2, <1>3, <1>4, <1>5, <1>6, <1>7

Standings == {"absent", "unverified", "retired"} \cup DecidedAs
Todo == Candidates \X DecidedAs \X BOOLEAN

Sessions ==
    [stage : {"reading", "open", "done"}, command : Commands,
     claimed : [{PlaceIn[f] : f \in Candidates} -> SUBSET {ValueRead[f] : f \in Candidates}],
     queue : Seq(Candidates), flagged : Seq(Candidates), todo : Seq(Todo), failed : SUBSET Candidates]

DesksTypeOK ==
    /\ standing \in [Candidates -> Standings]
    /\ session \in [Desks -> Sessions \cup {NoSession}]
    /\ glanced \subseteq Candidates
    /\ loaderSteps \in Nat

\* An amount is the value of a fact of the page that is, or was, on file.
Accounted(page, amount) ==
    \E g \in Candidates : standing[g] # "absent" /\ PlaceIn[g] = page /\ ValueRead[g] = amount

\* What a line of a page may be accepted for.
Warranted(f) ==
    /\ ValueRead[f] \in Stated(f) /\ ~Governed(f)
    /\ \A amount \in Stated(f) : Accounted(PlaceIn[f], amount)

\* What a session claims of the page is accounted for; what it offers to accept
\* at a glance is warranted; and of the set it was given by name, whatever is
\* undecided is still to be decided or was reported.
SessionIsSound(s) ==
    s.stage # "away" =>
        /\ \A f \in Candidates : \A amount \in s.claimed[PlaceIn[f]] : Accounted(PlaceIn[f], amount)
        /\ s.command.mode = "batch" => \A f \in Listed(s.queue) : Warranted(f)
        /\ \A t \in Listed(s.todo) : t[3] => Warranted(t[1])
        /\ \A f \in s.command.ids : standing[f] # "absent"
        /\ s.flagged # <<>> => s.command.mode = "batch"
        /\ s.stage = "done" => s.todo = <<>>
        /\ NamesASet(s.command) =>
              /\ s.queue = <<>>
              /\ s.stage # "reading" =>
                    \A f \in s.command.ids : standing[f] = "unverified" =>
                        f \in s.failed \/ \E t \in Listed(s.todo) : t[1] = f

DesksInv ==
    /\ DesksTypeOK
    /\ \A d \in Desks : SessionIsSound(session[d])
    /\ \A f \in glanced : Warranted(f)

\* What is on file stays, and what was decided or withdrawn is not offered again.
Onward ==
    \A f \in Candidates :
        /\ standing[f] # "absent" => standing'[f] # "absent"
        /\ standing'[f] = "unverified" => standing[f] \in {"unverified", "absent"}

LEMMA DesksBegin == DesksInit => DesksInv
<1> SUFFICES ASSUME DesksInit PROVE DesksInv
  OBVIOUS
<1>1. standing = [f \in Candidates |-> IF f \in Held0 THEN "unverified" ELSE "absent"]
      /\ session = [d \in Desks |-> NoSession] /\ glanced = {} /\ loaderSteps = 0
  BY DEF DesksInit
<1>2. DesksTypeOK
  BY <1>1 DEF DesksTypeOK, Standings
<1>3. NoSession.stage = "away"
  BY DEF NoSession
<1>4. SessionIsSound(NoSession)
  BY <1>3 DEF SessionIsSound
<1> QED
  BY <1>1, <1>2, <1>4 DEF DesksInv

LEMMA WarrantStays ==
    ASSUME Onward, NEW f, Warranted(f)
    PROVE  Warranted(f)'
<1>1. ASSUME NEW page, NEW amount, Accounted(page, amount)
      PROVE  Accounted(page, amount)'
  BY <1>1 DEF Onward, Accounted
<1> QED
  BY <1>1 DEF Warranted

LEMMA SoundStays ==
    ASSUME Onward, NEW s \in Sessions \cup {NoSession}, SessionIsSound(s)
    PROVE  SessionIsSound(s)'
<1> SUFFICES ASSUME s.stage # "away" PROVE SessionIsSound(s)'
  BY DEF SessionIsSound
<1>1. s \in Sessions /\ s.command \in Commands
  BY DEF Sessions, NoSession
<1>2. s.command.ids \subseteq Candidates
  BY <1>1, CommandsAreTyped
<1>3. \A f \in Candidates : \A amount \in s.claimed[PlaceIn[f]] : Accounted(PlaceIn[f], amount)'
  BY DEF SessionIsSound, Accounted, Onward
<1>4. \A f : Warranted(f) => Warranted(f)'
  BY WarrantStays
<1>5. /\ s.command.mode = "batch" => \A f \in Listed(s.queue) : Warranted(f)'
      /\ \A t \in Listed(s.todo) : t[3] => Warranted(t[1])'
  BY <1>4 DEF SessionIsSound
<1>6. \A f \in s.command.ids : standing[f] # "absent" /\ standing'[f] # "absent"
  BY <1>2 DEF SessionIsSound, Onward
<1>7. \A f \in s.command.ids : standing'[f] = "unverified" => standing[f] = "unverified"
  BY <1>2, <1>6 DEF Onward
<1> QED
  BY <1>3, <1>5, <1>6, <1>7 DEF SessionIsSound

\* A step of one desk: it is enough to look at that desk.
LEMMA OneDesk ==
    ASSUME DesksInv, NEW d \in Desks, NEW now \in Sessions \cup {NoSession}, Onward,
           standing' \in [Candidates -> Standings], session' = [session EXCEPT ![d] = now],
           SessionIsSound(now)', loaderSteps' = loaderSteps,
           glanced' \subseteq Candidates, \A f \in glanced' \ glanced : Warranted(f)
    PROVE  DesksInv'
<1>1. session \in [Desks -> Sessions \cup {NoSession}] /\ loaderSteps \in Nat
  BY DEF DesksInv, DesksTypeOK
<1>2. DesksTypeOK'
  BY <1>1 DEF DesksTypeOK
<1>3. \A e \in Desks : SessionIsSound(session[e])'
  <2> SUFFICES ASSUME NEW e \in Desks PROVE SessionIsSound(session[e])'
    OBVIOUS
  <2>1. CASE e = d
    <3>1. session'[e] = now
      BY <1>1, <2>1
    <3> QED
      BY <3>1 DEF SessionIsSound
  <2>2. CASE e # d
    <3>1. PICK there : there = session[e]
      OBVIOUS
    <3>2. session'[e] = there /\ there \in Sessions \cup {NoSession}
      BY <1>1, <2>2, <3>1
    <3>3. SessionIsSound(there)
      BY <3>1 DEF DesksInv
    <3>4. SessionIsSound(there)'
      BY <3>2, <3>3, SoundStays
    <3> QED
      BY <3>2, <3>4 DEF SessionIsSound
  <2> QED
    BY <2>1, <2>2
<1>4. \A f \in glanced' : Warranted(f)'
  <2>1. \A f \in glanced' : Warranted(f)
    BY DEF DesksInv
  <2> QED
    BY <2>1, WarrantStays
<1> QED
  BY <1>2, <1>3, <1>4 DEF DesksInv

\* The undecided of a command, and all of them when the limit is their number.
LEMMA PendingIs ==
    ASSUME DesksTypeOK, NEW o \in Commands, NEW limit \in Nat
    PROVE  /\ PendingReview(o, limit) \in Seq(Candidates)
           /\ \A f \in Listed(PendingReview(o, limit)) : standing[f] = "unverified"
           /\ limit = Cardinality(o.ids) /\ o.ids # {} /\ o.kind = "any" /\ o.document = 0 =>
                 \A f \in o.ids : standing[f] = "unverified" => f \in Listed(PendingReview(o, limit))
<1> DEFINE Matches(f) == /\ standing[f] = "unverified"
                         /\ o.kind \in {"any", KindOf[f]}
                         /\ o.document \in {0, PlaceIn[f][1]}
                         /\ o.ids = {} \/ f \in o.ids
           all == {f \in Candidates : Matches(f)}
<1>1. o.ids \subseteq Candidates
  BY CommandsAreTyped
<1>2. PICK matching : matching = all
  OBVIOUS
<1>3. PICK sorted : sorted = Queued(matching)
  OBVIOUS
<1>4. matching \in SUBSET Candidates /\ \A f \in matching : standing[f] = "unverified"
  BY <1>2
<1>5. /\ sorted \in Seq(Candidates) /\ Len(sorted) = Cardinality(matching)
      /\ Listed(sorted) = matching /\ Cardinality(matching) \in Nat
  BY <1>3, <1>4, QueuedIs
<1>6. PICK pending : pending = PendingReview(o, limit)
  OBVIOUS
<1>7. pending = FirstOf(sorted, limit)
  BY <1>2, <1>3, <1>6 DEF PendingReview
<1> HIDE DEF all
<1>8. /\ pending \in Seq(Candidates) /\ Listed(pending) \subseteq Listed(sorted)
      /\ limit >= Len(sorted) => pending = sorted
  BY <1>5, <1>7, FirstOfIs
<1>9. \A f \in Listed(pending) : standing[f] = "unverified"
  BY <1>4, <1>5, <1>8
<1>10. ASSUME limit = Cardinality(o.ids), o.ids # {}, o.kind = "any", o.document = 0
       PROVE  \A f \in o.ids : standing[f] = "unverified" => f \in Listed(pending)
  <2>1. matching \subseteq o.ids
    BY <1>2, <1>10 DEF all
  <2>2. IsFiniteSet(o.ids)
    BY <1>1, CandidatesAreIds, FS_Subset
  <2>3. Cardinality(matching) <= limit
    BY <1>10, <2>1, <2>2, FS_Subset
  <2>4. pending = sorted
    BY <1>5, <1>8, <2>3
  <2>5. \A f \in o.ids : standing[f] = "unverified" => f \in matching
    BY <1>1, <1>2, <1>10 DEF all
  <2> QED
    BY <1>5, <2>4, <2>5
<1> QED
  BY <1>6, <1>8, <1>9, <1>10

LEMMA LimitsAreNumbers ==
    ASSUME NEW o \in Commands
    PROVE  QueryLimit(o) \in Nat /\ o.limit \in Nat /\ o.ids \in SUBSET Candidates
<1>1. o.limit \in Nat /\ o.ids \in SUBSET Candidates
  BY CommandsAreTyped
<1>2. Cardinality(o.ids) \in Nat
  BY <1>1, CandidatesAreIds, FS_Subset, FS_CardinalityType
<1>3. PartitionLimit \in Nat /\ DefaultLimit \in Nat
  BY CandidatesAreIds
<1> QED
  BY <1>1, <1>2, <1>3 DEF QueryLimit

\* What a queue is built of: undecided candidates of the partition asked for,
\* and of a set named by its ids every undecided one.
LEMMA BuildQueueIs ==
    ASSUME DesksTypeOK, NEW o \in Commands, NEW claimed
    PROVE  /\ BuildQueue(o, claimed) \in Seq(Candidates)
           /\ \A f \in Listed(BuildQueue(o, claimed)) :
                 standing[f] = "unverified" /\ InPartition(f, o.only, claimed)
           /\ NamesASet(o) /\ o.mode # "corrections" =>
                 \A f \in o.ids : standing[f] = "unverified" => f \in Listed(BuildQueue(o, claimed))
<1> DEFINE part == {f \in Candidates : InPartition(f, o.only, claimed)}
<1>1. QueryLimit(o) \in Nat /\ o.limit \in Nat /\ o.ids \in SUBSET Candidates
  BY LimitsAreNumbers
<1>2. PICK limit : limit = QueryLimit(o)
  OBVIOUS
<1>3. PICK pending : pending = PendingReview(o, limit)
  OBVIOUS
<1>4. /\ pending \in Seq(Candidates)
      /\ \A f \in Listed(pending) : standing[f] = "unverified"
      /\ limit = Cardinality(o.ids) /\ o.ids # {} /\ o.kind = "any" /\ o.document = 0 =>
            \A f \in o.ids : standing[f] = "unverified" => f \in Listed(pending)
  BY <1>1, <1>2, <1>3, PendingIs
<1>5. PICK set : set = part
  OBVIOUS
<1>6. PICK matching : matching = Among(pending, set)
  OBVIOUS
<1>7. PICK queue : queue = BuildQueue(o, claimed)
  OBVIOUS
<1>8. queue = IF o.limit = 0 THEN matching ELSE FirstOf(matching, o.limit)
  BY <1>2, <1>3, <1>5, <1>6, <1>7 DEF BuildQueue
<1>9. \A f \in set : InPartition(f, o.only, claimed)
  BY <1>5
<1>10. o.only = "all" => \A f \in Candidates : f \in set
  BY <1>5 DEF InPartition
<1> HIDE DEF part
<1>11. matching \in Seq(Candidates) /\ Listed(matching) = Listed(pending) \cap set
  BY <1>4, <1>6, AmongIs
<1>12. queue \in Seq(Candidates) /\ Listed(queue) \subseteq Listed(matching)
  BY <1>1, <1>8, <1>11, FirstOfIs
<1>13. \A f \in Listed(queue) : standing[f] = "unverified" /\ InPartition(f, o.only, claimed)
  BY <1>4, <1>9, <1>11, <1>12
<1>14. ASSUME NamesASet(o), o.mode # "corrections"
       PROVE  \A f \in o.ids : standing[f] = "unverified" => f \in Listed(queue)
  <2>1. o.ids # {} /\ o.only = "all" /\ o.kind = "any" /\ o.document = 0 /\ o.limit = 0
    BY <1>14 DEF NamesASet
  <2>2. limit = Cardinality(o.ids)
    BY <1>2, <2>1 DEF QueryLimit
  <2>3. queue = matching
    BY <1>8, <2>1
  <2> QED
    BY <1>1, <1>4, <1>10, <1>11, <2>1, <2>2, <2>3
<1> QED
  BY <1>7, <1>12, <1>13, <1>14

\* A partition a page is accepted from holds what may be accepted at a glance.
LEMMA PartitionIsWarranted ==
    ASSUME NEW claimed, NEW only \in Batchable, NEW f \in Candidates,
           InPartition(f, only, claimed), standing[f] = "unverified",
           \A g \in Candidates : \A amount \in claimed[PlaceIn[g]] : Accounted(PlaceIn[g], amount)
    PROVE  Warranted(f)
<1>1. only = SelfCheck(f, claimed) /\ ~Governed(f) /\ only \in {"confirmed", "confirmed_in_context"}
  BY DEF InPartition, Batchable
<1>2. ValueRead[f] # NoReading /\ ValueRead[f] \in Stated(f)
  BY <1>1 DEF SelfCheck
<1>3. Accounted(PlaceIn[f], ValueRead[f])
  BY DEF Accounted
<1>4. CASE Len(Evidence[f]) = 1
  <2>1. DOMAIN Evidence[f] = 1..1
    BY <1>4, CandidatesAreIds
  <2>2. \A i \in DOMAIN Evidence[f] : i = 1
    BY <2>1
  <2>3. \A amount \in Stated(f) : amount = ValueRead[f]
    BY <1>2, <2>2 DEF Stated
  <2> QED
    BY <1>1, <1>2, <1>3, <2>3 DEF Warranted
<1>5. CASE Len(Evidence[f]) # 1
  <2>1. Stated(f) \ {ValueRead[f]} \subseteq claimed[PlaceIn[f]]
    BY <1>1, <1>2, <1>5 DEF SelfCheck
  <2>2. \A amount \in Stated(f) : Accounted(PlaceIn[f], amount)
    BY <1>3, <2>1
  <2> QED
    BY <1>1, <1>2, <2>2 DEF Warranted
<1> QED
  BY <1>4, <1>5

\* What is claimed of a page is the value of a fact that is on file there.
LEMMA ClaimsAreAccounted ==
    ASSUME NEW document
    PROVE  /\ ClaimedByPage(document) \in
                  [{PlaceIn[f] : f \in Candidates} -> SUBSET {ValueRead[f] : f \in Candidates}]
           /\ \A f \in Candidates : \A amount \in ClaimedByPage(document)[PlaceIn[f]] :
                  Accounted(PlaceIn[f], amount)
<1> DEFINE read(page) == {g \in Candidates :
               /\ Stored(g) /\ KindOf[g] = "money" /\ PlaceIn[g] = page
               /\ document \in {0, PlaceIn[g][1]}}
           claims(page) == {ValueRead[f] : f \in read(page)} \ {NoReading}
<1>1. ClaimedByPage(document) = [page \in {PlaceIn[f] : f \in Candidates} |-> claims(page)]
  BY DEF ClaimedByPage
<1>2. ASSUME NEW page
      PROVE  /\ claims(page) \subseteq {ValueRead[f] : f \in Candidates}
             /\ \A amount \in claims(page) : Accounted(page, amount)
  <2>1. \A g \in read(page) : g \in Candidates /\ standing[g] # "absent" /\ PlaceIn[g] = page
    BY DEF Stored, DecidedAs
  <2>2. \A amount \in claims(page) : \E g \in read(page) : amount = ValueRead[g]
    OBVIOUS
  <2> HIDE DEF read, claims
  <2> QED
    BY <2>1, <2>2 DEF Accounted
<1> HIDE DEF claims
<1>3. \A f \in Candidates : ClaimedByPage(document)[PlaceIn[f]] = claims(PlaceIn[f])
  BY <1>1
<1> QED
  BY <1>1, <1>2, <1>3

\* What is to be decided of a queue: each of it, as one.
AllAs(todo, queue, as, glance) == todo = [i \in DOMAIN queue |-> <<queue[i], as, glance>>]

LEMMA TodoIs ==
    ASSUME NEW queue \in Seq(Candidates), NEW as \in DecidedAs, NEW glance \in BOOLEAN,
           NEW todo, AllAs(todo, queue, as, glance)
    PROVE  /\ todo \in Seq(Todo)
           /\ \A t \in Listed(todo) : t[1] \in Listed(queue) /\ t[3] = glance
           /\ \A f \in Listed(queue) : \E t \in Listed(todo) : t[1] = f
<1>1. todo = [i \in DOMAIN queue |-> <<queue[i], as, glance>>]
  BY DEF AllAs
<1>2. Len(queue) \in Nat /\ DOMAIN queue = 1..Len(queue) /\ \A n \in 1..Len(queue) : queue[n] \in Candidates
  OBVIOUS
<1>3. \A n \in 1..Len(queue) : todo[n] = <<queue[n], as, glance>> /\ todo[n] \in Todo
  <2> SUFFICES ASSUME NEW n \in 1..Len(queue)
               PROVE  todo[n] = <<queue[n], as, glance>> /\ todo[n] \in Todo
    OBVIOUS
  <2>1. todo[n] = <<queue[n], as, glance>>
    BY <1>1, <1>2
  <2>2. queue[n] \in Candidates /\ as \in DecidedAs /\ glance \in BOOLEAN
    BY <1>2
  <2>3. <<queue[n], as, glance>> \in Candidates \X DecidedAs \X BOOLEAN
    BY <2>2
  <2> QED
    BY <2>1, <2>3 DEF Todo
<1>4. todo \in [1..Len(queue) -> Todo]
  <2>1. DOMAIN todo = 1..Len(queue) /\ todo = [n \in DOMAIN todo |-> todo[n]]
    BY <1>1, <1>2
  <2> QED
    BY <1>3, <2>1
<1>5. todo \in Seq(Todo) /\ Len(todo) = Len(queue)
  BY <1>2, <1>4
<1>6. ASSUME NEW t \in Listed(todo)
      PROVE  t[1] \in Listed(queue) /\ t[3] = glance
  <2>1. PICK n \in 1..Len(todo) : t = todo[n]
    BY DEF Listed
  <2>2. n \in 1..Len(queue) /\ t = <<queue[n], as, glance>>
    BY <1>3, <1>5, <2>1
  <2>3. t[1] = queue[n]
    BY <2>2
  <2>4. t[3] = glance
    BY <2>2
  <2> QED
    BY <2>2, <2>3, <2>4 DEF Listed
<1>7. ASSUME NEW f \in Listed(queue)
      PROVE  \E t \in Listed(todo) : t[1] = f
  <2>1. PICK n \in 1..Len(queue) : f = queue[n]
    BY DEF Listed
  <2>2. n \in 1..Len(todo) /\ todo[n] = <<f, as, glance>>
    BY <1>3, <1>5, <2>1
  <2>3. todo[n] \in Listed(todo)
    BY <2>2 DEF Listed
  <2>4. todo[n][1] = f
    BY <2>2
  <2> QED
    BY <2>3, <2>4
<1> QED
  BY <1>1, <1>5, <1>6, <1>7

LEMMA HeadAndTail ==
    ASSUME NEW S, NEW queue \in Seq(S), queue # <<>>
    PROVE  /\ Head(queue) \in S /\ Tail(queue) \in Seq(S)
           /\ Listed(queue) = {Head(queue)} \cup Listed(Tail(queue))
<1>1. Len(queue) \in Nat \ {0}
  OBVIOUS
<1>2. PICK rest : rest = Tail(queue)
  OBVIOUS
<1>3. Head(queue) = queue[1] /\ queue[1] \in S
  BY <1>1
<1>4. rest \in Seq(S) /\ Len(rest) = Len(queue) - 1
  BY <1>1, <1>2
<1>5. \A n \in 1..Len(rest) : rest[n] = queue[n + 1] /\ n + 1 \in 1..Len(queue)
  BY <1>1, <1>2, <1>4
<1>6. ASSUME NEW n \in 1..Len(queue), n # 1
      PROVE  n - 1 \in 1..Len(rest) /\ rest[n - 1] = queue[n]
  <2>1. n - 1 \in 1..Len(rest) /\ n - 1 + 1 = n
    BY <1>1, <1>4, <1>6
  <2> QED
    BY <1>5, <2>1
<1>7. 1 \in 1..Len(queue)
  BY <1>1
<1>8. Listed(rest) \subseteq Listed(queue) /\ queue[1] \in Listed(queue)
  BY <1>5, <1>7 DEF Listed
<1>9. \A x \in Listed(queue) : x = queue[1] \/ x \in Listed(rest)
  BY <1>6 DEF Listed
<1> QED
  BY <1>2, <1>3, <1>4, <1>8, <1>9

LEMMA NothingListed == Listed(<<>>) = {}
  BY DEF Listed

LEMMA AwayIsSound == SessionIsSound(NoSession)
  BY DEF SessionIsSound, NoSession

\* A step of one desk that decides nothing.
LEMMA QuietDesk ==
    ASSUME DesksInv, NEW d \in Desks, NEW now \in Sessions \cup {NoSession}, SessionIsSound(now),
           session' = [session EXCEPT ![d] = now], UNCHANGED <<standing, glanced, loaderSteps>>
    PROVE  DesksInv'
<1>1. standing' = standing /\ glanced' = glanced /\ loaderSteps' = loaderSteps
  OBVIOUS
<1>2. Onward
  BY <1>1 DEF Onward
<1>3. SessionIsSound(now)'
  BY <1>2, SoundStays
<1>4. standing' \in [Candidates -> Standings] /\ glanced' \subseteq Candidates
  BY <1>1 DEF DesksInv, DesksTypeOK
<1>5. \A f \in glanced' \ glanced : Warranted(f)
  BY <1>1
<1> QED
  BY <1>1, <1>2, <1>3, <1>4, <1>5, OneDesk

LEMMA AtADesk ==
    ASSUME DesksInv, NEW d \in Desks, NEW here, here = session[d], here.stage # "away"
    PROVE  /\ here \in Sessions /\ SessionIsSound(here)
           /\ here.command \in Commands /\ here.queue \in Seq(Candidates) /\ here.flagged \in Seq(Candidates)
           /\ here.todo \in Seq(Todo) /\ here.failed \subseteq Candidates
           /\ here.stage \in {"reading", "open", "done"}
<1>1. here \in Sessions \cup {NoSession} /\ SessionIsSound(here)
  BY DEF DesksInv, DesksTypeOK
<1>2. here \in Sessions
  BY <1>1 DEF NoSession
<1> QED
  BY <1>1, <1>2 DEF Sessions

LEMMA SitKeeps ==
    ASSUME DesksInv, NEW d \in Desks, NEW o \in Commands, Sit(d, o)
    PROVE  DesksInv'
<1>1. PICK claimed : claimed = ClaimedByPage(o.document)
  OBVIOUS
<1>2. PICK now : now = [stage |-> "reading", command |-> o, claimed |-> claimed,
                        queue |-> <<>>, flagged |-> <<>>, todo |-> <<>>, failed |-> {}]
  OBVIOUS
<1>3. /\ session' = [session EXCEPT ![d] = now] /\ UNCHANGED <<standing, glanced, loaderSteps>>
      /\ \A f \in o.ids : standing[f] # "absent"
  BY <1>1, <1>2 DEF Sit, Become
<1>4. /\ claimed \in [{PlaceIn[f] : f \in Candidates} -> SUBSET {ValueRead[f] : f \in Candidates}]
      /\ \A f \in Candidates : \A amount \in claimed[PlaceIn[f]] : Accounted(PlaceIn[f], amount)
  BY <1>1, ClaimsAreAccounted
<1>5. now \in Sessions
  BY <1>2, <1>4 DEF Sessions
<1>6. /\ now.stage = "reading" /\ now.command = o /\ now.claimed = claimed
      /\ now.queue = <<>> /\ now.flagged = <<>> /\ now.todo = <<>>
  BY <1>2
<1>7. SessionIsSound(now)
  BY <1>3, <1>4, <1>6, NothingListed DEF SessionIsSound
<1> QED
  BY <1>3, <1>5, <1>7, QuietDesk

LEMMA ReadQueueKeeps ==
    ASSUME DesksInv, NEW d \in Desks, ReadQueue(d)
    PROVE  DesksInv'
<1>1. PICK here : here = session[d]
  OBVIOUS
<1>2. here.stage = "reading" /\ UNCHANGED <<standing, glanced, loaderSteps>>
  BY <1>1 DEF ReadQueue
<1>3. /\ here \in Sessions /\ SessionIsSound(here)
      /\ here.command \in Commands /\ here.flagged \in Seq(Candidates)
      /\ here.failed \subseteq Candidates
  BY <1>1, <1>2, AtADesk
<1>4. PICK o : o = here.command
  OBVIOUS
<1>5. o \in Commands /\ o.decision \in DecidedAs /\ o.ids \in SUBSET Candidates
      /\ o.mode \in {"single", "batch", "bulk", "corrections", "places"}
  BY <1>3, <1>4, CommandsAreTyped
<1>6. PICK queue : queue = IF o.mode = "corrections" THEN Queued(o.ids) ELSE BuildQueue(o, here.claimed)
  OBVIOUS
<1>7. DesksTypeOK /\ \A f \in Candidates : \A amount \in here.claimed[PlaceIn[f]] : Accounted(PlaceIn[f], amount)
  BY <1>2, <1>3 DEF DesksInv, SessionIsSound
<1>8. /\ BuildQueue(o, here.claimed) \in Seq(Candidates)
      /\ \A f \in Listed(BuildQueue(o, here.claimed)) :
            standing[f] = "unverified" /\ InPartition(f, o.only, here.claimed)
      /\ NamesASet(o) /\ o.mode # "corrections" =>
            \A f \in o.ids : standing[f] = "unverified" => f \in Listed(BuildQueue(o, here.claimed))
  BY <1>5, <1>7, BuildQueueIs
<1>9. Queued(o.ids) \in Seq(Candidates) /\ Listed(Queued(o.ids)) = o.ids
  BY <1>5, QueuedIs
<1>10. queue \in Seq(Candidates)
  BY <1>6, <1>8, <1>9
<1>11. NamesASet(o) => \A f \in o.ids : standing[f] = "unverified" => f \in Listed(queue)
  BY <1>6, <1>8, <1>9
<1>12. ASSUME o.mode = "batch", ~IsRefused(o)
       PROVE  \A f \in Listed(queue) : Warranted(f)
  <2>1. o.only \in Batchable /\ queue = BuildQueue(o, here.claimed)
    BY <1>6, <1>12 DEF IsRefused
  <2>2. \A f \in Listed(queue) : f \in Candidates
    BY <1>10 DEF Listed
  <2>3. \A f \in Listed(queue) : standing[f] = "unverified" /\ InPartition(f, o.only, here.claimed)
    BY <1>8, <2>1
  <2> QED
    BY <1>7, <2>1, <2>2, <2>3, PartitionIsWarranted
<1>13. CASE queue = <<>> \/ IsRefused(o)
  <2>1. session' = [session EXCEPT ![d] = NoSession]
    BY <1>1, <1>4, <1>6, <1>13 DEF ReadQueue, Become
  <2> QED
    BY <1>2, <2>1, AwayIsSound, QuietDesk
<1>14. CASE ~(queue = <<>> \/ IsRefused(o))
  <2>1. PICK many : many = [i \in DOMAIN queue |-> <<queue[i], o.decision, FALSE>>]
    OBVIOUS
  <2>2. /\ many \in Seq(Todo)
        /\ \A t \in Listed(many) : t[3] = FALSE
        /\ \A f \in Listed(queue) : \E t \in Listed(many) : t[1] = f
    <3>1. PICK no : no = FALSE
      OBVIOUS
    <3>2. no \in BOOLEAN /\ AllAs(many, queue, o.decision, no)
      BY <2>1, <3>1 DEF AllAs
    <3>3. /\ many \in Seq(Todo)
          /\ \A t \in Listed(many) : t[3] = no
          /\ \A f \in Listed(queue) : \E t \in Listed(many) : t[1] = f
      BY <1>5, <1>10, <3>2, TodoIs
    <3> QED
      BY <3>1, <3>3
  <2>3. PICK whole : whole = IF o.mode \in {"bulk", "corrections"} THEN <<>> ELSE queue
    OBVIOUS
  <2>4. PICK todo : todo = IF o.mode \in {"bulk", "corrections"} THEN many ELSE <<>>
    OBVIOUS
  <2>5. PICK now : now = [here EXCEPT !.stage = "open", !.queue = whole, !.todo = todo]
    OBVIOUS
  <2>6. session' = [session EXCEPT ![d] = now]
    <3>1. Become(d, [here EXCEPT !.stage = "open",
                        !.queue = IF o.mode \in {"bulk", "corrections"} THEN <<>> ELSE queue,
                        !.todo = IF o.mode \in {"bulk", "corrections"}
                                 THEN [i \in DOMAIN queue |-> <<queue[i], o.decision, FALSE>>]
                                 ELSE <<>>])
      BY <1>1, <1>4, <1>6, <1>14 DEF ReadQueue
    <3> QED
      BY <2>1, <2>3, <2>4, <2>5, <3>1 DEF Become
  <2>7. whole \in Seq(Candidates) /\ todo \in Seq(Todo)
    BY <1>10, <2>2, <2>3, <2>4
  <2>8. now \in Sessions
    BY <1>3, <2>5, <2>7 DEF Sessions
  <2>9. /\ now.stage = "open" /\ now.command = o /\ now.claimed = here.claimed /\ now.queue = whole
        /\ now.todo = todo /\ now.flagged = here.flagged /\ now.failed = here.failed
    BY <1>3, <1>4, <2>5 DEF Sessions
  <2>10. o.mode = "batch" => \A f \in Listed(whole) : Warranted(f)
    BY <1>12, <1>14, <2>3
  <2>11. \A t \in Listed(todo) : t[3] => Warranted(t[1])
    BY <2>2, <2>4, NothingListed
  <2>12. \A f \in o.ids : standing[f] # "absent"
    BY <1>2, <1>3, <1>4 DEF SessionIsSound
  <2>13. here.flagged # <<>> => o.mode = "batch"
    BY <1>2, <1>3, <1>4 DEF SessionIsSound
  <2>14. NamesASet(o) => /\ whole = <<>>
                         /\ \A f \in o.ids : standing[f] = "unverified" => \E t \in Listed(todo) : t[1] = f
    <3>1. NamesASet(o) => o.mode \in {"bulk", "corrections"}
      BY DEF NamesASet
    <3> QED
      BY <1>11, <2>2, <2>3, <2>4, <3>1
  <2>15. SessionIsSound(now)
    BY <1>7, <2>9, <2>10, <2>11, <2>12, <2>13, <2>14 DEF SessionIsSound
  <2> QED
    BY <1>2, <2>6, <2>8, <2>15, QuietDesk
<1> QED
  BY <1>13, <1>14

\* One key for one candidate: nothing is decided at a glance by it.
LEMMA AnswerOneKeeps ==
    ASSUME DesksInv, NEW d \in Desks, NEW key \in DecidedAs \cup {"enter"}, AnswerOne(d, key)
    PROVE  DesksInv'
<1>1. PICK here : here = session[d]
  OBVIOUS
<1>2. PICK shown : shown = IF here.flagged # <<>> THEN Head(here.flagged) ELSE Head(here.queue)
  OBVIOUS
<1>3. PICK queue : queue = IF here.flagged # <<>> THEN here.queue ELSE Tail(here.queue)
  OBVIOUS
<1>4. PICK todo : todo = IF key \in DecidedAs THEN << <<shown, key, FALSE>> >> ELSE <<>>
  OBVIOUS
<1>5. PICK now : now = [here EXCEPT !.flagged = <<>>, !.queue = queue, !.todo = todo]
  OBVIOUS
<1>6. /\ session' = [session EXCEPT ![d] = now] /\ UNCHANGED <<standing, glanced, loaderSteps>>
      /\ here.stage = "open"
      /\ here.flagged # <<>> \/ (here.command.mode = "single" /\ here.queue # <<>>)
  BY <1>1, <1>2, <1>3, <1>4, <1>5 DEF AnswerOne, Become, IsAsking
<1>7. /\ here \in Sessions /\ SessionIsSound(here)
      /\ here.queue \in Seq(Candidates) /\ here.flagged \in Seq(Candidates)
  BY <1>1, <1>6, AtADesk
<1>8. /\ shown \in Candidates
      /\ queue \in Seq(Candidates) /\ Listed(queue) \subseteq Listed(here.queue)
  <2>1. here.flagged # <<>> => Head(here.flagged) \in Candidates
    BY <1>7, HeadAndTail
  <2>2. here.flagged = <<>> => /\ Head(here.queue) \in Candidates /\ Tail(here.queue) \in Seq(Candidates)
                               /\ Listed(Tail(here.queue)) \subseteq Listed(here.queue)
    BY <1>6, <1>7, HeadAndTail
  <2> QED
    BY <1>2, <1>3, <1>7, <2>1, <2>2
<1>9. todo \in Seq(Todo) /\ \A t \in Listed(todo) : t[3] = FALSE
  <2>1. CASE key \in DecidedAs
    <3>1. PICK one : one = <<shown, key, FALSE>>
      OBVIOUS
    <3>2. one \in Todo /\ one[3] = FALSE
      BY <1>8, <2>1, <3>1 DEF Todo
    <3>3. todo = <<one>>
      BY <1>4, <2>1, <3>1
    <3>4. Len(todo) = 1 /\ todo[1] = one /\ todo \in Seq(Todo)
      BY <3>2, <3>3
    <3>5. \A n \in 1..Len(todo) : todo[n] = one
      BY <3>4
    <3> QED
      BY <3>2, <3>4, <3>5 DEF Listed
  <2>2. CASE key \notin DecidedAs
    <3>1. todo = <<>>
      BY <1>4, <2>2
    <3>2. todo \in Seq(Todo)
      BY <3>1
    <3> QED
      BY <3>1, <3>2, NothingListed
  <2> QED
    BY <2>1, <2>2
<1>10. now \in Sessions
  <2>1. <<>> \in Seq(Candidates)
    OBVIOUS
  <2> QED
    BY <1>5, <1>7, <1>8, <1>9, <2>1 DEF Sessions
<1>11. /\ now.stage = "open" /\ now.command = here.command /\ now.claimed = here.claimed
       /\ now.queue = queue /\ now.todo = todo /\ now.flagged = <<>> /\ now.failed = here.failed
  BY <1>5, <1>6, <1>7 DEF Sessions
<1>12. ~NamesASet(here.command)
  BY <1>6, <1>7 DEF SessionIsSound, NamesASet
<1>13. SessionIsSound(now)
  BY <1>6, <1>7, <1>8, <1>9, <1>11, <1>12 DEF SessionIsSound
<1> QED
  BY <1>6, <1>10, <1>13, QuietDesk

\* One key for a page: what it accepts is of the partition it was built of.
LEMMA AnswerPageKeeps ==
    ASSUME DesksInv, NEW d \in Desks, NEW key \in 0..(Lines + 1), AnswerPage(d, key)
    PROVE  DesksInv'
<1>1. PICK here : here = session[d]
  OBVIOUS
<1>2. PICK sheet : sheet = FirstOf(here.queue, Lines)
  OBVIOUS
<1>3. PICK queue : queue = SubSeq(here.queue, Len(sheet) + 1, Len(here.queue))
  OBVIOUS
<1>4. PICK flagged : flagged = IF key \in DOMAIN sheet THEN <<sheet[key]>> ELSE <<>>
  OBVIOUS
<1>5. PICK todo : todo = IF key = 0 THEN [i \in DOMAIN sheet |-> <<sheet[i], "verified", TRUE>>] ELSE <<>>
  OBVIOUS
<1>6. PICK now : now = [here EXCEPT !.queue = queue, !.flagged = flagged, !.todo = todo]
  OBVIOUS
<1>7. /\ session' = [session EXCEPT ![d] = now] /\ UNCHANGED <<standing, glanced, loaderSteps>>
      /\ here.stage = "open" /\ here.command.mode = "batch" /\ here.queue # <<>>
  BY <1>1, <1>2, <1>3, <1>4, <1>5, <1>6 DEF AnswerPage, Become, IsAsking
<1>8. here \in Sessions /\ SessionIsSound(here) /\ here.queue \in Seq(Candidates)
  BY <1>1, <1>7, AtADesk
<1>9. /\ sheet \in Seq(Candidates) /\ Listed(sheet) \subseteq Listed(here.queue)
      /\ Len(sheet) \in 0..Len(here.queue)
  <2>1. Lines \in Nat
    BY CandidatesAreIds
  <2> QED
    BY <1>2, <1>8, <2>1, FirstOfIs
<1>10. queue \in Seq(Candidates) /\ Listed(queue) \subseteq Listed(here.queue)
  <2>1. PICK m : m = Len(sheet)
    OBVIOUS
  <2>2. m \in Nat /\ m <= Len(here.queue) /\ Len(here.queue) \in Nat
    BY <1>8, <1>9, <2>1
  <2>3. queue = SubSeq(here.queue, m + 1, Len(here.queue))
    BY <1>3, <2>1
  <2>4. Len(queue) = Len(here.queue) - m /\ queue \in Seq(Candidates)
    BY <1>8, <2>2, <2>3
  <2>5. \A n \in 1..Len(queue) : queue[n] = here.queue[n + m] /\ n + m \in 1..Len(here.queue)
    BY <1>8, <2>2, <2>3, <2>4
  <2> QED
    BY <2>4, <2>5 DEF Listed
<1>11. flagged \in Seq(Candidates)
  <2>1. CASE key \in DOMAIN sheet
    <3>1. sheet[key] \in Candidates
      BY <1>9, <2>1
    <3> QED
      BY <1>4, <2>1, <3>1
  <2>2. CASE key \notin DOMAIN sheet
    BY <1>4, <2>2
  <2> QED
    BY <2>1, <2>2
<1>12. todo \in Seq(Todo) /\ \A t \in Listed(todo) : t[1] \in Listed(here.queue)
  <2>1. CASE key = 0
    <3>1. PICK yes : yes = TRUE
      OBVIOUS
    <3>2. yes \in BOOLEAN /\ "verified" \in DecidedAs /\ AllAs(todo, sheet, "verified", yes)
      BY <1>5, <2>1, <3>1 DEF AllAs, DecidedAs
    <3>3. todo \in Seq(Todo) /\ \A t \in Listed(todo) : t[1] \in Listed(sheet)
      BY <1>9, <3>2, TodoIs
    <3> QED
      BY <1>9, <3>3
  <2>2. CASE key # 0
    <3>1. todo = <<>>
      BY <1>5, <2>2
    <3>2. todo \in Seq(Todo)
      BY <3>1
    <3> QED
      BY <3>1, <3>2, NothingListed
  <2> QED
    BY <2>1, <2>2
<1>13. now \in Sessions
  BY <1>6, <1>8, <1>10, <1>11, <1>12 DEF Sessions
<1>14. /\ now.stage = "open" /\ now.command = here.command /\ now.claimed = here.claimed
       /\ now.queue = queue /\ now.todo = todo /\ now.flagged = flagged /\ now.failed = here.failed
  BY <1>6, <1>7, <1>8 DEF Sessions
<1>15. ~NamesASet(here.command)
  BY <1>7 DEF NamesASet
<1>16. \A f \in Listed(here.queue) : Warranted(f)
  BY <1>7, <1>8 DEF SessionIsSound
<1>17. SessionIsSound(now)
  BY <1>7, <1>8, <1>10, <1>12, <1>14, <1>15, <1>16 DEF SessionIsSound
<1> QED
  BY <1>7, <1>13, <1>17, QuietDesk

\* One key for the pages that name a place.
LEMMA AnswerPlaceKeeps ==
    ASSUME DesksInv, NEW d \in Desks, NEW key \in {"verified", "rejected", "enter"}, AnswerPlace(d, key)
    PROVE  DesksInv'
<1>1. PICK here : here = session[d]
  OBVIOUS
<1>2. PICK group : group = GroupByPlace(here.queue, ValueRead[Head(here.queue)])
  OBVIOUS
<1>3. PICK queue : queue = Among(here.queue, {f \in Candidates : ValueRead[f] # ValueRead[group[1]]})
  OBVIOUS
<1>4. PICK todo : todo = IF key \in {"verified", "rejected"}
                         THEN [i \in DOMAIN group |-> <<group[i], key, FALSE>>] ELSE <<>>
  OBVIOUS
<1>5. PICK now : now = [here EXCEPT !.queue = queue, !.todo = todo]
  OBVIOUS
<1>6. /\ session' = [session EXCEPT ![d] = now] /\ UNCHANGED <<standing, glanced, loaderSteps>>
      /\ here.stage = "open" /\ here.command.mode = "places" /\ here.queue # <<>>
  BY <1>1, <1>2, <1>3, <1>4, <1>5 DEF AnswerPlace, Become, IsAsking
<1>7. here \in Sessions /\ SessionIsSound(here) /\ here.queue \in Seq(Candidates)
  BY <1>1, <1>6, AtADesk
<1>8. group \in Seq(Candidates) /\ queue \in Seq(Candidates)
  BY <1>2, <1>3, <1>7, AmongIs DEF GroupByPlace
<1>9. todo \in Seq(Todo) /\ \A t \in Listed(todo) : t[3] = FALSE
  <2>1. CASE key \in {"verified", "rejected"}
    <3>1. PICK no : no = FALSE
      OBVIOUS
    <3>2. no \in BOOLEAN /\ key \in DecidedAs /\ AllAs(todo, group, key, no)
      BY <1>4, <2>1, <3>1 DEF AllAs, DecidedAs
    <3>3. todo \in Seq(Todo) /\ \A t \in Listed(todo) : t[3] = no
      BY <1>8, <3>2, TodoIs
    <3> QED
      BY <3>1, <3>3
  <2>2. CASE key \notin {"verified", "rejected"}
    <3>1. todo = <<>>
      BY <1>4, <2>2
    <3>2. todo \in Seq(Todo)
      BY <3>1
    <3> QED
      BY <3>1, <3>2, NothingListed
  <2> QED
    BY <2>1, <2>2
<1>10. now \in Sessions
  BY <1>5, <1>7, <1>8, <1>9 DEF Sessions
<1>11. /\ now.stage = "open" /\ now.command = here.command /\ now.claimed = here.claimed
       /\ now.queue = queue /\ now.todo = todo /\ now.flagged = here.flagged /\ now.failed = here.failed
  BY <1>5, <1>6, <1>7 DEF Sessions
<1>12. ~NamesASet(here.command)
  BY <1>6 DEF NamesASet
<1>13. SessionIsSound(now)
  BY <1>6, <1>7, <1>9, <1>11, <1>12 DEF SessionIsSound
<1> QED
  BY <1>6, <1>10, <1>13, QuietDesk

LEMMA DeskEnds ==
    ASSUME DesksInv, NEW d \in Desks, FailToRecord(d) \/ Finish(d) \/ Leave(d)
    PROVE  DesksInv'
<1>1. PICK here : here = session[d]
  OBVIOUS
<1>2. UNCHANGED <<standing, glanced, loaderSteps>>
  BY DEF FailToRecord, Finish, Leave
<1>3. CASE session' = [session EXCEPT ![d] = NoSession]
  BY <1>2, <1>3, AwayIsSound, QuietDesk
<1>4. CASE FailToRecord(d) /\ here.command.mode # "places"
  <2>1. PICK f : f = Head(here.todo)[1]
    OBVIOUS
  <2>2. PICK rest : rest = Tail(here.todo)
    OBVIOUS
  <2>3. PICK failed : failed = here.failed \cup {f}
    OBVIOUS
  <2>4. PICK now : now = [here EXCEPT !.todo = rest, !.failed = failed]
    OBVIOUS
  <2>5. session' = [session EXCEPT ![d] = now] /\ here.stage = "open" /\ here.todo # <<>>
    BY <1>1, <1>4, <2>1, <2>2, <2>3, <2>4 DEF FailToRecord, Become
  <2>6. /\ here \in Sessions /\ SessionIsSound(here)
        /\ here.todo \in Seq(Todo) /\ here.failed \subseteq Candidates
    BY <1>1, <2>5, AtADesk
  <2>7. /\ Head(here.todo) \in Todo /\ rest \in Seq(Todo)
        /\ Listed(here.todo) = {Head(here.todo)} \cup Listed(rest)
    BY <2>2, <2>5, <2>6, HeadAndTail
  <2>8. f \in Candidates /\ failed \subseteq Candidates
    BY <2>1, <2>3, <2>6, <2>7 DEF Todo
  <2>9. now \in Sessions
    BY <2>4, <2>6, <2>7, <2>8 DEF Sessions
  <2>10. /\ now.stage = "open" /\ now.command = here.command /\ now.claimed = here.claimed
         /\ now.queue = here.queue /\ now.todo = rest /\ now.flagged = here.flagged /\ now.failed = failed
    BY <2>4, <2>5, <2>6 DEF Sessions
  <2>11. \A t \in Listed(rest) : t[3] => Warranted(t[1])
    BY <2>5, <2>6, <2>7 DEF SessionIsSound
  <2>12. NamesASet(here.command) => \A g \in here.command.ids : standing[g] = "unverified" =>
             g \in failed \/ \E t \in Listed(rest) : t[1] = g
    BY <2>1, <2>3, <2>5, <2>6, <2>7 DEF SessionIsSound
  <2>13. SessionIsSound(now)
    BY <2>5, <2>6, <2>10, <2>11, <2>12 DEF SessionIsSound
  <2> QED
    BY <1>2, <2>5, <2>9, <2>13, QuietDesk
<1>5. CASE Finish(d)
  <2>1. PICK now : now = [here EXCEPT !.stage = "done"]
    OBVIOUS
  <2>2. session' = [session EXCEPT ![d] = now] /\ here.stage = "open" /\ here.todo = <<>>
    BY <1>1, <1>5, <2>1 DEF Finish, Become, IsAsking
  <2>3. here \in Sessions /\ SessionIsSound(here)
    BY <1>1, <2>2, AtADesk
  <2>4. now \in Sessions
    BY <2>1, <2>3 DEF Sessions
  <2>5. /\ now.stage = "done" /\ now.command = here.command /\ now.claimed = here.claimed
        /\ now.queue = here.queue /\ now.todo = here.todo /\ now.flagged = here.flagged
        /\ now.failed = here.failed
    BY <2>1, <2>3 DEF Sessions
  <2>6. SessionIsSound(now)
    BY <2>2, <2>3, <2>5 DEF SessionIsSound
  <2> QED
    BY <1>2, <2>2, <2>4, <2>6, QuietDesk
<1> QED
  BY <1>1, <1>3, <1>4, <1>5 DEF FailToRecord, Leave, Become

\* A decision is recorded of an undecided row alone, as the session asked.
LEMMA RecordNextKeeps ==
    ASSUME DesksInv, NEW d \in Desks, RecordNext(d)
    PROVE  DesksInv'
<1>1. PICK here : here = session[d]
  OBVIOUS
<1>2. here.stage = "open" /\ here.todo # <<>> /\ loaderSteps' = loaderSteps
  BY <1>1 DEF RecordNext
<1>3. here \in Sessions /\ SessionIsSound(here) /\ here.todo \in Seq(Todo) /\ here.command \in Commands
  BY <1>1, <1>2, AtADesk
<1>4. PICK first : first = Head(here.todo)
  OBVIOUS
<1>5. PICK f : f = first[1]
  OBVIOUS
<1>6. PICK rest : rest = Tail(here.todo)
  OBVIOUS
<1>7. PICK now : now = [here EXCEPT !.todo = rest]
  OBVIOUS
<1>8. /\ session' = [session EXCEPT ![d] = now]
      /\ standing' = IF standing[f] = "unverified" THEN [standing EXCEPT ![f] = first[2]] ELSE standing
  BY <1>1, <1>4, <1>5, <1>6, <1>7 DEF RecordNext, Become
<1>9. /\ glanced' \subseteq glanced \cup {f}
      /\ f \in glanced' \ glanced => first[3]
  BY <1>1, <1>4, <1>5 DEF RecordNext
<1>10. /\ first \in Todo /\ rest \in Seq(Todo)
       /\ Listed(here.todo) = {first} \cup Listed(rest)
  BY <1>2, <1>3, <1>4, <1>6, HeadAndTail
<1>11. f \in Candidates /\ first[2] \in DecidedAs
  BY <1>5, <1>10 DEF Todo
<1>12. standing \in [Candidates -> Standings] /\ glanced \subseteq Candidates
  BY DEF DesksInv, DesksTypeOK
<1>13. /\ standing' \in [Candidates -> Standings]
       /\ \A g \in Candidates : g # f => standing'[g] = standing[g]
       /\ standing'[f] = IF standing[f] = "unverified" THEN first[2] ELSE standing[f]
  <2>1. first[2] \in Standings
    BY <1>11 DEF Standings
  <2>2. CASE standing[f] = "unverified"
    <3>1. standing' = [standing EXCEPT ![f] = first[2]]
      BY <1>8, <2>2
    <3> QED
      BY <1>11, <1>12, <2>1, <2>2, <3>1
  <2>3. CASE standing[f] # "unverified"
    <3>1. standing' = standing
      BY <1>8, <2>3
    <3> QED
      BY <1>12, <2>3, <3>1
  <2> QED
    BY <2>2, <2>3
<1>14. standing'[f] # "unverified" /\ (standing[f] # "absent" => standing'[f] # "absent")
  BY <1>11, <1>13 DEF DecidedAs
<1>15. Onward
  BY <1>11, <1>13, <1>14 DEF Onward
<1>16. now \in Sessions
  BY <1>3, <1>7, <1>10 DEF Sessions
<1>17. /\ now.stage = "open" /\ now.command = here.command /\ now.claimed = here.claimed
       /\ now.queue = here.queue /\ now.todo = rest /\ now.flagged = here.flagged
       /\ now.failed = here.failed
  BY <1>2, <1>3, <1>7 DEF Sessions
<1>18. SessionIsSound(here)'
  BY <1>3, <1>15, SoundStays
<1>19. \A t \in Listed(rest) : t[3] => Warranted(t[1])'
  BY <1>2, <1>10, <1>18 DEF SessionIsSound
<1>20. NamesASet(here.command) => \A g \in here.command.ids : standing'[g] = "unverified" =>
           g \in here.failed \/ \E t \in Listed(rest) : t[1] = g
  BY <1>2, <1>5, <1>10, <1>14, <1>18 DEF SessionIsSound
<1>21. SessionIsSound(now)'
  BY <1>2, <1>17, <1>18, <1>19, <1>20 DEF SessionIsSound
<1>22. glanced' \subseteq Candidates
  BY <1>9, <1>11, <1>12
<1>23. \A g \in glanced' \ glanced : Warranted(g)
  <2> SUFFICES ASSUME NEW g \in glanced' \ glanced PROVE Warranted(g)
    OBVIOUS
  <2>1. g = f /\ first[3]
    BY <1>9
  <2>2. first \in Listed(here.todo)
    BY <1>10
  <2> QED
    BY <1>2, <1>3, <1>5, <2>1, <2>2 DEF SessionIsSound
<1> QED
  BY <1>2, <1>8, <1>13, <1>15, <1>16, <1>21, <1>22, <1>23, OneDesk

\* The loader brings a candidate in or withdraws it: no desk is told.
LEMMA ReloadCandidateKeeps ==
    ASSUME DesksInv, NEW f \in Candidates, ReloadCandidate(f)
    PROVE  DesksInv'
<1>1. /\ session' = session /\ glanced' = glanced /\ loaderSteps' = loaderSteps + 1
      /\ standing' = [standing EXCEPT ![f] = IF standing[f] = "absent" THEN "unverified" ELSE "retired"]
      /\ standing[f] \in {"absent", "unverified"}
  BY DEF ReloadCandidate
<1>2. /\ standing \in [Candidates -> Standings] /\ glanced \subseteq Candidates /\ loaderSteps \in Nat
      /\ session \in [Desks -> Sessions \cup {NoSession}]
  BY DEF DesksInv, DesksTypeOK
<1>3. /\ standing' \in [Candidates -> Standings]
      /\ \A g \in Candidates : g # f => standing'[g] = standing[g]
      /\ standing'[f] \in {"unverified", "retired"}
  BY <1>1, <1>2 DEF Standings
<1>4. Onward
  BY <1>1, <1>3 DEF Onward
<1>5. loaderSteps' \in Nat
  BY <1>1, <1>2
<1>6. DesksTypeOK'
  BY <1>1, <1>2, <1>3, <1>5 DEF DesksTypeOK
<1>7. \A e \in Desks : SessionIsSound(session[e])'
  <2> SUFFICES ASSUME NEW e \in Desks PROVE SessionIsSound(session[e])'
    OBVIOUS
  <2>1. PICK there : there = session[e]
    OBVIOUS
  <2>2. session'[e] = there /\ there \in Sessions \cup {NoSession} /\ SessionIsSound(there)
    BY <1>1, <1>2, <2>1 DEF DesksInv
  <2>3. SessionIsSound(there)'
    BY <1>4, <2>2, SoundStays
  <2> QED
    BY <2>2, <2>3 DEF SessionIsSound
<1>8. \A g \in glanced' : Warranted(g)'
  <2>1. \A g \in glanced' : Warranted(g)
    BY <1>1 DEF DesksInv
  <2> QED
    BY <1>4, <2>1, WarrantStays
<1> QED
  BY <1>6, <1>7, <1>8 DEF DesksInv

LEMMA DesksSteps ==
    ASSUME DesksInv, [DesksNext]_desks
    PROVE  DesksInv'
<1>1. ASSUME NEW d \in Desks, NEW o \in Commands, Sit(d, o) PROVE DesksInv'
  BY <1>1, SitKeeps
<1>2. ASSUME NEW d \in Desks, ReadQueue(d) PROVE DesksInv'
  BY <1>2, ReadQueueKeeps
<1>3. ASSUME NEW d \in Desks, NEW key \in DecidedAs \cup {"enter"}, AnswerOne(d, key) PROVE DesksInv'
  BY <1>3, AnswerOneKeeps
<1>4. ASSUME NEW d \in Desks, NEW key \in 0..(Lines + 1), AnswerPage(d, key) PROVE DesksInv'
  BY <1>4, AnswerPageKeeps
<1>5. ASSUME NEW d \in Desks, NEW key \in {"verified", "rejected", "enter"}, AnswerPlace(d, key)
      PROVE  DesksInv'
  BY <1>5, AnswerPlaceKeeps
<1>6. ASSUME NEW d \in Desks, RecordNext(d) PROVE DesksInv'
  BY <1>6, RecordNextKeeps
<1>7. ASSUME NEW d \in Desks, FailToRecord(d) \/ Finish(d) \/ Leave(d) PROVE DesksInv'
  BY <1>7, DeskEnds
<1>8. ASSUME NEW f \in Candidates, ReloadCandidate(f) PROVE DesksInv'
  BY <1>8, ReloadCandidateKeeps
<1>9. ASSUME UNCHANGED desks PROVE DesksInv'
  <2>1. /\ standing' = standing /\ session' = session /\ glanced' = glanced /\ loaderSteps' = loaderSteps
    BY <1>9 DEF desks
  <2> QED
    BY <2>1 DEF DesksInv, DesksTypeOK, SessionIsSound, Warranted, Accounted
<1> QED
  BY <1>1, <1>2, <1>3, <1>4, <1>5, <1>6, <1>7, <1>8, <1>9 DEF DesksNext

\* What was accepted is warranted, and a session that ended left no part of a
\* set it was given by name.
LEMMA DesksAreSound == DesksInv => DecisionsAreWarranted
<1> SUFFICES ASSUME DesksInv PROVE DecisionsAreWarranted
  OBVIOUS
<1>1. GlanceIsWarranted
  <2>1. \A f \in glanced : Warranted(f)
    BY DEF DesksInv
  <2> QED
    BY <2>1 DEF GlanceIsWarranted, Warranted, Accounted
<1>2. NamedSetIsWhole
  <2> SUFFICES ASSUME NEW d \in Desks, session[d].stage = "done", NamesASet(session[d].command),
                      NEW f \in session[d].command.ids, standing[f] = "unverified"
               PROVE  f \in session[d].failed
    BY DEF NamedSetIsWhole
  <2>1. PICK here : here = session[d]
    OBVIOUS
  <2>2. SessionIsSound(here) /\ here.stage = "done" /\ NamesASet(here.command)
        /\ f \in here.command.ids
    BY <2>1 DEF DesksInv
  <2>3. here.todo = <<>>
    BY <2>2 DEF SessionIsSound
  <2>4. f \in here.failed \/ \E t \in Listed(here.todo) : t[1] = f
    BY <2>2 DEF SessionIsSound
  <2> QED
    BY <2>1, <2>3, <2>4, NothingListed
<1> QED
  BY <1>1, <1>2 DEF DecisionsAreWarranted

\* Only a decision changes a row while the loader rests, and what a candidate
\* claims is read alike before it and after.
LEMMA DecisionsMoveNothing ==
    ASSUME DesksInv, [DesksNext]_desks, standing' # standing, loaderSteps' = loaderSteps
    PROVE  \A f \in Candidates : SelfCheck(f, ClaimedByPage(0)) = SelfCheck(f, ClaimedByPage(0))'
<1>1. loaderSteps \in Nat
  BY DEF DesksInv, DesksTypeOK
<1>2. PICK d \in Desks : RecordNext(d)
  <2>1. ~UNCHANGED desks
    BY DEF desks
  <2>2. \A f \in Candidates : ~ReloadCandidate(f)
    <3>1. loaderSteps + 1 # loaderSteps
      BY <1>1
    <3> QED
      BY <3>1 DEF ReloadCandidate
  <2>3. \A d \in Desks : /\ \A o \in Commands : ~Sit(d, o)
                         /\ ~ReadQueue(d) /\ \A key : ~AnswerOne(d, key) /\ ~AnswerPage(d, key) /\ ~AnswerPlace(d, key)
                         /\ ~FailToRecord(d) /\ ~Finish(d) /\ ~Leave(d)
    BY DEF Sit, ReadQueue, AnswerOne, AnswerPage, AnswerPlace, FailToRecord, Finish, Leave
  <2> QED
    BY <2>1, <2>2, <2>3 DEF DesksNext
<1>3. PICK here : here = session[d]
  OBVIOUS
<1>4. PICK first : first = Head(here.todo)
  OBVIOUS
<1>5. PICK f : f = first[1]
  OBVIOUS
<1>6. /\ here.stage = "open" /\ here.todo # <<>>
      /\ standing[f] = "unverified" /\ standing' = [standing EXCEPT ![f] = first[2]]
  BY <1>2, <1>3, <1>4, <1>5 DEF RecordNext
<1>7. here.todo \in Seq(Todo)
  BY <1>3, <1>6, AtADesk
<1>8. first \in Todo
  BY <1>4, <1>6, <1>7, HeadAndTail
<1>9. f \in Candidates /\ first[2] \in DecidedAs
  BY <1>5, <1>8 DEF Todo
<1>10. standing \in [Candidates -> Standings]
  BY DEF DesksInv, DesksTypeOK
<1>11. ASSUME NEW g \in Candidates
       PROVE  (standing[g] \in DecidedAs \cup {"unverified"}) <=> (standing'[g] \in DecidedAs \cup {"unverified"})
  <2>1. CASE g = f
    <3>1. standing'[g] = first[2]
      BY <1>6, <1>9, <1>10, <2>1
    <3> QED
      BY <1>6, <1>9, <2>1, <3>1
  <2>2. CASE g # f
    <3>1. standing'[g] = standing[g]
      BY <1>6, <1>10, <2>2
    <3> QED
      BY <3>1
  <2> QED
    BY <2>1, <2>2
<1>12. ClaimedByPage(0)' = ClaimedByPage(0)
  BY <1>11 DEF ClaimedByPage, Stored
<1> QED
  BY <1>12 DEF SelfCheck

\* A decision taken many at a time rests on what each candidate shows
\* (review/cli.ts:347-360), a set named by ids is decided whole (cli.ts:303-308),
\* and no decision moves a candidate into another partition (queue.ts:139-147).
THEOREM DesksDecideSoundly == DesksSpec => ReviewsAreWarranted
<1>1. DesksInit => DesksInv
  BY DesksBegin
<1>2. DesksInv /\ [DesksNext]_desks => DesksInv'
  BY DesksSteps
<1>3. DesksInv /\ [DesksNext]_desks => DecisionsAreWarranted'
  <2>1. (DesksInv => DecisionsAreWarranted)'
    BY DesksAreSound, PTL
  <2> QED
    BY <1>2, <2>1
<1>4. DesksInv /\ [DesksNext]_desks =>
          [standing' # standing /\ loaderSteps' = loaderSteps =>
              \A f \in Candidates : SelfCheck(f, ClaimedByPage(0)) = SelfCheck(f, ClaimedByPage(0))']_desks
  BY DecisionsMoveNothing
<1> QED
  BY <1>1, <1>2, <1>3, <1>4, PTL DEF DesksSpec, ReviewsAreWarranted, PartitionsHold
=============================================================================
