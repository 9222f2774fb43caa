------------------------ MODULE TenderLedgerProofs ------------------------
(***************************************************************************)
(* What holds of the tender ledger and of the check that watches it, for   *)
(* every number of sweepers, reviewers, portals and tenders.               *)
(*                                                                         *)
(* One inductive invariant carries the ledger, in four layers proved one   *)
(* on the other: SweepInv (who holds the lock, how runs and versions are   *)
(* numbered), PlacementInv (where a place came from, in the rows and in    *)
(* the hands of a load), FilingInv (what a load has filed is what it has   *)
(* overwritten), and RunsInv (which rows a run loaded, and what its        *)
(* portal's window dates).  Freshness has an invariant of its own.         *)
(***************************************************************************)
EXTENDS TenderLedger, Freshness, Inductions

-----------------------------------------------------------------------------
(* The order the ledger keeps, and its types.                              *)

AtWork == {"opened", "loading", "committed"}

\* What the stage of a sweep says of the rest of its state.
StageIsSound(w) ==
    /\ w.stage \notin AtWork => w = Sweeping(w.todo)
    /\ w.stage \in AtWork =>
         /\ w.run \in RunIds /\ w.run < nextRun
         /\ attempt[w.run] # None
         /\ attempt[w.run].status = "running"
         /\ attempt[w.run].portal \in Portals
    /\ \A t \in Tenders :
         /\ w.reading[t] # None =>
              w.stage \in {"opened", "loading"} /\ PortalOf[t] = attempt[w.run].portal
         /\ w.outcome[t] # "none" => w.stage = "loading" /\ w.reading[t] # None
         /\ w.mine[t] # None <=> w.outcome[t] \in {"inserted", "updated"}
    /\ w.filed # {} => w.stage = "loading"

OneHolder == \A c \in Sweepers : collector[c] # SweepStopped => lock = c

\* Runs are numbered as they come.
RunsInOrder == \A i \in RunIds : attempt[i] = None <=> i >= nextRun

\* What reviewers and the resolver have in hand is in the ledger.
ErrandsHaveRows ==
    /\ \A r \in Reviewers : reviewer[r].stage # "idle" =>
         reviewer[r].tender \in Tenders /\ row[reviewer[r].tender] # None
    /\ \A r \in Reviewers : reviewer[r].stage = "signed" => reviewer[r].decision \in DecisionIds
    /\ \A t \in unplaced : row[t] # None

\* Versions are numbered as they come, committed or not.
Numbered(versions) == IsFiniteSet(versions) /\ \A v \in versions : v.id < nextVersion
FiledInOrder == \A c \in Sweepers : Numbered(collector[c].filed)
VersionsInOrder == Numbered(history) /\ FiledInOrder

SweepInv ==
    /\ TypeOK
    /\ OneHolder
    /\ \A c \in Sweepers : StageIsSound(collector[c])
    /\ RunsInOrder
    /\ ErrandsHaveRows
    /\ VersionsInOrder

\* Every sweeper between two portals is sound, whichever portals it still has
\* to do.
LEMMA AnySweeping ==
    /\ \A todo : StageIsSound(Sweeping(todo))
    /\ \A todo \in SUBSET Portals : Sweeping(todo) \in Collector
    /\ \A todo : /\ Sweeping(todo).stage \notin AtWork
                 /\ Sweeping(todo).todo = todo
                 /\ Sweeping(todo).run = 0
                 /\ Sweeping(todo).filed = {}
                 /\ \A t \in Tenders : /\ Sweeping(todo).mine[t] = None
                                       /\ Sweeping(todo).outcome[t] = "none"
                                       /\ Sweeping(todo).reading[t] = None
    /\ \A todo : Sweeping(todo).stage = "idle" => todo = {}
<1>1. \A todo : /\ Sweeping(todo).stage \notin AtWork
                /\ Sweeping(todo).todo = todo
                /\ Sweeping(todo).run = 0
                /\ Sweeping(todo).filed = {}
                /\ \A t \in Tenders : /\ Sweeping(todo).mine[t] = None
                                      /\ Sweeping(todo).outcome[t] = "none"
                                      /\ Sweeping(todo).reading[t] = None
  BY DEF Sweeping, AtWork
<1>2. \A todo : StageIsSound(Sweeping(todo))
  BY <1>1, Zenon DEF StageIsSound
<1>3. \A todo \in SUBSET Portals : Sweeping(todo) \in Collector
  <2>1. 0 \in 0..MaxIngestions /\ NoTally \in Tallies
    BY ConstantsAssumption DEF NoTally, Tallies
  <2> QED
    BY <2>1 DEF Sweeping, Collector, Outcomes
<1>4. \A todo : Sweeping(todo).stage = "idle" => todo = {}
  BY DEF Sweeping
<1> QED
  BY <1>1, <1>2, <1>3, <1>4

\* A sweeper between portals has nothing in hand.
LEMMA SweepingIsSound == \A s : StageIsSound(Sweeping(s))
BY AnySweeping

\* No version is a numbered set of versions.
LEMMA NoneAreNumbered == Numbered({})
BY FS_EmptySet DEF Numbered

\* A ledger nothing has been written to is in order.
LEMMA SweepStarts == TenderInit => SweepInv
<1> SUFFICES ASSUME TenderInit
             PROVE  SweepInv
  OBVIOUS
<1>1. SweepStopped \in Collector /\ StageIsSound(SweepStopped)
  BY AnySweeping DEF SweepStopped
<1>2. AtRest \in Reviewer
  BY ConstantsAssumption DEF AtRest, Reviewer
<1>3. TypeOK
  BY <1>1, <1>2, ConstantsAssumption DEF TenderInit, TypeOK
<1>4. RunsInOrder
  BY DEF TenderInit, RunsInOrder, RunIds
<1>5. ErrandsHaveRows
  BY DEF TenderInit, ErrandsHaveRows, AtRest
<1>6. VersionsInOrder
  <2>1. \A c \in Sweepers : collector[c].filed = {}
    BY AnySweeping DEF TenderInit, SweepStopped
  <2> QED
    BY <2>1, NoneAreNumbered DEF TenderInit, VersionsInOrder, FiledInOrder
<1> QED
  BY <1>1, <1>3, <1>4, <1>5, <1>6 DEF TenderInit, SweepInv, OneHolder

\* While one sweeper holds the lock, no other is at work.
LEMMA OthersAreStopped ==
    ASSUME SweepInv, NEW c \in Sweepers, collector[c] # SweepStopped \/ lock = None
    PROVE  \A o \in Sweepers \ {c} : collector[o] = SweepStopped
BY ConstantsAssumption DEF SweepInv, OneHolder

\* Only the holder of the lock has moved.
LEMMA HolderMoves ==
    ASSUME SweepInv, NEW c \in Sweepers, \A o \in Sweepers \ {c} : collector[o] = SweepStopped,
           NEW now, now \in Collector, collector' = [collector EXCEPT ![c] = now],
           lock' \in Sweepers \cup {None}, now # SweepStopped => lock' = c,
           StageIsSound(now)', Numbered(now.filed)'
    PROVE  /\ collector' \in [Sweepers -> Collector]
           /\ OneHolder'
           /\ \A o \in Sweepers : StageIsSound(collector[o])'
           /\ FiledInOrder'
           /\ collector'[c] = now
           /\ \A o \in Sweepers \ {c} : collector'[o] = SweepStopped
<1>1. collector' \in [Sweepers -> Collector] /\ collector'[c] = now
      /\ \A o \in Sweepers \ {c} : collector'[o] = SweepStopped
  BY DEF SweepInv, TypeOK
<1>2. OneHolder'
  BY <1>1 DEF OneHolder
<1>3. (\A s : StageIsSound(Sweeping(s)))'
  BY SweepingIsSound, PTL
<1>4. StageIsSound(SweepStopped)'
  BY <1>3, Zenon DEF SweepStopped
<1>5. ASSUME NEW o \in Sweepers
      PROVE  StageIsSound(collector[o])'
  <2>1. CASE o = c
    <3>1. collector'[o] = now
      BY <1>1, <2>1
    <3> QED
      BY <3>1 DEF StageIsSound
  <2>2. CASE o # c
    <3>1. collector'[o] = SweepStopped
      BY <1>1, <2>2
    <3> QED
      BY <3>1, <1>4 DEF StageIsSound
  <2> QED
    BY <2>1, <2>2
<1>6. FiledInOrder'
  <2>1. Numbered({})'
    BY NoneAreNumbered, PTL
  <2>2. \A o \in Sweepers : collector'[o].filed = now.filed \/ collector'[o].filed = {}
    BY <1>1, AnySweeping DEF SweepStopped
  <2> QED
    BY <2>1, <2>2 DEF FiledInOrder, Numbered
<1> QED
  BY <1>1, <1>2, <1>5, <1>6

-----------------------------------------------------------------------------

\* What a step of a sweep leaves: c has moved to `now`, and no other sweep is at work.
Moved(c, now) ==
    /\ collector' = [collector EXCEPT ![c] = now]
    /\ \A o \in Sweepers \ {c} : collector[o] = SweepStopped
    /\ collector'[c] = now
    /\ \A o \in Sweepers \ {c} : collector'[o] = SweepStopped

\* What one sweeper does with its own state leaves the others' sound.
LEMMA MovesOn ==
    ASSUME SweepInv, NEW c \in Sweepers, collector[c] # SweepStopped,
           NEW todo \in SUBSET Portals, MoveOn(c, todo)
    PROVE  /\ Moved(c, Sweeping(todo))
           /\ lock' \in Sweepers \cup {None}
           /\ Sweeping(todo) # SweepStopped => lock' = c
           /\ StageIsSound(Sweeping(todo))'
           /\ Sweeping(todo) \in Collector
           /\ Numbered(Sweeping(todo).filed)'
<1>1. lock = c
  BY DEF SweepInv, OneHolder
<1>2. Moved(c, Sweeping(todo))
  BY OthersAreStopped DEF SweepInv, TypeOK, MoveOn, Moved
<1>3. (\A s : StageIsSound(Sweeping(s)))'
  BY SweepingIsSound, PTL
<1>4. Sweeping(todo).filed = {}
  BY AnySweeping
<1> QED
  BY <1>1, <1>2, <1>3, <1>4, AnySweeping, FS_EmptySet DEF MoveOn, SweepStopped, Numbered

\* Taking the advisory lock (pg_try_advisory_lock).
LEMMA TakeLockKeeps ==
    ASSUME SweepInv, NEW c \in Sweepers, TakeLock(c)
    PROVE  /\ SweepInv'
           /\ \E todo \in SUBSET Portals : Moved(c, Sweeping(todo))
<1>1. PICK todo \in SUBSET Portals : collector' = [collector EXCEPT ![c] = Sweeping(todo)]
  BY DEF TakeLock
<1>2. Moved(c, Sweeping(todo))
  BY <1>1, OthersAreStopped DEF SweepInv, TypeOK, TakeLock, Moved
<1>3. (\A s : StageIsSound(Sweeping(s)))'
  BY SweepingIsSound, PTL
<1>4. Sweeping(todo) \in Collector /\ Sweeping(todo).filed = {} /\ StageIsSound(Sweeping(todo))'
  BY <1>3, AnySweeping
<1>5. /\ collector' \in [Sweepers -> Collector]
      /\ OneHolder'
      /\ \A o \in Sweepers : StageIsSound(collector[o])'
      /\ FiledInOrder'
  BY <1>2, <1>4, HolderMoves, FS_EmptySet DEF Moved, TakeLock, Numbered
<1>6. TypeOK'
  BY <1>5 DEF SweepInv, TypeOK, TakeLock, runs, register
<1>7. RunsInOrder' /\ ErrandsHaveRows' /\ VersionsInOrder'
  BY <1>5 DEF SweepInv, RunsInOrder, ErrandsHaveRows, VersionsInOrder, Numbered, TakeLock, runs, register
<1> QED
  BY <1>2, <1>5, <1>6, <1>7 DEF SweepInv

\* Being turned away from the lock.
LEMMA TurnedAwayKeeps ==
    ASSUME SweepInv, NEW c \in Sweepers, NEW p \in Portals, TurnedAway(c, p)
    PROVE  /\ SweepInv'
           /\ \E todo \in SUBSET Portals : Moved(c, Sweeping(todo))
<1> DEFINE todo == collector[c].todo \ {p}
<1>1. todo \in SUBSET Portals
  BY DEF SweepInv, TypeOK, Collector
<1>2. collector[c] # SweepStopped
  BY DEF TurnedAway, SweepStopped, Sweeping
<1>3. PICK left \in SUBSET Portals : left = todo
  BY <1>1
<1>4. /\ Moved(c, Sweeping(left))
      /\ lock' \in Sweepers \cup {None}
      /\ Sweeping(left) # SweepStopped => lock' = c
      /\ StageIsSound(Sweeping(left))'
      /\ Sweeping(left) \in Collector
      /\ Numbered(Sweeping(left).filed)'
  BY <1>2, <1>3, MovesOn DEF TurnedAway
<1>5. /\ collector' \in [Sweepers -> Collector]
      /\ OneHolder'
      /\ \A o \in Sweepers : StageIsSound(collector[o])'
      /\ FiledInOrder'
  BY <1>4, HolderMoves DEF Moved
<1>6. TypeOK'
  BY <1>4, <1>5 DEF SweepInv, TypeOK, TurnedAway, runs, register
<1>7. RunsInOrder' /\ ErrandsHaveRows' /\ VersionsInOrder'
  BY <1>5 DEF SweepInv, RunsInOrder, ErrandsHaveRows, VersionsInOrder, Numbered, TurnedAway, runs, register
<1> QED
  BY <1>4, <1>5, <1>6, <1>7 DEF SweepInv

\* A portal that refuses.
LEMMA SkipKeeps ==
    ASSUME SweepInv, NEW c \in Sweepers, Skip(c)
    PROVE  SweepInv'
<1> DEFINE skipped == [portal |-> None, status |-> "skipped", counts |-> NoTally]
<1>1. skipped \in Ingestion
  BY DEF Ingestion, NoTally, Tallies
<1>2. TypeOK'
  BY <1>1, ConstantsAssumption DEF SweepInv, TypeOK, Skip, RunIds, register
<1>3. \A i \in RunIds : i # nextRun => attempt'[i] = attempt[i]
  BY DEF SweepInv, TypeOK, Skip
<1>4. nextRun \in RunIds /\ attempt'[nextRun] # None
  BY <1>1, ConstantsAssumption DEF SweepInv, TypeOK, Skip, RunIds
<1>5. RunsInOrder'
  BY <1>3, <1>4 DEF SweepInv, TypeOK, RunsInOrder, Skip, RunIds
<1>6. ErrandsHaveRows' /\ VersionsInOrder' /\ OneHolder'
  BY DEF SweepInv, ErrandsHaveRows, VersionsInOrder, FiledInOrder, Numbered, OneHolder, Skip, register
<1>7. ASSUME NEW o \in Sweepers
      PROVE  StageIsSound(collector[o])'
  <2>1. PICK w : w = collector[o]
    OBVIOUS
  <2>2. collector'[o] = w
    BY <2>1 DEF Skip
  <2>3. StageIsSound(w) /\ w \in Collector
    BY <2>1 DEF SweepInv, TypeOK
  <2>4. w.stage \in AtWork => w.run # nextRun /\ w.run < nextRun'
    BY <2>3 DEF StageIsSound, Skip, SweepInv, TypeOK, RunIds
  <2>5. \A t \in Tenders : w.reading[t] # None => w.run # nextRun
    BY <2>3, <2>4 DEF StageIsSound, AtWork
  <2>6. StageIsSound(w)'
    BY <1>3, <2>3, <2>4, <2>5 DEF StageIsSound, AtWork
  <2> QED
    BY <2>2, <2>6 DEF StageIsSound
<1> QED
  BY <1>2, <1>5, <1>6, <1>7 DEF SweepInv

\* openIngestion: the next run id, running.
LEMMA OpenIngestionKeeps ==
    ASSUME SweepInv, NEW c \in Sweepers, NEW p \in Portals, OpenIngestion(c, p)
    PROVE  /\ SweepInv'
           /\ \E reading \in [Tenders -> Readings \cup {None}] :
                Moved(c, [collector[c] EXCEPT !.stage = "opened", !.run = nextRun,
                             !.todo = @ \ {p}, !.reading = reading])
<1>1. PICK reading \in [Tenders -> Readings \cup {None}] :
        /\ \A t \in Tenders : PortalOf[t] # p => reading[t] = None
        /\ collector' = [collector EXCEPT ![c].stage = "opened", ![c].run = nextRun,
                                          ![c].todo = @ \ {p}, ![c].reading = reading]
  BY DEF OpenIngestion
<1> DEFINE new == [collector[c] EXCEPT !.stage = "opened", !.run = nextRun,
                             !.todo = @ \ {p}, !.reading = reading]
<1>2. PICK w : w = collector[c]
  OBVIOUS
<1>3. w \in Collector /\ StageIsSound(w) /\ w.stage = "sweeping"
  BY <1>2 DEF SweepInv, TypeOK, OpenIngestion
<1>4. w = Sweeping(w.todo) /\ w # SweepStopped
  BY <1>3 DEF StageIsSound, AtWork, SweepStopped, Sweeping
<1>5. nextRun \in RunIds /\ nextRun' = nextRun + 1
  BY ConstantsAssumption DEF SweepInv, TypeOK, OpenIngestion, RunIds
<1>6. PICK now : now = [w EXCEPT !.stage = "opened", !.run = nextRun,
                             !.todo = @ \ {p}, !.reading = reading]
  OBVIOUS
<1>7. /\ now \in Collector
      /\ now.stage = "opened" /\ now.run = nextRun /\ now.reading = reading
      /\ now.filed = w.filed /\ now.mine = w.mine /\ now.outcome = w.outcome
  <2>1. /\ nextRun \in 0..MaxIngestions
        /\ w.todo \ {p} \in SUBSET Portals
        /\ "opened" \in {"idle", "sweeping", "opened", "loading", "committed"}
    BY <1>3, <1>5 DEF Collector, RunIds
  <2> QED
    BY <1>3, <1>6, <2>1 DEF Collector
<1>8. collector' = [collector EXCEPT ![c] = now]
  BY <1>1, <1>2, <1>6
<1>9. Moved(c, now)
  BY <1>2, <1>4, <1>8, OthersAreStopped DEF SweepInv, TypeOK, Moved
<1>10. attempt' = [attempt EXCEPT ![nextRun] = [portal |-> p, status |-> "running", counts |-> NoTally]]
  BY DEF OpenIngestion
<1>11. [portal |-> p, status |-> "running", counts |-> NoTally] \in Ingestion
  BY DEF Ingestion, NoTally, Tallies
<1>12. /\ attempt'[nextRun] # None
       /\ attempt'[nextRun].status = "running"
       /\ attempt'[nextRun].portal = p
       /\ \A i \in RunIds : i # nextRun => attempt'[i] = attempt[i]
       /\ attempt' \in [RunIds -> Ingestion \cup {None}]
  BY <1>5, <1>10, <1>11, ConstantsAssumption DEF SweepInv, TypeOK
<1>13. StageIsSound(now)'
  <2>1. \A t \in Tenders : /\ now.outcome[t] = "none"
                           /\ now.mine[t] = None
    BY <1>4, <1>7, AnySweeping
  <2>2. now.filed = {}
    BY <1>4, <1>7, AnySweeping
  <2>3. nextRun < nextRun'
    BY <1>5 DEF RunIds
  <2> QED
    BY <1>1, <1>5, <1>7, <1>12, <2>1, <2>2, <2>3 DEF StageIsSound, AtWork
<1>14. lock' = c
  BY <1>2, <1>4 DEF SweepInv, OneHolder, OpenIngestion
<1>15. now.filed = {}
  BY <1>4, <1>7, AnySweeping
<1>16. /\ collector' \in [Sweepers -> Collector]
      /\ OneHolder'
      /\ \A o \in Sweepers : StageIsSound(collector[o])'
      /\ FiledInOrder'
  BY <1>7, <1>8, <1>9, <1>13, <1>14, <1>15, HolderMoves, FS_EmptySet, ZenonT(60) DEF Moved, Numbered
<1>17. TypeOK'
  BY <1>5, <1>12, <1>14, <1>16, ConstantsAssumption DEF SweepInv, TypeOK, OpenIngestion, RunIds, register
<1>18. RunsInOrder'
  BY <1>5, <1>12 DEF SweepInv, TypeOK, RunsInOrder, RunIds
<1>19. ErrandsHaveRows' /\ VersionsInOrder'
  BY <1>16 DEF SweepInv, ErrandsHaveRows, VersionsInOrder, Numbered, OpenIngestion, register
<1> QED
  BY <1>2, <1>6, <1>9, <1>16, <1>17, <1>18, <1>19 DEF SweepInv

-----------------------------------------------------------------------------

\* Of the numbers in a finite range there is a highest.
LEMMA HasHighest ==
    ASSUME NEW n \in Nat, NEW S \in SUBSET (0..n), S # {}
    PROVE  \E m \in S : \A k \in S : k <= m
<1>1. S \subseteq Nat
  OBVIOUS
<1>2. IsFiniteSet(S)
  <2>1. IsFiniteSet(0..n)
    BY FS_Interval
  <2> QED
    BY <2>1, FS_Subset
<1> QED
  BY <1>1, <1>2, GreatestOf

\* The mark read before a load is no lower than any version of the portal:
\* countsOf may count what is past it.
LEMMA MarkIsHighest ==
    ASSUME SweepInv
    PROVE  Mark \in Nat /\ \A v \in history : v.id <= Mark
<1> DEFINE ids == {v.id : v \in history}
           IsMark(m) == /\ \A v \in history : v.id <= m
                        /\ m = 0 \/ \E v \in history : v.id = m
<1>1. nextVersion \in Nat /\ ids \in SUBSET (0..nextVersion)
  BY DEF SweepInv, TypeOK, VersionsInOrder, Numbered, Version
<1>2. \E m \in 0..nextVersion : IsMark(m)
  <2>1. CASE ids = {}
    BY <1>1, <2>1
  <2>2. CASE ids # {}
    <3>1. PICK m \in ids : \A k \in ids : k <= m
      BY <1>1, <2>2, HasHighest
    <3> QED
      BY <1>1, <3>1
  <2> QED
    BY <2>1, <2>2
<1>3. Mark \in 0..nextVersion /\ IsMark(Mark)
  BY <1>2 DEF Mark
<1> QED
  BY <1>1, <1>3

\* The transaction begins, and the mark is read.
LEMMA BeginLoadKeeps ==
    ASSUME SweepInv, NEW c \in Sweepers, BeginLoad(c)
    PROVE  /\ SweepInv'
           /\ Moved(c, [collector[c] EXCEPT !.stage = "loading", !.mark = Mark])
           /\ collector[c].run \in RunIds
           /\ Loading(c) \in Portals
<1>1. PICK w : w = collector[c]
  OBVIOUS
<1>2. w \in Collector /\ StageIsSound(w) /\ w.stage = "opened"
  BY <1>1 DEF SweepInv, TypeOK, BeginLoad
<1>3. w # SweepStopped
  BY <1>2 DEF SweepStopped, Sweeping
<1>4. PICK m \in Nat : m = Mark
  BY MarkIsHighest
<1>5. PICK now : now = [w EXCEPT !.stage = "loading", !.mark = m]
  OBVIOUS
<1>6. /\ now \in Collector
      /\ now.stage = "loading" /\ now.run = w.run /\ now.reading = w.reading
      /\ now.filed = w.filed /\ now.mine = w.mine /\ now.outcome = w.outcome
  BY <1>2, <1>5 DEF Collector
<1>7. collector' = [collector EXCEPT ![c] = now]
  BY <1>1, <1>4, <1>5 DEF BeginLoad
<1>8. Moved(c, now)
  BY <1>1, <1>3, <1>7, OthersAreStopped DEF SweepInv, TypeOK, Moved
<1>9. w.run \in RunIds /\ attempt[w.run].portal \in Portals
  BY <1>2 DEF StageIsSound, AtWork
<1>10. StageIsSound(now)'
  BY <1>2, <1>6 DEF StageIsSound, AtWork, BeginLoad, runs
<1>11. lock' = c
  BY <1>1, <1>3 DEF SweepInv, OneHolder, BeginLoad
<1>12. now.filed = {}
  BY <1>2, <1>6 DEF StageIsSound
<1>13. /\ collector' \in [Sweepers -> Collector]
      /\ OneHolder'
      /\ \A o \in Sweepers : StageIsSound(collector[o])'
      /\ FiledInOrder'
  BY <1>6, <1>7, <1>8, <1>10, <1>11, <1>12, HolderMoves, FS_EmptySet DEF Moved, Numbered
<1>14. window' \in [Portals -> Window \cup {None}]
  <2>1. Touched(Loading(c), collector[c].run) \in Window \cup {None}
    <3>1. PICK p \in Portals : p = Loading(c)
      BY <1>1, <1>9 DEF Loading
    <3>2. window[p] \in Window \cup {None}
      BY DEF SweepInv, TypeOK
    <3> QED
      BY <1>1, <1>9, <3>1, <3>2 DEF Touched, Window
  <2> QED
    BY <2>1 DEF SweepInv, TypeOK, BeginLoad
<1>15. TypeOK'
  BY <1>11, <1>13, <1>14 DEF SweepInv, TypeOK, BeginLoad, runs
<1>16. RunsInOrder' /\ ErrandsHaveRows' /\ VersionsInOrder'
  BY <1>13 DEF SweepInv, RunsInOrder, ErrandsHaveRows, VersionsInOrder, Numbered, BeginLoad, runs
<1> QED
  BY <1>1, <1>4, <1>5, <1>8, <1>9, <1>13, <1>15, <1>16 DEF SweepInv, Loading

\* What the collector works out is a placement.
LEMMA RulesPlace == ByRule \cup {Unplaced} \subseteq Placement
<1>1. 0 \in 0..MaxDecisions
  BY ConstantsAssumption
<1>2. Unplaced \in Placement
  BY <1>1 DEF Unplaced, Placement
<1>3. ASSUME NEW d \in Districts
      PROVE  Stated(d) \in Placement /\ Inferred(d) \in Placement
  BY <1>1 DEF Stated, Inferred, Placement
<1> QED
  BY <1>2, <1>3 DEF ByRule

\* An update keeps the type of the row.
LEMMA ChangedRow ==
    ASSUME SweepInv, NEW t \in Tenders, row[t] # None, NEW new \in Readings, NEW i \in RunIds
    PROVE  Updated(row[t], new, i) \in Row
<1>1. PICK old \in Row : old = row[t]
  BY DEF SweepInv, TypeOK
<1>2. new \in Reading
  BY ConstantsAssumption
<1>3. OrOld(new.detail, old.detail) \in Details \cup {None}
  BY <1>1, <1>2 DEF OrOld, Reading, Row
<1>4. Placed(old.place, new.place) \in Placement
  <2>1. new.place \in ByRule \cup {Unplaced} /\ old.place \in Placement
    BY <1>1, <1>2 DEF Reading, Row
  <2> QED
    BY <2>1, RulesPlace DEF Placed
<1>5. new.listed \in Listings
  BY <1>2 DEF Reading
<1> QED
  BY <1>1, <1>3, <1>4, <1>5 DEF Updated, Row

\* So does an insert.
LEMMA NewRow ==
    ASSUME NEW new \in Readings, NEW i \in RunIds
    PROVE  Inserted(new, i) \in Row
<1>1. new \in Reading
  BY ConstantsAssumption
<1> QED
  BY <1>1, RulesPlace DEF Inserted, Reading, Row

\* What the upsert of a tender writes, and what the trigger files.
Upserted(t, new, i) == IF row[t] = None THEN Inserted(new, i) ELSE Updated(row[t], new, i)
FiledFor(t, upserted) ==
    IF row[t] # None /\ Changed(row[t], upserted) THEN {Superseded(t, row[t])} ELSE {}

\* What the trigger files is a version of the row before.
LEMMA FiledIsVersion ==
    ASSUME SweepInv, NEW t \in Tenders, NEW upserted
    PROVE  /\ FiledFor(t, upserted) \subseteq Version
           /\ IsFiniteSet(FiledFor(t, upserted))
           /\ nextVersion + Cardinality(FiledFor(t, upserted)) \in Nat
           /\ \A v \in FiledFor(t, upserted) : v.id < nextVersion + Cardinality(FiledFor(t, upserted))
           /\ nextVersion <= nextVersion + Cardinality(FiledFor(t, upserted))
<1>1. nextVersion \in Nat
  BY DEF SweepInv, TypeOK
<1>2. CASE row[t] # None /\ Changed(row[t], upserted)
  <2>1. FiledFor(t, upserted) = {Superseded(t, row[t])}
    BY <1>2 DEF FiledFor
  <2>2. Cardinality(FiledFor(t, upserted)) = 1 /\ IsFiniteSet(FiledFor(t, upserted))
    BY <2>1, FS_Singleton
  <2>3. PICK old \in Row : old = row[t]
    BY <1>2 DEF SweepInv, TypeOK
  <2>4. Superseded(t, old) \in Version /\ Superseded(t, old).id = nextVersion
    BY <1>1, <2>3 DEF Superseded, Version, Row
  <2> QED
    BY <1>1, <2>1, <2>2, <2>3, <2>4
<1>3. CASE ~(row[t] # None /\ Changed(row[t], upserted))
  BY <1>1, <1>3, FS_EmptySet DEF FiledFor
<1> QED
  BY <1>2, <1>3

\* One tender is upserted inside the load, and the trigger files the change.
LEMMA WriteKeeps ==
    ASSUME SweepInv, NEW c \in Sweepers, NEW t \in Tenders, Write(c, t)
    PROVE  /\ SweepInv'
           /\ \E new \in Readings, i \in RunIds :
                /\ collector[c].reading[t] = new /\ collector[c].run = i
                /\ nextVersion' = nextVersion + Cardinality(FiledFor(t, Upserted(t, new, i)))
                /\ Moved(c, [collector[c] EXCEPT
                         !.outcome[t] = IF row[t] = None THEN "inserted" ELSE "updated",
                         !.mine[t] = Upserted(t, new, i),
                         !.filed = @ \cup FiledFor(t, Upserted(t, new, i))])
<1>1. PICK w : w = collector[c]
  OBVIOUS
<1>2. w \in Collector /\ StageIsSound(w) /\ w.stage = "loading" /\ w.reading[t] # None
  BY <1>1 DEF SweepInv, TypeOK, Write, Advertised
<1>3. w # SweepStopped
  BY <1>2 DEF SweepStopped, Sweeping
<1>4. PICK new \in Readings, i \in RunIds : new = w.reading[t] /\ i = w.run
  BY <1>2 DEF Collector, StageIsSound, AtWork
<1>5. PICK up \in Row : up = Upserted(t, new, i)
  BY <1>4, ChangedRow, NewRow DEF Upserted
<1>6. PICK filed : filed = FiledFor(t, up)
  OBVIOUS
<1>7. PICK now : now = [w EXCEPT !.outcome[t] = IF row[t] = None THEN "inserted" ELSE "updated",
                                 !.mine[t] = up, !.filed = @ \cup filed]
  OBVIOUS
<1>8. /\ filed \subseteq Version /\ IsFiniteSet(filed)
      /\ nextVersion + Cardinality(filed) \in Nat
      /\ \A v \in filed : v.id < nextVersion + Cardinality(filed)
      /\ nextVersion <= nextVersion + Cardinality(filed)
  BY <1>6, FiledIsVersion
<1>9. /\ now \in Collector
      /\ now.stage = w.stage /\ now.run = w.run /\ now.reading = w.reading
      /\ now.filed = w.filed \cup filed
      /\ now.mine = [w.mine EXCEPT ![t] = up]
      /\ now.outcome = [w.outcome EXCEPT ![t] = IF row[t] = None THEN "inserted" ELSE "updated"]
  BY <1>2, <1>7, <1>8 DEF Collector, Outcomes
<1>10. collector' = [collector EXCEPT ![c] = now] /\ nextVersion' = nextVersion + Cardinality(filed)
  BY <1>1, <1>4, <1>5, <1>6, <1>7, ZenonT(60) DEF Write, Upserted, FiledFor
<1>11. Moved(c, now)
  BY <1>1, <1>3, <1>10, OthersAreStopped DEF SweepInv, TypeOK, Moved
<1>12. StageIsSound(now)'
  <2>1. \A s \in Tenders :
           /\ now.mine[s] = IF s = t THEN up ELSE w.mine[s]
           /\ now.outcome[s] = IF s = t THEN IF row[t] = None THEN "inserted" ELSE "updated"
                               ELSE w.outcome[s]
    BY <1>2, <1>9 DEF Collector
  <2>2. up # None
    BY ConstantsAssumption
  <2>3. nextRun' = nextRun /\ attempt' = attempt
    BY DEF Write, runs
  <2> QED
    BY <1>2, <1>9, <2>1, <2>2, <2>3 DEF StageIsSound, AtWork
<1>13. lock' = c
  BY <1>1, <1>3 DEF SweepInv, OneHolder, Write
<1>14. IsFiniteSet(now.filed) /\ \A v \in now.filed : v.id < nextVersion'
  <2>1. /\ IsFiniteSet(w.filed)
        /\ \A v \in w.filed : v.id < nextVersion /\ v.id \in Nat
        /\ \A v \in filed : v.id \in Nat
        /\ nextVersion \in Nat
    BY <1>1, <1>2, <1>8 DEF SweepInv, TypeOK, VersionsInOrder, FiledInOrder, Numbered, Collector, Version
  <2>2. IsFiniteSet(now.filed)
    <3>1. IsFiniteSet(w.filed \cup filed)
      BY <1>8, <2>1, FS_Union, Zenon
    <3> QED
      BY <1>9, <3>1
  <2>3. PICK next \in Nat : next = nextVersion + Cardinality(filed)
    BY <1>8
  <2>4. \A v \in now.filed : v.id < next
    BY <1>8, <1>9, <2>1, <2>3
  <2> QED
    BY <1>10, <2>2, <2>3, <2>4
<1>15. /\ collector' \in [Sweepers -> Collector]
      /\ OneHolder'
      /\ \A o \in Sweepers : StageIsSound(collector[o])'
      /\ FiledInOrder'
  BY <1>9, <1>10, <1>11, <1>12, <1>13, <1>14, HolderMoves DEF Moved, Numbered
<1>16. TypeOK'
  BY <1>8, <1>10, <1>13, <1>15 DEF SweepInv, TypeOK, Write, runs, register
<1>17. RunsInOrder' /\ ErrandsHaveRows'
  BY DEF SweepInv, RunsInOrder, ErrandsHaveRows, Write, runs, register
<1>18. VersionsInOrder'
  <2>1. \A v \in history : v.id \in Nat /\ v.id < nextVersion
    BY DEF SweepInv, TypeOK, Version, VersionsInOrder, Numbered
  <2>2. PICK next \in Nat : next = nextVersion' /\ nextVersion <= next /\ nextVersion \in Nat
    BY <1>8, <1>10 DEF SweepInv, TypeOK
  <2>3. \A v \in history : v.id < next
    BY <2>1, <2>2
  <2>4. history' = history
    BY DEF Write, register
  <2>5. IsFiniteSet(history)
    BY DEF SweepInv, VersionsInOrder, Numbered
  <2>6. \A v \in history' : v.id < nextVersion'
    BY <2>2, <2>3, <2>4
  <2>7. IsFiniteSet(history)'
    BY <2>4, <2>5
  <2>8. Numbered(history)'
    BY <2>6, <2>7 DEF Numbered
  <2> QED
    BY <1>15, <2>8 DEF VersionsInOrder
<1> QED
  BY <1>1, <1>4, <1>5, <1>6, <1>7, <1>10, <1>11, <1>15, <1>16, <1>17, <1>18 DEF SweepInv

\* One tender is rejected.
LEMMA RejectKeeps ==
    ASSUME SweepInv, NEW c \in Sweepers, NEW t \in Tenders, Reject(c, t)
    PROVE  /\ SweepInv'
           /\ Moved(c, [collector[c] EXCEPT !.outcome[t] = "rejected"])
<1>1. PICK w : w = collector[c]
  OBVIOUS
<1>2. /\ w \in Collector /\ StageIsSound(w) /\ w.stage = "loading" /\ w.reading[t] # None
      /\ w.outcome[t] = "none"
  BY <1>1 DEF SweepInv, TypeOK, Reject, Advertised
<1>3. w # SweepStopped
  BY <1>2 DEF SweepStopped, Sweeping
<1>4. PICK now : now = [w EXCEPT !.outcome[t] = "rejected"]
  OBVIOUS
<1>5. /\ now \in Collector
      /\ now.stage = w.stage /\ now.run = w.run /\ now.reading = w.reading
      /\ now.filed = w.filed
      /\ now.mine = w.mine
      /\ now.outcome = [w.outcome EXCEPT ![t] = "rejected"]
  BY <1>2, <1>4 DEF Collector, Outcomes
<1>6. collector' = [collector EXCEPT ![c] = now]
  BY <1>1, <1>4 DEF Reject
<1>7. Moved(c, now)
  BY <1>1, <1>3, <1>6, OthersAreStopped DEF SweepInv, TypeOK, Moved
<1>8. StageIsSound(now)'
  <2>1. \A s \in Tenders : now.outcome[s] = IF s = t THEN "rejected" ELSE w.outcome[s]
    BY <1>2, <1>5 DEF Collector
  <2>2. nextRun' = nextRun /\ attempt' = attempt
    BY DEF Reject, runs
  <2>3. w.mine[t] = None
    BY <1>2 DEF StageIsSound
  <2> QED
    BY <1>2, <1>5, <2>1, <2>2, <2>3 DEF StageIsSound, AtWork
<1>9. lock' = c
  BY <1>1, <1>3 DEF SweepInv, OneHolder, Reject
<1>10. /\ collector' \in [Sweepers -> Collector]
      /\ OneHolder'
      /\ \A o \in Sweepers : StageIsSound(collector[o])'
      /\ FiledInOrder'
  <2>1. IsFiniteSet(now.filed) /\ \A v \in now.filed : v.id < nextVersion'
    BY <1>1, <1>5 DEF SweepInv, VersionsInOrder, FiledInOrder, Numbered, Reject
  <2> QED
    BY <1>5, <1>6, <1>7, <1>8, <1>9, <2>1, HolderMoves DEF Moved, Numbered
<1>11. TypeOK'
  BY <1>9, <1>10 DEF SweepInv, TypeOK, Reject, runs, register
<1>12. RunsInOrder' /\ ErrandsHaveRows' /\ VersionsInOrder'
  BY <1>10 DEF SweepInv, RunsInOrder, ErrandsHaveRows, VersionsInOrder, Numbered, Reject, runs, register
<1> QED
  BY <1>1, <1>4, <1>7, <1>10, <1>11, <1>12 DEF SweepInv

-----------------------------------------------------------------------------

\* The counts of a load have the type of the counts of a run.
LEMMA Counted ==
    ASSUME SweepInv, NEW c \in Sweepers
    PROVE  /\ IsFiniteSet(NewVersions(c))
           /\ \A n \in Nat : CountsOf(c, n) \in Tallies
           /\ Cardinality(NewVersions(c)) \in Nat
           /\ Cardinality(Advertised(c)) \in Nat
<1>1. IsFiniteSet(history \cup collector[c].filed)
  <2>1. IsFiniteSet(history) /\ IsFiniteSet(collector[c].filed)
    BY DEF SweepInv, VersionsInOrder, FiledInOrder, Numbered
  <2> QED
    BY <2>1, FS_Union, Zenon
<1>2. NewVersions(c) \in SUBSET (history \cup collector[c].filed)
  BY DEF NewVersions
<1>3. IsFiniteSet(NewVersions(c))
  BY <1>1, <1>2, FS_Subset, Zenon
<1>4. Cardinality(NewVersions(c)) \in Nat
  BY <1>3, FS_CardinalityType
<1>5. \A S \in SUBSET Tenders : Cardinality(S) \in Nat
  BY TendersAreFinite, FS_Subset, FS_CardinalityType
<1>6. Cardinality(Advertised(c)) \in Nat /\ \A o : Count(c, o) \in Nat
  BY <1>5 DEF Advertised, Count
<1>7. \A n \in Nat : CountsOf(c, n) \in Tallies
  BY <1>6 DEF CountsOf, Tallies
<1> QED
  BY <1>3, <1>4, <1>6, <1>7

\* The load is committed: rows, versions and the portal's window at once.
LEMMA CommitLoadKeeps ==
    ASSUME SweepInv, NEW c \in Sweepers, CommitLoad(c)
    PROVE  /\ SweepInv'
           /\ Moved(c, [Sweeping(collector[c].todo) EXCEPT
                   !.stage = "committed", !.run = collector[c].run,
                   !.counts = CountsOf(c, Cardinality(NewVersions(c)))])
           /\ collector[c].run \in RunIds
           /\ Loading(c) \in Portals
<1>1. PICK w : w = collector[c]
  OBVIOUS
<1>2. w \in Collector /\ StageIsSound(w) /\ w.stage = "loading"
  BY <1>1 DEF SweepInv, TypeOK, CommitLoad
<1>3. w # SweepStopped
  BY <1>2 DEF SweepStopped, Sweeping
<1>4. PICK counts \in Tallies : counts = CountsOf(c, Cardinality(NewVersions(c)))
  BY Counted
<1>5. PICK now : now = [Sweeping(w.todo) EXCEPT !.stage = "committed", !.run = w.run, !.counts = counts]
  OBVIOUS
<1>6. PICK rest \in Collector : rest = Sweeping(w.todo)
  <2>1. w.todo \in SUBSET Portals
    BY <1>2 DEF Collector
  <2> QED
    BY <2>1, AnySweeping
<1>7. w.run \in RunIds /\ attempt[w.run].portal \in Portals
  BY <1>2 DEF StageIsSound, AtWork
<1>8. /\ now \in Collector
      /\ now.stage = "committed" /\ now.run = w.run /\ now.reading = rest.reading
      /\ now.filed = rest.filed /\ now.mine = rest.mine /\ now.outcome = rest.outcome
  <2>1. w.run \in 0..MaxIngestions /\ "committed" \in {"idle", "sweeping", "opened", "loading", "committed"}
    BY <1>7 DEF RunIds
  <2> QED
    BY <1>5, <1>6, <2>1 DEF Collector
<1>9. collector' = [collector EXCEPT ![c] = now]
  BY <1>1, <1>4, <1>5 DEF CommitLoad
<1>10. Moved(c, now)
  BY <1>1, <1>3, <1>9, OthersAreStopped DEF SweepInv, TypeOK, Moved
<1>11. now.filed = {} /\ \A t \in Tenders : /\ now.mine[t] = None
                                            /\ now.outcome[t] = "none"
                                            /\ now.reading[t] = None
  BY <1>6, <1>8, AnySweeping
<1>12. StageIsSound(now)'
  <2>1. nextRun' = nextRun /\ attempt' = attempt
    BY DEF CommitLoad, runs
  <2> QED
    BY <1>2, <1>8, <1>11, <2>1 DEF StageIsSound, AtWork
<1>13. lock' = c
  BY <1>1, <1>3 DEF SweepInv, OneHolder, CommitLoad
<1>14. /\ collector' \in [Sweepers -> Collector]
      /\ OneHolder'
      /\ \A o \in Sweepers : StageIsSound(collector[o])'
      /\ FiledInOrder'
  BY <1>8, <1>9, <1>10, <1>11, <1>12, <1>13, HolderMoves, FS_EmptySet DEF Moved, Numbered
<1>15. window' \in [Portals -> Window \cup {None}]
  <2>1. PICK p \in Portals, i \in RunIds : p = Loading(c) /\ i = collector[c].run
    BY <1>1, <1>7 DEF Loading
  <2>2. window[p] \in Window \cup {None}
    BY DEF SweepInv, TypeOK
  <2>3. PICK after \in Window :
          after = IF window[p] = None THEN [since |-> i, success |-> i, checked |-> i]
                  ELSE [window[p] EXCEPT !.success = i, !.checked = i]
    BY <2>2 DEF Window
  <2>4. window' = [window EXCEPT ![p] = after]
    BY <2>1, <2>3 DEF CommitLoad
  <2> QED
    BY <2>4 DEF SweepInv, TypeOK
<1>16. row' \in [Tenders -> Row \cup {None}]
       /\ \A t \in Tenders : row[t] # None => row'[t] # None
  BY <1>1, <1>2 DEF SweepInv, TypeOK, CommitLoad, Collector, OrOld
<1>17. history' \subseteq Version
  BY <1>1, <1>2 DEF SweepInv, TypeOK, CommitLoad, Collector
<1>18. TypeOK'
  BY <1>13, <1>14, <1>15, <1>16, <1>17 DEF SweepInv, TypeOK, CommitLoad, runs
<1>19. RunsInOrder' /\ ErrandsHaveRows'
  BY <1>16 DEF SweepInv, TypeOK, RunsInOrder, ErrandsHaveRows, CommitLoad, runs
<1>20. VersionsInOrder'
  <2>1. /\ IsFiniteSet(history) /\ IsFiniteSet(collector[c].filed)
        /\ \A v \in history \cup collector[c].filed : v.id < nextVersion
        /\ history' = history \cup collector[c].filed
        /\ nextVersion' = nextVersion
    BY DEF SweepInv, VersionsInOrder, FiledInOrder, Numbered, CommitLoad
  <2>2. IsFiniteSet(history')
    BY <2>1, FS_Union, Zenon
  <2>3. Numbered(history)'
    BY <2>1, <2>2 DEF Numbered
  <2> QED
    BY <1>14, <2>3 DEF VersionsInOrder
<1> QED
  BY <1>1, <1>4, <1>5, <1>7, <1>10, <1>14, <1>18, <1>19, <1>20 DEF SweepInv, Loading

\* A run is closed, and the sweep that opened it goes on without it.
LEMMA RunCloses ==
    ASSUME SweepInv, NEW c \in Sweepers, NEW todo \in SUBSET Portals, collector[c].stage \in AtWork,
           NEW status \in {"succeeded", "failed"}, NEW counts \in Tallies,
           attempt' = [attempt EXCEPT ![collector[c].run] = Closed(collector[c].run, status, counts)],
           MoveOn(c, todo),
           UNCHANGED <<nextRun, died, register, nextVersion, nextDecision, reviewer, unplaced>>
    PROVE  /\ SweepInv'
           /\ Moved(c, Sweeping(todo))
           /\ collector[c].run \in RunIds
           /\ attempt'[collector[c].run].status = status
           /\ attempt'[collector[c].run].counts = counts
           /\ attempt'[collector[c].run].portal = attempt[collector[c].run].portal
           /\ attempt[collector[c].run] # None /\ attempt'[collector[c].run] # None
           /\ \A i \in RunIds : i # collector[c].run => attempt'[i] = attempt[i]
<1>1. StageIsSound(collector[c]) /\ collector[c] # SweepStopped
  BY DEF SweepInv, SweepStopped, Sweeping, AtWork
<1>2. PICK i \in RunIds : i = collector[c].run
  BY <1>1 DEF StageIsSound
<1>3. PICK a \in Ingestion : a = attempt[i]
  BY <1>1, <1>2 DEF SweepInv, TypeOK, StageIsSound
<1>4. PICK b \in Ingestion : b = [a EXCEPT !.status = status, !.counts = counts]
  BY <1>3 DEF Ingestion
<1>5. attempt' = [attempt EXCEPT ![i] = b]
  BY <1>2, <1>3, <1>4 DEF Closed
<1>6. b.status = status /\ b.counts = counts /\ b.portal = a.portal /\ b # None /\ a # None
  BY <1>3, <1>4, ConstantsAssumption DEF Ingestion
<1>7. /\ attempt' \in [RunIds -> Ingestion \cup {None}]
      /\ attempt'[i] = b
      /\ \A j \in RunIds : j # i => attempt'[j] = attempt[j]
  BY <1>5 DEF SweepInv, TypeOK
<1>8. /\ Moved(c, Sweeping(todo))
      /\ lock' \in Sweepers \cup {None}
      /\ Sweeping(todo) # SweepStopped => lock' = c
      /\ StageIsSound(Sweeping(todo))'
      /\ Sweeping(todo) \in Collector
      /\ Numbered(Sweeping(todo).filed)'
  BY <1>1, MovesOn
<1>9. /\ collector' \in [Sweepers -> Collector]
      /\ OneHolder'
      /\ \A o \in Sweepers : StageIsSound(collector[o])'
      /\ FiledInOrder'
  BY <1>8, HolderMoves DEF Moved
<1>10. TypeOK'
  BY <1>7, <1>8, <1>9 DEF SweepInv, TypeOK, register
<1>11. RunsInOrder'
  BY <1>3, <1>6, <1>7 DEF SweepInv, RunsInOrder
<1>12. ErrandsHaveRows' /\ VersionsInOrder'
  BY <1>9 DEF SweepInv, ErrandsHaveRows, VersionsInOrder, Numbered, register
<1> QED
  BY <1>2, <1>3, <1>6, <1>7, <1>8, <1>9, <1>10, <1>11, <1>12 DEF SweepInv

\* completeIngestion, in a statement of its own after the load.
LEMMA CompleteIngestionKeeps ==
    ASSUME SweepInv, NEW c \in Sweepers, CompleteIngestion(c)
    PROVE  /\ SweepInv'
           /\ Moved(c, Sweeping(collector[c].todo))
           /\ collector[c].run \in RunIds
           /\ attempt[collector[c].run] # None /\ attempt'[collector[c].run] # None
           /\ attempt'[collector[c].run].status = "succeeded"
           /\ attempt'[collector[c].run].counts = collector[c].counts
           /\ attempt'[collector[c].run].portal = attempt[collector[c].run].portal
           /\ \A i \in RunIds : i # collector[c].run => attempt'[i] = attempt[i]
<1>1. PICK todo \in SUBSET Portals, counts \in Tallies :
        todo = collector[c].todo /\ counts = collector[c].counts
  BY DEF SweepInv, TypeOK, Collector
<1>2. collector[c].stage \in AtWork
  BY DEF CompleteIngestion, AtWork
<1>3. /\ attempt' = [attempt EXCEPT ![collector[c].run] =
                        Closed(collector[c].run, "succeeded", counts)]
      /\ MoveOn(c, todo)
      /\ UNCHANGED <<nextRun, died, register, nextVersion, nextDecision, reviewer, unplaced>>
  BY <1>1 DEF CompleteIngestion
<1> QED
  BY <1>1, <1>2, <1>3, RunCloses

\* A load that fails is rolled back and its run is failed.
LEMMA LoadFailsKeeps ==
    ASSUME SweepInv, NEW c \in Sweepers, LoadFails(c)
    PROVE  /\ SweepInv'
           /\ Moved(c, SweepStopped)
           /\ collector[c].run \in RunIds
           /\ attempt[collector[c].run] # None /\ attempt'[collector[c].run] # None
           /\ attempt'[collector[c].run].status = "failed"
           /\ attempt'[collector[c].run].portal = attempt[collector[c].run].portal
           /\ \A i \in RunIds : i # collector[c].run => attempt'[i] = attempt[i]
<1>1. PICK counts \in CountedSoFar(c) :
        attempt' = [attempt EXCEPT ![collector[c].run] = Broken(collector[c].run, counts)]
  BY DEF LoadFails
<1>2. counts \in Tallies
  <2>1. [NoTally EXCEPT !.seen = Cardinality(Advertised(c))] \in Tallies
    BY Counted DEF NoTally, Tallies
  <2>2. \A n \in {0, Cardinality(NewVersions(c))} : CountsOf(c, n) \in Tallies
    BY Counted
  <2> QED
    BY <2>1, <2>2 DEF CountedSoFar
<1>3. collector[c].stage \in AtWork
  BY DEF LoadFails, AtWork
<1>4. /\ attempt' = [attempt EXCEPT ![collector[c].run] =
                        Closed(collector[c].run, "failed", counts)]
      /\ MoveOn(c, {})
      /\ UNCHANGED <<nextRun, died, register, nextVersion, nextDecision, reviewer, unplaced>>
  BY <1>1 DEF LoadFails, Broken
<1>5. {} \in SUBSET Portals
  OBVIOUS
<1> QED
  BY <1>2, <1>3, <1>4, <1>5, RunCloses DEF SweepStopped

\* A collector dies: its transaction is rolled back and its run left as it was.
LEMMA CrashKeeps ==
    ASSUME SweepInv, NEW c \in Sweepers, Crash(c)
    PROVE  /\ SweepInv'
           /\ Moved(c, SweepStopped)
<1>1. {} \in SUBSET Portals /\ collector[c] # SweepStopped /\ MoveOn(c, {})
  BY DEF Crash
<1>2. /\ Moved(c, Sweeping({}))
      /\ lock' \in Sweepers \cup {None}
      /\ Sweeping({}) # SweepStopped => lock' = c
      /\ StageIsSound(Sweeping({}))'
      /\ Sweeping({}) \in Collector
      /\ Numbered(Sweeping({}).filed)'
  BY <1>1, MovesOn
<1>3. /\ collector' \in [Sweepers -> Collector]
      /\ OneHolder'
      /\ \A o \in Sweepers : StageIsSound(collector[o])'
      /\ FiledInOrder'
  BY <1>2, HolderMoves DEF Moved
<1>4. died' \subseteq RunIds
  <2>1. collector[c].run \in 0..MaxIngestions
    BY DEF SweepInv, TypeOK, Collector
  <2> QED
    BY <2>1, ConstantsAssumption DEF Crash, SweepInv, TypeOK, RunIds
<1>5. TypeOK'
  BY <1>2, <1>3, <1>4 DEF SweepInv, TypeOK, Crash, register
<1>6. RunsInOrder' /\ ErrandsHaveRows' /\ VersionsInOrder'
  BY <1>3 DEF SweepInv, RunsInOrder, ErrandsHaveRows, VersionsInOrder, Numbered, Crash, register
<1> QED
  BY <1>2, <1>3, <1>5, <1>6 DEF SweepInv, SweepStopped

-----------------------------------------------------------------------------
(* Reviewers and the resolver move no sweep.                               *)

Sweeps == <<lock, runs, window, history, nextVersion, collector>>

\* A reviewer or the resolver moves no sweep.
LEMMA ErrandMoves ==
    ASSUME SweepInv, UNCHANGED Sweeps,
           row' \in [Tenders -> Row \cup {None}], decisions' \subseteq Decision,
           nextDecision' \in 1..(MaxDecisions + 1),
           reviewer' \in [Reviewers -> Reviewer], unplaced' \subseteq Tenders,
           ErrandsHaveRows'
    PROVE  SweepInv'
<1>1. TypeOK' /\ OneHolder' /\ RunsInOrder' /\ VersionsInOrder'
  BY DEF SweepInv, TypeOK, Sweeps, runs, OneHolder, RunsInOrder, VersionsInOrder, FiledInOrder, Numbered
<1>2. \A c \in Sweepers : StageIsSound(collector[c])'
  BY DEF SweepInv, Sweeps, runs, StageIsSound
<1> QED
  BY <1>1, <1>2 DEF SweepInv

\* A reviewer opens a tender that is there.
LEMMA ReadTenderKeeps ==
    ASSUME SweepInv, NEW r \in Reviewers, NEW t \in Tenders, NEW d \in Districts \cup {None},
           ReadTender(r, t, d)
    PROVE  SweepInv'
<1>1. PICK now \in Reviewer :
        now = [AtRest EXCEPT !.stage = "read", !.tender = t, !.district = d]
  <2>1. AtRest \in Reviewer
    BY ConstantsAssumption DEF AtRest, Reviewer
  <2> QED
    BY <2>1 DEF Reviewer
<1>2. reviewer' = [reviewer EXCEPT ![r] = now] /\ row[t] # None /\ row' = row
  BY <1>1 DEF ReadTender, register
<1>3. now.tender = t
  BY <1>1 DEF AtRest
<1>4. reviewer' \in [Reviewers -> Reviewer]
  BY <1>1, <1>2 DEF SweepInv, TypeOK
<1>5. \A o \in Reviewers : reviewer'[o] = IF o = r THEN now ELSE reviewer[o]
  BY <1>2 DEF SweepInv, TypeOK
<1>6. ErrandsHaveRows'
  BY <1>1, <1>2, <1>3, <1>5 DEF SweepInv, ErrandsHaveRows, ReadTender
<1> QED
  BY <1>4, <1>6, ErrandMoves DEF SweepInv, TypeOK, ReadTender, Sweeps, runs, register

\* A decision is recorded.
LEMMA RecordDecisionKeeps ==
    ASSUME SweepInv, NEW r \in Reviewers, RecordDecision(r)
    PROVE  SweepInv'
<1>1. PICK w \in Reviewer : w = reviewer[r]
  BY DEF SweepInv, TypeOK
<1>2. w.stage = "read" /\ w.tender \in Tenders
  BY <1>1 DEF SweepInv, ErrandsHaveRows, RecordDecision
<1>3. /\ nextDecision \in DecisionIds
      /\ nextDecision' \in 1..(MaxDecisions + 1)
      /\ row' = row /\ unplaced' = unplaced
  BY ConstantsAssumption DEF SweepInv, TypeOK, RecordDecision, DecisionIds
<1>4. Signed(r, nextDecision) \in Decision
  BY <1>1, <1>2, <1>3 DEF Signed, Decision, Reviewer
<1>5. decisions' \subseteq Decision
  BY <1>4 DEF SweepInv, TypeOK, RecordDecision
<1>6. PICK now \in Reviewer : /\ reviewer' = [reviewer EXCEPT ![r] = now]
                              /\ now.stage = "idle" \/ now.tender = w.tender
                              /\ now.stage # "signed" \/ now.decision \in DecisionIds
  <2>1. AtRest \in Reviewer /\ AtRest.stage = "idle"
    BY ConstantsAssumption DEF AtRest, Reviewer
  <2>2. PICK signed : signed = [w EXCEPT !.stage = "signed", !.decision = nextDecision]
    OBVIOUS
  <2>3. signed \in Reviewer /\ signed.tender = w.tender /\ signed.decision = nextDecision
    <3>1. nextDecision \in 0..MaxDecisions
      BY <1>3 DEF DecisionIds
    <3> QED
      BY <1>1, <2>2, <3>1 DEF Reviewer
  <2>4. \/ reviewer' = [reviewer EXCEPT ![r] = AtRest]
        \/ reviewer' = [reviewer EXCEPT ![r] = signed]
    BY <1>1, <2>2 DEF RecordDecision
  <2> QED
    BY <1>3, <2>1, <2>3, <2>4
<1>7. reviewer' \in [Reviewers -> Reviewer]
  BY <1>6 DEF SweepInv, TypeOK
<1>8. \A o \in Reviewers : reviewer'[o] = IF o = r THEN now ELSE reviewer[o]
  BY <1>6 DEF SweepInv, TypeOK
<1>9. ErrandsHaveRows'
  BY <1>1, <1>2, <1>3, <1>6, <1>8 DEF SweepInv, ErrandsHaveRows
<1>10. UNCHANGED Sweeps
  BY DEF RecordDecision, Sweeps, runs
<1> QED
  BY <1>3, <1>5, <1>7, <1>9, <1>10, ErrandMoves DEF SweepInv, TypeOK

\* The placement a decision orders is written.
LEMMA PlaceTenderKeeps ==
    ASSUME SweepInv, NEW r \in Reviewers, PlaceTender(r)
    PROVE  SweepInv'
<1>1. PICK w \in Reviewer : w = reviewer[r]
  BY DEF SweepInv, TypeOK
<1>2. w.stage = "signed" /\ w.tender \in Tenders /\ row[w.tender] # None
  BY <1>1 DEF SweepInv, ErrandsHaveRows, PlaceTender
<1>3. PICK t \in Tenders : t = w.tender
  BY <1>2
<1>4. PICK old \in Row : old = row[t]
  BY <1>2, <1>3 DEF SweepInv, TypeOK
<1>5. PICK new : new = [old EXCEPT !.place = Decided(w.district, w.decision)]
  OBVIOUS
<1>6. new \in Row
  BY <1>1, <1>4, <1>5 DEF Row, Decided, Placement, Reviewer
<1>7. row' = [row EXCEPT ![t] = new]
  BY <1>1, <1>3, <1>4, <1>5 DEF PlaceTender
<1>8. row' \in [Tenders -> Row \cup {None}] /\ \A s \in Tenders : row[s] # None => row'[s] # None
  BY <1>6, <1>7, ConstantsAssumption DEF SweepInv, TypeOK
<1>9. decisions' \subseteq Decision
  <2>1. w.decision \in DecisionIds
    BY <1>1, <1>2 DEF SweepInv, ErrandsHaveRows
  <2>2. Signed(r, w.decision) \in Decision
    BY <1>1, <1>2, <2>1 DEF Signed, Decision, Reviewer
  <2> QED
    BY <1>1, <2>2 DEF SweepInv, TypeOK, PlaceTender
<1>10. reviewer' = [reviewer EXCEPT ![r] = AtRest]
  BY DEF PlaceTender
<1>11. AtRest \in Reviewer /\ AtRest.stage = "idle"
  BY ConstantsAssumption DEF AtRest, Reviewer
<1>12. \A o \in Reviewers : reviewer'[o] = IF o = r THEN AtRest ELSE reviewer[o]
  BY <1>10 DEF SweepInv, TypeOK
<1>13. ErrandsHaveRows'
  BY <1>8, <1>11, <1>12 DEF SweepInv, TypeOK, ErrandsHaveRows, PlaceTender
<1>14. UNCHANGED Sweeps
  BY DEF PlaceTender, Sweeps, runs
<1>15. reviewer' \in [Reviewers -> Reviewer]
  BY <1>10, <1>11 DEF SweepInv, TypeOK
<1> QED
  BY <1>8, <1>9, <1>13, <1>14, <1>15, ErrandMoves DEF SweepInv, TypeOK, PlaceTender

\* A reviewer gives up between the two writes.
LEMMA GiveUpKeeps ==
    ASSUME SweepInv, NEW r \in Reviewers, GiveUp(r)
    PROVE  SweepInv'
<1>1. AtRest \in Reviewer /\ AtRest.stage = "idle"
  BY ConstantsAssumption DEF AtRest, Reviewer
<1>2. /\ reviewer' \in [Reviewers -> Reviewer]
      /\ \A o \in Reviewers : reviewer'[o] = IF o = r THEN AtRest ELSE reviewer[o]
  BY <1>1 DEF SweepInv, TypeOK, GiveUp
<1>3. ErrandsHaveRows'
  BY <1>1, <1>2 DEF SweepInv, TypeOK, ErrandsHaveRows, GiveUp, register
<1> QED
  BY <1>2, <1>3, ErrandMoves DEF SweepInv, TypeOK, GiveUp, Sweeps, runs, register

\* The resolver reads which tenders have no place.
LEMMA ReadUnplacedKeeps ==
    ASSUME SweepInv, ReadUnplaced
    PROVE  SweepInv'
<1>1. unplaced' \subseteq Tenders /\ \A t \in unplaced' : row[t] # None
  BY DEF ReadUnplaced
<1>2. ErrandsHaveRows'
  BY <1>1 DEF SweepInv, ErrandsHaveRows, ReadUnplaced, register
<1> QED
  BY <1>1, <1>2, ErrandMoves DEF SweepInv, TypeOK, ReadUnplaced, Sweeps, runs, register

\* The resolver places one of them.
LEMMA ResolveKeeps ==
    ASSUME SweepInv, NEW t \in Tenders, Resolve(t)
    PROVE  SweepInv'
<1>1. row[t] # None
  BY DEF SweepInv, ErrandsHaveRows, Resolve
<1>2. PICK old \in Row : old = row[t]
  BY <1>1 DEF SweepInv, TypeOK
<1>3. row' \in [Tenders -> Row \cup {None}] /\ \A s \in Tenders : row[s] # None => row'[s] # None
  <2>1. CASE \E p \in ByRule : row' = [row EXCEPT ![t].place = p]
    <3>1. PICK p \in ByRule : row' = [row EXCEPT ![t].place = p]
      BY <2>1
    <3>2. PICK new : new = [old EXCEPT !.place = p]
      OBVIOUS
    <3>3. new \in Row
      BY <1>2, <3>2, RulesPlace DEF Row
    <3>4. row' = [row EXCEPT ![t] = new]
      BY <1>2, <3>1, <3>2
    <3> QED
      BY <3>3, <3>4, ConstantsAssumption DEF SweepInv, TypeOK
  <2>2. CASE UNCHANGED row
    BY <2>2 DEF SweepInv, TypeOK
  <2> QED
    BY <2>1, <2>2 DEF Resolve
<1>4. ErrandsHaveRows'
  BY <1>3 DEF SweepInv, TypeOK, ErrandsHaveRows, Resolve
<1> QED
  BY <1>3, <1>4, ErrandMoves DEF SweepInv, TypeOK, Resolve, Sweeps, runs

\* What is the same is as sound as it was.
LEMMA SweepStays ==
    ASSUME SweepInv, UNCHANGED vars
    PROVE  SweepInv'
<1>1. ErrandsHaveRows'
  BY DEF SweepInv, ErrandsHaveRows, vars, register
<1> QED
  BY <1>1, ErrandMoves DEF SweepInv, TypeOK, vars, Sweeps, runs, register

\* The types and the order of the ledger's programs hold in every reachable state.
THEOREM LedgerIsInOrder == Spec => []SweepInv
<1>1. SweepInv /\ [Next]_vars => SweepInv'
  <2> SUFFICES ASSUME SweepInv, [Next]_vars
               PROVE  SweepInv'
    OBVIOUS
  <2>1. ASSUME NEW c \in Sweepers, TakeLock(c) \/ Skip(c) \/ Crash(c)
        PROVE  SweepInv'
    BY <2>1, TakeLockKeeps, SkipKeeps, CrashKeeps
  <2>2. ASSUME NEW c \in Sweepers, CollectPortal(c)
        PROVE  SweepInv'
    BY <2>2, TurnedAwayKeeps, OpenIngestionKeeps, BeginLoadKeeps, WriteKeeps, RejectKeeps,
       CommitLoadKeeps, CompleteIngestionKeeps, LoadFailsKeeps DEF CollectPortal
  <2>3. ASSUME NEW r \in Reviewers,
               \/ \E t \in Tenders, d \in Districts \cup {None} : ReadTender(r, t, d)
               \/ RecordDecision(r) \/ PlaceTender(r) \/ GiveUp(r)
        PROVE  SweepInv'
    BY <2>3, ReadTenderKeeps, RecordDecisionKeeps, PlaceTenderKeeps, GiveUpKeeps
  <2>4. ASSUME ReadUnplaced \/ \E t \in Tenders : Resolve(t)
        PROVE  SweepInv'
    BY <2>4, ReadUnplacedKeeps, ResolveKeeps
  <2>5. CASE UNCHANGED vars
    BY <2>5, SweepStays
  <2> QED
    BY <2>1, <2>2, <2>3, <2>4, <2>5 DEF Next
<1> QED
  BY SweepStarts, <1>1, PTL DEF Spec

-----------------------------------------------------------------------------
(* Placements: PlacementHasOneAuthor.                                      *)

ByCollector == ByRule \cup {Unplaced}

PlacedSoundly(t, p) ==
    \/ p \in ByCollector
    \/ \E d \in decisions : d.tender = t /\ d.district # None /\ p = Decided(d.district, d.id)

\* What an open load has written of a tender keeps the placement it found, or
\* replaces one that was no reviewer's by a rule's.
MineIsSound(w, t) ==
    w.mine[t] # None =>
        IF row[t] = None THEN w.mine[t].place \in ByCollector
        ELSE \/ w.mine[t].place = row[t].place
             \/ row[t].place.source # "manual" /\ w.mine[t].place \in ByRule

RowsPlaced == \A t \in Tenders : row[t] # None => PlacedSoundly(t, row[t].place)
MinePlaced == \A c \in Sweepers, t \in Tenders : MineIsSound(collector[c], t)

\* A decision's number is used once.
DecisionsInOrder ==
    /\ \A d \in decisions : d.id < nextDecision
    /\ \A r \in Reviewers : reviewer[r].stage = "signed" =>
         /\ reviewer[r].district # None
         /\ reviewer[r].decision < nextDecision
         /\ \A d \in decisions : d.id # reviewer[r].decision
    /\ \A r, o \in Reviewers :
         reviewer[r].stage = "signed" /\ reviewer[o].stage = "signed"
           /\ reviewer[r].decision = reviewer[o].decision => r = o

PlacementInv == RowsPlaced /\ MinePlaced /\ DecisionsInOrder

\* The step of ManualIsKept.
ManualStays ==
    \A t \in Tenders :
        (row[t] # None /\ row[t].place.source = "manual" /\ row'[t].place # row[t].place) =>
            \E d \in decisions' \ decisions :
                d.tender = t /\ row'[t].place = Decided(d.district, d.id)

\* No rule of the collector places by hand.
LEMMA NoRuleIsManual == \A p \in ByCollector : p.source # "manual"
BY DEF ByCollector, ByRule, Unplaced, Stated, Inferred

\* Placements that are sound have one author.
LEMMA PlacementInvImplies == PlacementInv => PlacementIsOneFact
BY DEF PlacementInv, RowsPlaced, PlacedSoundly, PlacementIsOneFact, ByCollector

\* In an empty ledger nothing is placed.
LEMMA PlacementStarts == TenderInit => PlacementInv
<1> SUFFICES ASSUME TenderInit
             PROVE  PlacementInv
  OBVIOUS
<1>1. RowsPlaced
  BY DEF TenderInit, RowsPlaced
<1>2. MinePlaced
  BY AnySweeping DEF TenderInit, MinePlaced, MineIsSound, SweepStopped
<1>3. DecisionsInOrder
  BY DEF TenderInit, DecisionsInOrder, AtRest
<1> QED
  BY <1>1, <1>2, <1>3 DEF PlacementInv

Errands == <<row, decisions, nextDecision, reviewer>>

\* A step that places nothing.
LEMMA NothingPlaced ==
    ASSUME PlacementInv, UNCHANGED Errands,
           \A c \in Sweepers, t \in Tenders : \/ collector'[c].mine[t] = None
                                              \/ collector'[c].mine[t] = collector[c].mine[t]
    PROVE  PlacementInv' /\ ManualStays
<1>1. RowsPlaced'
  BY DEF PlacementInv, RowsPlaced, PlacedSoundly, Errands
<1>2. MinePlaced'
  BY DEF PlacementInv, MinePlaced, MineIsSound, Errands
<1>3. DecisionsInOrder'
  BY DEF PlacementInv, DecisionsInOrder, Errands
<1>4. ManualStays
  BY DEF ManualStays, Errands
<1> QED
  BY <1>1, <1>2, <1>3, <1>4 DEF PlacementInv

\* A sweeper that has stopped has no row in hand.
LEMMA StoppedHasNone == \A t \in Tenders : SweepStopped.mine[t] = None
BY AnySweeping DEF SweepStopped

\* A sweep whose step writes no tender.
LEMMA NoneWritten ==
    ASSUME SweepInv, PlacementInv, UNCHANGED Errands, NEW c \in Sweepers, NEW now, Moved(c, now),
           \A t \in Tenders : now.mine[t] = None \/ now.mine[t] = collector[c].mine[t]
    PROVE  PlacementInv' /\ ManualStays
<1>1. \A o \in Sweepers, t \in Tenders : \/ collector'[o].mine[t] = None
                                         \/ collector'[o].mine[t] = collector[o].mine[t]
  <2> TAKE o \in Sweepers, t \in Tenders
  <2>1. CASE o = c
    BY <2>1 DEF Moved
  <2>2. CASE o # c
    BY <2>2, StoppedHasNone DEF Moved
  <2> QED
    BY <2>1, <2>2
<1> QED
  BY <1>1, NothingPlaced

\* What an upsert leaves of a place is the reviewer's, when there is one (the
\* CASE of upsertTenders).
LEMMA UpsertIsSound ==
    ASSUME SweepInv, PlacementInv, NEW t \in Tenders, NEW new \in Readings, NEW i \in RunIds
    PROVE  IF row[t] = None THEN Upserted(t, new, i).place \in ByCollector
           ELSE \/ Upserted(t, new, i).place = row[t].place
                \/ row[t].place.source # "manual" /\ Upserted(t, new, i).place \in ByRule
<1>1. new \in Reading /\ new.place \in ByCollector
  BY ConstantsAssumption DEF Reading, ByCollector
<1>2. CASE row[t] = None
  BY <1>1, <1>2 DEF Upserted, Inserted
<1>3. CASE row[t] # None
  <2>1. PICK old \in Row : old = row[t]
    BY <1>3 DEF SweepInv, TypeOK
  <2>2. Upserted(t, new, i).place = Placed(old.place, new.place)
    BY <1>3, <2>1 DEF Upserted, Updated, Row
  <2>3. new.place.district # None => new.place \in ByRule
    BY <1>1 DEF ByCollector, Unplaced
  <2> QED
    BY <1>3, <2>1, <2>2, <2>3 DEF Placed
<1> QED
  BY <1>2, <1>3

\* A tender is upserted.
LEMMA WritePlaces ==
    ASSUME SweepInv, PlacementInv, NEW c \in Sweepers, NEW t \in Tenders, Write(c, t)
    PROVE  PlacementInv' /\ ManualStays
<1>1. PICK new \in Readings, i \in RunIds :
        Moved(c, [collector[c] EXCEPT
                         !.outcome[t] = IF row[t] = None THEN "inserted" ELSE "updated",
                         !.mine[t] = Upserted(t, new, i),
                         !.filed = @ \cup FiledFor(t, Upserted(t, new, i))])
  BY WriteKeeps
<1>2. PICK up : up = Upserted(t, new, i)
  OBVIOUS
<1>3. PICK w \in Collector : w = collector[c]
  BY DEF SweepInv, TypeOK
<1>4. PICK now : now = [w EXCEPT
                         !.outcome[t] = IF row[t] = None THEN "inserted" ELSE "updated",
                         !.mine[t] = up,
                         !.filed = @ \cup FiledFor(t, up)]
  OBVIOUS
<1>5. Moved(c, now)
  BY <1>1, <1>2, <1>3, <1>4
<1>6. \A s \in Tenders : now.mine[s] = IF s = t THEN up ELSE w.mine[s]
  BY <1>3, <1>4 DEF Collector
<1>7. UNCHANGED Errands
  BY DEF Write, register, Errands
<1>8. RowsPlaced' /\ DecisionsInOrder' /\ ManualStays
  BY <1>7 DEF PlacementInv, RowsPlaced, PlacedSoundly, DecisionsInOrder, ManualStays, Errands
<1>9. MinePlaced'
  <2> SUFFICES ASSUME NEW o \in Sweepers, NEW s \in Tenders
               PROVE  MineIsSound(collector[o], s)'
    BY DEF MinePlaced
  <2>1. CASE o # c
    BY <1>5, <2>1, StoppedHasNone DEF MineIsSound, Moved
  <2>2. CASE o = c /\ s # t
    BY <1>3, <1>5, <1>6, <1>7, <2>2 DEF PlacementInv, MinePlaced, MineIsSound, Moved, Errands
  <2>3. CASE o = c /\ s = t
    <3>1. IF row[t] = None THEN up.place \in ByCollector
          ELSE \/ up.place = row[t].place
               \/ row[t].place.source # "manual" /\ up.place \in ByRule
      BY <1>2, UpsertIsSound
    <3>2. collector'[c].mine[t] = up
      BY <1>5, <1>6 DEF Moved
    <3> QED
      BY <1>7, <2>3, <3>1, <3>2 DEF MineIsSound, Errands
  <2> QED
    BY <2>1, <2>2, <2>3
<1> QED
  BY <1>8, <1>9 DEF PlacementInv

\* A load is committed over what reviewers wrote since it read: the upsert had
\* locked its rows.
LEMMA CommitPlaces ==
    ASSUME SweepInv, PlacementInv, NEW c \in Sweepers, CommitLoad(c)
    PROVE  PlacementInv' /\ ManualStays
<1>1. PICK w \in Collector : w = collector[c]
  BY DEF SweepInv, TypeOK
<1>2. PICK now : /\ Moved(c, now)
                 /\ \A t \in Tenders : now.mine[t] = None
  <2>1. PICK counts : counts = CountsOf(c, Cardinality(NewVersions(c)))
    OBVIOUS
  <2>2. Moved(c, [Sweeping(w.todo) EXCEPT !.stage = "committed", !.run = w.run, !.counts = counts])
    BY <1>1, <2>1, CommitLoadKeeps
  <2>3. PICK rest \in Collector : rest = Sweeping(w.todo)
    BY <1>1, AnySweeping DEF Collector
  <2>4. [rest EXCEPT !.stage = "committed", !.run = w.run, !.counts = counts].mine = rest.mine
    BY <2>3 DEF Collector
  <2>5. \A t \in Tenders : rest.mine[t] = None
    BY <2>3, AnySweeping
  <2> QED
    BY <2>2, <2>3, <2>4, <2>5
<1>3. \A t \in Tenders : row'[t] = IF w.mine[t] = None THEN row[t] ELSE w.mine[t]
  BY <1>1 DEF CommitLoad, OrOld
<1>4. UNCHANGED <<decisions, nextDecision, reviewer>>
  BY DEF CommitLoad
<1>5. \A t \in Tenders : MineIsSound(w, t)
  BY <1>1 DEF PlacementInv, MinePlaced
<1>6. RowsPlaced'
  BY <1>3, <1>4, <1>5 DEF PlacementInv, RowsPlaced, PlacedSoundly, MineIsSound, ByCollector
<1>7. MinePlaced'
  <2>1. \A o \in Sweepers, t \in Tenders : collector'[o].mine[t] = None
    BY <1>2, StoppedHasNone DEF Moved
  <2> QED
    BY <2>1 DEF MinePlaced, MineIsSound
<1>8. DecisionsInOrder'
  BY <1>4 DEF PlacementInv, DecisionsInOrder
<1>9. ManualStays
  BY <1>3, <1>5 DEF ManualStays, MineIsSound
<1> QED
  BY <1>6, <1>7, <1>8, <1>9 DEF PlacementInv

\* A row that no transaction has locked is in no sweeper's hand.
LEMMA UnlockedIsUnwritten ==
    ASSUME NEW t \in Tenders, ~Locked(t)
    PROVE  \A c \in Sweepers : collector[c].mine[t] = None
BY DEF Locked

\* A decision is recorded before the place it orders.
LEMMA RecordPlaces ==
    ASSUME SweepInv, PlacementInv, NEW r \in Reviewers, RecordDecision(r)
    PROVE  PlacementInv' /\ ManualStays
<1>1. UNCHANGED <<row, collector>> /\ decisions \subseteq decisions'
  BY DEF RecordDecision
<1>2. RowsPlaced' /\ MinePlaced' /\ ManualStays
  BY <1>1 DEF PlacementInv, RowsPlaced, MinePlaced, PlacedSoundly, MineIsSound, ManualStays
<1>3. PICK w \in Reviewer : w = reviewer[r]
  BY DEF SweepInv, TypeOK
<1>4. PICK n : n = nextDecision
  OBVIOUS
<1>5. n \in Nat /\ nextDecision' = n + 1
  BY <1>4 DEF RecordDecision, SweepInv, TypeOK
<1>6. \A d \in decisions : d.id \in Int /\ d.id < n
  BY <1>4 DEF PlacementInv, DecisionsInOrder, SweepInv, TypeOK, Decision, DecisionIds
<1>7. \A o \in Reviewers : reviewer[o].stage = "signed" =>
          reviewer[o].decision \in Int /\ reviewer[o].decision < n
  BY <1>4 DEF PlacementInv, DecisionsInOrder, SweepInv, TypeOK, Reviewer
<1>8. CASE reviewer' = [reviewer EXCEPT ![r] = AtRest] /\ decisions' = decisions \cup {Signed(r, n)}
  <2>1. \A o \in Reviewers : reviewer'[o] = IF o = r THEN AtRest ELSE reviewer[o]
    BY <1>8 DEF SweepInv, TypeOK
  <2>2. AtRest.stage # "signed"
    BY DEF AtRest
  <2>3. Signed(r, n).id = n
    BY DEF Signed
  <2> QED
    BY <1>2, <1>5, <1>6, <1>7, <1>8, <2>1, <2>2, <2>3 DEF PlacementInv, DecisionsInOrder
<1>9. CASE /\ reviewer' = [reviewer EXCEPT ![r].stage = "signed", ![r].decision = n]
           /\ decisions' = decisions /\ w.district # None
  <2>1. PICK now : now = [w EXCEPT !.stage = "signed", !.decision = n]
    OBVIOUS
  <2>2. now.stage = "signed" /\ now.decision = n /\ now.district = w.district
    BY <1>3, <2>1 DEF Reviewer
  <2>3. reviewer' = [reviewer EXCEPT ![r] = now]
    BY <1>3, <1>9, <2>1
  <2>4. \A o \in Reviewers : reviewer'[o] = IF o = r THEN now ELSE reviewer[o]
    BY <2>3 DEF SweepInv, TypeOK
  <2>5. \A d \in decisions : d.id < n + 1 /\ d.id # n
    BY <1>5, <1>6
  <2>6. \A o \in Reviewers \ {r} : reviewer[o].stage = "signed" =>
          reviewer[o].decision < n + 1 /\ reviewer[o].decision # n
    BY <1>5, <1>7
  <2>10. w.district # None /\ decisions' = decisions
    BY <1>9, Zenon
  <2>7. \A o \in Reviewers : reviewer'[o].stage = "signed" =>
          /\ reviewer'[o].district # None
          /\ reviewer'[o].decision < n + 1
          /\ \A d \in decisions : d.id # reviewer'[o].decision
    <3> TAKE o \in Reviewers
    <3>1. CASE o = r
      <4>1. reviewer'[o] = now
        BY <2>4, <3>1
      <4> QED
        BY <1>5, <2>2, <2>5, <2>10, <4>1
    <3>2. CASE o # r
      <4>1. reviewer'[o] = reviewer[o]
        BY <2>4, <3>2
      <4> QED
        BY <2>6, <3>2, <4>1 DEF PlacementInv, DecisionsInOrder
    <3> QED
      BY <3>1, <3>2
  <2>8. \A s, o \in Reviewers :
          reviewer'[s].stage = "signed" /\ reviewer'[o].stage = "signed"
            /\ reviewer'[s].decision = reviewer'[o].decision => s = o
    BY <2>2, <2>4, <2>6 DEF PlacementInv, DecisionsInOrder
  <2>9. DecisionsInOrder'
    BY <1>5, <2>5, <2>7, <2>8, <2>10 DEF DecisionsInOrder
  <2> QED
    BY <1>2, <2>9 DEF PlacementInv
<1> QED
  BY <1>3, <1>4, <1>8, <1>9 DEF RecordDecision

\* The place is written, and carries its decision.
LEMMA PlaceTenderPlaces ==
    ASSUME SweepInv, PlacementInv, NEW r \in Reviewers, PlaceTender(r)
    PROVE  PlacementInv' /\ ManualStays
<1>1. PICK w \in Reviewer : w = reviewer[r]
  BY DEF SweepInv, TypeOK
<1>2. w.stage = "signed" /\ w.tender \in Tenders /\ row[w.tender] # None
  BY <1>1 DEF SweepInv, ErrandsHaveRows, PlaceTender
<1>3. PICK t \in Tenders : t = w.tender
  BY <1>2
<1>4. PICK old \in Row : old = row[t]
  BY <1>2, <1>3 DEF SweepInv, TypeOK
<1>5. PICK new : new = [old EXCEPT !.place = Decided(w.district, w.decision)]
  OBVIOUS
<1>6. new.place = Decided(w.district, w.decision)
  BY <1>4, <1>5 DEF Row
<1>7. row' = [row EXCEPT ![t] = new]
  BY <1>1, <1>3, <1>4, <1>5 DEF PlaceTender
<1>8. \A s \in Tenders : row'[s] = IF s = t THEN new ELSE row[s]
  BY <1>7 DEF SweepInv, TypeOK
<1>9. PICK d : d = Signed(r, w.decision)
  OBVIOUS
<1>10. /\ d.tender = t /\ d.district = w.district /\ d.id = w.decision
       /\ w.district # None
       /\ d \notin decisions
       /\ decisions' = decisions \cup {d}
       /\ w.decision < nextDecision
  BY <1>1, <1>2, <1>3, <1>9 DEF Signed, PlacementInv, DecisionsInOrder, PlaceTender
<1>11. UNCHANGED <<collector, nextDecision>> /\ reviewer' = [reviewer EXCEPT ![r] = AtRest]
  BY DEF PlaceTender
<1>12. \A c \in Sweepers : collector[c].mine[t] = None
  BY <1>1, <1>3, UnlockedIsUnwritten DEF PlaceTender
<1>13. RowsPlaced'
  BY <1>6, <1>8, <1>10 DEF PlacementInv, RowsPlaced, PlacedSoundly
<1>14. MinePlaced'
  BY <1>8, <1>11, <1>12 DEF PlacementInv, MinePlaced, MineIsSound
<1>15. DecisionsInOrder'
  <2>1. \A o \in Reviewers : reviewer'[o] = IF o = r THEN AtRest ELSE reviewer[o]
    BY <1>11 DEF SweepInv, TypeOK
  <2>2. AtRest.stage # "signed"
    BY DEF AtRest
  <2>3. \A o \in Reviewers \ {r} : reviewer[o].stage = "signed" => d.id # reviewer[o].decision
    BY <1>1, <1>2, <1>10 DEF PlacementInv, DecisionsInOrder
  <2> QED
    BY <1>10, <1>11, <2>1, <2>2, <2>3 DEF PlacementInv, DecisionsInOrder
<1>16. ManualStays
  BY <1>6, <1>8, <1>10 DEF ManualStays
<1> QED
  BY <1>13, <1>14, <1>15, <1>16 DEF PlacementInv

\* The resolver writes only where there is no place.
LEMMA ResolvePlaces ==
    ASSUME SweepInv, PlacementInv, NEW t \in Tenders, Resolve(t)
    PROVE  PlacementInv' /\ ManualStays
<1>1. CASE UNCHANGED row
  <2>1. UNCHANGED Errands /\ UNCHANGED collector
    BY <1>1 DEF Resolve, Errands
  <2> QED
    BY <2>1, NothingPlaced
<1>2. CASE Resolvable(t) /\ \E p \in ByRule : row' = [row EXCEPT ![t].place = p]
  <2>1. PICK p \in ByRule : row' = [row EXCEPT ![t].place = p]
    BY <1>2
  <2>2. row[t] # None
    BY DEF SweepInv, ErrandsHaveRows, Resolve
  <2>3. PICK old \in Row : old = row[t]
    BY <2>2 DEF SweepInv, TypeOK
  <2>4. PICK new : new = [old EXCEPT !.place = p]
    OBVIOUS
  <2>5. new.place = p /\ row' = [row EXCEPT ![t] = new]
    BY <2>1, <2>3, <2>4 DEF Row
  <2>6. \A s \in Tenders : row'[s] = IF s = t THEN new ELSE row[s]
    BY <2>5 DEF SweepInv, TypeOK
  <2>7. UNCHANGED <<decisions, nextDecision, collector, reviewer>>
    BY DEF Resolve
  <2>8. \A c \in Sweepers : collector[c].mine[t] = None
    BY <1>2, UnlockedIsUnwritten DEF Resolvable
  <2>9. RowsPlaced'
    BY <2>5, <2>6, <2>7 DEF PlacementInv, RowsPlaced, PlacedSoundly, ByCollector
  <2>10. MinePlaced'
    BY <2>6, <2>7, <2>8 DEF PlacementInv, MinePlaced, MineIsSound
  <2>11. DecisionsInOrder'
    BY <2>7 DEF PlacementInv, DecisionsInOrder
  <2>12. old.place.source # "manual"
    <3>1. old.place.district = None
      BY <1>2, <2>3 DEF Resolvable
    <3>2. PlacedSoundly(t, old.place)
      BY <2>2, <2>3 DEF PlacementInv, RowsPlaced
    <3>3. \A d : Decided(d.district, d.id).district = d.district
      BY DEF Decided
    <3>4. old.place \in ByCollector
      BY <3>1, <3>2, <3>3 DEF PlacedSoundly
    <3> QED
      BY <3>4, NoRuleIsManual
  <2>13. ManualStays
    BY <2>3, <2>6, <2>12 DEF ManualStays
  <2> QED
    BY <2>9, <2>10, <2>11, <2>13 DEF PlacementInv
<1> QED
  BY <1>1, <1>2 DEF Resolve

\* One reviewer moves, the others have what they had.
LEMMA ReviewerMoves ==
    ASSUME SweepInv, PlacementInv, NEW r \in Reviewers, NEW now, now.stage # "signed",
           reviewer' = [reviewer EXCEPT ![r] = now],
           UNCHANGED <<row, decisions, nextDecision, collector>>
    PROVE  PlacementInv' /\ ManualStays
<1>1. RowsPlaced' /\ MinePlaced' /\ ManualStays
  BY DEF PlacementInv, RowsPlaced, MinePlaced, PlacedSoundly, MineIsSound, ManualStays
<1>2. \A o \in Reviewers : reviewer'[o] = IF o = r THEN now ELSE reviewer[o]
  BY DEF SweepInv, TypeOK
<1>3. DecisionsInOrder'
  BY <1>2 DEF PlacementInv, DecisionsInOrder
<1> QED
  BY <1>1, <1>3 DEF PlacementInv

\* Every other step places nothing.
LEMMA OtherStepsPlaceNothing ==
    ASSUME SweepInv, PlacementInv, NEW c \in Sweepers,
           \/ TakeLock(c) \/ Skip(c) \/ Crash(c) \/ BeginLoad(c)
           \/ CompleteIngestion(c) \/ LoadFails(c)
           \/ \E p \in Portals : TurnedAway(c, p) \/ OpenIngestion(c, p)
           \/ \E t \in Tenders : Reject(c, t)
    PROVE  PlacementInv' /\ ManualStays
<1>1. UNCHANGED Errands
  BY DEF TakeLock, Skip, Crash, BeginLoad, CompleteIngestion, LoadFails, TurnedAway, OpenIngestion,
         Reject, Errands, register
<1>2. PICK w \in Collector : w = collector[c]
  BY DEF SweepInv, TypeOK
<1>3. ASSUME Skip(c)
      PROVE  PlacementInv' /\ ManualStays
  BY <1>1, <1>3, NothingPlaced DEF Skip
<1>4. ASSUME NEW todo \in SUBSET Portals, Moved(c, Sweeping(todo))
      PROVE  PlacementInv' /\ ManualStays
  BY <1>1, <1>4, AnySweeping, NoneWritten
<1>5. ASSUME TakeLock(c) \/ Crash(c) \/ CompleteIngestion(c) \/ LoadFails(c)
             \/ \E p \in Portals : TurnedAway(c, p)
      PROVE  \E todo \in SUBSET Portals : Moved(c, Sweeping(todo))
  <2>1. w.todo \in SUBSET Portals /\ {} \in SUBSET Portals
    BY <1>2 DEF Collector
  <2> QED
    BY <1>2, <1>5, <2>1, TakeLockKeeps, CrashKeeps, CompleteIngestionKeeps, LoadFailsKeeps,
       TurnedAwayKeeps DEF SweepStopped
<1>6. ASSUME BeginLoad(c)
      PROVE  PlacementInv' /\ ManualStays
  <2>1. PICK now : now = [w EXCEPT !.stage = "loading", !.mark = Mark]
    OBVIOUS
  <2>2. Moved(c, now)
    BY <1>2, <1>6, <2>1, BeginLoadKeeps
  <2>3. now.mine = w.mine
    BY <1>2, <2>1 DEF Collector
  <2> QED
    BY <1>1, <1>2, <2>2, <2>3, NoneWritten
<1>7. ASSUME NEW p \in Portals, OpenIngestion(c, p)
      PROVE  PlacementInv' /\ ManualStays
  <2>1. PICK reading \in [Tenders -> Readings \cup {None}] :
                Moved(c, [collector[c] EXCEPT !.stage = "opened", !.run = nextRun,
                             !.todo = @ \ {p}, !.reading = reading])
    BY <1>7, OpenIngestionKeeps
  <2>2. PICK now : now = [w EXCEPT !.stage = "opened", !.run = nextRun,
                             !.todo = @ \ {p}, !.reading = reading]
    OBVIOUS
  <2>3. Moved(c, now)
    BY <1>2, <2>1, <2>2
  <2>4. now.mine = w.mine
    BY <1>2, <2>2 DEF Collector
  <2> QED
    BY <1>1, <1>2, <2>3, <2>4, NoneWritten
<1>8. ASSUME NEW t \in Tenders, Reject(c, t)
      PROVE  PlacementInv' /\ ManualStays
  <2>1. PICK now : now = [w EXCEPT !.outcome[t] = "rejected"]
    OBVIOUS
  <2>2. Moved(c, now)
    BY <1>2, <1>8, <2>1, RejectKeeps
  <2>3. now.mine = w.mine
    BY <1>2, <2>1 DEF Collector
  <2> QED
    BY <1>1, <1>2, <2>2, <2>3, NoneWritten
<1> QED
  BY <1>3, <1>4, <1>5, <1>6, <1>7, <1>8

\* Each step of the ledger keeps placements sound.
LEMMA PlacementSteps ==
    ASSUME SweepInv, PlacementInv, [Next]_vars
    PROVE  PlacementInv' /\ ManualStays
<1>1. ASSUME NEW c \in Sweepers, TakeLock(c) \/ Skip(c) \/ Crash(c) \/ CollectPortal(c)
      PROVE  PlacementInv' /\ ManualStays
  BY <1>1, OtherStepsPlaceNothing, WritePlaces, CommitPlaces DEF CollectPortal
<1>2. ASSUME NEW r \in Reviewers,
             \/ \E t \in Tenders, d \in Districts \cup {None} : ReadTender(r, t, d)
             \/ RecordDecision(r) \/ PlaceTender(r) \/ GiveUp(r)
      PROVE  PlacementInv' /\ ManualStays
  <2>1. ASSUME NEW t \in Tenders, NEW d \in Districts \cup {None}, ReadTender(r, t, d)
        PROVE  PlacementInv' /\ ManualStays
    <3>1. PICK now : now = [AtRest EXCEPT !.stage = "read", !.tender = t, !.district = d]
      OBVIOUS
    <3>2. now.stage = "read"
      BY <3>1 DEF AtRest
    <3> QED
      BY <2>1, <3>1, <3>2, ReviewerMoves DEF ReadTender, register
  <2>2. ASSUME GiveUp(r)
        PROVE  PlacementInv' /\ ManualStays
    <3>1. AtRest.stage = "idle"
      BY DEF AtRest
    <3> QED
      BY <2>2, <3>1, ReviewerMoves DEF GiveUp, register
  <2> QED
    BY <1>2, <2>1, <2>2, RecordPlaces, PlaceTenderPlaces
<1>3. ASSUME ReadUnplaced
      PROVE  PlacementInv' /\ ManualStays
  <2>1. UNCHANGED Errands /\ UNCHANGED collector
    BY <1>3 DEF ReadUnplaced, Errands, register
  <2> QED
    BY <2>1, NothingPlaced
<1>4. CASE UNCHANGED vars
  <2>1. UNCHANGED Errands /\ UNCHANGED collector
    BY <1>4 DEF vars, Errands, register
  <2> QED
    BY <2>1, NothingPlaced
<1> QED
  BY <1>1, <1>2, <1>3, <1>4, ResolvePlaces DEF Next

\* A placement is always one a rule worked out or one that a recorded decision
\* ordered, and what replaces a reviewer's is a decision recorded with it:
\* however many collectors, reviewers and resolvers write at once
\* (upsertTenders, placeTender, resolve-tenders).
THEOREM PlacementsHaveOneAuthor == Spec => PlacementHasOneAuthor
<1>1. TenderInit => SweepInv /\ PlacementInv
  BY SweepStarts, PlacementStarts
<1>2. SweepInv /\ PlacementInv /\ [Next]_vars => PlacementInv' /\ ManualStays
  BY PlacementSteps
<1>3. PlacementInv' => PlacementIsOneFact'
  BY PlacementInvImplies, PTL
<1>4. Spec => [](SweepInv /\ PlacementInv)
  BY <1>1, <1>2, LedgerIsInOrder, PTL DEF Spec
<1>5. Spec => [][PlacementIsOneFact']_vars
  BY <1>2, <1>3, <1>4, PTL DEF Spec
<1>6. Spec => [][ManualStays]_vars
  BY <1>2, <1>4, PTL DEF Spec
<1>7. Spec => ManualIsKept
  BY <1>6, PTL DEF ManualStays, ManualIsKept
<1> QED
  BY <1>5, <1>7, PTL DEF PlacementHasOneAuthor

-----------------------------------------------------------------------------
(* Versions: EveryChangeIsFiled.                                           *)

\* What an open load has filed is what it supersedes, once for each tender.
FiledIsSound(w) ==
    /\ \A v \in w.filed :
         /\ \A h \in history : h.id # v.id
         /\ w.mine[v.tender] # None
         /\ row[v.tender] # None
         /\ Changed(row[v.tender], w.mine[v.tender])
         /\ v.listed = row[v.tender].listed
         /\ v.detail = row[v.tender].detail
         /\ v.run = row[v.tender].run
    /\ \A u, v \in w.filed : u.tender = v.tender => u = v
    /\ \A t \in Tenders :
         w.mine[t] # None /\ row[t] # None /\ Changed(row[t], w.mine[t]) =>
             \E v \in w.filed : v.tender = t

FilingInv == \A c \in Sweepers : FiledIsSound(collector[c])

\* The step of EveryChangeIsFiled.
ChangeIsFiled ==
    \A t \in Tenders : row[t] # None =>
         LET filed == {v \in history' \ history : v.tender = t}
             old == row[t]
             new == row'[t]
         IN IF new.listed = old.listed /\ new.detail = old.detail THEN filed = {}
            ELSE \E v \in filed : /\ filed = {v}
                                  /\ v.listed = old.listed
                                  /\ v.detail = old.detail
                                  /\ v.run = old.run

\* A sweeper that has stopped has filed nothing.
LEMMA StoppedHasFiledNone == SweepStopped.filed = {}
BY AnySweeping DEF SweepStopped

\* One that has filed nothing has filed it rightly.
LEMMA NoneIsSound ==
    ASSUME NEW w, w.filed = {}, \A t \in Tenders : w.mine[t] = None
    PROVE  FiledIsSound(w)
BY DEF FiledIsSound

\* In an empty ledger nothing is filed.
LEMMA FilingStarts == TenderInit => FilingInv
<1> SUFFICES ASSUME TenderInit, NEW c \in Sweepers
             PROVE  FiledIsSound(collector[c])
  BY DEF FilingInv
<1>1. collector[c] = SweepStopped
  BY DEF TenderInit
<1>2. FiledIsSound(SweepStopped)
  BY StoppedHasFiledNone, StoppedHasNone, NoneIsSound
<1> QED
  BY <1>1, <1>2

\* The rows go on saying what they said, wherever they are placed.
SameReadings ==
    \A t \in Tenders : IF row[t] = None THEN row'[t] = None
                       ELSE /\ row'[t] # None
                            /\ row'[t].listed = row[t].listed
                            /\ row'[t].detail = row[t].detail
                            /\ row'[t].run = row[t].run

\* A step that supersedes nothing.
LEMMA NothingSuperseded ==
    ASSUME SweepInv, FilingInv, history' = history, SameReadings,
           \A c \in Sweepers :
             \/ /\ collector'[c].filed = {}
                /\ \A t \in Tenders : collector'[c].mine[t] = None
             \/ /\ collector'[c].filed = collector[c].filed
                /\ collector'[c].mine = collector[c].mine
    PROVE  FilingInv' /\ ChangeIsFiled
<1>1. ChangeIsFiled
  BY DEF ChangeIsFiled, SameReadings
<1>2. ASSUME NEW c \in Sweepers
      PROVE  FiledIsSound(collector[c])'
  <2>1. CASE collector'[c].filed = {} /\ \A t \in Tenders : collector'[c].mine[t] = None
    BY <2>1 DEF FiledIsSound
  <2>2. CASE collector'[c].filed = collector[c].filed /\ collector'[c].mine = collector[c].mine
    <3>1. PICK w \in Collector : w = collector[c]
      BY DEF SweepInv, TypeOK
    <3>2. FiledIsSound(w) /\ \A v \in w.filed : v.tender \in Tenders
      BY <3>1 DEF FilingInv, Collector, Version
    <3>3. \A t \in Tenders : row[t] # None => (Changed(row[t], w.mine[t]) <=> Changed(row'[t], w.mine[t]))
      BY DEF SameReadings, Changed
    <3>4. \A v \in w.filed : /\ \A h \in history' : h.id # v.id
                             /\ w.mine[v.tender] # None
                             /\ row'[v.tender] # None
                             /\ Changed(row'[v.tender], w.mine[v.tender])
                             /\ v.listed = row'[v.tender].listed
                             /\ v.detail = row'[v.tender].detail
                             /\ v.run = row'[v.tender].run
      BY <3>2, <3>3 DEF FiledIsSound, SameReadings
    <3>5. \A t \in Tenders :
             w.mine[t] # None /\ row'[t] # None /\ Changed(row'[t], w.mine[t]) =>
                 \E v \in w.filed : v.tender = t
      BY <3>2, <3>3 DEF FiledIsSound, SameReadings
    <3>6. collector'[c].filed = w.filed /\ collector'[c].mine = w.mine
      BY <2>2, <3>1
    <3> QED
      BY <3>2, <3>4, <3>5, <3>6 DEF FiledIsSound, Changed
  <2> QED
    BY <2>1, <2>2
<1> QED
  BY <1>1, <1>2 DEF FilingInv

\* A step that reads no portal changes no reading of a row.
LEMMA NothingUpserted ==
    ASSUME SweepInv, FilingInv, UNCHANGED <<history, row>>, NEW c \in Sweepers, NEW now, Moved(c, now),
           \/ now.filed = {} /\ \A t \in Tenders : now.mine[t] = None
           \/ now.filed = collector[c].filed /\ now.mine = collector[c].mine
    PROVE  FilingInv' /\ ChangeIsFiled
<1>1. SameReadings
  BY DEF SameReadings
<1>2. ASSUME NEW o \in Sweepers
      PROVE  \/ /\ collector'[o].filed = {}
                /\ \A t \in Tenders : collector'[o].mine[t] = None
             \/ /\ collector'[o].filed = collector[o].filed
                /\ collector'[o].mine = collector[o].mine
  <2>1. CASE o = c
    BY <2>1 DEF Moved
  <2>2. CASE o # c
    BY <2>2, StoppedHasFiledNone, StoppedHasNone DEF Moved
  <2> QED
    BY <2>1, <2>2
<1> QED
  BY <1>1, <1>2, NothingSuperseded

\* What a load overwrites and differs is filed with it.
LEMMA WriteFiles ==
    ASSUME SweepInv, FilingInv, NEW c \in Sweepers, NEW t \in Tenders, Write(c, t)
    PROVE  FilingInv' /\ ChangeIsFiled
<1>1. PICK new \in Readings, i \in RunIds :
        Moved(c, [collector[c] EXCEPT
                         !.outcome[t] = IF row[t] = None THEN "inserted" ELSE "updated",
                         !.mine[t] = Upserted(t, new, i),
                         !.filed = @ \cup FiledFor(t, Upserted(t, new, i))])
  BY WriteKeeps
<1>2. PICK up \in Row : up = Upserted(t, new, i)
  BY ChangedRow, NewRow DEF Upserted
<1>3. PICK w \in Collector : w = collector[c]
  BY DEF SweepInv, TypeOK
<1>4. PICK now : now = [w EXCEPT
                         !.outcome[t] = IF row[t] = None THEN "inserted" ELSE "updated",
                         !.mine[t] = up,
                         !.filed = @ \cup FiledFor(t, up)]
  OBVIOUS
<1>5. Moved(c, now)
  BY <1>1, <1>2, <1>3, <1>4
<1>6. \A s \in Tenders : now.mine[s] = IF s = t THEN up ELSE w.mine[s]
  BY <1>3, <1>4 DEF Collector
<1>7. now.filed = w.filed \cup FiledFor(t, up)
  BY <1>3, <1>4 DEF Collector
<1>8. history' = history /\ row' = row
  BY DEF Write, register
<1>9. w.mine[t] = None /\ up # None
  <2>1. w.outcome[t] = "none" /\ StageIsSound(w)
    BY <1>3 DEF SweepInv, Write
  <2> QED
    BY <2>1, ConstantsAssumption DEF StageIsSound
<1>10. FiledIsSound(w) /\ \A v \in w.filed : v.tender \in Tenders /\ v.tender # t
  BY <1>3, <1>9 DEF FilingInv, FiledIsSound, Collector, Version
<1>11. FiledIsSound(now)
  <2>1. \A v \in FiledFor(t, up) : /\ v.tender = t
                                   /\ row[t] # None
                                   /\ Changed(row[t], up)
                                   /\ v = Superseded(t, row[t])
                                   /\ \A h \in history : h.id # v.id
                                   /\ v.listed = row[t].listed
                                   /\ v.detail = row[t].detail
                                   /\ v.run = row[t].run
    <3>1. \A h \in history : h.id \in Nat /\ h.id < nextVersion /\ nextVersion \in Nat
      BY DEF SweepInv, TypeOK, VersionsInOrder, Numbered, Version
    <3> QED
      BY <3>1 DEF FiledFor, Superseded
  <2>2. row[t] # None /\ Changed(row[t], up) => \E v \in FiledFor(t, up) : v.tender = t
    BY DEF FiledFor, Superseded
  <2>3. ASSUME NEW v \in now.filed
        PROVE  /\ \A h \in history : h.id # v.id
               /\ now.mine[v.tender] # None
               /\ row[v.tender] # None
               /\ Changed(row[v.tender], now.mine[v.tender])
               /\ v.listed = row[v.tender].listed
               /\ v.detail = row[v.tender].detail
               /\ v.run = row[v.tender].run
    <3>1. CASE v \in w.filed
      BY <1>6, <1>10, <3>1 DEF FiledIsSound
    <3>2. CASE v \in FiledFor(t, up)
      BY <1>6, <1>9, <2>1, <3>2
    <3> QED
      BY <1>7, <3>1, <3>2
  <2>4. \A u, v \in now.filed : u.tender = v.tender => u = v
    BY <1>7, <1>10, <2>1 DEF FiledIsSound
  <2>5. ASSUME NEW s \in Tenders, now.mine[s] # None, row[s] # None, Changed(row[s], now.mine[s])
        PROVE  \E v \in now.filed : v.tender = s
    <3>1. CASE s = t
      BY <1>6, <1>7, <2>2, <2>5, <3>1
    <3>2. CASE s # t
      BY <1>6, <1>7, <1>10, <2>5, <3>2 DEF FiledIsSound
    <3> QED
      BY <3>1, <3>2
  <2> QED
    BY <2>3, <2>4, <2>5 DEF FiledIsSound
<1>12. FilingInv'
  <2>1. FiledIsSound(now)'
    BY <1>8, <1>11 DEF FiledIsSound, Changed
  <2>2. ASSUME NEW o \in Sweepers
        PROVE  FiledIsSound(collector[o])'
    <3>1. CASE o = c
      <4>1. collector'[o] = now
        BY <1>5, <3>1 DEF Moved
      <4> QED
        BY <2>1, <4>1 DEF FiledIsSound
    <3>2. CASE o # c
      <4>1. collector'[o].filed = {} /\ \A s \in Tenders : collector'[o].mine[s] = None
        BY <1>5, <3>2, StoppedHasFiledNone, StoppedHasNone DEF Moved
      <4> QED
        BY <4>1 DEF FiledIsSound
    <3> QED
      BY <3>1, <3>2
  <2> QED
    BY <2>2 DEF FilingInv
<1>13. ChangeIsFiled
  BY <1>8 DEF ChangeIsFiled
<1> QED
  BY <1>12, <1>13

\* The new record of a sweep that has committed.
LEMMA CommitMoves ==
    ASSUME SweepInv, NEW c \in Sweepers, CommitLoad(c)
    PROVE  \E now : /\ Moved(c, now)
                    /\ now.filed = {}
                    /\ \A t \in Tenders : now.mine[t] = None
                    /\ now.stage = "committed"
                    /\ now.run = collector[c].run
                    /\ now.counts = CountsOf(c, Cardinality(NewVersions(c)))
<1>1. PICK w \in Collector : w = collector[c]
  BY DEF SweepInv, TypeOK
<1>2. PICK counts : counts = CountsOf(c, Cardinality(NewVersions(c)))
  OBVIOUS
<1>3. PICK rest \in Collector : rest = Sweeping(w.todo)
  BY <1>1, AnySweeping DEF Collector
<1>4. PICK now : now = [rest EXCEPT !.stage = "committed", !.run = w.run, !.counts = counts]
  OBVIOUS
<1>5. Moved(c, now)
  BY <1>1, <1>2, <1>3, <1>4, CommitLoadKeeps
<1>6. /\ now.mine = rest.mine /\ now.filed = rest.filed /\ now.stage = "committed"
      /\ now.run = w.run /\ now.counts = counts
  BY <1>3, <1>4 DEF Collector
<1>7. rest.filed = {} /\ \A t \in Tenders : rest.mine[t] = None
  BY <1>3, AnySweeping
<1> QED
  BY <1>1, <1>2, <1>5, <1>6, <1>7

\* Rows and the versions of what they were are committed together.
LEMMA CommitFiles ==
    ASSUME SweepInv, FilingInv, NEW c \in Sweepers, CommitLoad(c)
    PROVE  FilingInv' /\ ChangeIsFiled
<1>1. PICK w \in Collector : w = collector[c]
  BY DEF SweepInv, TypeOK
<1>2. PICK now : Moved(c, now) /\ now.filed = {} /\ \A t \in Tenders : now.mine[t] = None
  BY CommitMoves
<1>3. \A t \in Tenders : row'[t] = IF w.mine[t] = None THEN row[t] ELSE w.mine[t]
  BY <1>1 DEF CommitLoad, OrOld
<1>4. history' = history \cup w.filed
  BY <1>1 DEF CommitLoad
<1>5. FiledIsSound(w)
  BY <1>1 DEF FilingInv
<1>6. FilingInv'
  <2>1. ASSUME NEW o \in Sweepers
        PROVE  collector'[o].filed = {} /\ \A t \in Tenders : collector'[o].mine[t] = None
    BY <1>2, StoppedHasNone, StoppedHasFiledNone DEF Moved
  <2> QED
    BY <2>1 DEF FilingInv, FiledIsSound
<1>7. ChangeIsFiled
  <2> SUFFICES ASSUME NEW t \in Tenders, row[t] # None
               PROVE  LET filed == {v \in history' \ history : v.tender = t}
                          old == row[t]
                          new == row'[t]
                      IN IF new.listed = old.listed /\ new.detail = old.detail THEN filed = {}
                         ELSE \E v \in filed : /\ filed = {v}
                                               /\ v.listed = old.listed
                                               /\ v.detail = old.detail
                                               /\ v.run = old.run
    BY DEF ChangeIsFiled
  <2>1. PICK filed : filed = {v \in history' \ history : v.tender = t}
    OBVIOUS
  <2>2. filed = {v \in w.filed : v.tender = t}
    BY <1>4, <1>5, <2>1 DEF FiledIsSound
  <2>3. CASE w.mine[t] = None
    <3>1. filed = {} /\ row'[t] = row[t]
      BY <1>3, <1>5, <2>2, <2>3 DEF FiledIsSound
    <3> QED
      BY <2>1, <3>1
  <2>4. CASE w.mine[t] # None
    <3>1. row'[t] = w.mine[t]
      BY <1>3, <2>4
    <3>2. CASE Changed(row[t], w.mine[t])
      <4>1. PICK v \in w.filed : v.tender = t
        BY <1>5, <2>4, <3>2 DEF FiledIsSound
      <4>2. filed = {v}
        BY <1>5, <2>2, <4>1 DEF FiledIsSound
      <4>3. v.listed = row[t].listed /\ v.detail = row[t].detail /\ v.run = row[t].run
        BY <1>5, <4>1 DEF FiledIsSound
      <4> QED
        BY <2>1, <3>1, <3>2, <4>2, <4>3 DEF Changed
    <3>3. CASE ~Changed(row[t], w.mine[t])
      <4>1. filed = {}
        BY <1>5, <2>2, <3>3 DEF FiledIsSound
      <4> QED
        BY <2>1, <3>1, <3>3, <4>1 DEF Changed
    <3> QED
      BY <3>2, <3>3
  <2> QED
    BY <2>3, <2>4
<1> QED
  BY <1>6, <1>7

\* Every other step changes no reading and files nothing.
LEMMA OtherStepsFileNothing ==
    ASSUME SweepInv, FilingInv, NEW c \in Sweepers,
           \/ TakeLock(c) \/ Skip(c) \/ Crash(c) \/ BeginLoad(c)
           \/ CompleteIngestion(c) \/ LoadFails(c)
           \/ \E p \in Portals : TurnedAway(c, p) \/ OpenIngestion(c, p)
           \/ \E t \in Tenders : Reject(c, t)
    PROVE  FilingInv' /\ ChangeIsFiled
<1>1. UNCHANGED <<history, row>>
  BY DEF TakeLock, Skip, Crash, BeginLoad, CompleteIngestion, LoadFails, TurnedAway, OpenIngestion,
         Reject, register
<1>2. PICK w \in Collector : w = collector[c]
  BY DEF SweepInv, TypeOK
<1>3. ASSUME Skip(c)
      PROVE  FilingInv' /\ ChangeIsFiled
  <2>1. SameReadings
    BY <1>1 DEF SameReadings
  <2>2. collector' = collector
    BY <1>3 DEF Skip
  <2> QED
    BY <1>1, <2>1, <2>2, NothingSuperseded
<1>4. ASSUME NEW todo \in SUBSET Portals, Moved(c, Sweeping(todo))
      PROVE  FilingInv' /\ ChangeIsFiled
  BY <1>1, <1>4, AnySweeping, NothingUpserted
<1>5. ASSUME TakeLock(c) \/ Crash(c) \/ CompleteIngestion(c) \/ LoadFails(c)
             \/ \E p \in Portals : TurnedAway(c, p)
      PROVE  \E todo \in SUBSET Portals : Moved(c, Sweeping(todo))
  <2>1. w.todo \in SUBSET Portals /\ {} \in SUBSET Portals
    BY <1>2 DEF Collector
  <2> QED
    BY <1>2, <1>5, <2>1, TakeLockKeeps, CrashKeeps, CompleteIngestionKeeps, LoadFailsKeeps,
       TurnedAwayKeeps DEF SweepStopped
<1>6. ASSUME BeginLoad(c)
      PROVE  FilingInv' /\ ChangeIsFiled
  <2>1. PICK now : now = [w EXCEPT !.stage = "loading", !.mark = Mark]
    OBVIOUS
  <2>2. Moved(c, now)
    BY <1>2, <1>6, <2>1, BeginLoadKeeps
  <2>3. now.mine = w.mine /\ now.filed = w.filed
    BY <1>2, <2>1 DEF Collector
  <2> QED
    BY <1>1, <1>2, <2>2, <2>3, NothingUpserted
<1>7. ASSUME NEW p \in Portals, OpenIngestion(c, p)
      PROVE  FilingInv' /\ ChangeIsFiled
  <2>1. PICK reading \in [Tenders -> Readings \cup {None}] :
                Moved(c, [collector[c] EXCEPT !.stage = "opened", !.run = nextRun,
                             !.todo = @ \ {p}, !.reading = reading])
    BY <1>7, OpenIngestionKeeps
  <2>2. PICK now : now = [w EXCEPT !.stage = "opened", !.run = nextRun,
                             !.todo = @ \ {p}, !.reading = reading]
    OBVIOUS
  <2>3. Moved(c, now)
    BY <1>2, <2>1, <2>2
  <2>4. now.mine = w.mine /\ now.filed = w.filed
    BY <1>2, <2>2 DEF Collector
  <2> QED
    BY <1>1, <1>2, <2>3, <2>4, NothingUpserted
<1>8. ASSUME NEW t \in Tenders, Reject(c, t)
      PROVE  FilingInv' /\ ChangeIsFiled
  <2>1. PICK now : now = [w EXCEPT !.outcome[t] = "rejected"]
    OBVIOUS
  <2>2. Moved(c, now)
    BY <1>2, <1>8, <2>1, RejectKeeps
  <2>3. now.mine = w.mine /\ now.filed = w.filed
    BY <1>2, <2>1 DEF Collector
  <2> QED
    BY <1>1, <1>2, <2>2, <2>3, NothingUpserted
<1> QED
  BY <1>3, <1>4, <1>5, <1>6, <1>7, <1>8

\* Placing a tender changes nothing of what it says.
LEMMA PlacedReadsTheSame ==
    ASSUME SweepInv,
           \/ \E r \in Reviewers : PlaceTender(r)
           \/ \E t \in Tenders : Resolve(t)
    PROVE  SameReadings
<1>1. ASSUME NEW t \in Tenders, row[t] # None, NEW p \in Placement, row' = [row EXCEPT ![t].place = p]
      PROVE  SameReadings
  <2>1. PICK old \in Row : old = row[t]
    BY <1>1 DEF SweepInv, TypeOK
  <2>2. PICK new : new = [old EXCEPT !.place = p]
    OBVIOUS
  <2>3. /\ new.listed = old.listed /\ new.detail = old.detail /\ new.run = old.run
        /\ row' = [row EXCEPT ![t] = new]
    BY <1>1, <2>1, <2>2 DEF Row
  <2>4. row'[t] # None
    <3>1. new \in Row
      BY <1>1, <2>1, <2>2 DEF Row
    <3> QED
      BY <2>3, <3>1, ConstantsAssumption DEF SweepInv, TypeOK
  <2>5. \A s \in Tenders : s # t => row'[s] = row[s]
    BY <2>3 DEF SweepInv, TypeOK
  <2>6. row'[t] = new
    BY <2>3 DEF SweepInv, TypeOK
  <2> QED
    BY <1>1, <2>1, <2>3, <2>4, <2>5, <2>6 DEF SameReadings
<1>2. ASSUME NEW r \in Reviewers, PlaceTender(r)
      PROVE  SameReadings
  <2>1. PICK t \in Tenders : t = reviewer[r].tender /\ row[t] # None
    BY <1>2 DEF SweepInv, ErrandsHaveRows, PlaceTender
  <2>2. PICK p \in Placement : p = Decided(reviewer[r].district, reviewer[r].decision)
    BY DEF SweepInv, TypeOK, Reviewer, Decided, Placement
  <2>3. row' = [row EXCEPT ![t].place = p]
    BY <1>2, <2>1, <2>2 DEF PlaceTender
  <2> QED
    BY <1>1, <2>1, <2>3
<1>3. ASSUME NEW t \in Tenders, Resolve(t)
      PROVE  SameReadings
  <2>1. row[t] # None
    BY <1>3 DEF SweepInv, ErrandsHaveRows, Resolve
  <2>2. CASE UNCHANGED row
    BY <2>2 DEF SameReadings
  <2>3. CASE \E p \in ByRule : row' = [row EXCEPT ![t].place = p]
    BY <1>1, <2>1, <2>3, RulesPlace
  <2> QED
    BY <1>3, <2>2, <2>3 DEF Resolve
<1> QED
  BY <1>2, <1>3

\* Each step files what it changes.
LEMMA FilingSteps ==
    ASSUME SweepInv, FilingInv, [Next]_vars
    PROVE  FilingInv' /\ ChangeIsFiled
<1>1. ASSUME NEW c \in Sweepers, TakeLock(c) \/ Skip(c) \/ Crash(c) \/ CollectPortal(c)
      PROVE  FilingInv' /\ ChangeIsFiled
  BY <1>1, OtherStepsFileNothing, WriteFiles, CommitFiles DEF CollectPortal
<1>2. ASSUME UNCHANGED <<history, collector>>, SameReadings
      PROVE  FilingInv' /\ ChangeIsFiled
  BY <1>2, NothingSuperseded
<1>3. ASSUME NEW r \in Reviewers, PlaceTender(r)
      PROVE  FilingInv' /\ ChangeIsFiled
  BY <1>2, <1>3, PlacedReadsTheSame DEF PlaceTender
<1>4. ASSUME NEW t \in Tenders, Resolve(t)
      PROVE  FilingInv' /\ ChangeIsFiled
  BY <1>2, <1>4, PlacedReadsTheSame DEF Resolve
<1>5. ASSUME UNCHANGED <<history, row, collector>>
      PROVE  FilingInv' /\ ChangeIsFiled
  BY <1>2, <1>5 DEF SameReadings
<1>6. ASSUME NEW r \in Reviewers,
             \/ \E t \in Tenders, d \in Districts \cup {None} : ReadTender(r, t, d)
             \/ RecordDecision(r) \/ GiveUp(r)
      PROVE  FilingInv' /\ ChangeIsFiled
  BY <1>5, <1>6 DEF ReadTender, RecordDecision, GiveUp, register
<1>7. ASSUME ReadUnplaced \/ UNCHANGED vars
      PROVE  FilingInv' /\ ChangeIsFiled
  BY <1>5, <1>7 DEF ReadUnplaced, vars, register
<1> QED
  BY <1>1, <1>3, <1>4, <1>6, <1>7 DEF Next

\* Every change of what a portal says of a tender files, once and with it, what
\* it said before; a tender seen again unchanged files nothing (0022, 0038).
THEOREM ChangesAreFiled == Spec => EveryChangeIsFiled
<1>1. TenderInit => SweepInv /\ FilingInv
  BY SweepStarts, FilingStarts
<1>2. SweepInv /\ FilingInv /\ [Next]_vars => FilingInv' /\ ChangeIsFiled
  BY FilingSteps
<1>3. Spec => [](SweepInv /\ FilingInv)
  BY <1>1, <1>2, LedgerIsInOrder, PTL DEF Spec
<1>4. Spec => [][ChangeIsFiled]_vars
  BY <1>2, <1>3, PTL DEF Spec
<1> QED
  BY <1>4, PTL DEF ChangeIsFiled, EveryChangeIsFiled

-----------------------------------------------------------------------------
(* Runs and windows: SweepsAreToldTruly.  What the sums rest on.           *)

RowsOf(i) == {t \in Tenders : row[t] # None /\ row[t].run = i}

\* The counts n are what run i did, as far as its rows can still tell.
CountsAreRight(i, n) ==
    /\ attempt[i].portal \in Portals
    /\ window[attempt[i].portal] # None
    /\ window[attempt[i].portal].since <= i
    /\ i <= window[attempt[i].portal].success
    /\ n.unchanged >= 0
    /\ n.seen = n.inserted + n.updated + n.unchanged + n.rejected
    /\ window[attempt[i].portal].success = i => n.seen - n.rejected = Cardinality(RowsOf(i))

\* A run that is open is later than everything in the ledger, until it commits.
LoadIsDated(w) ==
    /\ w.stage \in {"opened", "loading"} =>
         /\ \A p \in Portals : window[p] # None =>
              window[p].success < w.run /\ window[p].checked <= w.run
         /\ RowsOf(w.run) = {}
         /\ \A v \in history : v.run # w.run
         /\ \A t \in Tenders : w.mine[t] # None => w.mine[t].run = w.run
         /\ \A t \in Tenders : w.outcome[t] = "inserted" => row[t] = None
    /\ w.stage = "loading" => \A v \in history : v.id <= w.mark
    /\ w.stage = "committed" =>
         /\ CountsAreRight(w.run, w.counts)
         /\ window[attempt[w.run].portal].success = w.run

HasOwner(i) == i \in died \/ \E c \in Sweepers : collector[c].run = i
Committing(i) ==
    i \in died \/ \E c \in Sweepers : collector[c].run = i /\ collector[c].stage = "committed"

RunIsSound(i) ==
    attempt[i] # None =>
        /\ attempt[i].status = "running" => HasOwner(i)
        /\ attempt[i].status = "failed" => RowsOf(i) = {} /\ \A v \in history : v.run # i
        /\ attempt[i].status = "succeeded" => CountsAreRight(i, attempt[i].counts)

RowIsDated(t) ==
    row[t] # None =>
        /\ row[t].run < nextRun
        /\ attempt[row[t].run].portal = PortalOf[t]
        /\ window[PortalOf[t]] # None

WindowIsSound(p) ==
    window[p] # None =>
        /\ window[p].since <= window[p].success
        /\ window[p].success <= window[p].checked
        /\ window[p].checked < nextRun
        /\ \A i \in {window[p].since, window[p].success} :
             /\ attempt[i].status # "failed"
             /\ attempt[i].status = "running" => Committing(i)

RunsInv ==
    /\ \A c \in Sweepers : LoadIsDated(collector[c])
    /\ \A t \in Tenders : RowIsDated(t)
    /\ \A v \in history : v.run < nextRun
    /\ \A i \in RunIds : RunIsSound(i)
    /\ \A p \in Portals : WindowIsSound(p)

\* Runs whose outcome is known as it happened are told truly.
LEMMA RunsInvImplies ==
    ASSUME SweepInv, RunsInv
    PROVE  SweepsAreToldTruly
<1>1. RunSaysWhatHappened
  <2> SUFFICES ASSUME NEW i \in RunIds, attempt[i] # None
               PROVE  /\ attempt[i].status = "running" =>
                            i \in died \/ \E c \in Sweepers : collector[c].run = i
                      /\ attempt[i].status = "failed" =>
                           /\ \A t \in Tenders : row[t] # None => row[t].run # i
                           /\ \A v \in history : v.run # i
                      /\ attempt[i].status = "succeeded" =>
                           LET n == attempt[i].counts
                           IN /\ n.unchanged >= 0
                              /\ n.seen = n.inserted + n.updated + n.unchanged + n.rejected
                              /\ window[attempt[i].portal].success = i =>
                                   n.seen - n.rejected =
                                     Cardinality({t \in Tenders : row[t] # None /\ row[t].run = i})
    BY DEF RunSaysWhatHappened
  <2> QED
    BY DEF RunsInv, RunIsSound, HasOwner, RowsOf, CountsAreRight
<1>2. WindowIsHonest
  <2>1. ASSUME NEW p \in Portals, window[p] # None
        PROVE  LET w == window[p]
               IN /\ w.since <= w.success /\ w.success <= w.checked
                  /\ \A i \in RunIds : attempt[i] # None /\ attempt[i].portal = p =>
                       /\ attempt[i].status = "failed" => i \notin {w.since, w.success}
                       /\ attempt[i].status = "succeeded" => w.since <= i /\ i <= w.success
                  /\ \A i \in {w.since, w.success} : attempt[i].status = "running" =>
                       i \in died \/ \E c \in Sweepers : collector[c].run = i /\ collector[c].stage = "committed"
    <3>1. WindowIsSound(p) /\ \A i \in RunIds : RunIsSound(i)
      BY DEF RunsInv
    <3>2. \A i \in RunIds : attempt[i] # None /\ attempt[i].portal = p =>
             /\ attempt[i].status = "failed" => i \notin {window[p].since, window[p].success}
             /\ attempt[i].status = "succeeded" => window[p].since <= i /\ i <= window[p].success
      BY <2>1, <3>1 DEF WindowIsSound, RunIsSound, CountsAreRight
    <3> QED
      BY <2>1, <3>1, <3>2 DEF WindowIsSound, Committing
  <2>2. \A t \in Tenders : row[t] # None => window[PortalOf[t]] # None
    BY DEF RunsInv, RowIsDated
  <2> QED
    BY <2>1, <2>2 DEF WindowIsHonest
<1> QED
  BY <1>1, <1>2 DEF SweepsAreToldTruly

\* A sweeper between portals says nothing of any run.
LEMMA SweepingIsDated == \A s : LoadIsDated(Sweeping(s))
BY AnySweeping DEF LoadIsDated, AtWork

\* Before the first run there is nothing to tell.
LEMMA RunsStart == TenderInit => RunsInv
<1> SUFFICES ASSUME TenderInit
             PROVE  RunsInv
  OBVIOUS
<1>1. \A c \in Sweepers : LoadIsDated(collector[c])
  <2>1. LoadIsDated(SweepStopped)
    BY SweepingIsDated DEF SweepStopped
  <2> QED
    BY <2>1 DEF TenderInit
<1> QED
  BY <1>1 DEF TenderInit, RunsInv, RowIsDated, RunIsSound, WindowIsSound

-----------------------------------------------------------------------------
(* The counts.                                                             *)

\* No more versions were filed for a portal since the mark than rows were
\* updated: each update files one at most, under the lock.
LEMMA NoMoreThanUpdated ==
    ASSUME SweepInv, FilingInv, RunsInv, NEW c \in Sweepers, collector[c].stage = "loading"
    PROVE  Cardinality(NewVersions(c)) <= Count(c, "updated")
<1>1. PICK w \in Collector : w = collector[c]
  BY DEF SweepInv, TypeOK
<1>2. PICK new : new = NewVersions(c)
  OBVIOUS
<1>3. PICK updated : updated = {t \in Tenders : w.outcome[t] = "updated"}
  OBVIOUS
<1>4. new \subseteq w.filed
  <2>1. LoadIsDated(w) /\ w.stage = "loading"
    BY <1>1 DEF RunsInv
  <2>2. \A v \in history : ~(v.id > w.mark)
    <3>1. \A v \in history : v.id \in Nat /\ v.id <= w.mark /\ w.mark \in Nat
      BY <1>1, <2>1 DEF LoadIsDated, SweepInv, TypeOK, Version, Collector
    <3> QED
      BY <3>1
  <2> QED
    BY <1>1, <1>2, <2>2 DEF NewVersions
<1>5. \A v \in w.filed : v.tender \in updated
  <2> TAKE v \in w.filed
  <2>1. v.tender \in Tenders /\ w.mine[v.tender] # None /\ row[v.tender] # None
    BY <1>1 DEF FilingInv, FiledIsSound, Collector, Version
  <2>2. w.outcome[v.tender] \in {"inserted", "updated"}
    BY <1>1, <2>1 DEF SweepInv, StageIsSound
  <2>3. w.outcome[v.tender] # "inserted"
    BY <1>1, <2>1 DEF RunsInv, LoadIsDated
  <2> QED
    BY <1>3, <2>1, <2>2, <2>3
<1>6. \A u, v \in new : u.tender = v.tender => u = v
  BY <1>1, <1>4 DEF FilingInv, FiledIsSound
<1>7. PICK f : f = [v \in new |-> v.tender]
  OBVIOUS
<1>8. f \in Injection(new, updated)
  BY <1>4, <1>5, <1>6, <1>7 DEF Injection, IsInjective
<1>9. IsFiniteSet(updated)
  BY <1>3, TendersAreFinite, FS_Subset
<1>10. Cardinality(new) <= Cardinality(updated)
  BY <1>8, <1>9, FS_Injection
<1> QED
  BY <1>1, <1>2, <1>3, <1>10 DEF Count

\* Two finite sets with nothing in common count as their sum.
LEMMA DisjointUnion ==
    ASSUME NEW S, NEW T, IsFiniteSet(S), IsFiniteSet(T), S \cap T = {}
    PROVE  IsFiniteSet(S \cup T) /\ Cardinality(S \cup T) = Cardinality(S) + Cardinality(T)
<1>1. IsFiniteSet(S \cup T)
      /\ Cardinality(S \cup T) = Cardinality(S) + Cardinality(T) - Cardinality(S \cap T)
  BY FS_Union
<1>2. Cardinality(S) \in Nat /\ Cardinality(T) \in Nat /\ Cardinality(S \cap T) = 0
  BY FS_CardinalityType, FS_EmptySet
<1> QED
  BY <1>1, <1>2

\* What was advertised was inserted, updated or rejected, each once.
LEMMA CountsAddUp ==
    ASSUME SweepInv, NEW c \in Sweepers, Written(c)
    PROVE  /\ Cardinality(Advertised(c)) =
                Count(c, "inserted") + Count(c, "updated") + Count(c, "rejected")
           /\ Cardinality(Advertised(c)) - Count(c, "rejected") =
                Cardinality({t \in Tenders : collector[c].mine[t] # None})
           /\ Count(c, "inserted") \in Nat /\ Count(c, "updated") \in Nat
           /\ Count(c, "rejected") \in Nat
<1>1. PICK w \in Collector : w = collector[c]
  BY DEF SweepInv, TypeOK
<1> DEFINE Of(o) == {t \in Tenders : w.outcome[t] = o}
<1>2. PICK ins, upd, rej : ins = Of("inserted") /\ upd = Of("updated") /\ rej = Of("rejected")
  OBVIOUS
<1>3. IsFiniteSet(ins) /\ IsFiniteSet(upd) /\ IsFiniteSet(rej)
  BY <1>2, TendersAreFinite, FS_Subset
<1>4. Cardinality(ins) \in Nat /\ Cardinality(upd) \in Nat /\ Cardinality(rej) \in Nat
  BY <1>3, FS_CardinalityType
<1>5. ins \cap upd = {} /\ (ins \cup upd) \cap rej = {}
  BY <1>2
<1>6. IsFiniteSet(ins \cup upd) /\ Cardinality(ins \cup upd) = Cardinality(ins) + Cardinality(upd)
  BY <1>3, <1>5, DisjointUnion
<1>7. Cardinality((ins \cup upd) \cup rej) = Cardinality(ins \cup upd) + Cardinality(rej)
  BY <1>3, <1>5, <1>6, DisjointUnion
<1>8. StageIsSound(w) /\ w.outcome \in [Tenders -> Outcomes]
  BY <1>1 DEF SweepInv, Collector
<1>9. Advertised(c) = (ins \cup upd) \cup rej
  <2>1. \A t \in Tenders : w.reading[t] # None <=> w.outcome[t] # "none"
    BY <1>1, <1>8 DEF StageIsSound, Written, Advertised
  <2>2. Advertised(c) = {t \in Tenders : w.reading[t] # None}
    BY <1>1 DEF Advertised
  <2> QED
    BY <1>2, <1>8, <2>1, <2>2 DEF Outcomes
<1>10. {t \in Tenders : w.mine[t] # None} = ins \cup upd
  BY <1>2, <1>8 DEF StageIsSound
<1>11. Count(c, "inserted") = Cardinality(ins) /\ Count(c, "updated") = Cardinality(upd)
       /\ Count(c, "rejected") = Cardinality(rej)
  BY <1>1, <1>2 DEF Count
<1>12. {t \in Tenders : collector[c].mine[t] # None} = ins \cup upd
  BY <1>1, <1>10
<1>13. Cardinality(Advertised(c)) = Cardinality(ins) + Cardinality(upd) + Cardinality(rej)
  BY <1>6, <1>7, <1>9
<1>14. Cardinality(Advertised(c)) - Cardinality(rej) = Cardinality(ins \cup upd)
  BY <1>4, <1>6, <1>13
<1> QED
  BY <1>4, <1>11, <1>12, <1>13, <1>14

-----------------------------------------------------------------------------
(* Runs and windows: the steps.                                            *)

\* A sweeper whose run and reading have not moved is dated as it was.
LEMMA OneIsDated ==
    ASSUME NEW c \in Sweepers, NEW now, Moved(c, now), LoadIsDated(now)'
    PROVE  \A o \in Sweepers : LoadIsDated(collector[o])'
<1>1. (\A s : LoadIsDated(Sweeping(s)))'
  BY SweepingIsDated, PTL
<1>2. LoadIsDated(SweepStopped)'
  BY <1>1, Zenon DEF SweepStopped
<1>3. ASSUME NEW o \in Sweepers
      PROVE  LoadIsDated(collector[o])'
  <2>1. PICK w : w = collector'[o]
    OBVIOUS
  <2>2. w = now \/ w = SweepStopped
    BY <2>1 DEF Moved
  <2>3. LoadIsDated(w)'
    BY <1>2, <2>2
  <2> QED
    BY <2>1, <2>3 DEF LoadIsDated, CountsAreRight
<1> QED
  BY <1>3

\* A sweeper that has stopped owns no run.
LEMMA StoppedOwnsNothing ==
    ASSUME SweepInv, NEW c \in Sweepers, NEW now, Moved(c, now), NEW i \in RunIds
    PROVE  /\ HasOwner(i) => i \in died \/ collector[c].run = i
           /\ Committing(i) => i \in died \/ (collector[c].run = i /\ collector[c].stage = "committed")
<1>1. \A o \in Sweepers \ {c} : collector[o].run # i
  <2>1. SweepStopped.run = 0 /\ i # 0
    BY AnySweeping DEF SweepStopped, RunIds
  <2> QED
    BY <2>1 DEF Moved
<1> QED
  BY <1>1 DEF HasOwner, Committing

\* A sweep moves while nothing is written that a reader sees.
LEMMA SweepMovesUnseen ==
    ASSUME SweepInv, RunsInv, UNCHANGED <<attempt, nextRun, window, row, history>>, died \subseteq died',
           NEW c \in Sweepers, NEW now, Moved(c, now), LoadIsDated(now)',
           \/ now.run = collector[c].run
              /\ (collector[c].stage = "committed" => now.stage = "committed")
           \/ collector[c].run \in died' \cup {0}
    PROVE  RunsInv'
<1>1. \A o \in Sweepers : LoadIsDated(collector[o])'
  BY OneIsDated
<1>2. \A i : RowsOf(i)' = RowsOf(i)
  BY DEF RowsOf
<1>3. \A i \in RunIds : (HasOwner(i) => HasOwner(i)') /\ (Committing(i) => Committing(i)')
  <2> TAKE i \in RunIds
  <2>1. collector'[c] = now /\ i # 0
    BY DEF Moved, RunIds
  <2> QED
    BY <2>1, StoppedOwnsNothing DEF HasOwner, Committing
<1>4. \A t \in Tenders : RowIsDated(t)'
  BY DEF RunsInv, RowIsDated
<1>5. \A v \in history' : v.run < nextRun'
  BY DEF RunsInv
<1>6. \A i \in RunIds : RunIsSound(i)'
  <2> TAKE i \in RunIds
  <2>1. RunIsSound(i) /\ (CountsAreRight(i, attempt[i].counts) => CountsAreRight(i, attempt[i].counts)')
    BY <1>2 DEF RunsInv, CountsAreRight
  <2> QED
    BY <1>2, <1>3, <2>1 DEF RunIsSound
<1>7. \A p \in Portals : WindowIsSound(p)'
  <2> TAKE p \in Portals
  <2>1. window[p] # None => window[p].since \in RunIds /\ window[p].success \in RunIds
    BY DEF SweepInv, TypeOK, Window
  <2> QED
    BY <1>3, <2>1 DEF RunsInv, WindowIsSound
<1> QED
  BY <1>1, <1>4, <1>5, <1>6, <1>7 DEF RunsInv

\* A step that moves no run, no window and no reading tells what was told.
LEMMA UnseenSteps ==
    ASSUME SweepInv, FilingInv, RunsInv, NEW c \in Sweepers,
           \/ TakeLock(c) \/ Crash(c)
           \/ \E p \in Portals : TurnedAway(c, p)
           \/ \E t \in Tenders : Write(c, t) \/ Reject(c, t)
    PROVE  RunsInv'
<1>1. PICK w \in Collector : w = collector[c] /\ StageIsSound(w) /\ LoadIsDated(w)
  BY DEF SweepInv, TypeOK, RunsInv
<1>2. ASSUME NEW todo \in SUBSET Portals, Moved(c, Sweeping(todo)),
             UNCHANGED <<attempt, nextRun, window, row, history>>, died \subseteq died',
             w.run \in died' \cup {0}
      PROVE  RunsInv'
  <2>1. (\A s : LoadIsDated(Sweeping(s)))'
    BY SweepingIsDated, PTL
  <2>2. LoadIsDated(Sweeping(todo))'
    BY <2>1
  <2> QED
    BY <1>1, <1>2, <2>2, SweepMovesUnseen
<1>3. ASSUME TakeLock(c)
      PROVE  RunsInv'
  <2>1. PICK todo \in SUBSET Portals : Moved(c, Sweeping(todo))
    BY <1>3, TakeLockKeeps
  <2>2. w.run = 0
    BY <1>1, <1>3, AnySweeping DEF TakeLock, SweepStopped
  <2> QED
    BY <1>2, <1>3, <2>1, <2>2 DEF TakeLock, runs, register
<1>4. ASSUME NEW p \in Portals, TurnedAway(c, p)
      PROVE  RunsInv'
  <2>1. PICK todo \in SUBSET Portals : Moved(c, Sweeping(todo))
    BY <1>4, TurnedAwayKeeps
  <2>2. w.run = 0
    BY <1>1, <1>4, AnySweeping DEF TurnedAway, StageIsSound, AtWork
  <2> QED
    BY <1>2, <1>4, <2>1, <2>2 DEF TurnedAway, runs, register
<1>5. ASSUME Crash(c)
      PROVE  RunsInv'
  <2>1. Moved(c, Sweeping({})) /\ {} \in SUBSET Portals
    BY <1>5, CrashKeeps DEF SweepStopped
  <2>2. w.run \in died' \cup {0} /\ died \subseteq died'
    BY <1>1, <1>5 DEF Crash
  <2> QED
    BY <1>2, <1>5, <2>1, <2>2 DEF Crash, register
<1>6. ASSUME NEW t \in Tenders, Reject(c, t)
      PROVE  RunsInv'
  <2>1. PICK now : now = [w EXCEPT !.outcome[t] = "rejected"]
    OBVIOUS
  <2>2. Moved(c, now)
    BY <1>1, <1>6, <2>1, RejectKeeps
  <2>3. /\ now.stage = w.stage /\ now.run = w.run /\ now.mine = w.mine /\ now.mark = w.mark
        /\ \A s \in Tenders : now.outcome[s] = IF s = t THEN "rejected" ELSE w.outcome[s]
    BY <1>1, <2>1 DEF Collector
  <2>4. UNCHANGED <<attempt, nextRun, window, row, history, died>> /\ w.stage = "loading"
    BY <1>1, <1>6 DEF Reject, runs, register
  <2>5. LoadIsDated(now)'
    BY <1>1, <2>3, <2>4 DEF LoadIsDated, RowsOf
  <2> QED
    BY <1>1, <2>2, <2>3, <2>4, <2>5, SweepMovesUnseen
<1>7. ASSUME NEW t \in Tenders, Write(c, t)
      PROVE  RunsInv'
  <2>1. PICK new \in Readings, i \in RunIds :
          /\ w.run = i
          /\ Moved(c, [collector[c] EXCEPT
                         !.outcome[t] = IF row[t] = None THEN "inserted" ELSE "updated",
                         !.mine[t] = Upserted(t, new, i),
                         !.filed = @ \cup FiledFor(t, Upserted(t, new, i))])
    BY <1>1, <1>7, WriteKeeps
  <2>2. PICK up \in Row : up = Upserted(t, new, i) /\ up.run = i
    <3>1. Upserted(t, new, i) \in Row
      BY ChangedRow, NewRow DEF Upserted
    <3>2. CASE row[t] = None
      BY <3>1, <3>2 DEF Upserted, Inserted
    <3>3. CASE row[t] # None
      <4>1. PICK old \in Row : old = row[t]
        BY <3>3 DEF SweepInv, TypeOK
      <4>2. Updated(old, new, i).run = i
        BY <4>1 DEF Updated, Row
      <4> QED
        BY <3>1, <3>3, <4>1, <4>2 DEF Upserted
    <3> QED
      BY <3>2, <3>3
  <2>3. PICK now : now = [w EXCEPT
                         !.outcome[t] = IF row[t] = None THEN "inserted" ELSE "updated",
                         !.mine[t] = up,
                         !.filed = @ \cup FiledFor(t, up)]
    OBVIOUS
  <2>4. Moved(c, now)
    BY <1>1, <2>1, <2>2, <2>3
  <2>5. /\ now.stage = w.stage /\ now.run = w.run /\ now.mark = w.mark
        /\ \A s \in Tenders :
             /\ now.outcome[s] = IF s = t THEN IF row[t] = None THEN "inserted" ELSE "updated"
                                 ELSE w.outcome[s]
             /\ now.mine[s] = IF s = t THEN up ELSE w.mine[s]
    BY <1>1, <2>3 DEF Collector
  <2>6. UNCHANGED <<attempt, nextRun, window, row, history, died>> /\ w.stage = "loading"
    BY <1>1, <1>7 DEF Write, runs, register
  <2>7. LoadIsDated(now)'
    BY <1>1, <2>1, <2>2, <2>5, <2>6 DEF LoadIsDated, RowsOf
  <2> QED
    BY <1>1, <2>4, <2>5, <2>6, <2>7, SweepMovesUnseen
<1> QED
  BY <1>3, <1>4, <1>5, <1>6, <1>7

-----------------------------------------------------------------------------

\* A run is opened, whether or not a sweep goes on with it.
LEMMA RunOpens ==
    ASSUME SweepInv, RunsInv, UNCHANGED <<died, window, row, history>>, NEW opened,
           opened # None, opened.status \in {"running", "skipped"},
           nextRun <= MaxIngestions, nextRun' = nextRun + 1,
           attempt' = [attempt EXCEPT ![nextRun] = opened],
           \A o \in Sweepers : LoadIsDated(collector[o])',
           NEW n, n = nextRun, opened.status = "running" => HasOwner(n)',
           \A i \in RunIds : (HasOwner(i) => HasOwner(i)') /\ (Committing(i) => Committing(i)')
    PROVE  RunsInv'
<1>1. \A i : RowsOf(i)' = RowsOf(i)
  BY DEF RowsOf
<1>2. /\ nextRun \in RunIds
      /\ attempt'[nextRun] = opened
      /\ \A i \in RunIds : i # nextRun => attempt'[i] = attempt[i]
      /\ \A i \in RunIds : i < nextRun => i < nextRun' /\ i # nextRun
  BY ConstantsAssumption DEF SweepInv, TypeOK, RunIds
<1>3. \A t \in Tenders : RowIsDated(t)'
  <2> TAKE t \in Tenders
  <2>1. row[t] # None => row[t].run \in RunIds
    BY DEF SweepInv, TypeOK, Row
  <2> QED
    BY <1>2, <2>1 DEF RunsInv, RowIsDated
<1>4. \A v \in history' : v.run < nextRun'
  <2>1. \A v \in history : v.run \in RunIds
    BY DEF SweepInv, TypeOK, Version
  <2> QED
    BY <1>2, <2>1 DEF RunsInv
<1>5. \A i \in RunIds : RunIsSound(i)'
  <2> TAKE i \in RunIds
  <2>1. CASE i = n
    BY <1>2, <2>1 DEF RunIsSound
  <2>2. CASE i # n
    <3>1. RunIsSound(i) /\ attempt'[i] = attempt[i]
      BY <1>2, <2>2 DEF RunsInv
    <3>2. CountsAreRight(i, attempt[i].counts) => CountsAreRight(i, attempt[i].counts)'
      BY <1>1, <3>1 DEF CountsAreRight
    <3> QED
      BY <1>1, <3>1, <3>2 DEF RunIsSound
  <2> QED
    BY <2>1, <2>2
<1>6. \A p \in Portals : WindowIsSound(p)'
  <2> SUFFICES ASSUME NEW p \in Portals, window[p] # None
               PROVE  WindowIsSound(p)'
    BY DEF WindowIsSound
  <2>1. PICK k \in Window : k = window[p]
    BY DEF SweepInv, TypeOK
  <2>2. k.since \in RunIds /\ k.success \in RunIds /\ k.checked \in RunIds
    BY <2>1 DEF Window
  <2>3. /\ k.since <= k.success /\ k.success <= k.checked /\ k.checked < nextRun
        /\ \A i \in {k.since, k.success} :
             /\ attempt[i].status # "failed"
             /\ attempt[i].status = "running" => Committing(i)
    BY <2>1 DEF RunsInv, WindowIsSound
  <2>4. k.since < nextRun /\ k.success < nextRun
    BY <2>2, <2>3 DEF SweepInv, TypeOK, RunIds
  <2>5. \A i \in {k.since, k.success} :
             /\ attempt'[i].status # "failed"
             /\ attempt'[i].status = "running" => Committing(i)'
    BY <1>2, <2>2, <2>3, <2>4
  <2>6. k.checked < nextRun'
    BY <1>2, <2>2, <2>3
  <2> QED
    BY <2>1, <2>3, <2>5, <2>6 DEF WindowIsSound
<1> QED
  BY <1>3, <1>4, <1>5, <1>6 DEF RunsInv

\* A refusal is told as a failed run with nothing loaded.
LEMMA SkipTells ==
    ASSUME SweepInv, RunsInv, NEW c \in Sweepers, Skip(c)
    PROVE  RunsInv'
<1>1. PICK opened : opened = [portal |-> None, status |-> "skipped", counts |-> NoTally]
  OBVIOUS
<1>2. opened \in Ingestion /\ opened.status = "skipped"
  BY <1>1 DEF Ingestion, NoTally, Tallies
<1>3. /\ UNCHANGED <<died, window, row, history, collector>>
      /\ nextRun <= MaxIngestions /\ nextRun' = nextRun + 1
      /\ attempt' = [attempt EXCEPT ![nextRun] = opened]
  BY <1>1 DEF Skip, register
<1>4. \A i \in RunIds : (HasOwner(i) => HasOwner(i)') /\ (Committing(i) => Committing(i)')
  BY <1>3 DEF HasOwner, Committing
<1>5. ASSUME NEW o \in Sweepers
      PROVE  LoadIsDated(collector[o])'
  <2>1. PICK w : w = collector[o] /\ LoadIsDated(w) /\ StageIsSound(w)
    BY DEF RunsInv, SweepInv
  <2>2. w.stage = "committed" => attempt'[w.run] = attempt[w.run]
    <3>1. w.stage = "committed" => w.run \in RunIds /\ w.run < nextRun
      BY <2>1 DEF StageIsSound, AtWork
    <3> QED
      BY <1>3, <3>1 DEF SweepInv, TypeOK, RunIds
  <2>3. LoadIsDated(w)'
    BY <1>3, <2>1, <2>2 DEF LoadIsDated, RowsOf, CountsAreRight
  <2>4. collector'[o] = w
    BY <1>3, <2>1
  <2> QED
    BY <2>3, <2>4 DEF LoadIsDated, CountsAreRight
<1>6. opened # None
  BY <1>2, ConstantsAssumption
<1> QED
  BY <1>2, <1>3, <1>4, <1>5, <1>6, RunOpens

\* A run is opened over no row.
LEMMA OpenIngestionTells ==
    ASSUME SweepInv, RunsInv, NEW c \in Sweepers, NEW p \in Portals, OpenIngestion(c, p)
    PROVE  RunsInv'
<1>1. PICK w \in Collector : w = collector[c] /\ StageIsSound(w) /\ w.stage = "sweeping"
  BY DEF SweepInv, TypeOK, OpenIngestion
<1>2. PICK reading \in [Tenders -> Readings \cup {None}] :
                Moved(c, [collector[c] EXCEPT !.stage = "opened", !.run = nextRun,
                             !.todo = @ \ {p}, !.reading = reading])
  BY OpenIngestionKeeps
<1>3. PICK now : now = [w EXCEPT !.stage = "opened", !.run = nextRun,
                             !.todo = @ \ {p}, !.reading = reading]
  OBVIOUS
<1>4. Moved(c, now)
  BY <1>1, <1>2, <1>3
<1>5. /\ now.stage = "opened" /\ now.run = nextRun /\ now.mine = w.mine /\ now.outcome = w.outcome
  BY <1>1, <1>3 DEF Collector
<1>6. w.run = 0 /\ \A t \in Tenders : w.mine[t] = None /\ w.outcome[t] = "none"
  BY <1>1, AnySweeping DEF StageIsSound, AtWork
<1>7. PICK opened : opened = [portal |-> p, status |-> "running", counts |-> NoTally]
  OBVIOUS
<1>8. opened \in Ingestion /\ opened.status = "running" /\ opened # None
  BY <1>7, ConstantsAssumption DEF Ingestion, NoTally, Tallies
<1>9. /\ UNCHANGED <<died, window, row, history>>
      /\ nextRun <= MaxIngestions /\ nextRun' = nextRun + 1
      /\ attempt' = [attempt EXCEPT ![nextRun] = opened]
  BY <1>7 DEF OpenIngestion, register
<1>10. LoadIsDated(now)'
  <2>1. ASSUME NEW q \in Portals, window[q] # None
        PROVE  window[q].success < nextRun /\ window[q].checked <= nextRun
    <3>1. PICK k \in Window : k = window[q]
      BY <2>1 DEF SweepInv, TypeOK
    <3>2. k.success \in Int /\ k.checked \in Int /\ nextRun \in Int
      BY <3>1 DEF Window, RunIds, SweepInv, TypeOK
    <3>3. k.success <= k.checked /\ k.checked < nextRun
      BY <2>1, <3>1 DEF RunsInv, WindowIsSound
    <3> QED
      BY <3>1, <3>2, <3>3
  <2>2. RowsOf(nextRun) = {}
    BY DEF RowsOf, RunsInv, RowIsDated, SweepInv, TypeOK
  <2>3. \A v \in history : v.run # nextRun
    BY DEF RunsInv, SweepInv, TypeOK
  <2> QED
    BY <1>5, <1>6, <1>9, <2>1, <2>2, <2>3 DEF LoadIsDated, RowsOf
<1>11. \A o \in Sweepers : LoadIsDated(collector[o])'
  BY <1>4, <1>10, OneIsDated
<1>12. PICK n : n = nextRun /\ now.run = n
  BY <1>5
<1>13. HasOwner(n)'
  BY <1>4, <1>12 DEF HasOwner, Moved
<1>14. \A i \in RunIds : (HasOwner(i) => HasOwner(i)') /\ (Committing(i) => Committing(i)')
  <2> TAKE i \in RunIds
  <2>1. w.run # i
    BY <1>6 DEF RunIds
  <2> QED
    BY <1>1, <1>4, <1>9, <2>1, StoppedOwnsNothing DEF HasOwner, Committing
<1> QED
  BY <1>8, <1>9, <1>11, <1>12, <1>13, <1>14, RunOpens

-----------------------------------------------------------------------------

\* Only the window of its own portal is touched when a load begins.
LEMMA BeginLoadTells ==
    ASSUME SweepInv, RunsInv, NEW c \in Sweepers, BeginLoad(c)
    PROVE  RunsInv'
<1>1. PICK w \in Collector : /\ w = collector[c] /\ StageIsSound(w) /\ LoadIsDated(w)
                             /\ w.stage = "opened"
  BY DEF SweepInv, TypeOK, RunsInv, BeginLoad
<1>2. PICK m \in Nat : m = Mark /\ \A v \in history : v.id <= m
  BY MarkIsHighest
<1>3. PICK now : now = [w EXCEPT !.stage = "loading", !.mark = m]
  OBVIOUS
<1>4. Moved(c, now)
  BY <1>1, <1>2, <1>3, BeginLoadKeeps
<1>5. /\ now.stage = "loading" /\ now.run = w.run /\ now.mine = w.mine /\ now.mark = m
      /\ now.outcome = w.outcome
  BY <1>1, <1>3 DEF Collector
<1>6. PICK i \in RunIds, p \in Portals : i = w.run /\ p = attempt[i].portal /\ i < nextRun
  BY <1>1 DEF StageIsSound, AtWork
<1>7. UNCHANGED <<attempt, nextRun, row, history, died>>
  BY DEF BeginLoad, runs
<1>8. window' = [window EXCEPT ![p] = Touched(p, i)]
  BY <1>1, <1>6 DEF BeginLoad, Loading
<1>9. \A q \in Portals :
        /\ window'[q] = None <=> window[q] = None
        /\ window[q] # None =>
             /\ window'[q].since = window[q].since
             /\ window'[q].success = window[q].success
             /\ window'[q].checked = IF q = p THEN i ELSE window[q].checked
  <2> TAKE q \in Portals
  <2>1. CASE q # p
    BY <1>8, <2>1 DEF SweepInv, TypeOK
  <2>2. CASE q = p /\ window[q] = None
    BY <1>8, <2>2 DEF SweepInv, TypeOK, Touched
  <2>3. CASE q = p /\ window[q] # None
    <3>1. PICK k \in Window : k = window[p]
      BY <2>3 DEF SweepInv, TypeOK
    <3>2. PICK after : after = [k EXCEPT !.checked = i]
      OBVIOUS
    <3>3. window'[p] = after
      BY <1>8, <2>3, <3>1, <3>2 DEF SweepInv, TypeOK, Touched
    <3>4. after = [since |-> k.since, success |-> k.success, checked |-> i]
      BY <3>1, <3>2 DEF Window
    <3>5. after \in Window
      BY <3>1, <3>4 DEF Window
    <3>6. after # None
      BY <3>5, ConstantsAssumption
    <3> QED
      BY <2>3, <3>1, <3>3, <3>4, <3>6
  <2> QED
    BY <2>1, <2>2, <2>3
<1>10. \A j : RowsOf(j)' = RowsOf(j)
  BY <1>7 DEF RowsOf
<1>11. \A q \in Portals : window[q] # None => window[q].success < i /\ window[q].checked <= i
  BY <1>1, <1>6 DEF LoadIsDated
<1>12. \A o \in Sweepers : LoadIsDated(collector[o])'
  <2>1. \A q \in Portals : window'[q] # None => window'[q].success < i /\ window'[q].checked <= i
    BY <1>9, <1>11 DEF RunIds
  <2>2. LoadIsDated(now)'
    BY <1>1, <1>2, <1>5, <1>6, <1>7, <1>10, <2>1 DEF LoadIsDated
  <2> QED
    BY <1>4, <2>2, OneIsDated
<1>13. \A j \in RunIds : (HasOwner(j) => HasOwner(j)') /\ (Committing(j) => Committing(j)')
  <2> TAKE j \in RunIds
  <2>1. collector'[c] = now
    BY <1>4 DEF Moved
  <2> QED
    BY <1>1, <1>4, <1>5, <1>7, <2>1, StoppedOwnsNothing DEF HasOwner, Committing
<1>14. \A t \in Tenders : RowIsDated(t)'
  <2>1. \A t \in Tenders : PortalOf[t] \in Portals
    BY ConstantsAssumption
  <2> QED
    BY <1>7, <1>9, <2>1 DEF RunsInv, RowIsDated
<1>15. \A j \in RunIds : RunIsSound(j)'
  <2> TAKE j \in RunIds
  <2>1. CountsAreRight(j, attempt[j].counts) => CountsAreRight(j, attempt[j].counts)'
    BY <1>7, <1>9, <1>10 DEF CountsAreRight
  <2> QED
    BY <1>7, <1>10, <1>13, <2>1 DEF RunsInv, RunIsSound
<1>16. \A q \in Portals : WindowIsSound(q)'
  <2> SUFFICES ASSUME NEW q \in Portals, window'[q] # None
               PROVE  WindowIsSound(q)'
    BY DEF WindowIsSound
  <2>1. window[q] # None /\ WindowIsSound(q)
    BY <1>9 DEF RunsInv
  <2>2. PICK k \in Window : k = window[q]
    BY <2>1 DEF SweepInv, TypeOK
  <2>3. k.since \in RunIds /\ k.success \in RunIds /\ k.checked \in RunIds
    BY <2>2 DEF Window
  <2>4. k.success < i
    BY <1>11, <2>1, <2>2
  <2>5. k.success <= window'[q].checked /\ window'[q].checked < nextRun
    BY <1>6, <1>9, <2>1, <2>2, <2>3, <2>4 DEF WindowIsSound, RunIds
  <2> QED
    BY <1>7, <1>9, <1>13, <2>1, <2>2, <2>3, <2>5 DEF WindowIsSound
<1>17. \A v \in history' : v.run < nextRun'
  BY <1>7 DEF RunsInv
<1> QED
  BY <1>12, <1>14, <1>15, <1>16, <1>17 DEF RunsInv

-----------------------------------------------------------------------------

\* A run that is closed, soundly, disturbs no other.
LEMMA RunEnds ==
    ASSUME SweepInv, RunsInv, NEW c \in Sweepers, NEW i \in RunIds, i = collector[c].run,
           NEW todo, Moved(c, Sweeping(todo)),
           attempt'[i].portal = attempt[i].portal,
           \A j \in RunIds : j # i => attempt'[j] = attempt[j],
           UNCHANGED <<nextRun, died, window, row, history>>,
           RunIsSound(i)', attempt'[i].status # "running",
           \/ attempt'[i].status # "failed"
           \/ \A q \in Portals : window[q] # None => window[q].success < i
    PROVE  RunsInv'
<1>1. \A j : RowsOf(j)' = RowsOf(j)
  BY DEF RowsOf
<1>2. \A o \in Sweepers : LoadIsDated(collector[o])'
  <2>1. (\A s : LoadIsDated(Sweeping(s)))'
    BY SweepingIsDated, PTL
  <2>2. LoadIsDated(Sweeping(todo))'
    BY <2>1
  <2> QED
    BY <2>2, OneIsDated
<1>3. \A j \in RunIds : j # i => (HasOwner(j) => HasOwner(j)') /\ (Committing(j) => Committing(j)')
  BY StoppedOwnsNothing DEF HasOwner, Committing
<1>4. \A t \in Tenders : RowIsDated(t)'
  <2> TAKE t \in Tenders
  <2>1. row[t] # None => row[t].run \in RunIds
    BY DEF SweepInv, TypeOK, Row
  <2> QED
    BY <2>1 DEF RunsInv, RowIsDated
<1>5. \A j \in RunIds : RunIsSound(j)'
  <2> TAKE j \in RunIds
  <2>1. CASE j # i
    <3>1. attempt'[j] = attempt[j] /\ RunIsSound(j)
      BY <2>1 DEF RunsInv
    <3>2. CountsAreRight(j, attempt[j].counts) => CountsAreRight(j, attempt[j].counts)'
      BY <1>1, <3>1 DEF CountsAreRight
    <3> QED
      BY <1>1, <1>3, <2>1, <3>1, <3>2 DEF RunIsSound
  <2> QED
    BY <2>1
<1>6. \A q \in Portals : WindowIsSound(q)'
  <2> SUFFICES ASSUME NEW q \in Portals, window[q] # None
               PROVE  WindowIsSound(q)'
    BY DEF WindowIsSound
  <2>1. PICK k \in Window : k = window[q] /\ WindowIsSound(q)
    BY DEF SweepInv, TypeOK, RunsInv
  <2>2. k.since \in RunIds /\ k.success \in RunIds /\ k.since <= k.success
    BY <2>1 DEF Window, WindowIsSound
  <2>3. attempt'[i].status = "failed" => k.since # i /\ k.success # i
    BY <2>1, <2>2 DEF RunIds
  <2>4. \A j \in {k.since, k.success} : /\ attempt'[j].status # "failed"
                                        /\ attempt'[j].status = "running" => Committing(j)'
    BY <1>3, <2>1, <2>2, <2>3 DEF WindowIsSound
  <2> QED
    BY <2>1, <2>4 DEF WindowIsSound
<1>7. \A v \in history' : v.run < nextRun'
  BY DEF RunsInv
<1> QED
  BY <1>2, <1>4, <1>5, <1>6, <1>7 DEF RunsInv

\* A run that succeeded has the counts of what it loaded.
LEMMA CompleteIngestionTells ==
    ASSUME SweepInv, RunsInv, NEW c \in Sweepers, CompleteIngestion(c)
    PROVE  RunsInv'
<1>1. PICK w \in Collector : /\ w = collector[c] /\ StageIsSound(w) /\ LoadIsDated(w)
                             /\ w.stage = "committed"
  BY DEF SweepInv, TypeOK, RunsInv, CompleteIngestion
<1>2. PICK i, todo : i \in RunIds /\ i = w.run /\ todo = w.todo
  BY <1>1 DEF StageIsSound, AtWork
<1>3. /\ Moved(c, Sweeping(todo))
      /\ attempt'[i] # None
      /\ attempt'[i].status = "succeeded"
      /\ attempt'[i].counts = w.counts
      /\ attempt'[i].portal = attempt[i].portal
      /\ \A j \in RunIds : j # i => attempt'[j] = attempt[j]
  BY <1>1, <1>2, CompleteIngestionKeeps
<1>4. UNCHANGED <<nextRun, died, window, row, history>>
  BY DEF CompleteIngestion, register
<1>5. CountsAreRight(i, w.counts)
  BY <1>1, <1>2 DEF LoadIsDated
<1>6. CountsAreRight(i, w.counts)'
  BY <1>3, <1>4, <1>5 DEF CountsAreRight, RowsOf
<1>7. RunIsSound(i)'
  BY <1>3, <1>6 DEF RunIsSound, CountsAreRight
<1> QED
  BY <1>1, <1>2, <1>3, <1>4, <1>7, RunEnds

\* A run that failed has loaded nothing.
LEMMA LoadFailsTells ==
    ASSUME SweepInv, RunsInv, NEW c \in Sweepers, LoadFails(c)
    PROVE  RunsInv'
<1>1. PICK w \in Collector : /\ w = collector[c] /\ StageIsSound(w) /\ LoadIsDated(w)
                             /\ w.stage = "loading"
  BY DEF SweepInv, TypeOK, RunsInv, LoadFails
<1>2. PICK i, todo : i \in RunIds /\ i = w.run /\ todo = {}
  BY <1>1 DEF StageIsSound, AtWork
<1>3. /\ Moved(c, Sweeping(todo))
      /\ attempt'[i] # None
      /\ attempt'[i].status = "failed"
      /\ attempt'[i].portal = attempt[i].portal
      /\ \A j \in RunIds : j # i => attempt'[j] = attempt[j]
  BY <1>1, <1>2, LoadFailsKeeps DEF SweepStopped
<1>4. UNCHANGED <<nextRun, died, window, row, history>>
  BY DEF LoadFails, register
<1>5. /\ RowsOf(i) = {} /\ \A v \in history : v.run # i
      /\ \A q \in Portals : window[q] # None => window[q].success < i
  BY <1>1, <1>2 DEF LoadIsDated
<1>6. RunIsSound(i)'
  BY <1>3, <1>4, <1>5 DEF RunIsSound, RowsOf
<1> QED
  BY <1>1, <1>2, <1>3, <1>4, <1>5, <1>6, RunEnds

-----------------------------------------------------------------------------

\* What a load commits is what its run will say it did.
LEMMA CommitLoadTells ==
    ASSUME SweepInv, FilingInv, RunsInv, NEW c \in Sweepers, CommitLoad(c)
    PROVE  RunsInv'
<1>1. PICK w \in Collector : /\ w = collector[c] /\ StageIsSound(w) /\ LoadIsDated(w)
                             /\ FiledIsSound(w) /\ w.stage = "loading"
  BY DEF SweepInv, TypeOK, RunsInv, FilingInv, CommitLoad
<1>2. PICK i \in RunIds, p \in Portals :
        /\ i = w.run /\ i < nextRun
        /\ p = attempt[i].portal
        /\ attempt[i] # None /\ attempt[i].status = "running"
  BY <1>1 DEF StageIsSound, AtWork
<1>3. PICK n \in Tallies : n = CountsOf(c, Cardinality(NewVersions(c)))
  BY Counted
<1>4. PICK now : /\ Moved(c, now)
                 /\ now.stage = "committed" /\ now.run = i /\ now.counts = n
  BY <1>1, <1>2, <1>3, CommitMoves
<1>5. UNCHANGED <<attempt, nextRun, died>>
  BY DEF CommitLoad, runs
<1>6. \A t \in Tenders : row'[t] = IF w.mine[t] = None THEN row[t] ELSE w.mine[t]
  BY <1>1 DEF CommitLoad, OrOld
<1>7. history' = history \cup w.filed
  BY <1>1 DEF CommitLoad
<1>8. \A t \in Tenders : w.mine[t] # None => w.mine[t].run = i /\ PortalOf[t] = p
  BY <1>1, <1>2 DEF LoadIsDated, StageIsSound
<1>9. \A q \in Portals : window[q] # None => window[q].success < i /\ window[q].checked <= i
  BY <1>1, <1>2 DEF LoadIsDated
<1>10. RowsOf(i) = {} /\ \A v \in history : v.run # i
  BY <1>1, <1>2 DEF LoadIsDated
<1>11. /\ window'[p] # None
       /\ window'[p].success = i /\ window'[p].checked = i
       /\ window'[p].since = IF window[p] = None THEN i ELSE window[p].since
       /\ \A q \in Portals : q # p => window'[q] = window[q]
  <2>1. PICK after : after = IF window[p] = None THEN [since |-> i, success |-> i, checked |-> i]
                             ELSE [window[p] EXCEPT !.success = i, !.checked = i]
    OBVIOUS
  <2>2. after \in Window /\ after.success = i /\ after.checked = i
        /\ after.since = IF window[p] = None THEN i ELSE window[p].since
    <3>1. CASE window[p] = None
      BY <2>1, <3>1 DEF Window
    <3>2. CASE window[p] # None
      <4>1. PICK k \in Window : k = window[p]
        BY <3>2 DEF SweepInv, TypeOK
      <4> QED
        BY <2>1, <3>2, <4>1 DEF Window
    <3> QED
      BY <3>1, <3>2
  <2>3. window' = [window EXCEPT ![p] = after]
    BY <1>1, <1>2, <2>1 DEF CommitLoad, Loading
  <2> QED
    BY <2>2, <2>3, ConstantsAssumption DEF SweepInv, TypeOK
<1>12. \A t \in Tenders : row[t] # None =>
         /\ row[t].run \in RunIds /\ row[t].run < nextRun
         /\ attempt[row[t].run].portal = PortalOf[t]
         /\ window[PortalOf[t]] # None
  BY DEF SweepInv, TypeOK, Row, RunsInv, RowIsDated
\* The rows of another run, but for those this load has overwritten.
<1>13. \A j \in RunIds : j # i => RowsOf(j)' = {t \in RowsOf(j) : w.mine[t] = None}
  BY <1>6, <1>8 DEF RowsOf
<1>14. \A j \in RunIds : j # i /\ attempt[j].portal # p => RowsOf(j)' = RowsOf(j)
  BY <1>8, <1>12, <1>13 DEF RowsOf
<1>15. RowsOf(i)' = {t \in Tenders : w.mine[t] # None}
  <2>1. \A t \in Tenders : w.mine[t] = None => ~(row'[t] # None /\ row'[t].run = i)
    BY <1>6, <1>10 DEF RowsOf
  <2>2. \A t \in Tenders : w.mine[t] # None => row'[t] # None /\ row'[t].run = i
    BY <1>6, <1>8
  <2> QED
    BY <2>1, <2>2 DEF RowsOf
<1>16. CountsAreRight(i, n)'
  <2>1. PICK changed \in Nat : changed = Cardinality(NewVersions(c))
    BY Counted
  <2>2. changed <= Count(c, "updated")
    BY <1>1, <2>1, NoMoreThanUpdated
  <2>3. Written(c)
    BY DEF CommitLoad
  <2>4. /\ n.seen = Cardinality(Advertised(c))
        /\ n.inserted = Count(c, "inserted") /\ n.updated = changed
        /\ n.unchanged = Count(c, "updated") - changed
        /\ n.rejected = Count(c, "rejected")
    BY <1>3, <2>1 DEF CountsOf
  <2>5. n.unchanged >= 0 /\ n.seen = n.inserted + n.updated + n.unchanged + n.rejected
    <3>1. PICK ins \in Nat, upd \in Nat, rej \in Nat :
            /\ ins = Count(c, "inserted") /\ upd = Count(c, "updated")
            /\ rej = Count(c, "rejected")
            /\ Cardinality(Advertised(c)) = ins + upd + rej
      BY <1>1, <2>3, CountsAddUp
    <3>2. /\ n.seen = ins + upd + rej /\ n.inserted = ins /\ n.updated = changed
          /\ n.unchanged = upd - changed /\ n.rejected = rej /\ changed <= upd
      BY <2>2, <2>4, <3>1
    <3> QED
      BY <3>1, <3>2
  <2>6. n.seen - n.rejected = Cardinality({t \in Tenders : w.mine[t] # None})
    BY <1>1, <2>3, <2>4, CountsAddUp
  <2>7. n.seen - n.rejected = Cardinality(RowsOf(i)')
    BY <1>15, <2>6
  <2>8. (n.seen - n.rejected = Cardinality(RowsOf(i)))'
    BY <2>7
  <2>9. window'[p].since <= i /\ i <= window'[p].success
    <3>1. CASE window[p] = None
      BY <1>11, <3>1 DEF RunIds
    <3>2. CASE window[p] # None
      <4>1. PICK k \in Window : k = window[p]
        BY <3>2 DEF SweepInv, TypeOK
      <4>2. k.since \in Int /\ k.success \in Int /\ k.since <= k.success /\ k.success < i
        BY <1>9, <3>2, <4>1 DEF Window, RunIds, RunsInv, WindowIsSound
      <4> QED
        BY <1>11, <3>2, <4>1, <4>2 DEF RunIds
    <3> QED
      BY <3>1, <3>2
  <2> QED
    BY <1>2, <1>5, <1>11, <2>5, <2>8, <2>9 DEF CountsAreRight
<1>17. \A o \in Sweepers : LoadIsDated(collector[o])'
  <2>1. LoadIsDated(now)'
    BY <1>2, <1>4, <1>5, <1>11, <1>16 DEF LoadIsDated
  <2> QED
    BY <1>4, <2>1, OneIsDated
<1>18. HasOwner(i)' /\ Committing(i)'
  BY <1>4 DEF Moved, HasOwner, Committing
<1>19. \A j \in RunIds : j # i => (HasOwner(j) => HasOwner(j)') /\ (Committing(j) => Committing(j)')
  BY <1>1, <1>2, <1>4, <1>5, StoppedOwnsNothing DEF HasOwner, Committing
<1>20. \A t \in Tenders : RowIsDated(t)'
  <2> TAKE t \in Tenders
  <2>1. CASE w.mine[t] = None
    <3>1. row[t] # None => window'[PortalOf[t]] # None
      BY <1>11, <1>12, ConstantsAssumption
    <3> QED
      BY <1>5, <1>6, <1>12, <2>1, <3>1 DEF RowIsDated
  <2>2. CASE w.mine[t] # None
    BY <1>2, <1>5, <1>6, <1>8, <1>11, <2>2 DEF RowIsDated
  <2> QED
    BY <2>1, <2>2
<1>21. \A v \in w.filed : \E t \in Tenders : row[t] # None /\ v.run = row[t].run
  BY <1>1 DEF FiledIsSound, Collector, Version
<1>22. \A v \in history' : v.run < nextRun'
  BY <1>5, <1>7, <1>12, <1>21 DEF RunsInv
<1>23. \A j \in RunIds : RunIsSound(j)'
  <2> SUFFICES ASSUME NEW j \in RunIds, attempt[j] # None
               PROVE  RunIsSound(j)'
    BY <1>5 DEF RunIsSound
  <2>1. CASE j = i
    BY <1>2, <1>5, <1>18, <2>1 DEF RunIsSound
  <2>2. CASE j # i
    <3>1. RunIsSound(j)
      BY DEF RunsInv
    <3>2. attempt[j].status = "failed" => RowsOf(j)' = {} /\ \A v \in history' : v.run # j
      <4> SUFFICES ASSUME attempt[j].status = "failed"
                   PROVE  RowsOf(j)' = {} /\ \A v \in history' : v.run # j
        OBVIOUS
      <4>1. RowsOf(j) = {} /\ \A v \in history : v.run # j
        BY <3>1 DEF RunIsSound
      <4>2. \A v \in w.filed : v.run # j
        BY <1>21, <4>1 DEF RowsOf
      <4>3. RowsOf(j)' = {}
        BY <1>13, <2>2, <4>1
      <4> QED
        BY <1>7, <4>1, <4>2, <4>3
    <3>3. ASSUME attempt[j].status = "succeeded"
          PROVE  CountsAreRight(j, attempt[j].counts)'
      <4>1. CountsAreRight(j, attempt[j].counts)
        BY <3>1, <3>3 DEF RunIsSound
      <4>2. CASE attempt[j].portal # p
        <5>1. RowsOf(j)' = RowsOf(j)
          BY <1>14, <2>2, <4>2
        <5>2. attempt[j].portal \in Portals /\ window'[attempt[j].portal] = window[attempt[j].portal]
          BY <1>11, <4>1, <4>2 DEF CountsAreRight
        <5> QED
          BY <1>5, <4>1, <5>1, <5>2 DEF CountsAreRight
      <4>3. CASE attempt[j].portal = p
        <5>1. PICK k \in Window : k = window[p] /\ window[p] # None
          BY <4>1, <4>3 DEF CountsAreRight, SweepInv, TypeOK
        <5>2. k.since <= j /\ j <= k.success /\ k.success < i /\ k.success \in Int
          BY <1>9, <4>1, <4>3, <5>1 DEF CountsAreRight, Window, RunIds
        <5>3. window'[p].since <= j /\ j <= window'[p].success /\ window'[p].success # j
          BY <1>11, <2>2, <5>1, <5>2 DEF RunIds
        <5> QED
          BY <1>5, <1>11, <4>1, <4>3, <5>3 DEF CountsAreRight
      <4> QED
        BY <4>2, <4>3
    <3> QED
      BY <1>5, <1>19, <2>2, <3>1, <3>2, <3>3 DEF RunIsSound
  <2> QED
    BY <2>1, <2>2
<1>24. \A q \in Portals : WindowIsSound(q)'
  <2> TAKE q \in Portals
  <2>1. CASE q = p
    <3>1. CASE window[p] = None
      <4>1. window'[p].since = i
        BY <1>11, <3>1
      <4>2. /\ window'[p].since <= window'[p].success
            /\ window'[p].success <= window'[p].checked
            /\ window'[p].checked < nextRun'
        <5>1. i \in Nat /\ i <= i /\ i < nextRun'
          BY <1>2, <1>5 DEF RunIds
        <5> QED
          BY <1>11, <4>1, <5>1
      <4>3. /\ attempt'[i].status # "failed"
            /\ attempt'[i].status = "running" => Committing(i)'
        BY <1>2, <1>5, <1>18
      <4>4. {window'[p].since, window'[p].success} = {i}
        BY <1>11, <4>1
      <4>5. WindowIsSound(p)'
        BY <4>2, <4>3, <4>4 DEF WindowIsSound
      <4> QED
        BY <2>1, <4>5
    <3>2. CASE window[p] # None
      <4>1. PICK k \in Window : k = window[p] /\ WindowIsSound(p)
        BY <3>2 DEF SweepInv, TypeOK, RunsInv
      <4>2. /\ k.since \in RunIds /\ k.success \in RunIds
            /\ k.since <= k.success /\ k.success < i
        BY <1>9, <3>2, <4>1 DEF Window, WindowIsSound
      <4>3. k.since < i /\ k.since # i
        BY <4>2 DEF RunIds
      <4>4. attempt[k.since].status # "failed"
            /\ (attempt[k.since].status = "running" => Committing(k.since)')
        BY <1>19, <3>2, <4>1, <4>2, <4>3 DEF WindowIsSound
      <4>5. window'[p].since = k.since
        BY <1>11, <3>2, <4>1
      <4>6. /\ window'[p].since <= window'[p].success
            /\ window'[p].success <= window'[p].checked
            /\ window'[p].checked < nextRun'
        <5>1. k.since \in Nat /\ i \in Nat /\ i <= i
          BY <4>2 DEF RunIds
        <5>2. k.since <= i
          BY <4>3, <5>1
        <5>3. /\ window'[p].since = k.since
              /\ window'[p].success = i /\ window'[p].checked = i
          BY <1>11, <4>5
        <5>4. i < nextRun'
          BY <1>2, <1>5
        <5> QED
          BY <5>1, <5>2, <5>3, <5>4
      <4>7. /\ attempt'[k.since].status # "failed"
            /\ attempt'[k.since].status = "running" => Committing(k.since)'
            /\ attempt'[i].status # "failed"
            /\ attempt'[i].status = "running" => Committing(i)'
        BY <1>2, <1>5, <1>18, <4>4
      <4>8. {window'[p].since, window'[p].success} = {k.since, i}
        BY <1>11, <4>5
      <4>9. \A j \in {window'[p].since, window'[p].success} :
              /\ attempt'[j].status # "failed"
              /\ attempt'[j].status = "running" => Committing(j)'
        BY <4>7, <4>8
      <4>10. WindowIsSound(p)'
        BY <4>6, <4>9 DEF WindowIsSound
      <4> QED
        BY <2>1, <4>10
    <3> QED
      BY <3>1, <3>2
  <2>2. CASE q # p
    <3> SUFFICES ASSUME window[q] # None
                 PROVE  WindowIsSound(q)'
      BY <1>11, <2>2 DEF WindowIsSound
    <3>1. PICK k \in Window : k = window[q] /\ WindowIsSound(q)
      BY DEF SweepInv, TypeOK, RunsInv
    <3>2. k.since \in RunIds /\ k.success \in RunIds /\ k.since <= k.success /\ k.success < i
      BY <1>9, <3>1 DEF Window, WindowIsSound
    <3>3. k.since # i /\ k.success # i
      BY <3>2 DEF RunIds
    <3>4. window'[q] = k
      BY <1>11, <2>2, <3>1
    <3> QED
      BY <1>5, <1>19, <3>1, <3>2, <3>3, <3>4 DEF WindowIsSound
  <2> QED
    BY <2>1, <2>2
<1> QED
  BY <1>17, <1>20, <1>22, <1>23, <1>24 DEF RunsInv

-----------------------------------------------------------------------------

\* Reviewers and the resolver move no run.
LEMMA ErrandTells ==
    ASSUME RunsInv, UNCHANGED Sweeps, SameReadings
    PROVE  RunsInv'
<1>1. UNCHANGED <<attempt, nextRun, died, window, history, collector>>
  BY DEF Sweeps, runs
<1>2. \A i : RowsOf(i)' = RowsOf(i)
  BY DEF RowsOf, SameReadings
<1>3. \A i : CountsAreRight(i, attempt[i].counts) => CountsAreRight(i, attempt[i].counts)'
  BY <1>1, <1>2 DEF CountsAreRight
<1>4. ASSUME NEW c \in Sweepers
      PROVE  LoadIsDated(collector[c])'
  <2>1. PICK w : w = collector[c] /\ LoadIsDated(w)
    BY DEF RunsInv
  <2>2. CountsAreRight(w.run, w.counts) => CountsAreRight(w.run, w.counts)'
    BY <1>1, <1>2 DEF CountsAreRight
  <2>3. LoadIsDated(w)'
    BY <1>1, <1>2, <2>1, <2>2 DEF LoadIsDated, SameReadings
  <2> QED
    BY <1>1, <2>1, <2>3 DEF LoadIsDated, CountsAreRight
<1>5. \A t \in Tenders : RowIsDated(t)'
  BY <1>1 DEF RunsInv, RowIsDated, SameReadings
<1>6. \A i \in RunIds : RunIsSound(i)'
  BY <1>1, <1>2, <1>3 DEF RunsInv, RunIsSound, HasOwner
<1>7. \A p \in Portals : WindowIsSound(p)'
  BY <1>1 DEF RunsInv, WindowIsSound, Committing
<1> QED
  BY <1>1, <1>4, <1>5, <1>6, <1>7 DEF RunsInv

\* Each step leaves the runs told truly.
LEMMA RunsSteps ==
    ASSUME SweepInv, FilingInv, RunsInv, [Next]_vars
    PROVE  RunsInv'
<1>1. ASSUME NEW c \in Sweepers, TakeLock(c) \/ Skip(c) \/ Crash(c) \/ CollectPortal(c)
      PROVE  RunsInv'
  BY <1>1, UnseenSteps, SkipTells, OpenIngestionTells, BeginLoadTells, CommitLoadTells,
     CompleteIngestionTells, LoadFailsTells DEF CollectPortal
<1>2. ASSUME NEW r \in Reviewers, PlaceTender(r)
      PROVE  RunsInv'
  BY <1>2, ErrandTells, PlacedReadsTheSame DEF PlaceTender, Sweeps, runs
<1>3. ASSUME NEW t \in Tenders, Resolve(t)
      PROVE  RunsInv'
  BY <1>3, ErrandTells, PlacedReadsTheSame DEF Resolve, Sweeps, runs
<1>4. ASSUME UNCHANGED Sweeps, UNCHANGED row
      PROVE  RunsInv'
  BY <1>4, ErrandTells DEF SameReadings
<1>5. ASSUME NEW r \in Reviewers,
             \/ \E t \in Tenders, d \in Districts \cup {None} : ReadTender(r, t, d)
             \/ RecordDecision(r) \/ GiveUp(r)
      PROVE  RunsInv'
  BY <1>4, <1>5 DEF ReadTender, RecordDecision, GiveUp, register, Sweeps, runs
<1>6. ASSUME ReadUnplaced \/ UNCHANGED vars
      PROVE  RunsInv'
  BY <1>4, <1>6 DEF ReadUnplaced, vars, register, Sweeps, runs
<1> QED
  BY <1>1, <1>2, <1>3, <1>5, <1>6 DEF Next

\* What a run and its portal's window say of a sweep is what the load did: a
\* run that succeeded accounts for each tender it saw, one that failed left no
\* row and no version, one still running has a collector or lost it, and a
\* window dates no run that failed.
THEOREM SweepsToldTruly == Spec => []SweepsAreToldTruly
<1>1. TenderInit => SweepInv /\ FilingInv /\ RunsInv
  BY SweepStarts, FilingStarts, RunsStart
<1>2. SweepInv /\ FilingInv /\ RunsInv /\ [Next]_vars => FilingInv' /\ RunsInv'
  BY FilingSteps, RunsSteps
<1>3. SweepInv /\ RunsInv => SweepsAreToldTruly
  BY RunsInvImplies
<1> QED
  BY <1>1, <1>2, <1>3, LedgerIsInOrder, PTL DEF Spec

-----------------------------------------------------------------------------
(* The daily check: QuietMeansCollected.                                   *)

WatchedWindow == [success : -1..MaxTime, checked : -1..MaxTime]

Attempt == [of : Watched \cup {"all"}, sweep : Nat, at : 0..MaxTime,
            status : {"running", "succeeded", "failed", "skipped"}]

SweepAtWork == [on : BOOLEAN, began : 0..MaxTime, left : SUBSET Watched,
                now : Watched \cup {"nothing"}, since : 0..MaxTime]

CheckAtWork == [stage : {"off", "windows", "sweep", "stuck", "assessed", "told"},
                began : 0..MaxTime, windows : SUBSET WatchedWindow, newest : -1..MaxTime,
                verdict : {"none", "healthy", "problems"}]

WatchTypeOK ==
    /\ today \in 0..MaxTime
    /\ windows \in [Watched -> WatchedWindow]
    /\ attempts \subseteq Attempt
    /\ sweeping \in SweepAtWork
    /\ sweepsMade \in 0..MaxSweeps
    /\ check \in CheckAtWork
    /\ checksMade \in 0..MaxChecks
    /\ alert \in BOOLEAN

\* A sweep is over before the second midnight, and the load it is at was opened
\* since it began, after everything its window says.
SweepIsRecent ==
    /\ sweeping.on => today - 1 <= sweeping.began /\ sweeping.began <= today
    /\ sweeping.now # "nothing" =>
         /\ sweeping.on
         /\ sweeping.began <= sweeping.since /\ sweeping.since <= today
         /\ windows[sweeping.now].success <= sweeping.since

\* Nothing that is dated is dated ahead, and a window has a success or is none.
DatesArePast ==
    /\ check.began <= today
    /\ \A p \in Watched : windows[p] = NoWindow \/ windows[p].success \in 0..today
    /\ \A r \in attempts : r.at <= today

\* Said of a window that has come or moved since it was read, or that the check
\* saw when it was no better than it is now.
ReadsStillHold(p) ==
    \/ windows[p] = NoWindow
    \/ windows[p].success >= check.began - 1
    \/ \E w \in check.windows : w.success <= windows[p].success

CollectedFor(began) ==
    /\ \A p \in Watched : windows[p] = NoWindow \/ windows[p].success >= began - StaleAfter
    /\ \E r \in attempts : r.at >= began - SweepWithin
    /\ \A r \in attempts : r.status = "running" => r.at >= began - StuckAfter

CheckIsSound ==
    /\ check.stage \in {"sweep", "stuck"} => \A p \in Watched : ReadsStillHold(p)
    /\ check.stage = "stuck" => check.newest = -1 \/ \E r \in attempts : r.at = check.newest
    /\ check.stage \in {"assessed", "told"} => check.verdict # "none"
    /\ check.verdict = "healthy" =>
         check.stage \in {"assessed", "told"} /\ CollectedFor(check.began)
    /\ check.stage = "told" => alert = (check.verdict = "problems")

WatchInv ==
    /\ WatchTypeOK
    /\ SweepIsRecent
    /\ DatesArePast
    /\ CheckIsSound

\* A check that left no alert open saw what it says.
LEMMA WatchInvImplies == ASSUME WatchInv PROVE QuietMeansCollected
<1>1. check.verdict \in {"none", "healthy", "problems"} /\ alert \in BOOLEAN
  BY DEF WatchInv, WatchTypeOK, CheckAtWork
<1> QED
  BY <1>1 DEF WatchInv, CheckIsSound, CollectedFor, QuietMeansCollected

\* Before the first sweep there is nothing to watch.
LEMMA WatchStarts == ASSUME FreshnessInit PROVE WatchInv
<1> USE TicksAssumption DEF FreshnessInit, NoWindow, NoSweep, NoCheck
<1>1. WatchTypeOK
  <2>1. -1 \in -1..MaxTime /\ 0 \in 0..MaxTime /\ 0 \in 0..MaxSweeps /\ 0 \in 0..MaxChecks
    OBVIOUS
  <2>2. windows \in [Watched -> WatchedWindow]
    BY <2>1 DEF WatchedWindow
  <2>3. sweeping \in SweepAtWork
    BY <2>1 DEF SweepAtWork
  <2>4. check \in CheckAtWork
    BY <2>1 DEF CheckAtWork
  <2> QED
    BY <2>1, <2>2, <2>3, <2>4 DEF WatchTypeOK
<1>2. SweepIsRecent /\ DatesArePast
  BY DEF SweepIsRecent, DatesArePast
<1>3. CheckIsSound
  BY DEF CheckIsSound
<1> QED
  BY <1>1, <1>2, <1>3 DEF WatchInv


\* While the check reads nothing, what it has read still holds: windows come or
\* advance to yesterday or later, attempts keep their dates, and one that is
\* running was, or has been opened today.
SweepMoves ==
    /\ UNCHANGED <<today, check>>
    /\ check.stage = "told" => UNCHANGED alert
    /\ \A p \in Watched : \/ windows'[p] = NoWindow
                          \/ windows'[p].success >= today - 1
                          \/ windows[p] # NoWindow /\ windows'[p].success = windows[p].success
    /\ \A r \in attempts : \E k \in attempts' : k.at = r.at
    /\ \A k \in attempts' : k.status = "running" => k \in attempts \/ k.at = today

\* Whatever the sweep writes between its reads, what the check holds stays
\* true.
LEMMA SweepMovesKeeps ==
    ASSUME WatchInv, WatchTypeOK', SweepMoves
    PROVE  CheckIsSound'
<1>1. /\ today \in Nat /\ check.began \in Nat /\ check.began <= today
      /\ check.verdict \in {"none", "healthy", "problems"}
      /\ \A w \in check.windows : w.success \in Int
      /\ \A r \in attempts : r.at \in Nat
      /\ \A p \in Watched : windows[p].success \in Int /\ windows'[p].success \in Int
  BY TicksAssumption DEF WatchInv, WatchTypeOK, DatesArePast, CheckAtWork, WatchedWindow, Attempt
<1>2. /\ check' = check /\ CheckIsSound
      /\ check.stage = "told" => alert' = alert
      /\ \A k \in attempts' : k.status = "running" => k \in attempts \/ k.at = today
  BY DEF SweepMoves, WatchInv
<1>3. \A p \in Watched : ReadsStillHold(p) => ReadsStillHold(p)'
  <2> SUFFICES ASSUME NEW p \in Watched, ReadsStillHold(p), windows'[p] # NoWindow
               PROVE  ReadsStillHold(p)'
    BY DEF ReadsStillHold
  <2>1. CASE windows'[p].success >= today - 1
    BY <1>1, <1>2, <2>1 DEF ReadsStillHold
  <2>2. CASE windows[p] # NoWindow /\ windows'[p].success = windows[p].success
    BY <1>2, <2>2 DEF ReadsStillHold
  <2> QED
    BY <2>1, <2>2 DEF SweepMoves
<1>4. ASSUME CollectedFor(check.began) PROVE CollectedFor(check.began)'
  <2>1. ASSUME NEW p \in Watched
        PROVE  windows'[p] = NoWindow \/ windows'[p].success >= check.began - StaleAfter
    <3>1. CASE windows'[p].success >= today - 1
      BY <1>1, <3>1, TicksAssumption
    <3>2. CASE windows[p] # NoWindow /\ windows'[p].success = windows[p].success
      BY <1>4, <3>2 DEF CollectedFor
    <3> QED
      BY <3>1, <3>2 DEF SweepMoves
  <2>2. \E r \in attempts' : r.at >= check.began - SweepWithin
    BY <1>4 DEF CollectedFor, SweepMoves
  <2>3. \A r \in attempts' : r.status = "running" => r.at >= check.began - StuckAfter
    BY <1>1, <1>2, <1>4, TicksAssumption DEF CollectedFor
  <2> QED
    BY <1>2, <2>1, <2>2, <2>3 DEF CollectedFor
<1>5. check.stage = "stuck" => check.newest = -1 \/ \E r \in attempts' : r.at = check.newest
  BY <1>2 DEF CheckIsSound, SweepMoves
<1> QED
  BY <1>2, <1>3, <1>4, <1>5 DEF CheckIsSound

\* Time passes only over a sweep that began today.
LEMMA TimePassesWatched == ASSUME WatchInv, TimePasses PROVE WatchInv'
<1>1. today \in Nat /\ today' = today + 1 /\ today < MaxTime
  BY TicksAssumption DEF WatchInv, WatchTypeOK, TimePasses
<1>2. UNCHANGED <<windows, attempts, sweeping, sweepsMade, check, checksMade, alert>>
  BY DEF TimePasses
<1>3. WatchTypeOK'
  BY <1>1, <1>2, TicksAssumption
     DEF WatchInv, WatchTypeOK, WatchedWindow, Attempt, SweepAtWork, CheckAtWork
<1>4. SweepIsRecent'
  <2>1. sweeping.since \in Nat /\ sweeping.began \in Nat
    BY TicksAssumption DEF WatchInv, WatchTypeOK, SweepAtWork
  <2>2. sweeping.on => sweeping.began = today
    BY DEF TimePasses
  <2> QED
    BY <1>1, <1>2, <2>1, <2>2 DEF WatchInv, SweepIsRecent
<1>5. DatesArePast'
  <2>1. /\ check.began \in Nat /\ \A r \in attempts : r.at \in Nat
    BY TicksAssumption DEF WatchInv, WatchTypeOK, CheckAtWork, Attempt
  <2> QED
    BY <1>1, <1>2, <2>1 DEF WatchInv, DatesArePast
<1>6. CheckIsSound'
  BY <1>2 DEF WatchInv, CheckIsSound, ReadsStillHold, CollectedFor
<1> QED
  BY <1>3, <1>4, <1>5, <1>6 DEF WatchInv

\* A sweep starts, or is recorded as skipped.
LEMMA StartSweepWatched == ASSUME WatchInv, StartSweep PROVE WatchInv'
<1>1. UNCHANGED <<today, windows, check, checksMade, alert>> /\ today \in 0..MaxTime
  BY DEF StartSweep, WatchInv, WatchTypeOK
<1>2. sweepsMade' \in 0..MaxSweeps /\ sweepsMade \in Nat
  BY TicksAssumption DEF WatchInv, WatchTypeOK, StartSweep
<1>3. CASE sweeping.on
  <2>1. PICK r \in Attempt : /\ r = [of |-> "all", sweep |-> sweepsMade, at |-> today, status |-> "skipped"]
                             /\ r.at = today /\ r.status = "skipped"
    <3>1. PICK this : this = [of |-> "all", sweep |-> sweepsMade, at |-> today, status |-> "skipped"]
      OBVIOUS
    <3>2. this \in Attempt
      BY <3>1, <1>1, <1>2 DEF Attempt
    <3>3. this.at = today /\ this.status = "skipped"
      BY <3>1, <3>2, <1>1, <1>2 DEF Attempt
    <3> QED
      BY <3>1, <3>2, <3>3
  <2>2. attempts' = attempts \cup {r} /\ UNCHANGED sweeping
    BY <1>3, <2>1 DEF StartSweep
  <2>3. WatchTypeOK'
    BY <1>1, <1>2, <2>2 DEF WatchInv, WatchTypeOK
  <2>4. SweepIsRecent' /\ DatesArePast'
    BY <1>1, <2>1, <2>2, TicksAssumption DEF WatchInv, SweepIsRecent, DatesArePast
  <2>5. SweepMoves
    BY <1>1, <2>1, <2>2 DEF SweepMoves
  <2> QED
    BY <2>3, <2>4, <2>5, SweepMovesKeeps DEF WatchInv
<1>4. CASE ~sweeping.on
  <2>1. /\ UNCHANGED attempts
        /\ sweeping' = [on |-> TRUE, began |-> today, left |-> Watched, now |-> "nothing", since |-> 0]
    BY <1>4 DEF StartSweep, NoSweep
  <2>2. WatchTypeOK'
    BY <1>1, <1>2, <2>1, TicksAssumption DEF WatchInv, WatchTypeOK, SweepAtWork
  <2>3. SweepIsRecent' /\ DatesArePast'
    BY <1>1, <2>1, TicksAssumption DEF WatchInv, SweepIsRecent, DatesArePast
  <2>4. SweepMoves
    BY <1>1, <2>1 DEF SweepMoves
  <2> QED
    BY <2>2, <2>3, <2>4, SweepMovesKeeps DEF WatchInv
<1> QED
  BY <1>3, <1>4

\* A portal refuses.
LEMMA BeRefusedWatched == ASSUME WatchInv, NEW p \in Watched, BeRefused(p) PROVE WatchInv'
<1>1. UNCHANGED <<today, windows, attempts, sweepsMade, check, checksMade, alert>>
  BY DEF BeRefused
<1>2. PICK s \in SweepAtWork : /\ s = sweeping /\ s.on /\ s.now = "nothing"
  BY DEF BeRefused, WatchInv, WatchTypeOK
<1>3. PICK now \in SweepAtWork : /\ now = [s EXCEPT !.left = s.left \ {p}]
                                 /\ now.on /\ now.now = "nothing" /\ now.began = s.began
  <2>1. PICK this : this = [s EXCEPT !.left = s.left \ {p}]
    OBVIOUS
  <2>2. this \in SweepAtWork
    BY <2>1, <1>2 DEF SweepAtWork
  <2>3. this.on /\ this.now = "nothing" /\ this.began = s.began
    BY <2>1, <2>2, <1>2 DEF SweepAtWork
  <2> QED
    BY <2>1, <2>2, <2>3
<1>4. sweeping' = now
  BY <1>2, <1>3 DEF BeRefused
<1>5. WatchTypeOK'
  BY <1>1, <1>4 DEF WatchInv, WatchTypeOK
<1>6. SweepIsRecent' /\ DatesArePast'
  BY <1>1, <1>2, <1>3, <1>4 DEF WatchInv, SweepIsRecent, DatesArePast
<1>7. SweepMoves
  BY <1>1 DEF SweepMoves
<1> QED
  BY <1>5, <1>6, <1>7, SweepMovesKeeps DEF WatchInv

\* A load is opened and its attempt dated.
LEMMA OpenLoadWatched == ASSUME WatchInv, NEW p \in Watched, OpenLoad(p) PROVE WatchInv'
<1>1. UNCHANGED <<today, sweepsMade, check, checksMade, alert>> /\ today \in 0..MaxTime
  BY DEF OpenLoad, WatchInv, WatchTypeOK
<1>2. PICK s \in SweepAtWork : /\ s = sweeping /\ s.on /\ s.now = "nothing"
                               /\ today - 1 <= s.began /\ s.began <= today
  BY DEF OpenLoad, WatchInv, WatchTypeOK, SweepIsRecent
<1>3. PICK now \in SweepAtWork :
        /\ now = [s EXCEPT !.left = s.left \ {p}, !.now = p, !.since = today]
        /\ now.on /\ now.now = p /\ now.since = today /\ now.began = s.began
  <2>1. PICK this : this = [s EXCEPT !.left = s.left \ {p}, !.now = p, !.since = today]
    OBVIOUS
  <2>2. this \in SweepAtWork
    BY <2>1, <1>1, <1>2 DEF SweepAtWork
  <2>3. this.on /\ this.now = p /\ this.since = today /\ this.began = s.began
    BY <2>1, <2>2, <1>1, <1>2 DEF SweepAtWork
  <2> QED
    BY <2>1, <2>2, <2>3
<1>4. PICK r \in Attempt : /\ r = [of |-> p, sweep |-> sweepsMade, at |-> today, status |-> "running"]
                           /\ r.at = today /\ r.status = "running"
  <2>1. PICK this : this = [of |-> p, sweep |-> sweepsMade, at |-> today, status |-> "running"]
    OBVIOUS
  <2>2. this \in Attempt
    BY <2>1, <1>1, TicksAssumption DEF Attempt, WatchInv, WatchTypeOK
  <2>3. this.at = today /\ this.status = "running"
    BY <2>1, <2>2, <1>1, TicksAssumption DEF Attempt, WatchInv, WatchTypeOK
  <2> QED
    BY <2>1, <2>2, <2>3
<1>5. sweeping' = now /\ attempts' = attempts \cup {r}
  BY <1>2, <1>3, <1>4 DEF OpenLoad
<1>6. PICK k \in WatchedWindow : k = windows[p] /\ (k = NoWindow \/ k.success \in 0..today)
  BY DEF WatchInv, WatchTypeOK, DatesArePast
<1>7. PICK after \in WatchedWindow : /\ after = [k EXCEPT !.checked = IF k = NoWindow THEN k.checked ELSE today]
                                     /\ after.success = k.success
                                     /\ k = NoWindow => after = NoWindow
  <2>1. PICK this : this = [k EXCEPT !.checked = IF k = NoWindow THEN k.checked ELSE today]
    OBVIOUS
  <2>2. this \in WatchedWindow
    BY <2>1, <1>1, <1>6 DEF WatchedWindow, NoWindow
  <2>3. this.success = k.success /\ (k = NoWindow => this = NoWindow)
    BY <2>1, <2>2, <1>1, <1>6 DEF WatchedWindow, NoWindow
  <2> QED
    BY <2>1, <2>2, <2>3
<1>8. windows' = [windows EXCEPT ![p] = after]
  BY <1>6, <1>7 DEF OpenLoad
<1>9. /\ windows' \in [Watched -> WatchedWindow]
      /\ windows'[p] = after /\ \A q \in Watched : q # p => windows'[q] = windows[q]
  BY <1>8 DEF WatchInv, WatchTypeOK
<1>10. WatchTypeOK'
  BY <1>1, <1>5, <1>9 DEF WatchInv, WatchTypeOK
<1>11. \A q \in Watched : windows'[q] = NoWindow \/ (windows[q] # NoWindow /\ windows'[q].success = windows[q].success)
  BY <1>6, <1>7, <1>9
<1>12. DatesArePast'
  BY <1>1, <1>4, <1>5, <1>11, TicksAssumption DEF WatchInv, DatesArePast
<1>13. SweepIsRecent'
  <2>1. windows'[p].success <= today
    BY <1>6, <1>7, <1>9, <1>1, TicksAssumption DEF NoWindow
  <2>2. now.began \in Nat /\ today \in Nat
    BY <1>1, TicksAssumption DEF SweepAtWork
  <2> QED
    BY <1>1, <1>2, <1>3, <1>5, <2>1, <2>2 DEF SweepIsRecent
<1>14. SweepMoves
  BY <1>1, <1>4, <1>5, <1>11 DEF SweepMoves
<1> QED
  BY <1>10, <1>12, <1>13, <1>14, SweepMovesKeeps DEF WatchInv

\* A load ends, dated by when it was opened.
LEMMA EndLoadWatched == ASSUME WatchInv, NEW succeeds \in BOOLEAN, EndLoad(succeeds) PROVE WatchInv'
<1>1. UNCHANGED <<today, sweepsMade, check, checksMade, alert>> /\ today \in 0..MaxTime
  BY DEF EndLoad, WatchInv, WatchTypeOK
<1>2. PICK s \in SweepAtWork, p \in Watched :
        /\ s = sweeping /\ p = s.now /\ s.on /\ s.now # "nothing"
        /\ today - 1 <= s.began /\ s.began <= s.since /\ s.since <= today
        /\ windows[p].success <= s.since
  BY DEF EndLoad, WatchInv, WatchTypeOK, SweepIsRecent, SweepAtWork
<1>3. s.since \in Nat /\ s.began \in Nat /\ s.since <= MaxTime /\ today \in Nat
  BY <1>1, TicksAssumption DEF SweepAtWork
<1>4. PICK now \in SweepAtWork : /\ now = [s EXCEPT !.now = "nothing", !.since = 0]
                                 /\ now.on /\ now.now = "nothing" /\ now.began = s.began
  <2>1. PICK this : this = [s EXCEPT !.now = "nothing", !.since = 0]
    OBVIOUS
  <2>2. this \in SweepAtWork
    <3>1. 0 \in 0..MaxTime
      BY TicksAssumption
    <3> QED
      BY <2>1, <3>1 DEF SweepAtWork
  <2>3. this.on /\ this.now = "nothing" /\ this.began = s.began
    BY <2>1, <2>2, <1>2, TicksAssumption DEF SweepAtWork
  <2> QED
    BY <2>1, <2>2, <2>3
<1>5. sweeping' = now
  BY <1>2, <1>4 DEF EndLoad
<1>6. PICK after \in WatchedWindow : /\ after = [success |-> s.since, checked |-> s.since]
                                     /\ after.success = s.since
  <2>1. PICK this : this = [success |-> s.since, checked |-> s.since]
    OBVIOUS
  <2>2. this \in WatchedWindow
    BY <2>1, <1>3 DEF WatchedWindow
  <2>3. this.success = s.since
    BY <2>1, <2>2, <1>3 DEF WatchedWindow
  <2> QED
    BY <2>1, <2>2, <2>3
<1>7. windows' = IF succeeds THEN [windows EXCEPT ![p] = after] ELSE windows
  BY <1>2, <1>6 DEF EndLoad
<1>8. /\ windows' \in [Watched -> WatchedWindow]
      /\ \A q \in Watched : windows'[q] = windows[q] \/ windows'[q] = after
  BY <1>7 DEF WatchInv, WatchTypeOK
<1>9. PICK as \in {"succeeded", "failed"} : attempts' = EndRun(as)
  BY DEF EndLoad
<1>10. \A r \in attempts : /\ [r EXCEPT !.status = as] \in Attempt
                           /\ [r EXCEPT !.status = as].at = r.at
                           /\ [r EXCEPT !.status = as].status = as
  BY DEF WatchInv, WatchTypeOK, Attempt
<1>11. /\ attempts' \subseteq Attempt
       /\ \A r \in attempts : \E k \in attempts' : k.at = r.at
       /\ \A k \in attempts' : \E r \in attempts : k.at = r.at
       /\ \A k \in attempts' : k.status = "running" => k \in attempts
  BY <1>9, <1>10, ZenonT(60) DEF EndRun, WatchInv, WatchTypeOK
<1>12. WatchTypeOK'
  BY <1>1, <1>5, <1>8, <1>11 DEF WatchInv, WatchTypeOK
<1>13. DatesArePast'
  BY <1>1, <1>2, <1>3, <1>6, <1>8, <1>11 DEF WatchInv, DatesArePast
<1>14. SweepIsRecent'
  BY <1>1, <1>2, <1>3, <1>4, <1>5 DEF SweepIsRecent
<1>15. SweepMoves
  <2>1. \A q \in Watched : \/ windows'[q] = NoWindow
                           \/ windows'[q].success >= today - 1
                           \/ windows[q] # NoWindow /\ windows'[q].success = windows[q].success
    BY <1>2, <1>3, <1>6, <1>8
  <2> QED
    BY <1>1, <1>11, <2>1 DEF SweepMoves
<1> QED
  BY <1>12, <1>13, <1>14, <1>15, SweepMovesKeeps DEF WatchInv

\* A sweep ends or is killed, and leaves a run open.
LEMMA EndSweepWatched == ASSUME WatchInv, EndSweep PROVE WatchInv'
<1>1. UNCHANGED <<today, windows, attempts, sweepsMade, check, checksMade, alert>>
  BY DEF EndSweep
<1>2. sweeping' = [on |-> FALSE, began |-> 0, left |-> {}, now |-> "nothing", since |-> 0]
  BY DEF EndSweep, NoSweep
<1>3. WatchTypeOK'
  BY <1>1, <1>2, TicksAssumption DEF WatchInv, WatchTypeOK, SweepAtWork
<1>4. SweepIsRecent' /\ DatesArePast'
  BY <1>1, <1>2 DEF WatchInv, SweepIsRecent, DatesArePast
<1>5. SweepMoves
  BY <1>1 DEF SweepMoves
<1> QED
  BY <1>3, <1>4, <1>5, SweepMovesKeeps DEF WatchInv

\* The check writes nothing the sweep reads.
LEMMA CheckMoves ==
    ASSUME WatchInv, UNCHANGED <<today, windows, attempts, sweeping, sweepsMade>>,
           check' \in CheckAtWork, check'.began <= today,
           checksMade' \in 0..MaxChecks, alert' \in BOOLEAN, CheckIsSound'
    PROVE  WatchInv'
<1>1. WatchTypeOK'
  BY DEF WatchInv, WatchTypeOK
<1>2. SweepIsRecent' /\ DatesArePast'
  BY DEF WatchInv, SweepIsRecent, DatesArePast
<1> QED
  BY <1>1, <1>2 DEF WatchInv

\* A check starts in place of the one before it.
LEMMA StartCheckWatched == ASSUME WatchInv, StartCheck PROVE WatchInv'
<1>1. today \in 0..MaxTime /\ today <= today
  BY TicksAssumption DEF WatchInv, WatchTypeOK
<1>2. checksMade' \in 0..MaxChecks /\ alert' \in BOOLEAN
  BY TicksAssumption DEF WatchInv, WatchTypeOK, StartCheck
<1>3. PICK now \in CheckAtWork :
        /\ now = [NoCheck EXCEPT !.stage = "windows", !.began = today]
        /\ now.stage = "windows" /\ now.began = today /\ now.verdict = "none"
  <2>1. PICK this : this = [NoCheck EXCEPT !.stage = "windows", !.began = today]
    OBVIOUS
  <2>2. -1 \in -1..MaxTime
    BY TicksAssumption
  <2>3. /\ this.stage = "windows" /\ this.began = today /\ this.verdict = "none"
        /\ this.windows = {} /\ this.newest = -1
    BY <2>1 DEF NoCheck
  <2>4. this = [stage |-> this.stage, began |-> this.began, windows |-> this.windows,
                newest |-> this.newest, verdict |-> this.verdict]
    BY <2>1 DEF NoCheck
  <2>5. this \in CheckAtWork
    BY <1>1, <2>2, <2>3, <2>4 DEF CheckAtWork
  <2> QED
    BY <2>1, <2>3, <2>5
<1>4. check' = now
  BY <1>3 DEF StartCheck
<1>5. CheckIsSound'
  BY <1>3, <1>4 DEF CheckIsSound
<1> QED
  BY <1>1, <1>2, <1>3, <1>4, <1>5, CheckMoves DEF StartCheck

\* The first read: the windows.
LEMMA ReadWindowsWatched == ASSUME WatchInv, ReadWindows PROVE WatchInv'
<1>1. PICK c \in CheckAtWork : /\ c = check /\ c.stage = "windows" /\ c.began <= today
                               /\ c.verdict # "healthy"
  BY DEF ReadWindows, WatchInv, WatchTypeOK, DatesArePast, CheckIsSound
<1>2. PICK seen \in SUBSET WatchedWindow : seen = {windows[p] : p \in Watched} \ {NoWindow}
  BY DEF WatchInv, WatchTypeOK
<1>3. PICK now \in CheckAtWork : /\ now = [c EXCEPT !.stage = "sweep", !.windows = seen]
                                 /\ now.stage = "sweep" /\ now.began = c.began
                                 /\ now.windows = seen /\ now.verdict # "healthy"
  <2>1. PICK this : this = [c EXCEPT !.stage = "sweep", !.windows = seen]
    OBVIOUS
  <2>2. this \in CheckAtWork
    BY <2>1, <1>1, TicksAssumption DEF CheckAtWork
  <2>3. this.stage = "sweep" /\ this.began = c.began /\ this.windows = seen /\ this.verdict # "healthy"
    BY <2>1, <2>2, <1>1 DEF CheckAtWork
  <2> QED
    BY <2>1, <2>2, <2>3
<1>4. check' = now
  BY <1>1, <1>2, <1>3 DEF ReadWindows
<1>5. UNCHANGED <<today, windows, attempts, sweeping, sweepsMade, checksMade, alert>>
  BY DEF ReadWindows
<1>6. \A p \in Watched : ReadsStillHold(p)'
  <2> SUFFICES ASSUME NEW p \in Watched, windows[p] # NoWindow
               PROVE  \E w \in seen : w.success <= windows[p].success
    BY <1>3, <1>4, <1>5 DEF ReadsStillHold
  <2>1. windows[p] \in seen
    BY <1>2
  <2>2. windows[p].success <= windows[p].success
    BY TicksAssumption DEF WatchInv, WatchTypeOK, WatchedWindow
  <2> QED
    BY <2>1, <2>2
<1>7. CheckIsSound'
  BY <1>3, <1>4, <1>6 DEF CheckIsSound
<1> QED
  BY <1>1, <1>3, <1>4, <1>5, <1>7, CheckMoves DEF WatchInv, WatchTypeOK

\* The second: the newest attempt there is.
LEMMA ReadSweepWatched == ASSUME WatchInv, ReadSweep PROVE WatchInv'
<1>1. PICK c \in CheckAtWork : /\ c = check /\ c.stage = "sweep" /\ c.began <= today
                               /\ c.verdict # "healthy"
  BY DEF ReadSweep, WatchInv, WatchTypeOK, DatesArePast, CheckIsSound
<1>2. PICK newest \in -1..MaxTime :
        /\ newest = IF attempts = {} THEN -1
                    ELSE CHOOSE t \in {r.at : r \in attempts} : \A r \in attempts : r.at <= t
        /\ newest = -1 \/ \E r \in attempts : r.at = newest
  <2>1. CASE attempts = {}
    BY <2>1, TicksAssumption
  <2>2. CASE attempts # {}
    <3>1. PICK times \in SUBSET (0..MaxTime) : times = {r.at : r \in attempts} /\ times # {}
      <4>1. \A r \in attempts : r.at \in 0..MaxTime
        BY DEF WatchInv, WatchTypeOK, Attempt
      <4>2. PICK these : these = {r.at : r \in attempts}
        OBVIOUS
      <4>3. these \subseteq 0..MaxTime /\ these # {}
        BY <2>2, <4>1, <4>2
      <4> QED
        BY <4>2, <4>3
    <3>2. PICK m \in times : \A k \in times : k <= m
      BY <3>1, HasHighest, TicksAssumption
    <3>3. \E t \in {r.at : r \in attempts} : \A r \in attempts : r.at <= t
      BY <3>1, <3>2
    <3>4. PICK t \in times : t = CHOOSE u \in {r.at : r \in attempts} : \A r \in attempts : r.at <= u
      BY <3>1, <3>3
    <3>5. t \in -1..MaxTime /\ \E r \in attempts : r.at = t
      BY <3>1, TicksAssumption
    <3> QED
      BY <2>2, <3>4, <3>5
  <2> QED
    BY <2>1, <2>2
<1>3. PICK now \in CheckAtWork : /\ now = [c EXCEPT !.stage = "stuck", !.newest = newest]
                                 /\ now.stage = "stuck" /\ now.began = c.began
                                 /\ now.windows = c.windows /\ now.newest = newest
                                 /\ now.verdict # "healthy"
  <2>1. PICK this : this = [c EXCEPT !.stage = "stuck", !.newest = newest]
    OBVIOUS
  <2>2. this \in CheckAtWork
    BY <2>1, <1>1, TicksAssumption DEF CheckAtWork
  <2>3. this.stage = "stuck" /\ this.began = c.began /\ this.windows = c.windows /\ this.newest = newest /\ this.verdict # "healthy"
    BY <2>1, <2>2, <1>1 DEF CheckAtWork
  <2> QED
    BY <2>1, <2>2, <2>3
<1>4. check' = now
  BY <1>1, <1>2, <1>3 DEF ReadSweep
<1>5. UNCHANGED <<today, windows, attempts, sweeping, sweepsMade, checksMade, alert>>
  BY DEF ReadSweep
<1>6. \A p \in Watched : ReadsStillHold(p)'
  BY <1>1, <1>3, <1>4, <1>5 DEF WatchInv, CheckIsSound, ReadsStillHold
<1>7. CheckIsSound'
  BY <1>2, <1>3, <1>4, <1>5, <1>6 DEF CheckIsSound
<1> QED
  BY <1>1, <1>3, <1>4, <1>5, <1>7, CheckMoves DEF WatchInv, WatchTypeOK

\* The third, and the verdict on what the three returned.
LEMMA ReadStuckWatched == ASSUME WatchInv, ReadStuck PROVE WatchInv'
<1>1. PICK c \in CheckAtWork : /\ c = check /\ c.stage = "stuck" /\ c.began <= today
                               /\ c.newest = -1 \/ \E r \in attempts : r.at = c.newest
                               /\ \A p \in Watched : ReadsStillHold(p)
  BY DEF ReadStuck, WatchInv, WatchTypeOK, DatesArePast, CheckIsSound
<1>2. PICK verdict \in {"healthy", "problems"} :
        verdict = AssessCollection(check, StuckRuns(today), today)
  BY DEF AssessCollection
<1>3. /\ c.began \in Nat /\ today \in Nat
      /\ \A w \in c.windows : w.success \in Int /\ w.checked \in Int
      /\ \A r \in attempts : r.at \in Nat
      /\ \A p \in Watched : windows[p].success \in Int
  BY <1>1, TicksAssumption DEF WatchInv, WatchTypeOK, CheckAtWork, WatchedWindow, Attempt
<1>4. ASSUME verdict = "healthy" PROVE CollectedFor(c.began)
  <2>1. /\ \A w \in c.windows : CollectionStatusOf(w, today) = "collected"
        /\ c.newest >= today - SweepWithin /\ c.newest # -1
        /\ StuckRuns(today) = {}
    BY <1>1, <1>2, <1>4 DEF AssessCollection
  <2>2. \A w \in c.windows : w.success >= today - StaleAfter
    BY <1>3, <2>1, TicksAssumption DEF CollectionStatusOf
  <2>3. ASSUME NEW p \in Watched
        PROVE  windows[p] = NoWindow \/ windows[p].success >= c.began - StaleAfter
    <3>1. CASE windows[p].success >= c.began - 1
      BY <1>3, <3>1, TicksAssumption
    <3>2. ASSUME NEW w \in c.windows, w.success <= windows[p].success
          PROVE  windows[p].success >= c.began - StaleAfter
      BY <1>1, <1>3, <2>2, <3>2, TicksAssumption
    <3> QED
      BY <1>1, <3>1, <3>2 DEF ReadsStillHold
  <2>4. \E r \in attempts : r.at >= c.began - SweepWithin
    <3>1. PICK r \in attempts : r.at = c.newest
      BY <1>1, <2>1
    <3> QED
      BY <1>1, <1>3, <2>1, <3>1, TicksAssumption
  <2>5. \A r \in attempts : r.status = "running" => r.at >= c.began - StuckAfter
    <3>1. \A r \in attempts : r.status = "running" => ~(r.at < today - StuckAfter)
      BY <2>1 DEF StuckRuns
    <3> QED
      BY <1>1, <1>3, <3>1, TicksAssumption
  <2> QED
    BY <2>3, <2>4, <2>5 DEF CollectedFor
<1>5. PICK now \in CheckAtWork :
        /\ now = [NoCheck EXCEPT !.stage = "assessed", !.began = c.began, !.verdict = verdict]
        /\ now.stage = "assessed" /\ now.began = c.began /\ now.verdict = verdict
  <2>1. PICK this : this = [NoCheck EXCEPT !.stage = "assessed", !.began = c.began, !.verdict = verdict]
    OBVIOUS
  <2>2. -1 \in -1..MaxTime
    BY TicksAssumption
  <2>3. /\ this.stage = "assessed" /\ this.began = c.began /\ this.verdict = verdict
        /\ this.windows = {} /\ this.newest = -1
    BY <2>1 DEF NoCheck
  <2>4. this = [stage |-> this.stage, began |-> this.began, windows |-> this.windows,
                newest |-> this.newest, verdict |-> this.verdict]
    BY <2>1 DEF NoCheck
  <2>5. this \in CheckAtWork
    BY <2>2, <2>3, <2>4 DEF CheckAtWork
  <2> QED
    BY <2>1, <2>3, <2>5
<1>6. check' = now
  BY <1>1, <1>2, <1>5 DEF ReadStuck
<1>7. UNCHANGED <<today, windows, attempts, sweeping, sweepsMade, checksMade, alert>>
  BY DEF ReadStuck
<1>8. verdict = "healthy" => CollectedFor(c.began)'
  BY <1>4, <1>7 DEF CollectedFor
<1>9. CheckIsSound'
  BY <1>5, <1>6, <1>8 DEF CheckIsSound, CollectedFor
<1> QED
  BY <1>1, <1>5, <1>6, <1>7, <1>9, CheckMoves DEF WatchInv, WatchTypeOK

\* A check without a connection tells of a problem.
LEMMA CheckCannotReadWatched == ASSUME WatchInv, CheckCannotRead PROVE WatchInv'
<1>1. PICK c \in CheckAtWork : c = check /\ c.began <= today
  BY DEF WatchInv, WatchTypeOK, DatesArePast
<1>2. PICK now \in CheckAtWork :
        /\ now = [NoCheck EXCEPT !.stage = "assessed", !.began = c.began, !.verdict = "problems"]
        /\ now.stage = "assessed" /\ now.began = c.began /\ now.verdict = "problems"
  <2>1. PICK this : this = [NoCheck EXCEPT !.stage = "assessed", !.began = c.began, !.verdict = "problems"]
    OBVIOUS
  <2>2. -1 \in -1..MaxTime
    BY TicksAssumption
  <2>3. /\ this.stage = "assessed" /\ this.began = c.began /\ this.verdict = "problems"
        /\ this.windows = {} /\ this.newest = -1
    BY <2>1 DEF NoCheck
  <2>4. this = [stage |-> this.stage, began |-> this.began, windows |-> this.windows,
                newest |-> this.newest, verdict |-> this.verdict]
    BY <2>1 DEF NoCheck
  <2>5. this \in CheckAtWork
    BY <2>2, <2>3, <2>4 DEF CheckAtWork
  <2> QED
    BY <2>1, <2>3, <2>5
<1>3. check' = now
  BY <1>1, <1>2 DEF CheckCannotRead
<1>4. UNCHANGED <<today, windows, attempts, sweeping, sweepsMade, checksMade, alert>>
  BY DEF CheckCannotRead
<1>5. CheckIsSound'
  BY <1>2, <1>3 DEF CheckIsSound
<1> QED
  BY <1>1, <1>2, <1>3, <1>4, <1>5, CheckMoves DEF WatchInv, WatchTypeOK

\* An issue is opened or closed by the verdict.
LEMMA TellOperatorsWatched == ASSUME WatchInv, TellOperators PROVE WatchInv'
<1>1. PICK c \in CheckAtWork :
        /\ c = check /\ c.stage = "assessed" /\ c.began <= today /\ c.verdict # "none"
        /\ c.verdict = "healthy" => CollectedFor(c.began)
  BY DEF TellOperators, WatchInv, WatchTypeOK, DatesArePast, CheckIsSound
<1>2. PICK now \in CheckAtWork : /\ now = [c EXCEPT !.stage = "told"]
                                 /\ now.stage = "told" /\ now.began = c.began
                                 /\ now.verdict = c.verdict
  <2>1. PICK this : this = [c EXCEPT !.stage = "told"]
    OBVIOUS
  <2>2. this \in CheckAtWork
    BY <2>1 DEF CheckAtWork
  <2>3. this.stage = "told" /\ this.began = c.began /\ this.verdict = c.verdict
    BY <2>1, <2>2 DEF CheckAtWork
  <2> QED
    BY <2>1, <2>2, <2>3
<1>3. check' = now /\ alert' = (c.verdict = "problems")
  BY <1>1, <1>2 DEF TellOperators
<1>4. UNCHANGED <<today, windows, attempts, sweeping, sweepsMade, checksMade>>
  BY DEF TellOperators
<1>5. CheckIsSound'
  BY <1>1, <1>2, <1>3, <1>4 DEF CheckIsSound, CollectedFor
<1> QED
  BY <1>1, <1>2, <1>3, <1>4, <1>5, CheckMoves DEF WatchInv, WatchTypeOK

\* Each step keeps the watch.
LEMMA WatchSteps == ASSUME WatchInv, [FreshnessNext]_watching PROVE WatchInv'
<1>1. CASE UNCHANGED watching
  BY <1>1 DEF watching, WatchInv, WatchTypeOK, SweepIsRecent, DatesArePast, CheckIsSound,
              ReadsStillHold, CollectedFor
<1>2. CASE FreshnessNext
  BY <1>2, TimePassesWatched, StartSweepWatched, BeRefusedWatched, OpenLoadWatched,
     EndLoadWatched, EndSweepWatched, StartCheckWatched, ReadWindowsWatched,
     ReadSweepWatched, ReadStuckWatched, CheckCannotReadWatched, TellOperatorsWatched
     DEF FreshnessNext
<1> QED
  BY <1>1, <1>2

\* A check that leaves no alert open means what it says of the time it began,
\* whatever was written between its three reads (freshness/assess.ts).
THEOREM QuietIsTrue == FreshnessSpec => []QuietMeansCollected
<1>1. FreshnessInit => WatchInv
  BY WatchStarts
<1>2. WatchInv /\ [FreshnessNext]_watching => WatchInv'
  BY WatchSteps
<1>3. WatchInv => QuietMeansCollected
  BY WatchInvImplies
<1> QED
  BY <1>1, <1>2, <1>3, PTL DEF FreshnessSpec
=============================================================================
