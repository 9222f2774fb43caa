---------------------------- MODULE TenderLedger ----------------------------
(***************************************************************************)
(* The tender ledger and everyone who writes it: the nightly sweep that    *)
(* loads what each portal advertises (services/ingestion/src/gepnic/cli.ts,*)
(* load.ts), reviewers who place a tender no rule could place (place.ts),  *)
(* and the resolver that tries again over stored rows (resolve-cli.ts).    *)
(* The trigger record_tender_supersession (migrations 0022, 0038) files    *)
(* what a load supersedes.                                                 *)
(*                                                                         *)
(* A load runs in one READ COMMITTED transaction: its rows are locked and  *)
(* unseen until it commits.  A page is named by the hash of its bytes, so  *)
(* here by what it says of the tender.  A run and the dataset_version it   *)
(* opens are one number.                                                   *)
(*                                                                         *)
(* The fields of migration 0048 are no part of a reading here: the upsert  *)
(* overwrites them (load.ts:278), and the trigger neither compares nor     *)
(* files them (0038:68-80).                                                *)
(***************************************************************************)
EXTENDS Integers, FiniteSets

CONSTANTS
    Sweepers,      \* processes that may run a sweep
    Reviewers,
    Portals,
    Tenders,
    PortalOf,      \* the portal that advertises each tender
    Districts,
    Listings,      \* what a landing page may say of a tender
    Details,       \* what a detail page may say of it
    Readings,      \* the readings of a tender a sweep may come back with
    MaxIngestions, \* bound on ingestion runs
    MaxDecisions,  \* bound on reviewers' decisions
    None

VARIABLES
    lock,       \* who holds the sweep's advisory lock
    attempt,    \* ingestion_run, by id
    nextRun,
    window,     \* tender_collection_window
    row,        \* tender, as committed
    history,    \* tender_version, as committed
    nextVersion,
    decisions,  \* tender_district_decision, as committed
    nextDecision,
    collector,  \* what each sweep is doing
    reviewer,   \* what each reviewer's command is doing
    unplaced,   \* tenders the resolver read as unplaced and has yet to try
    died        \* runs whose process was killed: known to no program

register == <<window, row, history, decisions>>
runs == <<attempt, nextRun, died>>
vars == <<lock, runs, register, nextVersion, nextDecision, collector, reviewer, unplaced>>

RunIds == 1..MaxIngestions
DecisionIds == 1..MaxDecisions

\* The six columns of a placement: which district, how it was reached, whether a
\* directory is its evidence, and the reviewer's decision it names (0: none).
Placement ==
    [district : Districts \cup {None}, source : {"none", "stated", "inferred", "manual"},
     directory : BOOLEAN, decision : 0..MaxDecisions]

Unplaced == [district |-> None, source |-> "none", directory |-> FALSE, decision |-> 0]
Stated(d) == [district |-> d, source |-> "stated", directory |-> FALSE, decision |-> 0]
Inferred(d) == [district |-> d, source |-> "inferred", directory |-> TRUE, decision |-> 0]
Decided(d, n) == [district |-> d, source |-> "manual", directory |-> FALSE, decision |-> n]

ByRule == {Stated(d) : d \in Districts} \cup {Inferred(d) : d \in Districts}

\* What one sweep reads of a tender; a detail page that cannot be read or kept
\* leaves no detail and no placement.
Reading == [listed : Listings, detail : Details \cup {None}, place : ByRule \cup {Unplaced}]

Row == [listed : Listings, detail : Details \cup {None}, place : Placement,
        source : Listings, run : RunIds]
Version == [id : Nat, tender : Tenders, listed : Listings, detail : Details \cup {None},
            source : Listings, run : RunIds]
Window == [since : RunIds, success : RunIds, checked : RunIds]
Decision == [id : DecisionIds, tender : Tenders, district : Districts \cup {None}]

Tallies == [seen : Nat, inserted : Nat, updated : Nat, unchanged : Int, rejected : Nat]
NoTally == [seen |-> 0, inserted |-> 0, updated |-> 0, unchanged |-> 0, rejected |-> 0]
Ingestion == [portal : Portals \cup {None}, status : {"running", "succeeded", "failed", "skipped"},
        counts : Tallies]

\* `mine` and `filed` are what an open transaction has written and nobody sees.
Outcomes == {"none", "inserted", "updated", "rejected"}
Collector ==
    [stage : {"idle", "sweeping", "opened", "loading", "committed"}, todo : SUBSET Portals,
     run : 0..MaxIngestions, reading : [Tenders -> Readings \cup {None}], mark : Nat,
     outcome : [Tenders -> Outcomes], mine : [Tenders -> Row \cup {None}],
     filed : SUBSET Version, counts : Tallies]

Sweeping(todo) ==
    [stage |-> IF todo = {} THEN "idle" ELSE "sweeping", todo |-> todo, run |-> 0,
     reading |-> [t \in Tenders |-> None], mark |-> 0,
     outcome |-> [t \in Tenders |-> "none"], mine |-> [t \in Tenders |-> None],
     filed |-> {}, counts |-> NoTally]
SweepStopped == Sweeping({})

Reviewer == [stage : {"idle", "read", "signed"}, tender : Tenders \cup {None},
             district : Districts \cup {None}, decision : 0..MaxDecisions]
AtRest == [stage |-> "idle", tender |-> None, district |-> None, decision |-> 0]

ASSUME ConstantsAssumption ==
    /\ PortalOf \in [Tenders -> Portals]
    /\ Readings \subseteq Reading
    /\ \A r \in Readings : r.detail = None => r.place = Unplaced
    /\ MaxIngestions \in Nat
    /\ MaxDecisions \in Nat
    /\ None \notin Sweepers \cup Portals \cup Tenders \cup Districts \cup Details
    /\ None \notin Row \cup Window \cup Ingestion \cup Reading

\* Portals advertise finitely many tenders: they are counted.
ASSUME TendersAreFinite == IsFiniteSet(Tenders)

TenderInit ==
    /\ lock = None
    /\ attempt = [i \in RunIds |-> None]
    /\ nextRun = 1
    /\ window = [p \in Portals |-> None]
    /\ row = [t \in Tenders |-> None]
    /\ history = {}
    /\ nextVersion = 1
    /\ decisions = {}
    /\ nextDecision = 1
    /\ collector = [c \in Sweepers |-> SweepStopped]
    /\ reviewer = [r \in Reviewers |-> AtRest]
    /\ unplaced = {}
    /\ died = {}

-----------------------------------------------------------------------------
(* The sweep.                                                              *)

\* pg_try_advisory_lock, taken before anything is fetched: every portal, or one.
TakeLock(c) ==
    /\ collector[c] = SweepStopped
    /\ lock = None
    /\ lock' = c
    /\ \E targets \in {Portals} \cup {{p} : p \in Portals} :
         collector' = [collector EXCEPT ![c] = Sweeping(targets)]
    /\ UNCHANGED <<runs, register, nextVersion, nextDecision, reviewer, unplaced>>

\* A sweep that finds the lock taken leaves a `skipped` run and stops.
Skip(c) ==
    /\ collector[c] = SweepStopped
    /\ lock # None
    /\ nextRun <= MaxIngestions
    /\ attempt' = [attempt EXCEPT ![nextRun] = [portal |-> None, status |-> "skipped", counts |-> NoTally]]
    /\ nextRun' = nextRun + 1
    /\ UNCHANGED <<lock, died, register, nextVersion, nextDecision, collector, reviewer, unplaced>>

\* The sweep ends with its last portal, and so does its lock.
MoveOn(c, todo) ==
    /\ collector' = [collector EXCEPT ![c] = Sweeping(todo)]
    /\ lock' = IF todo = {} THEN None ELSE lock

\* A portal that refuses us, fails, advertises nothing or cannot be stored.
TurnedAway(c, p) ==
    /\ collector[c].stage = "sweeping"
    /\ p \in collector[c].todo
    /\ MoveOn(c, collector[c].todo \ {p})
    /\ UNCHANGED <<runs, register, nextVersion, nextDecision, reviewer, unplaced>>

Advertised(c) == {t \in Tenders : collector[c].reading[t] # None}

\* openRun, before the transaction: a failed load must not undo it.
OpenIngestion(c, p) ==
    /\ collector[c].stage = "sweeping"
    /\ p \in collector[c].todo
    /\ nextRun <= MaxIngestions
    /\ attempt' = [attempt EXCEPT ![nextRun] = [portal |-> p, status |-> "running", counts |-> NoTally]]
    /\ nextRun' = nextRun + 1
    /\ \E reading \in [Tenders -> Readings \cup {None}] :
         /\ \A t \in Tenders : PortalOf[t] # p => reading[t] = None
         /\ \E t \in Tenders : reading[t] # None
         /\ collector' = [collector EXCEPT ![c].stage = "opened", ![c].run = nextRun,
                                           ![c].todo = @ \ {p}, ![c].reading = reading]
    /\ UNCHANGED <<lock, died, register, nextVersion, nextDecision, reviewer, unplaced>>

\* The portal a collector is loading.
Loading(c) == attempt[collector[c].run].portal

\* Mutant of Touched: a window is opened for a portal not yet collected.
Touched_Always(p, i) ==
    IF window[p] = None THEN [since |-> i, success |-> i, checked |-> i]
    ELSE [window[p] EXCEPT !.checked = i]

\* The attempt, recorded only for a portal already being collected.
Touched(p, i) == IF window[p] = None THEN None ELSE [window[p] EXCEPT !.checked = i]

\* The high-water mark: the newest committed version.
Mark == CHOOSE m \in 0..nextVersion :
            /\ \A v \in history : v.id <= m
            /\ m = 0 \/ \E v \in history : v.id = m

\* last_checked_at, then BEGIN, the mark and the dataset version.
BeginLoad(c) ==
    /\ collector[c].stage = "opened"
    /\ window' = [window EXCEPT ![Loading(c)] = Touched(Loading(c), collector[c].run)]
    /\ collector' = [collector EXCEPT ![c].stage = "loading", ![c].mark = Mark]
    /\ UNCHANGED <<lock, runs, row, history, decisions, nextVersion, nextDecision, reviewer,
                   unplaced>>

OrOld(new, old) == IF new = None THEN old ELSE new

\* Mutant of Placed: the columns are coalesced one by one.
Placed_ByColumn(old, new) ==
    IF new.district = None \/ old.source = "manual" THEN old
    ELSE [new EXCEPT !.directory = @ \/ old.directory]

\* A placement moves as one, and a reviewer's is never replaced by a rule's.
Placed(old, new) == IF new.district = None \/ old.source = "manual" THEN old ELSE new

Inserted(new, i) ==
    [listed |-> new.listed, detail |-> new.detail, place |-> new.place,
     source |-> new.listed, run |-> i]

\* ON CONFLICT DO UPDATE; source_sha256 is not in its SET list.
Updated(old, new, i) ==
    [old EXCEPT !.listed = new.listed, !.detail = OrOld(new.detail, old.detail),
                !.place = Placed(old.place, new.place), !.run = i]

\* Mutant of Changed: only the listing's fields are compared.
Changed_Listing(old, new) == new.listed # old.listed

\* The trigger's comparison: what the source controls, and not our placement.
Changed(old, new) == new.listed # old.listed \/ new.detail # old.detail

\* The reading the trigger files, with the provenance the old row carries.
Superseded(t, old) ==
    [id |-> nextVersion, tender |-> t, listed |-> old.listed, detail |-> old.detail,
     source |-> old.source, run |-> old.run]

\* writeOne: the upsert of one tender inside its savepoint.
Write(c, t) ==
    /\ collector[c].stage = "loading"
    /\ t \in Advertised(c)
    /\ collector[c].outcome[t] = "none"
    /\ LET new == collector[c].reading[t]
           i == collector[c].run
           upserted == IF row[t] = None THEN Inserted(new, i) ELSE Updated(row[t], new, i)
           filed == IF row[t] # None /\ Changed(row[t], upserted)
                    THEN {Superseded(t, row[t])} ELSE {}
       IN /\ collector' = [collector EXCEPT
               ![c].outcome[t] = IF row[t] = None THEN "inserted" ELSE "updated",
               ![c].mine[t] = upserted,
               ![c].filed = @ \cup filed]
          /\ nextVersion' = nextVersion + Cardinality(filed)
    /\ UNCHANGED <<lock, runs, register, nextDecision, reviewer, unplaced>>

\* The database refuses one tender: its savepoint is rolled back, the run goes on.
Reject(c, t) ==
    /\ collector[c].stage = "loading"
    /\ t \in Advertised(c)
    /\ collector[c].outcome[t] = "none"
    /\ collector' = [collector EXCEPT ![c].outcome[t] = "rejected"]
    /\ UNCHANGED <<lock, runs, register, nextVersion, nextDecision, reviewer, unplaced>>

Count(c, outcome) == Cardinality({t \in Tenders : collector[c].outcome[t] = outcome})

\* Mutant of NewVersions: the mark itself is counted.
NewVersions_FromMark(c) ==
    {v \in history \cup collector[c].filed :
        v.id >= collector[c].mark /\ PortalOf[v.tender] = Loading(c)}

\* The versions past the mark of this portal's tenders.
NewVersions(c) ==
    {v \in history \cup collector[c].filed :
        v.id > collector[c].mark /\ PortalOf[v.tender] = Loading(c)}

\* countsOf: `unchanged` is derived, never counted.
CountsOf(c, changed) ==
    [seen |-> Cardinality(Advertised(c)), inserted |-> Count(c, "inserted"),
     updated |-> changed, unchanged |-> Count(c, "updated") - changed,
     rejected |-> Count(c, "rejected")]

Written(c) == \A t \in Advertised(c) : collector[c].outcome[t] # "none"

\* The count of changes, the window's success, COMMIT.
CommitLoad(c) ==
    /\ collector[c].stage = "loading"
    /\ Written(c)
    /\ LET i == collector[c].run
           p == Loading(c)
       IN window' = [window EXCEPT ![p] =
                       IF @ = None THEN [since |-> i, success |-> i, checked |-> i]
                       ELSE [@ EXCEPT !.success = i, !.checked = i]]
    /\ row' = [t \in Tenders |-> OrOld(collector[c].mine[t], row[t])]
    /\ history' = history \cup collector[c].filed
    /\ collector' = [collector EXCEPT
         ![c] = [Sweeping(collector[c].todo) EXCEPT
                   !.stage = "committed", !.run = collector[c].run,
                   !.counts = CountsOf(c, Cardinality(NewVersions(c)))]]
    /\ UNCHANGED <<lock, runs, decisions, nextVersion, nextDecision, reviewer, unplaced>>

Closed(i, status, counts) == [attempt[i] EXCEPT !.status = status, !.counts = counts]

\* completeRun, after COMMIT; then the next portal.
CompleteIngestion(c) ==
    /\ collector[c].stage = "committed"
    /\ attempt' = [attempt EXCEPT ![collector[c].run] =
                 Closed(collector[c].run, "succeeded", collector[c].counts)]
    /\ MoveOn(c, collector[c].todo)
    /\ UNCHANGED <<nextRun, died, register, nextVersion, nextDecision, reviewer, unplaced>>

\* Mutant of Broken: the run is not told of the failure.
Broken_Silently(i, counts) == attempt[i]

Broken(i, counts) == Closed(i, "failed", counts)

\* What was counted when a load failed: nothing until every tender was written,
\* and the changes last.
CountedSoFar(c) ==
    {[NoTally EXCEPT !.seen = Cardinality(Advertised(c))]}
        \cup (IF Written(c) THEN {CountsOf(c, n) : n \in {0, Cardinality(NewVersions(c))}} ELSE {})

\* An error inside the transaction: ROLLBACK, failRun, and the error ends the
\* sweep, which releases its lock on the way out.
LoadFails(c) ==
    /\ collector[c].stage = "loading"
    /\ \E counts \in CountedSoFar(c) :
         attempt' = [attempt EXCEPT ![collector[c].run] = Broken(collector[c].run, counts)]
    /\ MoveOn(c, {})
    /\ UNCHANGED <<nextRun, died, register, nextVersion, nextDecision, reviewer, unplaced>>

\* The process is killed: the server rolls back and releases the lock.
Crash(c) ==
    /\ collector[c] # SweepStopped
    /\ died' = died \cup ({collector[c].run} \ {0})
    /\ MoveOn(c, {})
    /\ UNCHANGED <<attempt, nextRun, register, nextVersion, nextDecision, reviewer, unplaced>>

CollectPortal(c) ==
    \/ \E p \in Portals : TurnedAway(c, p) \/ OpenIngestion(c, p)
    \/ BeginLoad(c)
    \/ \E t \in Tenders : Write(c, t) \/ Reject(c, t)
    \/ CommitLoad(c)
    \/ CompleteIngestion(c)
    \/ LoadFails(c)
-----------------------------------------------------------------------------
(* Reviewers and the resolver.                                             *)

\* A row an open load has written is locked until the load ends.
Locked(t) == \E c \in Sweepers : collector[c].mine[t] # None

\* findTender: "cannot be placed" (Null) is refused for a tender already placed.
ReadTender(r, t, d) ==
    /\ reviewer[r] = AtRest
    /\ row[t] # None
    /\ d = None => row[t].place.district = None
    /\ reviewer' = [reviewer EXCEPT ![r] = [AtRest EXCEPT !.stage = "read", !.tender = t,
                                                           !.district = d]]
    /\ UNCHANGED <<lock, runs, register, nextVersion, nextDecision, collector, unplaced>>

\* What the reviewer decided, under the id RETURNING gave.
Signed(r, n) == [id |-> n, tender |-> reviewer[r].tender, district |-> reviewer[r].district]

\* BEGIN and the decision; with no district to place, COMMIT.
RecordDecision(r) ==
    /\ reviewer[r].stage = "read"
    /\ nextDecision <= MaxDecisions
    /\ nextDecision' = nextDecision + 1
    /\ \/ /\ reviewer[r].district = None
          /\ decisions' = decisions \cup {Signed(r, nextDecision)}
          /\ reviewer' = [reviewer EXCEPT ![r] = AtRest]
       \/ /\ reviewer[r].district # None
          /\ reviewer' = [reviewer EXCEPT ![r].stage = "signed", ![r].decision = nextDecision]
          /\ UNCHANGED decisions
    /\ UNCHANGED <<lock, runs, window, row, history, nextVersion, collector, unplaced>>

\* The placement, once the row is free, and COMMIT.
PlaceTender(r) ==
    /\ reviewer[r].stage = "signed"
    /\ LET t == reviewer[r].tender
           n == reviewer[r].decision
       IN /\ ~Locked(t)
          /\ row' = [row EXCEPT ![t].place = Decided(reviewer[r].district, n)]
          /\ decisions' = decisions \cup {Signed(r, n)}
    /\ reviewer' = [reviewer EXCEPT ![r] = AtRest]
    /\ UNCHANGED <<lock, runs, window, history, nextVersion, nextDecision, collector, unplaced>>

\* An error or an interrupted command: ROLLBACK.
GiveUp(r) ==
    /\ reviewer[r].stage \in {"read", "signed"}
    /\ reviewer' = [reviewer EXCEPT ![r] = AtRest]
    /\ UNCHANGED <<lock, runs, register, nextVersion, nextDecision, collector, unplaced>>

\* resolve-cli reads the tenders that are unplaced and undecided.
ReadUnplaced ==
    /\ unplaced = {}
    /\ unplaced' = {t \in Tenders : /\ row[t] # None
                                    /\ row[t].place.district = None
                                    /\ \A d \in decisions : d.tender # t}
    /\ unplaced' # {}
    /\ UNCHANGED <<lock, runs, register, nextVersion, nextDecision, collector, reviewer>>

\* Mutant of Resolvable: the UPDATE does not ask again.
Resolvable_AsRead(t) == ~Locked(t)

\* UPDATE ... WHERE admin_unit_id IS NULL, once the row is free.
Resolvable(t) == ~Locked(t) /\ row[t].place.district = None

Resolve(t) ==
    /\ t \in unplaced
    /\ unplaced' = unplaced \ {t}
    /\ \/ /\ Resolvable(t)
          /\ \E p \in ByRule : row' = [row EXCEPT ![t].place = p]
       \/ UNCHANGED row
    /\ UNCHANGED <<lock, runs, window, history, decisions, nextVersion, nextDecision, collector,
                   reviewer>>

Next ==
    \/ \E c \in Sweepers : TakeLock(c) \/ Skip(c) \/ CollectPortal(c) \/ Crash(c)
    \/ \E r \in Reviewers :
         \/ \E t \in Tenders, d \in Districts \cup {None} : ReadTender(r, t, d)
         \/ RecordDecision(r)
         \/ PlaceTender(r)
         \/ GiveUp(r)
    \/ ReadUnplaced
    \/ \E t \in Tenders : Resolve(t)

Spec == TenderInit /\ [][Next]_vars
-----------------------------------------------------------------------------
(* Properties.                                                             *)

\* Every variable has its type.
TypeOK ==
    /\ lock \in Sweepers \cup {None}
    /\ attempt \in [RunIds -> Ingestion \cup {None}]
    /\ nextRun \in 1..(MaxIngestions + 1)
    /\ window \in [Portals -> Window \cup {None}]
    /\ row \in [Tenders -> Row \cup {None}]
    /\ history \subseteq Version
    /\ nextVersion \in Nat
    /\ decisions \subseteq Decision
    /\ nextDecision \in 1..(MaxDecisions + 1)
    /\ collector \in [Sweepers -> Collector]
    /\ reviewer \in [Reviewers -> Reviewer]
    /\ unplaced \subseteq Tenders
    /\ died \subseteq RunIds

\* load.ts: "The placement is one fact in six columns, so it moves as one": a
\* district never stands beside the evidence of another way of reaching it, and
\* a row that names a decision is where that decision put it.
PlacementIsOneFact ==
    \A t \in Tenders : row[t] # None =>
        LET p == row[t].place
        IN \/ p \in ByRule \cup {Unplaced}
           \/ \E d \in decisions : d.tender = t /\ p = Decided(d.district, d.id)

\* 0035: "The collector never replaces a manual placement; only a later decision
\* does": what replaces one is a decision that was committed with it.
ManualIsKept ==
    [][\A t \in Tenders :
         (row[t] # None /\ row[t].place.source = "manual" /\ row'[t].place # row[t].place) =>
             \E d \in decisions' \ decisions :
                 d.tender = t /\ row'[t].place = Decided(d.district, d.id)]_vars

\* 0022, 0038: a tender whose reading changes files the reading it had, once,
\* and a tender seen again unchanged files nothing.
EveryChangeIsFiled ==
    [][\A t \in Tenders : row[t] # None =>
         LET filed == {v \in history' \ history : v.tender = t}
             old == row[t]
             new == row'[t]
         IN IF new.listed = old.listed /\ new.detail = old.detail THEN filed = {}
            ELSE \E v \in filed : /\ filed = {v}
                                  /\ v.listed = old.listed
                                  /\ v.detail = old.detail
                                  /\ v.run = old.run]_vars

\* ADR-049: a failed load leaves the ledger as it was, and the counts of one that
\* succeeded account for every tender it saw, none of them negative; and "a run
\* left `running` ... is itself the signal that a collector died" (0024).
RunSaysWhatHappened ==
    \A i \in RunIds : attempt[i] # None =>
        /\ attempt[i].status = "running" =>
             i \in died \/ \E c \in Sweepers : collector[c].run = i
        /\ attempt[i].status = "failed" =>
             /\ \A t \in Tenders : row[t] # None => row[t].run # i
             /\ \A v \in history : v.run # i
        /\ attempt[i].status = "succeeded" =>
             LET n == attempt[i].counts
             IN /\ n.unchanged >= 0
                /\ n.seen = n.inserted + n.updated + n.unchanged + n.rejected
                /\ window[attempt[i].portal].success = i =>
                     n.seen - n.rejected = Cardinality({t \in Tenders : row[t] # None /\ row[t].run = i})

\* load.ts: the window is the floor on the data: it opens with the first load
\* that succeeded and not with an attempt, no tender is held without one, and its
\* success is the latest.
WindowIsHonest ==
    /\ \A p \in Portals : window[p] # None =>
         LET w == window[p]
         IN /\ w.since <= w.success /\ w.success <= w.checked
            /\ \A i \in RunIds : attempt[i] # None /\ attempt[i].portal = p =>
                 /\ attempt[i].status = "failed" => i \notin {w.since, w.success}
                 /\ attempt[i].status = "succeeded" => w.since <= i /\ i <= w.success
            /\ \A i \in {w.since, w.success} : attempt[i].status = "running" =>
                 i \in died \/ \E c \in Sweepers : collector[c].run = i /\ collector[c].stage = "committed"
    /\ \A t \in Tenders : row[t] # None => window[PortalOf[t]] # None

\* What is said of the sweeps, run by run and portal by portal, is what happened.
SweepsAreToldTruly == RunSaysWhatHappened /\ WindowIsHonest

\* ADR-049: "Every superseded reading keeps its own source_sha256": the page a
\* version cites says what the version says.
VersionCitesItsPage == \A v \in history : v.source = v.listed

\* A placement has one author, in every state and across every step.
PlacementHasOneAuthor == [][PlacementIsOneFact']_vars /\ ManualIsKept
=============================================================================
