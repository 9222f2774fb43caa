------------------------------- MODULE Freshness -------------------------------
(***************************************************************************)
(* The daily check that tenders are still collected                        *)
(* (services/ingestion/src/freshness, collectionStatusOf, the workflow     *)
(* check-collection.yml) beside what it watches: the sweep's rows in       *)
(* ingestion_run and tender_collection_window, written by a collector that *)
(* may be refused, fail, be killed or never start.  The ledger the sweep   *)
(* fills is TenderLedger; here only its times are kept.                    *)
(***************************************************************************)
EXTENDS Integers, FiniteSets

CONSTANTS
    Watched,
    StaleAfter, SweepWithin, StuckAfter,  \* in ticks
    MaxTime,                              \* bound on the ticks
    MaxSweeps, MaxChecks                  \* bounds on the programs started

\* A tick is no longer than the 48 hours after which tenders are stale.
ASSUME TicksAssumption ==
    /\ StaleAfter \in Nat \ {0}
    /\ SweepWithin \in Nat
    /\ StuckAfter \in Nat
    /\ MaxTime \in Nat
    /\ MaxSweeps \in Nat
    /\ MaxChecks \in Nat

VARIABLES
    today,      \* the clock of the database and of the check
    windows,    \* tender_collection_window
    attempts,   \* ingestion_run, each named by the sweep and the portal
    sweeping,   \* the sweep at work
    sweepsMade,
    check,      \* the workflow's run
    checksMade,
    alert       \* is an issue open?

watching == <<today, windows, attempts, sweeping, sweepsMade, check, checksMade, alert>>

NoWindow == [success |-> -1, checked |-> -1]

NoSweep == [on |-> FALSE, began |-> 0, left |-> {}, now |-> "nothing", since |-> 0]

NoCheck == [stage |-> "off", began |-> 0, windows |-> {}, newest |-> -1, verdict |-> "none"]

FreshnessInit ==
    /\ today = 0
    /\ windows = [p \in Watched |-> NoWindow]
    /\ attempts = {}
    /\ sweeping = NoSweep
    /\ sweepsMade = 0
    /\ check = NoCheck
    /\ checksMade = 0
    /\ alert = FALSE

\* Either workflow is stopped by its own limit long before a tick is over.
TimePasses ==
    /\ today < MaxTime
    /\ sweeping.on => sweeping.began = today
    /\ check.stage \in {"windows", "sweep", "stuck", "assessed"} => check.began = today
    /\ today' = today + 1
    /\ UNCHANGED <<windows, attempts, sweeping, sweepsMade, check, checksMade, alert>>

-----------------------------------------------------------------------------
(* The sweep: gepnic/cli.ts and gepnic/load.ts, as far as they are dated.  *)

\* One that cannot have the lock records that it was skipped.
StartSweep ==
    /\ sweepsMade < MaxSweeps
    /\ sweepsMade' = sweepsMade + 1
    /\ IF sweeping.on
       THEN /\ attempts' = attempts \cup
                    {[of |-> "all", sweep |-> sweepsMade, at |-> today, status |-> "skipped"]}
            /\ UNCHANGED sweeping
       ELSE /\ sweeping' = [NoSweep EXCEPT !.on = TRUE, !.began = today, !.left = Watched]
            /\ UNCHANGED attempts
    /\ UNCHANGED <<today, windows, check, checksMade, alert>>

\* collectPortal returns before a load: the portal refuses or cannot be reached,
\* advertises nothing, or its state has no districts.  No run is opened.
BeRefused(p) ==
    /\ sweeping.on /\ sweeping.now = "nothing" /\ p \in sweeping.left
    /\ sweeping' = [sweeping EXCEPT !.left = @ \ {p}]
    /\ UNCHANGED <<today, windows, attempts, sweepsMade, check, checksMade, alert>>

\* The run is opened and the attempt dated, each on its own, before the load.
OpenLoad(p) ==
    /\ sweeping.on /\ sweeping.now = "nothing" /\ p \in sweeping.left
    /\ sweeping' = [sweeping EXCEPT !.left = @ \ {p}, !.now = p, !.since = today]
    /\ attempts' = attempts \cup
           {[of |-> p, sweep |-> sweepsMade, at |-> today, status |-> "running"]}
    /\ windows' = [windows EXCEPT ![p].checked = IF windows[p] = NoWindow THEN @ ELSE today]
    /\ UNCHANGED <<today, sweepsMade, check, checksMade, alert>>

EndRun(as) ==
    {IF r.of = sweeping.now /\ r.status = "running" /\ r.at = sweeping.since
     THEN [r EXCEPT !.status = as] ELSE r : r \in attempts}

\* Dated by the transaction's start, which is when the load was opened.
EndLoad(succeeds) ==
    /\ sweeping.now # "nothing"
    /\ windows' = IF succeeds
                  THEN [windows EXCEPT ![sweeping.now] =
                            [success |-> sweeping.since, checked |-> sweeping.since]]
                  ELSE windows
    /\ attempts' = EndRun(IF succeeds THEN "succeeded" ELSE "failed")
    /\ sweeping' = [sweeping EXCEPT !.now = "nothing", !.since = 0]
    /\ UNCHANGED <<today, sweepsMade, check, checksMade, alert>>

\* All its portals are done, or the runner is killed and its run stays open.
EndSweep ==
    /\ sweeping.on
    /\ sweeping' = NoSweep
    /\ UNCHANGED <<today, windows, attempts, sweepsMade, check, checksMade, alert>>

-----------------------------------------------------------------------------
(* The check: three reads on one connection, not in one transaction.       *)

\* The workflow cancels the run before it, whatever that has done.
StartCheck ==
    /\ checksMade < MaxChecks
    /\ checksMade' = checksMade + 1
    /\ check' = [NoCheck EXCEPT !.stage = "windows", !.began = today]
    /\ UNCHANGED <<today, windows, attempts, sweeping, sweepsMade, alert>>

ReadWindows ==
    /\ check.stage = "windows"
    /\ check' = [check EXCEPT !.stage = "sweep",
                    !.windows = {windows[p] : p \in Watched} \ {NoWindow}]
    /\ UNCHANGED <<today, windows, attempts, sweeping, sweepsMade, checksMade, alert>>

ReadSweep ==
    /\ check.stage = "sweep"
    /\ check' = [check EXCEPT !.stage = "stuck",
                    !.newest = IF attempts = {} THEN -1
                               ELSE CHOOSE t \in {r.at : r \in attempts} :
                                        \A r \in attempts : r.at <= t]
    /\ UNCHANGED <<today, windows, attempts, sweeping, sweepsMade, checksMade, alert>>

\* Mutant of CollectionStatusOf: nothing goes stale.
CollectionStatusOf_Lasting(w, now) == IF w.checked > w.success THEN "failing" ELSE "collected"

\* The rule the readers' page follows too.
CollectionStatusOf(w, now) ==
    IF w.checked > w.success THEN "failing"
    ELSE IF w.success < now - StaleAfter THEN "stale"
    ELSE "collected"

StuckRuns(now) == {r \in attempts : r.status = "running" /\ r.at < now - StuckAfter}

AssessCollection(facts, stuck, now) ==
    IF /\ \A w \in facts.windows : CollectionStatusOf(w, now) = "collected"
       /\ facts.newest >= now - SweepWithin /\ facts.newest # -1
       /\ stuck = {}
    THEN "healthy"
    ELSE "problems"

ReadStuck ==
    /\ check.stage = "stuck"
    /\ check' = [NoCheck EXCEPT !.stage = "assessed", !.began = check.began,
                    !.verdict = AssessCollection(check, StuckRuns(today), today)]
    /\ UNCHANGED <<today, windows, attempts, sweeping, sweepsMade, checksMade, alert>>

\* Without a connection, the check fails like one that found a problem.
CheckCannotRead ==
    /\ check.stage \in {"windows", "sweep", "stuck"}
    /\ check' = [NoCheck EXCEPT !.stage = "assessed", !.began = check.began, !.verdict = "problems"]
    /\ UNCHANGED <<today, windows, attempts, sweeping, sweepsMade, checksMade, alert>>

TellOperators ==
    /\ check.stage = "assessed"
    /\ alert' = (check.verdict = "problems")
    /\ check' = [check EXCEPT !.stage = "told"]
    /\ UNCHANGED <<today, windows, attempts, sweeping, sweepsMade, checksMade>>

-----------------------------------------------------------------------------
FreshnessNext ==
    \/ TimePasses
    \/ StartSweep
    \/ \E p \in Watched : BeRefused(p) \/ OpenLoad(p)
    \/ \E succeeds \in BOOLEAN : EndLoad(succeeds)
    \/ EndSweep
    \/ StartCheck
    \/ ReadWindows
    \/ ReadSweep
    \/ ReadStuck
    \/ CheckCannotRead
    \/ TellOperators

FreshnessSpec == FreshnessInit /\ [][FreshnessNext]_watching

-----------------------------------------------------------------------------
(* Properties.                                                             *)

\* An alert that is closed, or never opened, by a check means what it says of the
\* time the check began, whatever was written between its reads: every portal that
\* was ever collected had been collected since the data it shows went stale, a
\* sweep had started lately, and no collector that died had been dead for long.
\* (assess.ts: "a job that never starts tells nobody anything".)
QuietMeansCollected ==
    check.stage = "told" /\ ~alert =>
        /\ \A p \in Watched : windows[p] = NoWindow \/ windows[p].success >= check.began - StaleAfter
        /\ \E r \in attempts : r.at >= check.began - SweepWithin
        /\ \A r \in attempts : r.status = "running" => r.at >= check.began - StuckAfter
=============================================================================
