--------------------------- MODULE LedgerVersions ---------------------------
(***************************************************************************)
(* Loads writing the ledger and the version its readers name: the newest   *)
(* committed `dataset_version` (packages/database/src/ledger.ts).  A load  *)
(* takes its id from a sequence when it opens, and either runs in one      *)
(* transaction (osm/load.ts, gepnic/load.ts, cag/promote.ts, places, bodies)*)
(* or commits each statement as it goes (lgd, beams, cag, OCR, notices).   *)
(* Loads may overlap.  Only the GePNIC sweeps are kept apart, by a lock the *)
(* database holds for their session (advisory-lock.ts), and only they      *)
(* write tenders.  A reviewer's decision (review/decide.ts,                *)
(* gepnic/place.ts) changes what is published and opens no version.  A     *)
(* read is atomic here: LedgerRead shows why.                              *)
(***************************************************************************)
EXTENDS Naturals, FiniteSets

CONSTANTS
    Loads,
    Transactional,  \* the loads that run in one transaction
    Units,          \* parts of the ledger that are written separately
    Sweeps,         \* the loads that take the sweep's lock
    Swept,          \* the units that only sweeps write: tenders
    MaxVersion,     \* bound on the ids the sequence hands out
    MaxWrites,      \* bound on the writes of a behaviour
    MaxAnswers      \* bound on the answers a cache holds

VARIABLES
    nextVersion,    \* the sequence behind dataset_version.id
    opened,         \* dataset_version ids that are committed
    rows,           \* each unit as committed: which load wrote it, and what
    load,           \* the open loads
    writes,         \* writes so far: what distinguishes one content from another
    served          \* answers given, which a cache may hold

vars == <<nextVersion, opened, rows, load, writes, served>>

Ids == 1..MaxVersion

\* What a load wrote, and what reviewers have decided of it since.
Content == [version : 0..MaxVersion, edition : 0..MaxWrites, decided : 0..MaxWrites]
Nothing == [version |-> 0, edition |-> 0, decided |-> 0]

\* `mine` is what an open transaction has written and nobody else sees.
Load == [open : BOOLEAN, version : 0..MaxVersion, mine : [Units -> Content]]
Closed == [open |-> FALSE, version |-> 0, mine |-> [u \in Units |-> Nothing]]
Opened(v) == [open |-> TRUE, version |-> v, mine |-> [u \in Units |-> Nothing]]

\* `underway` is kept for the properties alone: the loads open when it was read.
Answer == [version : 0..MaxVersion, rows : [Units -> Content], underway : SUBSET Ids]

ASSUME ConstantsAssumption ==
    /\ Transactional \subseteq Loads
    /\ Sweeps \subseteq Loads
    /\ Swept \subseteq Units
    /\ MaxVersion \in Nat
    /\ MaxWrites \in Nat
    /\ MaxAnswers \in Nat

Init ==
    /\ nextVersion = 1
    /\ opened = {}
    /\ rows = [u \in Units |-> Nothing]
    /\ load = [l \in Loads |-> Closed]
    /\ writes = 0
    /\ served = {}

-----------------------------------------------------------------------------
\* Mutant of MayOpen: the lock is taken on a pooled connection and lost at once.
MayOpen_Unlocked(l) == ~load[l].open

\* pg_try_advisory_lock: a sweep does not start beside another.  A load that dies
\* is rolled back and loses the lock with its session, in one step.
MayOpen(l) == ~load[l].open /\ (l \in Sweeps => \A k \in Sweeps : ~load[k].open)

\* The version other sessions see when a load has just opened it.
Visible(l) == IF l \in Transactional THEN {} ELSE {nextVersion}

\* INSERT INTO dataset_version ... RETURNING id.
Open(l) ==
    /\ MayOpen(l)
    /\ nextVersion <= MaxVersion
    /\ nextVersion' = nextVersion + 1
    /\ opened' = opened \cup Visible(l)
    /\ load' = [load EXCEPT ![l] = Opened(nextVersion)]
    /\ UNCHANGED <<rows, writes, served>>

\* A row an open transaction wrote is locked until it ends.
Locked(u) == \E l \in Loads : load[l].mine[u] # Nothing

\* Tenders are written by sweeps alone, and sweeps write nothing else.
Writes(l, u) == l \in Sweeps <=> u \in Swept

\* An upsert leaves what reviewers decided of the row.
Written(l, u) == [rows[u] EXCEPT !.version = load[l].version, !.edition = writes + 1]

\* One unit's rows, upserted.
WriteInTransaction(l, u) ==
    /\ l \in Transactional
    /\ Writes(l, u)
    /\ load[l].open
    /\ ~Locked(u)
    /\ writes < MaxWrites
    /\ writes' = writes + 1
    /\ load' = [load EXCEPT ![l].mine = [@ EXCEPT ![u] = Written(l, u)]]
    /\ UNCHANGED <<nextVersion, opened, rows, served>>

WriteAtOnce(l, u) ==
    /\ l \notin Transactional
    /\ Writes(l, u)
    /\ load[l].open
    /\ ~Locked(u)
    /\ writes < MaxWrites
    /\ writes' = writes + 1
    /\ rows' = [rows EXCEPT ![u] = Written(l, u)]
    /\ UNCHANGED <<nextVersion, opened, load, served>>

\* Mutants of Kept: the rows are committed and their version is not; another
\* version is.
Kept_RowsOnly(l) == {}
Kept_Next(l) == {load[l].version + 1}

\* The version that becomes visible with a transaction's rows.
Kept(l) == IF l \in Transactional THEN {load[l].version} ELSE {}

\* COMMIT; or, for a load that runs statement by statement, its sealing.
Commit(l) ==
    /\ load[l].open
    /\ opened' = opened \cup Kept(l)
    /\ rows' = [u \in Units |-> IF load[l].mine[u] # Nothing THEN load[l].mine[u] ELSE rows[u]]
    /\ load' = [load EXCEPT ![l] = Closed]
    /\ UNCHANGED <<nextVersion, writes, served>>

\* An error or a killed process: a transaction is rolled back, its id is burnt,
\* and what was committed statement by statement stays.
Fail(l) ==
    /\ load[l].open
    /\ load' = [load EXCEPT ![l] = Closed]
    /\ UNCHANGED <<nextVersion, opened, rows, writes, served>>

\* A reviewer decides; the row keeps the version of the load that wrote it.
Decide(u) ==
    /\ rows[u] # Nothing
    /\ ~Locked(u)
    /\ writes < MaxWrites
    /\ writes' = writes + 1
    /\ rows' = [rows EXCEPT ![u].decided = writes + 1]
    /\ UNCHANGED <<nextVersion, opened, load, served>>

-----------------------------------------------------------------------------
\* SELECT ... FROM dataset_version ORDER BY id DESC LIMIT 1; 0 when there is none.
IsWatermark(v) ==
    IF opened = {} THEN v = 0 ELSE v \in opened /\ \A w \in opened : w <= v

NamedBy(v) == IsWatermark(v)

UnderWay == { load[l].version : l \in { k \in Loads : load[k].open } }

\* readLedger: the version and the rows of one committed state.
Serve ==
    /\ Cardinality(served) < MaxAnswers
    /\ \E v \in 0..MaxVersion :
         /\ NamedBy(v)
         /\ served' = served \cup {[version |-> v, rows |-> rows, underway |-> UnderWay]}
    /\ UNCHANGED <<nextVersion, opened, rows, load, writes>>

Next ==
    \/ \E l \in Loads :
         \/ Open(l)
         \/ Commit(l)
         \/ Fail(l)
         \/ \E u \in Units : WriteInTransaction(l, u) \/ WriteAtOnce(l, u)
    \/ \E u \in Units : Decide(u)
    \/ Serve

Spec == Init /\ [][Next]_vars
-----------------------------------------------------------------------------
(* Properties.                                                             *)

\* Every variable has its type, and an open load has the version it opened.
TypeOK ==
    /\ nextVersion \in 1..(MaxVersion + 1)
    /\ opened \subseteq Ids
    /\ rows \in [Units -> Content]
    /\ load \in [Loads -> Load]
    /\ \A l \in Loads : load[l].open => load[l].version \in Ids
    /\ writes \in 0..MaxWrites
    /\ served \subseteq Answer

\* ledger.ts: the version of an answer says "what had the ledger received when
\* this was read", so no row in it comes from a load it does not cover.
NamesNothingNewer ==
    \A a \in served : \A u \in Units : a.rows[u].version <= a.version

\* ledger.ts: the watermark "is a correct cache key": two answers of one version
\* are the same answer.
CacheKey == \A a, b \in served : a.version = b.version => a.rows = b.rows

\* How far the claim goes: two answers of one version differ in what reviewers
\* decided, and in rows of loads that were under way when one of them was read,
\* in nothing else.  What a load began and ended between them cannot be missed.
OnlyLoadsUnderWayDiffer ==
    \A a, b \in served : a.version = b.version => \A u \in Units :
        \/ a.rows[u].version = b.rows[u].version /\ a.rows[u].edition = b.rows[u].edition
        \/ b.rows[u].version \in a.underway
        \/ a.rows[u].version \in b.underway

\* advisory-lock.ts: one sweep at a time, so that a tender is never put back to
\* what an earlier sweep read, whatever dies and whatever else is loading.
SweepsGoForward == [][\A u \in Swept : rows[u].version <= rows'[u].version]_vars
=============================================================================
