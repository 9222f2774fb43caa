----------------------------- MODULE FactReview -----------------------------
(***************************************************************************)
(* One document's rows of `document_fact`: a parser run                    *)
(* (services/ingestion/src/cag/facts-load.ts) and the reviewers            *)
(* (services/ingestion/src/review/decide.ts) writing the same rows from    *)
(* separate database sessions.  Every statement of either is its own       *)
(* transaction, so an action here is one statement.  The trigger of        *)
(* migration 0009 and the view of migration 0044 are part of the model.    *)
(***************************************************************************)
EXTENDS Naturals, Sequences

CONSTANTS
    Identities,   \* what makes a fact that fact: page, kind, evidence, value, ...
    Versions,     \* parser versions
    Yields,       \* Yields[v]: the identities version v produces
    Measured,     \* Measured[v]: those it gives a reading confidence
    Scanned,      \* identities read from a scan (page_reading_id is not null)
    Valued,       \* identities with a normalised value
    Reviewers, Values, Notes,
    Loaders,      \* processes that may run the parser over this document
    Overlap,      \* may a reviewer decide while a parser run is in progress?
    MaxRows,      \* bound on the row ids the identity sequence hands out
    MaxRevisions, \* bound on the superseded decisions of one row
    Null

VARIABLES
    fact,     \* document_fact by row id, Null where there is no row
    past,     \* document_fact_review_history by row id, oldest first
    nextId,   \* the next value of the identity sequence
    load,     \* what each parser run holds in memory
    screen    \* what each reviewer about to revise has read

vars == <<fact, past, nextId, load, screen>>

RowIds == 1..MaxRows

Statuses == {"unverified", "verified", "rejected", "corrected"}

Decision == [status : Statuses, by : Reviewers \cup {Null},
             value : Values \cup {Null}, note : Notes \cup {Null}]

Undecided == [status |-> "unverified", by |-> Null, value |-> Null, note |-> Null]

\* `version` is parser_version; `read` names the version whose measure of how legible
\* the figures are (reading_confidence) the row carries.
Row == [ident : Identities, version : Versions, read : Versions, decision : Decision]

\* What heldByIdentity keeps of a row.
HeldRow == [id : RowIds, open : BOOLEAN, version : Versions]

Load == [stage : {"idle", "loading", "done"}, version : Versions \cup {Null},
         held : [Identities -> HeldRow \cup {Null}], todo : SUBSET Identities,
         stamp : Identities \cup {Null}]

Screen == [row : RowIds, seen : Decision]

ASSUME ConstantsAssumption ==
    /\ Yields \in [Versions -> SUBSET Identities]
    /\ Measured \in [Versions -> SUBSET Identities]
    /\ Overlap \in BOOLEAN
    /\ MaxRows \in Nat
    /\ MaxRevisions \in Nat
    /\ Null \notin Identities \cup Versions \cup Reviewers \cup Values \cup Notes

\* A claim on offer: its decision and those it replaced.
Entry == [ruling : Decision, replaced : Seq(Decision)]

ASSUME NullAssumption == Null \notin Row /\ Null \notin HeldRow /\ Null \notin Screen /\ Null \notin Entry

-----------------------------------------------------------------------------
Rows == {f \in RowIds : fact[f] # Null}
Decided(f) == fact[f].decision.status # "unverified"
Idle == [stage |-> "idle", version |-> Null, held |-> [i \in Identities |-> Null],
         todo |-> {}, stamp |-> Null]

Init ==
    /\ fact = [f \in RowIds |-> Null]
    /\ past = [f \in RowIds |-> <<>>]
    /\ nextId = 1
    /\ load = [l \in Loaders |-> Idle]
    /\ screen = [r \in Reviewers |-> Null]

-----------------------------------------------------------------------------
(* The parser run: read every row, then write one row at a time.           *)

\* Rows come back in no stated order and a Map keeps the last row of an identity.
HeldByIdentity ==
    {h \in [Identities -> Rows \cup {Null}] :
        \A i \in Identities :
            IF \E f \in Rows : fact[f].ident = i
              THEN h[i] # Null /\ fact[h[i]].ident = i
              ELSE h[i] = Null}

HeldAs(f) == [id |-> f, open |-> ~Decided(f), version |-> fact[f].version]

StartLoad(l, v) ==
    /\ load[l].stage # "loading"
    /\ \E h \in HeldByIdentity :
          load' = [load EXCEPT ![l] =
                     [stage |-> "loading", version |-> v,
                      held |-> [i \in Identities |-> IF h[i] = Null THEN Null ELSE HeldAs(h[i])],
                      todo |-> Yields[v], stamp |-> Null]]
    /\ UNCHANGED <<fact, past, nextId, screen>>

\* The next candidate to write, once the one before it is finished.
Candidate(l, i) ==
    /\ load[l].stage = "loading"
    /\ load[l].stamp = Null
    /\ i \in load[l].todo

\* Mutants of NeedsStamp: no row is refreshed; every row is.
NeedsStamp_Never(held, v) == FALSE
NeedsStamp_Any(held, v) == held.version # v

\* Whether the row, as it was read, is undecided and from another parser version.
NeedsStamp(held, v) == held.open /\ held.version # v

\* UPDATE ... SET reading_confidence, whatever the row's status.  The statements before
\* and after it (the verdict and the denominator; the box) are each their own
\* transaction and write columns that nothing here reads.  An UPDATE of a row that is
\* gone changes nothing.
Measure(l, i) ==
    LET held == load[l].held[i]
        v == load[l].version
    IN  /\ Candidate(l, i)
        /\ held # Null
        /\ fact' = IF fact[held.id] = Null THEN fact
                   ELSE [fact EXCEPT ![held.id].read = v]
        /\ load' = [load EXCEPT ![l].todo = @ \ {i},
                                ![l].stamp = IF NeedsStamp(held, v) THEN i ELSE Null]
        /\ UNCHANGED <<past, nextId, screen>>

\* UPDATE ... SET parser_version WHERE id: the status was looked at when the
\* row was read, not here.
Restamp(l) ==
    LET held == load[l].held[load[l].stamp]
    IN  /\ load[l].stage = "loading"
        /\ load[l].stamp # Null
        /\ fact' = IF fact[held.id] = Null THEN fact
                   ELSE [fact EXCEPT ![held.id].version = load[l].version]
        /\ load' = [load EXCEPT ![l].stamp = Null]
        /\ UNCHANGED <<past, nextId, screen>>

\* Mutant of Insertable: a decided row is not taken for the candidate's own.
Insertable_UnlessOpen(l, i) == ~(load[l].held[i] # Null /\ load[l].held[i].open)

Insertable(l, i) == load[l].held[i] = Null

Insert(l, i) ==
    LET v == load[l].version
    IN  /\ Candidate(l, i)
        /\ Insertable(l, i)
        /\ nextId <= MaxRows
        /\ fact' = [fact EXCEPT ![nextId] =
                      [ident |-> i, version |-> v, read |-> v, decision |-> Undecided]]
        /\ nextId' = nextId + 1
        /\ load' = [load EXCEPT ![l].todo = @ \ {i}]
        /\ UNCHANGED <<past, screen>>

\* Mutant of Retirable: whatever the row's status.
Retirable_AllStale(l) ==
    {f \in RowIds : \E i \in Identities \ Yields[load[l].version] :
        load[l].held[i] # Null /\ load[l].held[i].id = f}

\* Rows read as undecided whose identity this version did not produce.
Retirable(l) ==
    {f \in RowIds : \E i \in Identities \ Yields[load[l].version] :
        load[l].held[i] # Null /\ load[l].held[i].id = f /\ load[l].held[i].open}

\* DELETE ... WHERE id = ANY(retirable); the history of a deleted row goes with
\* it (ON DELETE CASCADE).
Retire(l) ==
    /\ load[l].stage = "loading"
    /\ load[l].todo = {}
    /\ load[l].stamp = Null
    /\ fact' = [f \in RowIds |-> IF f \in Retirable(l) THEN Null ELSE fact[f]]
    /\ past' = [f \in RowIds |-> IF f \in Retirable(l) THEN <<>> ELSE past[f]]
    /\ load' = [load EXCEPT ![l] = [Idle EXCEPT !.stage = "done", !.version = load[l].version]]
    /\ UNCHANGED <<nextId, screen>>

\* The process dies, or a statement throws: nothing it wrote is undone.
Crash(l) ==
    /\ load[l].stage = "loading"
    /\ load' = [load EXCEPT ![l] = Idle]
    /\ UNCHANGED <<fact, past, nextId, screen>>

-----------------------------------------------------------------------------
(* The reviewers.                                                          *)

MayReview == Overlap \/ \A l \in Loaders : load[l].stage # "loading"

\* Mutant of Decisions: a correction without its value is let through.
Decisions_ValueOptional(r) == {d \in Decision : d.by = r /\ d.status # "unverified"}

\* A correction carries a value and nothing else may.
Decisions(r) ==
    {d \in Decision : /\ d.by = r
                      /\ d.status # "unverified"
                      /\ (d.status = "corrected") <=> (d.value # Null)}

\* Mutants of Supersede: only a change of status is history; every update is.
Supersede_StatusOnly(f, d) ==
    past' = IF Decided(f) /\ fact[f].decision.status # d.status
              THEN [past EXCEPT ![f] = Append(@, fact[f].decision)]
              ELSE past
Supersede_EveryUpdate(f, d) ==
    past' = IF Decided(f) THEN [past EXCEPT ![f] = Append(@, fact[f].decision)] ELSE past

\* What the trigger of migration 0009 writes when `d` replaces a row's decision.
Supersede(f, d) ==
    past' = IF Decided(f) /\ fact[f].decision # d
              THEN [past EXCEPT ![f] = Append(@, fact[f].decision)]
              ELSE past

Write(f, d) ==
    /\ fact' = [fact EXCEPT ![f].decision = d]
    /\ Supersede(f, d)

\* recordDecision.  A reviewer's list may be as old as they like: every row was
\* undecided once, so any id ever handed out may be on it, and the guard of the
\* UPDATE is what decides.  (Refused, it changes nothing.)
RecordDecision(r, f) ==
    /\ MayReview
    /\ f \in Rows
    /\ ~Decided(f)
    /\ \E d \in Decisions(r) : Write(f, d)
    /\ UNCHANGED <<nextId, load, screen>>

\* The UPDATE of reviseDecision: a reason is required.
Revisable(f) == f \in Rows /\ Decided(f)

Revise(r, f) ==
    /\ MayReview
    /\ Revisable(f)
    /\ Len(past[f]) < MaxRevisions
    /\ \E d \in Decisions(r) : d.note # Null /\ Write(f, d)

\* factById and priorDecisions: the fact is shown before it is revised.
ReadForRevision(r, f) ==
    /\ MayReview
    /\ screen[r] = Null
    /\ Revisable(f)
    /\ screen' = [screen EXCEPT ![r] = [row |-> f, seen |-> fact[f].decision]]
    /\ UNCHANGED <<fact, past, nextId, load>>

ReviseWhatWasRead(r) ==
    /\ screen[r] # Null
    /\ Revise(r, screen[r].row)
    /\ screen' = [screen EXCEPT ![r] = Null]
    /\ UNCHANGED <<nextId, load>>

\* Anything but a decision key, or an update that finds no decided row.
LeaveUnchanged(r) ==
    /\ screen[r] # Null
    /\ screen' = [screen EXCEPT ![r] = Null]
    /\ UNCHANGED <<fact, past, nextId, load>>

\* --revise=ids --decide: the facts are named and nothing is shown first.
ReviseNamed(r, f) ==
    /\ Revise(r, f)
    /\ UNCHANGED <<nextId, load, screen>>

-----------------------------------------------------------------------------
LoaderStep(l) ==
    \/ \E v \in Versions : StartLoad(l, v)
    \/ \E i \in Identities : Measure(l, i)
    \/ Restamp(l)
    \/ \E i \in Identities : Insert(l, i)
    \/ Retire(l)
    \/ Crash(l)

ReviewerStep(r) ==
    \/ \E f \in RowIds : RecordDecision(r, f)
    \/ \E f \in RowIds : ReadForRevision(r, f)
    \/ ReviseWhatWasRead(r)
    \/ LeaveUnchanged(r)
    \/ \E f \in RowIds : ReviseNamed(r, f)

Next == (\E l \in Loaders : LoaderStep(l)) \/ (\E r \in Reviewers : ReviewerStep(r))

Spec == Init /\ [][Next]_vars
-----------------------------------------------------------------------------
(* The published view: migration 0044.                                     *)
Published(f) ==
    /\ f \in Rows
    /\ fact[f].decision.status \in {"verified", "corrected"}
    /\ fact[f].decision.value # Null \/ fact[f].ident \in Valued
    /\ fact[f].ident \in Scanned => fact[f].ident \in Measured[fact[f].read]

-----------------------------------------------------------------------------
(* Properties.                                                             *)

\* The CHECKs of migration 0007: a decision is attributed, and a correction
\* carries its value.
DecisionSound(d) ==
    \/ d = Undecided
    \/ /\ d.status # "unverified"
       /\ d.by # Null
       /\ d.status = "corrected" => d.value # Null

\* A run that has started knows its version, and stamps only a row it read as
\* undecided.
LoadSound(run) ==
    /\ run.stage # "idle" => run.version \in Versions
    /\ run.stage = "loading" /\ run.stamp # Null =>
         run.held[run.stamp] # Null /\ run.held[run.stamp].open

\* Every variable has its type, every row on file was handed out by the
\* sequence, and its decision is one the table accepts.
TypeOK ==
    /\ fact \in [RowIds -> Row \cup {Null}]
    /\ past \in [RowIds -> Seq(Decision)]
    /\ nextId \in 1..(MaxRows + 1)
    /\ load \in [Loaders -> Load]
    /\ screen \in [Reviewers -> Screen \cup {Null}]
    /\ \A f \in Rows : f < nextId /\ DecisionSound(fact[f].decision)
    /\ \A l \in Loaders : LoadSound(load[l])

\* "One identity is one row" (facts-load.ts, loadFactCandidates): however often
\* the parser is run, crashed and run again, and whatever is decided meanwhile,
\* no figure is offered twice.
OneIdentityOneRow ==
    \A f, g \in Rows : fact[f].ident = fact[g].ident => f = g

\* After a run that finished, the undecided rows are exactly what that version
\* produces and carry its name, every row it produces carries its reading
\* whatever its status, and nothing it produces is missing: whatever reviewers
\* did while it ran.
Reconciled ==
    \A l \in Loaders : load[l].stage = "done" =>
        LET v == load[l].version
        IN  /\ \A i \in Yields[v] : \E f \in Rows : fact[f].ident = i
            /\ \A f \in Rows :
                 /\ fact[f].ident \in Yields[v] => fact[f].read = v
                 /\ ~Decided(f) => fact[f].ident \in Yields[v] /\ fact[f].version = v

\* A decision stays as it was made until another decision replaces it, and then
\* it is the last entry of the history; entries before it are untouched.
SupersededOnRecord(f) ==
    \/ fact'[f].decision = fact[f].decision /\ past'[f] = past[f]
    \/ fact'[f].decision.status # "unverified" /\ past'[f] = Append(past[f], fact[f].decision)

\* A row on file before and after a step never loses a decision from its trail
\* and never goes back to the queue (migration 0009: the trail cannot be edited
\* or omitted), even when the parser writes the row between two decisions.
TrailIsComplete ==
    [][\A f \in Rows : Decided(f) /\ fact'[f] # Null => SupersededOnRecord(f)]_vars

\* facts-load.ts on decided facts: "Never touched, only counted. A person's
\* decision is not the parser's to withdraw, and silently removing one would
\* destroy the audit trail that makes review mean anything."
DecisionIsKept ==
    [][\A f \in Rows : Decided(f) => fact'[f] # Null /\ SupersededOnRecord(f)]_vars

\* facts-load.ts, reconcile: "Decided rows are not touched: their version is
\* part of what a person reviewed, and the parser does not get to restate that."
VersionAsReviewed ==
    [][\A f \in Rows : Decided(f) /\ fact'[f] # Null
         => fact'[f].version = fact[f].version]_vars

\* The rows of the document implement the ledger of its claims: a claim is on
\* offer while some row has its identity, and it is that row's decision and
\* trail.
LedgerEntry(i) ==
    IF \E f \in Rows : fact[f].ident = i
      THEN LET f == CHOOSE f \in Rows : fact[f].ident = i
           IN  [ruling |-> fact[f].decision, replaced |-> past[f]]
      ELSE Null

Ledger == INSTANCE ReviewLedger WITH
    Claims <- Identities,
    Rulings <- UNION {Decisions(r) : r \in Reviewers},
    NoClaim <- Null,
    ledger <- [i \in Identities |-> LedgerEntry(i)]

ImplementsLedger == Ledger!Spec
=============================================================================
