------------------------------ MODULE Promotion ------------------------------
(***************************************************************************)
(* One audit report carried from the database it is reviewed in to the one *)
(* readers use (services/ingestion/src/cag/promote.ts), and kept in step   *)
(* with it afterwards (promote-refresh.ts).                                *)
(*                                                                         *)
(* Everything is read from the source in statements of their own, while    *)
(* parsers and reviewers go on; everything is written to the target in one *)
(* transaction, which its unique keys and ALTER TABLE keep apart from any  *)
(* other.  What a reviewer or a parser may say of a figure is one value,   *)
(* its decision; pages, rectangles and the dataset version are left out.   *)
(***************************************************************************)
EXTENDS Integers, FiniteSets, Sequences

CONSTANTS
    Identities,    \* what a figure says and where (ADR-026)
    Scanned,       \* those of them read from a scan
    FirstFigures,  \* the figures the source begins with, by id
    Cites,         \* <<d, l>>: a figure d may be a second citation of l
    Runs,          \* processes that promote or refresh
    Apart,         \* whether the operator starts no refresh beside another
    MaxFigures,    \* bound on the source's ids
    MaxEdits,      \* bound on what parsers and reviewers do
    Null

ASSUME PromotionAssumption ==
    /\ FirstFigures \in Seq(Identities)
    /\ Scanned \subseteq Identities
    /\ Cites \subseteq Identities \X Identities
    /\ Apart \in BOOLEAN
    /\ Null \notin Nat /\ Null \notin Runs /\ Null \notin Identities \X Nat
    /\ MaxFigures \in Nat
    /\ MaxEdits \in Nat

VARIABLES
    source,  \* the reviewed ledger: its figures, the trail of past decisions, the last id
    target,  \* the ledger readers use; Null until the report is there
    stored,  \* whether the report's bytes are in the target's store
    lock,    \* the run whose transaction has written the target
    run,     \* what each run is doing
    edits

vars == <<source, target, stored, lock, run, edits>>

Undecided == [status |-> "unverified", at |-> 0]
Decisions == [status : {"verified", "rejected"}, at : Nat \ {0}]
Figure == [identity : Identities, decision : Decisions \cup {Undecided}, same : Nat \cup {Null}]

NewFigure(i) == [identity |-> i, decision |-> Undecided, same |-> Null]

Decided(f) == f.decision # Undecided
IsPublished(f) == f.decision.status = "verified" /\ f.identity \notin Scanned
Published(figure) == {i \in DOMAIN figure : IsPublished(figure[i])}

\* A figure's place in the order of ids, and the rows of some ids in that order.
Rank(ids, i) == Cardinality({j \in ids : j <= i})
NthOf(ids, n) == CHOOSE i \in ids : Rank(ids, i) = n
InOrder(rows, ids) == [n \in 1..Cardinality(ids) |-> rows[NthOf(ids, n)]]

Idle == [pc |-> "idle"]

Init ==
    /\ source = [figure |-> [i \in DOMAIN FirstFigures |-> NewFigure(FirstFigures[i])],
                 trail |-> <<>>, last |-> Len(FirstFigures)]
    /\ target = Null
    /\ stored = FALSE
    /\ lock = Null
    /\ run = [p \in Runs |-> Idle]
    /\ edits = 0

-----------------------------------------------------------------------------
(* What goes on in the source: reviewers, the parser, the linker.          *)

Edit(figure, trail, last) ==
    /\ edits < MaxEdits
    /\ edits' = edits + 1
    /\ source' = [figure |-> figure, trail |-> trail, last |-> last]
    /\ UNCHANGED <<target, stored, lock, run>>

\* Figures with a row of a given id, and without some: links to those become NULL (0014).
With(figure, i, f) == [j \in DOMAIN figure \cup {i} |-> IF j = i THEN f ELSE figure[j]]

Without(figure, gone) ==
    [i \in DOMAIN figure \ gone |->
        [figure[i] EXCEPT !.same = IF figure[i].same \in gone THEN Null ELSE @]]

\* A first decision replaces nothing; a later one is filed (0009).
Decide(i, status) ==
    LET f == source.figure[i]
        anew == [f EXCEPT !.decision = [status |-> status, at |-> edits + 1]]
    IN  Edit(With(source.figure, i, anew),
             IF Decided(f) THEN Append(source.trail, <<i, f.decision>>) ELSE source.trail,
             source.last)

Insert(identity) ==
    /\ source.last < MaxFigures
    /\ \A i \in DOMAIN source.figure : source.figure[i].identity # identity
    /\ Edit(With(source.figure, source.last + 1, NewFigure(identity)), source.trail, source.last + 1)

Retire(i) ==
    /\ ~Decided(source.figure[i])
    /\ Edit(Without(source.figure, {i}), source.trail, source.last)

Link(i, j) ==
    /\ <<source.figure[i].identity, source.figure[j].identity>> \in Cites
    /\ source.figure[i].same # j
    /\ Edit(With(source.figure, i, [source.figure[i] EXCEPT !.same = j]), source.trail, source.last)

Unlink ==
    /\ \E i \in DOMAIN source.figure : source.figure[i].same # Null
    /\ Edit([i \in DOMAIN source.figure |-> [source.figure[i] EXCEPT !.same = Null]],
            source.trail, source.last)

ReviewOrParse ==
    \/ \E i \in DOMAIN source.figure :
          \/ \E status \in {"verified", "rejected"} : Decide(i, status)
          \/ Retire(i)
          \/ \E j \in DOMAIN source.figure : Link(i, j)
    \/ \E identity \in Identities : Insert(identity)
    \/ Unlink

-----------------------------------------------------------------------------
(* Promotion of a report the target does not hold.                         *)

Goes(p, state) == run' = [run EXCEPT ![p] = state]

LookForReport(p) ==
    /\ run[p].pc = "idle"
    /\ target = Null
    /\ Goes(p, [pc |-> "put"])
    /\ UNCHANGED <<source, target, stored, lock, edits>>

\* Bytes first, outside the transaction.
PutBytes(p) ==
    /\ run[p].pc = "put"
    /\ stored' = TRUE
    /\ Goes(p, [pc |-> "count"])
    /\ UNCHANGED <<source, target, lock, edits>>

\* The trail is not among what is counted.
Counts_NoTrail(figure, trail) ==
    <<Cardinality(DOMAIN figure), Cardinality(Published(figure)), 0>>

Counts(figure, trail) ==
    <<Cardinality(DOMAIN figure), Cardinality(Published(figure)), Len(trail)>>

ReadCounts(p) ==
    /\ run[p].pc = "count"
    /\ Goes(p, [pc |-> "begin", expected |-> Counts(source.figure, source.trail)])
    /\ UNCHANGED <<source, target, stored, lock, edits>>

\* A second run of the same report waits here for the first, and then fails on
\* document_one_per_artifact.
InsertReport(p) ==
    /\ run[p].pc = "begin"
    /\ lock = Null
    /\ IF target = Null
       THEN lock' = p /\ Goes(p, [pc |-> "figures", expected |-> run[p].expected])
       ELSE lock' = lock /\ Goes(p, Idle)
    /\ UNCHANGED <<source, target, stored, edits>>

\* New ids for every figure and for every link to one of them.
Remapped(figure) ==
    LET ids == DOMAIN figure
        rows == InOrder(figure, ids)
    IN  [n \in DOMAIN rows |->
            [rows[n] EXCEPT !.same = IF rows[n].same \in ids THEN Rank(ids, rows[n].same) ELSE Null]]

Copied(figure, trail) ==
    [figure |-> Remapped(figure),
     trail |-> [n \in DOMAIN trail |-> <<Rank(DOMAIN figure, trail[n][1]), trail[n][2]>>],
     last |-> Cardinality(DOMAIN figure)]

\* A scanned figure names a reading the target does not have: its insert fails.
\* What the source is as its figures are read is kept to be compared with.
CopyFigures(p) ==
    /\ run[p].pc = "figures"
    /\ \A i \in DOMAIN source.figure : source.figure[i].identity \notin Scanned
    /\ Goes(p, [pc |-> "history", expected |-> run[p].expected, asRead |-> source])
    /\ UNCHANGED <<source, target, stored, lock, edits>>

\* A past decision of a figure that came after the figures were read has nothing
\* to be filed under: its insert fails.
CopyHistory(p) ==
    /\ run[p].pc = "history"
    /\ \A n \in DOMAIN source.trail : source.trail[n][1] \in DOMAIN run[p].asRead.figure
    /\ Goes(p, [pc |-> "compare", expected |-> run[p].expected, asRead |-> run[p].asRead,
                work |-> Copied(run[p].asRead.figure, source.trail)])
    /\ UNCHANGED <<source, target, stored, lock, edits>>

MayCommit(p) == Counts(run[p].work.figure, run[p].work.trail) = run[p].expected

CommitPromotion(p) ==
    /\ run[p].pc = "compare"
    /\ MayCommit(p)
    /\ target' = run[p].work
    /\ lock' = Null
    /\ Goes(p, Idle)
    /\ UNCHANGED <<source, stored, edits>>

\* A check that refuses, a count that disagrees, an insert that fails, a dry run,
\* a killed process: the transaction is undone, the bytes stay.
Abandon(p) ==
    /\ run[p].pc # "idle"
    /\ lock' = IF lock = p THEN Null ELSE lock
    /\ Goes(p, Idle)
    /\ UNCHANGED <<source, target, stored, edits>>

Promote(p) ==
    \/ LookForReport(p) \/ PutBytes(p) \/ ReadCounts(p) \/ InsertReport(p)
    \/ CopyFigures(p) \/ CopyHistory(p) \/ CommitPromotion(p)

-----------------------------------------------------------------------------
(* What it takes to make the target agree.                                 *)

\* A figure's key: its identity, and its place among those that share it.
KeyOf(figure, i) ==
    <<figure[i].identity,
      Cardinality({j \in DOMAIN figure : j < i /\ figure[j].identity = figure[i].identity})>>

Keys(figure) == {KeyOf(figure, i) : i \in DOMAIN figure}
WithKey(figure, key) == CHOOSE i \in DOMAIN figure : KeyOf(figure, i) = key
Text(figure) == [i \in {j \in DOMAIN figure : figure[j].identity \notin Scanned} |-> figure[i]]

LinkOf(figure, key) ==
    IF key \in Keys(figure) /\ figure[WithKey(figure, key)].same \in DOMAIN figure
    THEN KeyOf(figure, figure[WithKey(figure, key)].same) ELSE Null

ToInsert(src, tgt) ==
    LET rows == InOrder(src, {i \in DOMAIN src : KeyOf(src, i) \notin Keys(tgt)})
    IN  [n \in DOMAIN rows |-> [rows[n] EXCEPT !.same = Null]]

ToUpdate(src, tgt) ==
    {<<WithKey(tgt, k), src[WithKey(src, k)].decision>> :
        k \in {l \in Keys(src) \cap Keys(tgt) :
                  src[WithKey(src, l)].decision # tgt[WithKey(tgt, l)].decision}}

ToRetire(src, tgt) == {i \in DOMAIN tgt : KeyOf(tgt, i) \notin Keys(src) /\ ~Decided(tgt[i])}

ToFile(src, trail, tgt, held) ==
    LET there == {<<KeyOf(tgt, held[n][1]), held[n][2]>> :
                     n \in {m \in DOMAIN held : held[m][1] \in DOMAIN tgt}}
        lacking == {n \in DOMAIN trail : /\ trail[n][1] \in DOMAIN src
                                         /\ <<KeyOf(src, trail[n][1]), trail[n][2]>> \notin there}
        rows == InOrder(trail, lacking)
    IN  [n \in DOMAIN rows |-> <<KeyOf(src, rows[n][1]), rows[n][2]>>]

ToLink(src, tgt) ==
    {<<k, LinkOf(src, k)>> : k \in {l \in Keys(src) : LinkOf(tgt, l) # LinkOf(src, l)}}

\* The past decisions are not part of the plan.
PlanRefresh_NoHistory(figure, trail, tgt, held) ==
    LET src == Text(figure)
    IN  [insert |-> ToInsert(src, tgt), update |-> ToUpdate(src, tgt),
         retire |-> ToRetire(src, tgt), history |-> <<>>, links |-> ToLink(src, tgt)]

PlanRefresh(figure, trail, tgt, held) ==
    LET src == Text(figure)
    IN  [insert |-> ToInsert(src, tgt), update |-> ToUpdate(src, tgt),
         retire |-> ToRetire(src, tgt), history |-> ToFile(src, trail, tgt, held),
         links |-> ToLink(src, tgt)]

IsSettled(plan) ==
    /\ plan.insert = <<>> /\ plan.history = <<>>
    /\ plan.update = {} /\ plan.retire = {} /\ plan.links = {}

\* Retired, inserted and updated, in that order.
Refreshed(side, plan) ==
    LET gone == {i \in DOMAIN side.figure : i \in plan.retire /\ ~Decided(side.figure[i])}
        kept == Without(side.figure, gone)
        new == side.last + 1..side.last + Len(plan.insert)
    IN  [i \in DOMAIN kept \cup new |->
            IF i \in new THEN plan.insert[i - side.last]
            ELSE IF \E u \in plan.update : u[1] = i
            THEN [kept[i] EXCEPT !.decision = (CHOOSE u \in plan.update : u[1] = i)[2]]
            ELSE kept[i]]

\* Every key the plan files or links under is there by then.
Fits(figure, plan) ==
    /\ \A n \in DOMAIN plan.history : plan.history[n][1] \in Keys(figure)
    /\ \A l \in plan.links : l[1] \in Keys(figure) /\ l[2] \in Keys(figure) \cup {Null}

Linked(figure, links) ==
    [i \in DOMAIN figure |->
        IF \E l \in links : l[1] = KeyOf(figure, i)
        THEN LET to == (CHOOSE l \in links : l[1] = KeyOf(figure, i))[2]
             IN  [figure[i] EXCEPT !.same = IF to = Null THEN Null ELSE WithKey(figure, to)]
        ELSE figure[i]]

Applied(side, plan) ==
    LET figure == Refreshed(side, plan)
        kept == InOrder(side.trail, {n \in DOMAIN side.trail : side.trail[n][1] \in DOMAIN figure})
        filed == [n \in DOMAIN plan.history |->
                     <<WithKey(figure, plan.history[n][1]), plan.history[n][2]>>]
    IN  [figure |-> Linked(figure, plan.links), trail |-> kept \o filed,
         last |-> side.last + Len(plan.insert)]

-----------------------------------------------------------------------------
(* Refreshing a report both hold.                                          *)

IsRefreshing(p) ==
    run[p].pc \in {"sourceTrail", "targetFigures", "targetTrail", "apply", "check", "checkTrail"}

FindPair(p) ==
    /\ run[p].pc = "idle"
    /\ Apart => \A q \in Runs : ~IsRefreshing(q)
    /\ target # Null
    /\ Goes(p, [pc |-> "sourceTrail", figure |-> source.figure])
    /\ UNCHANGED <<source, target, stored, lock, edits>>

ReadSourceTrail(p) ==
    /\ run[p].pc = "sourceTrail"
    /\ Goes(p, [pc |-> "targetFigures", figure |-> run[p].figure, trail |-> source.trail])
    /\ UNCHANGED <<source, target, stored, lock, edits>>

ReadTargetFigures(p) ==
    /\ run[p].pc = "targetFigures"
    /\ Goes(p, [pc |-> "targetTrail", figure |-> run[p].figure, trail |-> run[p].trail,
                held |-> target.figure])
    /\ UNCHANGED <<source, target, stored, lock, edits>>

\* With nothing to do, the run ends having opened no version.
ReadTargetTrail(p) ==
    LET plan == PlanRefresh(run[p].figure, run[p].trail, run[p].held, target.trail)
    IN  /\ run[p].pc = "targetTrail"
        /\ Goes(p, IF IsSettled(plan) THEN Idle ELSE [pc |-> "apply", plan |-> plan])
        /\ UNCHANGED <<source, target, stored, lock, edits>>

\* The trigger is off and the table locked: the history filed is the source's.
Apply(p) ==
    /\ run[p].pc = "apply"
    /\ lock = Null
    /\ Fits(Refreshed(target, run[p].plan), run[p].plan)
    /\ lock' = p
    /\ Goes(p, [pc |-> "check", work |-> Applied(target, run[p].plan)])
    /\ UNCHANGED <<source, target, stored, edits>>

ReadFiguresAgain(p) ==
    /\ run[p].pc = "check"
    /\ Goes(p, [pc |-> "checkTrail", work |-> run[p].work, asRead |-> source])
    /\ UNCHANGED <<source, target, stored, lock, edits>>

\* The same plan, made again, is empty.
Agrees(p, trail) ==
    IsSettled(PlanRefresh(run[p].asRead.figure, trail, run[p].work.figure, run[p].work.trail))

CommitRefresh(p) ==
    /\ run[p].pc = "checkTrail"
    /\ Agrees(p, source.trail)
    /\ target' = run[p].work
    /\ lock' = Null
    /\ Goes(p, Idle)
    /\ UNCHANGED <<source, stored, edits>>

Refresh(p) ==
    \/ FindPair(p) \/ ReadSourceTrail(p) \/ ReadTargetFigures(p) \/ ReadTargetTrail(p)
    \/ Apply(p) \/ ReadFiguresAgain(p) \/ CommitRefresh(p)

Next ==
    \/ ReviewOrParse
    \/ \E p \in Runs : Promote(p) \/ Refresh(p) \/ Abandon(p)

Spec == Init /\ [][Next]_vars

-----------------------------------------------------------------------------
(* Properties.                                                             *)

\* What a ledger tells of a figure, whatever it numbers it.
Tale(figure, trail, i) ==
    [identity |-> figure[i].identity, decision |-> figure[i].decision,
     past |-> {trail[n][2] : n \in {m \in DOMAIN trail : trail[m][1] = i}},
     same |-> IF figure[i].same \in DOMAIN figure THEN figure[figure[i].same].identity ELSE Null]

\* Identities the source begins with several figures of.  Which of them is the n-th
\* changes when one before it goes, and promote-refresh.ts (20-25) counts 23 such
\* groups: of these nothing is promised.
Shared == {FirstFigures[n] : n \in {m \in DOMAIN FirstFigures :
              \E k \in DOMAIN FirstFigures \ {m} : FirstFigures[k] = FirstFigures[m]}}

Lone(figure) == {i \in DOMAIN figure : figure[i].identity \notin Shared}

Tales(figure, trail) == {Tale(figure, trail, i) : i \in Lone(figure)}

AboutToCommit(p) ==
    \/ run[p].pc = "compare" /\ MayCommit(p)
    \/ run[p].pc = "checkTrail" /\ Agrees(p, source.trail)

\* What is committed to the target tells of every figure, but one that shares its
\* identity with others, what the source told of it at one moment, its past
\* decisions and its links with it, although they were read one after another;
\* anything more is a decision the source no longer has a figure for
\* (promote.ts:30-32, promote-refresh.ts:29-34).
CarriesOneState ==
    \A p \in Runs : AboutToCommit(p) =>
        LET then == Tales(Text(run[p].asRead.figure), run[p].asRead.trail)
            now == Tales(run[p].work.figure, run[p].work.trail)
        IN  /\ then \subseteq now
            /\ \A t \in now \ then :
                  /\ t.decision # Undecided
                  /\ t.identity \notin {f.identity : f \in then}

HowOften(figure, identity) ==
    Cardinality({i \in Published(figure) : figure[i].identity = identity})

\* A figure the source still has is published by the target as often as by it.
PublishedAsOften ==
    \A p \in Runs : AboutToCommit(p) =>
        \A f \in Identities \ Scanned :
            (\E i \in DOMAIN run[p].asRead.figure : run[p].asRead.figure[i].identity = f)
            => HowOften(run[p].work.figure, f) = HowOften(run[p].asRead.figure, f)

\* The past decisions a trail holds.
Filed(trail) == {trail[n] : n \in DOMAIN trail}

\* Those of figures that share no identity.
OfLone(ledger) == {n \in DOMAIN ledger.trail : ledger.trail[n][1] \in Lone(ledger.figure)}

\* The target never loses a decision of such a figure: it stands, or is filed once
\* among the past ones, though the trigger that files them is off while a refresh
\* writes.
TargetTrailIsKept ==
    [][target # Null =>
        /\ \A i \in Lone(target.figure) : Decided(target.figure[i]) =>
              /\ i \in DOMAIN target'.figure
              /\ \/ target'.figure[i].decision = target.figure[i].decision
                 \/ <<i, target.figure[i].decision>> \in Filed(target'.trail)
        /\ \A n \in OfLone(target) : target.trail[n] \in Filed(target'.trail)
        /\ \A n, m \in OfLone(target') : target'.trail[n] = target'.trail[m] => n = m]_target
=============================================================================
