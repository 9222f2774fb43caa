------------------------------ MODULE ScanFacts ------------------------------
(***************************************************************************)
(* The facts of a document that is partly scanned (maharashtra/            *)
(* notice-facts.ts, ocr/scan-facts.ts, cag/facts-load.ts), while an OCR    *)
(* engine's readings of its pages are filed beside it, word by word and    *)
(* not in a transaction (ocr/read-pages.ts, migrations 0042 to 0044), and  *)
(* a reviewer decides.  A fact of a scan says how legible its figures were *)
(* and where on the page they are; both are measured on the words there    *)
(* were when it was read.                                                  *)
(***************************************************************************)
EXTENDS Naturals, Sequences, FiniteSets, SequencesExt, FiniteSetsExt

CONSTANTS
    ScanReadings, \* the readings the engines have of the document's scanned pages
    Ink,          \* the words of each: where they stand, and the engine's confidence
    Printed,      \* the figures of each, as a fact and the words of its value
    TypedFacts,   \* the facts of the pages that have a text of their own
    OldFacts,     \* facts only an earlier parser read, not yet decided
    MaxRunsOfFacts, MaxLost,
    Unmeasured

FactsOf(r) == DOMAIN Printed[r]
Boxes == [x0 : Nat, x1 : Nat, y0 : Nat, y1 : Nat]

ASSUME ScansAreBounded ==
    /\ MaxRunsOfFacts \in Nat /\ MaxLost \in Nat
    /\ Ink \in [ScanReadings -> Seq([x0 : Nat, x1 : Nat, y0 : Nat, y1 : Nat, sure : Nat])]
    /\ Unmeasured \notin Nat \cup Boxes \cup ScanReadings

\* The reading a figure is of is part of what fact it is (heldByIdentity).
ASSUME FactsAreOfOneReading ==
    /\ IsFiniteSet(ScanReadings) /\ IsFiniteSet(TypedFacts)
    /\ \A r \in ScanReadings :
          /\ IsFiniteSet(FactsOf(r))
          /\ TypedFacts \cap FactsOf(r) = {}
          /\ \A q \in ScanReadings : q # r => FactsOf(q) \cap FactsOf(r) = {}

VARIABLES
    parser,  \* whose document it is: a notice's, or a report's
    inked,   \* page_reading and page_reading_item: how many words each reading has
    filing,  \* the reading that is being filed
    lost,    \* how often the filing has died
    fact,    \* document_fact: the rows, by the fact they are
    facts    \* the run that reads the facts

scanning == <<parser, inked, filing, lost, fact, facts>>

Started == DOMAIN inked
WordsOf(readings) == [r \in readings |-> inked[r]]

(***************************************************************************)
(* What is measured on the words there are.                                *)
(***************************************************************************)

Union(words) ==
    [x0 |-> Min({w.x0 : w \in words}), x1 |-> Max({w.x1 : w \in words}),
     y0 |-> Min({w.y0 : w \in words}), y1 |-> Max({w.y1 : w \in words})]

Overlaps(w, box) == /\ w.x0 < box.x1 /\ box.x0 < w.x1
                    /\ w.y0 < box.y1 /\ box.y0 < w.y1

\* A notice's are the figure's own words; a report's, those that share any area
\* with its box.
WordsUnder(r, f, count) ==
    LET own == {Ink[r][i] : i \in Printed[r][f] \cap 1..count}
    IN  IF parser = "notice" \/ own = {} THEN own
        ELSE {w \in {Ink[r][i] : i \in 1..count} : Overlaps(w, Union(own))}

BoxOf(r, f, count) ==
    LET own == {Ink[r][i] : i \in Printed[r][f] \cap 1..count}
    IN  IF own = {} THEN Unmeasured ELSE Union(own)

Weakest(r, f, count) ==
    IF WordsUnder(r, f, count) = {} THEN Unmeasured
    ELSE Min({w.sure : w \in WordsUnder(r, f, count)})

\* fromReading, asScanFact; the confidence is scaled by the weakest word.
ScanFact(r, f, count) ==
    [scan |-> r, box |-> BoxOf(r, f, count), legible |-> Weakest(r, f, count),
     scaled |-> Weakest(r, f, count), status |-> "unverified"]

TypedFact == [scan |-> Unmeasured, box |-> Unmeasured, legible |-> Unmeasured,
              scaled |-> Unmeasured, status |-> "unverified"]

NoRun == [pc |-> "none", runs |-> 0, ink |-> <<>>, held |-> <<>>, todo |-> <<>>]

ScansInit ==
    /\ parser \in {"notice", "report"}
    /\ inked = <<>>
    /\ filing = Unmeasured
    /\ lost = 0
    /\ fact = [f \in OldFacts |-> TypedFact]
    /\ facts = NoRun

(***************************************************************************)
(* A reading is filed: the row, then a word at a time (storeReading).      *)
(***************************************************************************)

\* A reading already held is not filed again, whatever it is short of.
InsertScan(r) ==
    /\ filing = Unmeasured
    /\ r \notin Started
    /\ inked' = [s \in Started \cup {r} |-> IF s = r THEN 0 ELSE inked[s]]
    /\ filing' = IF Ink[r] = <<>> THEN Unmeasured ELSE r
    /\ UNCHANGED <<parser, lost, fact, facts>>

InsertWord ==
    /\ filing # Unmeasured
    /\ inked[filing] < Len(Ink[filing])
    /\ inked' = [inked EXCEPT ![filing] = @ + 1]
    /\ filing' = IF inked'[filing] = Len(Ink[filing]) THEN Unmeasured ELSE filing
    /\ UNCHANGED <<parser, lost, fact, facts>>

LoseFiling ==
    /\ filing # Unmeasured
    /\ lost < MaxLost
    /\ lost' = lost + 1
    /\ filing' = Unmeasured
    /\ UNCHANGED <<parser, inked, fact, facts>>

(***************************************************************************)
(* A run reads the facts (readNoticeFacts), each statement apart.          *)
(***************************************************************************)

\* The pages, and the readings of those that have no text.
ReadScans ==
    /\ facts.pc \in {"none", "done"}
    /\ facts.runs < MaxRunsOfFacts
    /\ facts' = [NoRun EXCEPT !.pc = "words", !.runs = facts.runs + 1,
                              !.ink = [r \in Started |-> 0]]
    /\ UNCHANGED <<parser, inked, filing, lost, fact>>

\* The words of the readings seen.
ReadScanWords ==
    /\ facts.pc = "words"
    /\ facts' = [facts EXCEPT !.pc = "held", !.ink = WordsOf(DOMAIN facts.ink)]
    /\ UNCHANGED <<parser, inked, filing, lost, fact>>

\* noticeFacts: text pages by their text, scans once for each engine.
Produced(ink) == TypedFacts \cup UNION {FactsOf(r) : r \in DOMAIN ink}

Candidate(f, ink) ==
    IF f \in TypedFacts THEN TypedFact
    ELSE LET r == CHOOSE x \in DOMAIN ink : f \in FactsOf(x) IN ScanFact(r, f, ink[r])

\* heldByIdentity: the reading is part of what a fact is.
ReadHeldFacts ==
    /\ facts.pc = "held"
    /\ facts' = [facts EXCEPT !.pc = "load", !.held = fact, !.todo = SetToSeq(Produced(facts.ink))]
    /\ UNCHANGED <<parser, inked, filing, lost, fact>>

Reconciled_Undecided(held, c) == [legible |-> held.status = "unverified" /\ held.legible # c.legible,
                                  box |-> held.box = Unmeasured /\ c.box # Unmeasured]

\* reconcile: which columns of a row already held are written.  How legible its
\* figures were lands whatever the row's status; a box only where there was none.
Reconciled(held, c) == [legible |-> held.legible # c.legible,
                        box |-> held.box = Unmeasured /\ c.box # Unmeasured]

\* One candidate: a row held is brought into step, a new one is inserted.
LoadFact ==
    /\ facts.pc = "load"
    /\ facts.todo # <<>>
    /\ LET f == Head(facts.todo)
           c == Candidate(f, facts.ink)
           write == Reconciled(facts.held[f], c)
       IN  fact' = IF f \notin DOMAIN facts.held
                   THEN [g \in DOMAIN fact \cup {f} |-> IF g = f THEN c ELSE fact[g]]
                   ELSE [fact EXCEPT ![f].legible = IF write.legible THEN c.legible ELSE @,
                                     ![f].box = IF write.box THEN c.box ELSE @]
    /\ facts' = [facts EXCEPT !.todo = Tail(@)]
    /\ UNCHANGED <<parser, inked, filing, lost>>

\* The rows that were undecided when they were read, and are no longer produced.
RetireFacts ==
    /\ facts.pc = "load"
    /\ facts.todo = <<>>
    /\ LET stale == {f \in DOMAIN facts.held \ Produced(facts.ink) : facts.held[f].status = "unverified"}
       IN  fact' = [f \in DOMAIN fact \ stale |-> fact[f]]
    /\ facts' = [facts EXCEPT !.pc = "done", !.todo = <<>>]
    /\ UNCHANGED <<parser, inked, filing, lost>>

\* A reviewer verifies or rejects a fact: a run asks no more than whether.
DecideFact(f) ==
    /\ f \in DOMAIN fact
    /\ fact[f].status = "unverified"
    /\ fact' = [fact EXCEPT ![f].status = "decided"]
    /\ UNCHANGED <<parser, inked, filing, lost, facts>>

ScansNext ==
    \/ \E r \in ScanReadings : InsertScan(r)
    \/ InsertWord \/ LoseFiling
    \/ ReadScans \/ ReadScanWords \/ ReadHeldFacts \/ LoadFact \/ RetireFacts
    \/ \E f \in DOMAIN fact : DecideFact(f)

ScansSpec == ScansInit /\ [][ScansNext]_scanning

(***************************************************************************)
(* Properties.                                                             *)
(***************************************************************************)

OfScans == {f \in DOMAIN fact : fact[f].scan # Unmeasured}
Within(inner, outer) == /\ outer.x0 <= inner.x0 /\ inner.x1 <= outer.x1
                        /\ outer.y0 <= inner.y0 /\ inner.y1 <= outer.y1

\* A fact of a scan is never called less legible than its figures, nor placed
\* outside them (notice-facts.ts:562-605): one read while its reading was being
\* filed says what was there, and what it says can only be too much.
NothingIsInvented ==
    \A f \in OfScans :
        LET row == fact[f]
            whole == Len(Ink[row.scan])
        IN  /\ row.legible # Unmeasured => row.legible >= Weakest(row.scan, f, whole)
            /\ row.box # Unmeasured => Within(row.box, BoxOf(row.scan, f, whole))
            /\ row.scaled # Unmeasured => row.scaled >= Weakest(row.scan, f, whole)

\* When a run is over, every fact of the readings it saw is held, decided or not,
\* with the legibility of the words the run saw (cag/facts-load.ts:140-156): of a
\* reading it saw whole, the reading's own.
LegibilityLands ==
    facts.pc = "done" =>
        \A r \in DOMAIN facts.ink : \A f \in FactsOf(r) :
            /\ f \in DOMAIN fact
            /\ fact[f].legible = Weakest(r, f, facts.ink[r])

\* A fact that was decided when a run began to load is there when it ends
\* (cag/facts-load.ts:84-99), and no old one that was not is (:349-356).
DecidedFactsStay ==
    facts.pc = "done" =>
        \A f \in DOMAIN facts.held :
            IF f \in Produced(facts.ink) \/ facts.held[f].status # "unverified"
            THEN f \in DOMAIN fact ELSE f \notin DOMAIN fact

ScansAreMeasured == NothingIsInvented /\ LegibilityLands /\ DecidedFactsStay
=============================================================================
