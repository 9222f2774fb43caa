-------------------------- MODULE AgencyRunProofs --------------------------
(***************************************************************************)
(* Proofs about AgencyRun and the walk of an agency's listing it composes  *)
(* (NoticeCollection), for every number of collectors, stores, rows,       *)
(* notices, pages, engines and runs: an artefact's row never promises      *)
(* bytes that are not there, every page is accounted for, a backfill       *)
(* covers its range, and a nightly run that stops early has missed         *)
(* nothing, if every row has a notice of its own.                          *)
(***************************************************************************)
EXTENDS AgencyRun, SequenceTheorems, TLAPS

Fields == {"pc", "store", "saving"}

\* Every collector's record has the fields the invariant speaks of.
Shape ==
    /\ DOMAIN at = Collectors
    /\ \A c \in Collectors : Fields \subseteq DOMAIN at[c]

\* A collector that is about to write an artefact's row has all of its bytes in
\* the store it will name: what put has seen verified, created or filled.
ReadyToRecord ==
    \A c \in Collectors : at[c].pc = "record" => Place(c) \in whole

Evidence ==
    /\ Shape
    /\ ReadyToRecord
    /\ EvidenceIsHeld

\* A step of one collector that takes no bytes away and writes no artefact keeps
\* the evidence, if it leaves that collector ready for what it says it will do.
LEMMA OneCollectorMoves ==
    ASSUME Evidence, NEW c \in Collectors, NEW now,
           at' = [at EXCEPT ![c] = now],
           Fields \subseteq DOMAIN now,
           now.pc = "record" => <<now.store, now.saving>> \in whole',
           whole \subseteq whole',
           artifact' = artifact
    PROVE  Evidence'
<1>1. Shape'
  BY DEF Evidence, Shape
<1>2. ReadyToRecord'
  <2> SUFFICES ASSUME NEW o \in Collectors, at'[o].pc = "record"
               PROVE  <<at'[o].store, at'[o].saving>> \in whole'
    BY DEF ReadyToRecord, Place
  <2>1. CASE o = c
    BY <2>1 DEF Evidence, Shape
  <2>2. CASE o # c
    BY <2>2 DEF Evidence, Shape, ReadyToRecord, Place
  <2> QED
    BY <2>1, <2>2
<1>3. EvidenceIsHeld'
  BY DEF Evidence, EvidenceIsHeld
<1> QED
  BY <1>1, <1>2, <1>3 DEF Evidence

\* A collector that goes back to being idle is ready for nothing.
LEMMA Idling ==
    ASSUME Evidence, NEW c \in Collectors, at' = [at EXCEPT ![c] = Idle],
           UNCHANGED <<whole, artifact>>
    PROVE  Evidence'
<1>1. Fields \subseteq DOMAIN Idle /\ Idle.pc = "idle"
  BY DEF Fields, Idle
<1> QED
  BY <1>1, OneCollectorMoves

\* A step that leaves the collectors, the bytes and the artefacts alone.
LEMMA Elsewhere ==
    ASSUME Evidence, UNCHANGED <<at, whole, artifact>>
    PROVE  Evidence'
BY DEF Evidence, Shape, ReadyToRecord, Place, EvidenceIsHeld

\* Keeping bytes: what is found whole, put, or filled is what is recorded.
LEMMA KeepKeepsEvidence ==
    ASSUME Evidence, NEW c \in Collectors, Keep(c)
    PROVE  Evidence'
<1> DEFINE here == at[c]
<1> USE DEF bytes, ledger, world
<1>0. Fields \subseteq DOMAIN here
  BY DEF Evidence, Shape
<1>1. CASE Look(c)
  <2>1. CASE Place(c) \notin kept /\ at' = [at EXCEPT ![c].pc = "create"]
    <3> DEFINE now == [here EXCEPT !.pc = "create"]
    <3>1. at' = [at EXCEPT ![c] = now] /\ UNCHANGED <<whole, artifact>>
      BY <1>1, <2>1 DEF Look
    <3>2. Fields \subseteq DOMAIN now /\ now.pc = "create"
      BY <1>0 DEF Fields
    <3> QED
      BY <3>1, <3>2, OneCollectorMoves
  <2>2. CASE Place(c) \in whole /\ at' = [at EXCEPT ![c].pc = "record"]
    <3> DEFINE now == [here EXCEPT !.pc = "record"]
    <3>1. at' = [at EXCEPT ![c] = now] /\ UNCHANGED <<whole, artifact>>
      BY <1>1, <2>2 DEF Look
    <3>2. Fields \subseteq DOMAIN now /\ now.store = here.store /\ now.saving = here.saving
      BY <1>0 DEF Fields
    <3>3. <<now.store, now.saving>> \in whole'
      BY <2>2, <3>1, <3>2 DEF Place
    <3> QED
      BY <3>1, <3>2, <3>3, OneCollectorMoves
  <2> QED
    BY <1>1, <2>1, <2>2 DEF Look
<1>2. ASSUME PutObject(c) \/ FillFile(c)
      PROVE  Evidence'
  <2> DEFINE now == [here EXCEPT !.pc = "record"]
  <2>1. /\ at' = [at EXCEPT ![c] = now]
        /\ whole' = whole \cup {Place(c)}
        /\ artifact' = artifact
    BY <1>2 DEF PutObject, FillFile
  <2>2. Fields \subseteq DOMAIN now /\ now.store = here.store /\ now.saving = here.saving
    BY <1>0 DEF Fields
  <2>3. <<now.store, now.saving>> \in whole'
    BY <2>1, <2>2 DEF Place
  <2> QED
    BY <2>1, <2>2, <2>3, OneCollectorMoves
<1>3. CASE CreateFile(c)
  <2> DEFINE now == [here EXCEPT !.pc = "fill"]
  <2>1. at' = [at EXCEPT ![c] = now] /\ UNCHANGED <<whole, artifact>>
    BY <1>3 DEF CreateFile
  <2>2. Fields \subseteq DOMAIN now /\ now.pc = "fill"
    BY <1>0 DEF Fields
  <2> QED
    BY <2>1, <2>2, OneCollectorMoves
<1>4. CASE RecordArtifact(c)
  <2> DEFINE next == IF here.saving \in Contents THEN "sight" ELSE "row"
             now == [here EXCEPT !.pc = next]
             row == [sha |-> here.saving, storedIn |-> here.store]
  <2>1. at' = [at EXCEPT ![c] = now] /\ whole' = whole
    BY <1>4 DEF RecordArtifact
  <2>2. here.pc = "record" /\ artifact' \subseteq artifact \cup {row}
    BY <1>4 DEF RecordArtifact
  <2>3. <<row.storedIn, row.sha>> \in whole
    BY <2>2 DEF Evidence, ReadyToRecord, Place
  <2>4. EvidenceIsHeld'
    BY <2>1, <2>2, <2>3 DEF Evidence, EvidenceIsHeld
  <2>5. Fields \subseteq DOMAIN now /\ now.pc # "record"
    BY <1>0 DEF Fields
  <2>6. Shape'
    BY <2>1, <2>5 DEF Evidence, Shape
  <2>7. ReadyToRecord'
    <3> SUFFICES ASSUME NEW o \in Collectors, at'[o].pc = "record"
                 PROVE  <<at'[o].store, at'[o].saving>> \in whole'
      BY DEF ReadyToRecord, Place
    <3>1. o # c
      BY <2>1, <2>5 DEF Evidence, Shape
    <3> QED
      BY <2>1, <3>1 DEF Evidence, Shape, ReadyToRecord, Place
  <2> QED
    BY <2>4, <2>6, <2>7 DEF Evidence
<1> QED
  BY <1>1, <1>2, <1>3, <1>4 DEF Keep

\* Reading the listing: no step of it makes a collector ready to record.
LEMMA ReadKeepsEvidence ==
    ASSUME Evidence, NEW c \in Collectors, Read(c)
    PROVE  Evidence'
<1> DEFINE here == at[c]
<1> USE DEF bytes, ledger, world
<1>0. Fields \subseteq DOMAIN here
  BY DEF Evidence, Shape
<1>1. CASE ReadHeld(c)
  <2> DEFINE now == [here EXCEPT !.held = {d \in Documents : Held(d)}, !.pc = "page"]
  <2>1. at' = [at EXCEPT ![c] = now] /\ UNCHANGED <<whole, artifact>>
    BY <1>1 DEF ReadHeld
  <2>2. Fields \subseteq DOMAIN now /\ now.pc = "page"
    BY <1>0, <1>1 DEF Fields, ReadHeld
  <2> QED
    BY <2>1, <2>2, OneCollectorMoves
<1>2. CASE SeeAgain(c)
  <2> DEFINE now == [here EXCEPT !.docs = Tail(@)]
  <2>1. at' = [at EXCEPT ![c] = now] /\ UNCHANGED <<whole, artifact>>
    BY <1>2 DEF SeeAgain
  <2>2. Fields \subseteq DOMAIN now /\ now.pc = "row"
    BY <1>0, <1>2 DEF Fields, SeeAgain, AtDocument
  <2> QED
    BY <2>1, <2>2, OneCollectorMoves
<1>3. CASE SkipHeld(c)
  <2> DEFINE now == [here EXCEPT !.docs = Tail(@)]
  <2>1. at' = [at EXCEPT ![c] = now] /\ UNCHANGED <<whole, artifact>>
    BY <1>3 DEF SkipHeld
  <2>2. Fields \subseteq DOMAIN now /\ now.pc = "row"
    BY <1>0, <1>3 DEF Fields, SkipHeld, AtDocument
  <2> QED
    BY <2>1, <2>2, OneCollectorMoves
<1>4. CASE Fetch(c)
  <2> DEFINE now == [here EXCEPT !.saving = ContentOf[Head(here.docs)], !.fresh = TRUE,
                                !.pc = "look"]
  <2>1. at' = [at EXCEPT ![c] = now] /\ UNCHANGED <<whole, artifact>>
    BY <1>4 DEF Fetch
  <2>2. Fields \subseteq DOMAIN now /\ now.pc = "look"
    BY <1>0, <1>4 DEF Fields, Fetch
  <2> QED
    BY <2>1, <2>2, OneCollectorMoves
<1>5. CASE NotPermitted(c)
  <2> DEFINE now == [here EXCEPT !.fresh = TRUE, !.docs = Tail(@),
                                !.counts.notPermitted = @ + 1]
  <2>1. at' = [at EXCEPT ![c] = now] /\ UNCHANGED <<whole, artifact>>
    BY <1>5 DEF NotPermitted
  <2>2. Fields \subseteq DOMAIN now /\ now.pc = "row"
    BY <1>0, <1>5 DEF Fields, NotPermitted, Wanted, AtDocument
  <2> QED
    BY <2>1, <2>2, OneCollectorMoves
<1>6. CASE RecordSighting(c)
  <2> DEFINE now == Stored(here)
  <2>1. at' = [at EXCEPT ![c] = now]
    BY <1>6 DEF RecordSighting
  <2>2. UNCHANGED <<whole, artifact>>
    BY <1>6 DEF RecordSighting
  <2>3. Fields \subseteq DOMAIN now /\ now.pc = "row"
    BY <1>0, <1>6 DEF Fields, RecordSighting, Stored
  <2> QED
    BY <2>1, <2>2, <2>3, OneCollectorMoves
<1>7. CASE NextRow(c)
  <2> DEFINE now == [here EXCEPT !.rows = Tail(@), !.docs = DocumentsOf[here.rows[2]]]
  <2>1. at' = [at EXCEPT ![c] = now] /\ UNCHANGED <<whole, artifact>>
    BY <1>7 DEF NextRow
  <2>2. Fields \subseteq DOMAIN now /\ now.pc = "row"
    BY <1>0, <1>7 DEF Fields, NextRow
  <2> QED
    BY <2>1, <2>2, OneCollectorMoves
<1>8. CASE GetPage(c)
  <2> DEFINE rows == Shown(listed, here.page)
             now == [here EXCEPT !.rows = rows, !.docs = DocumentsOf[rows[1]],
                                 !.listing = [rows |-> rows], !.saving = [rows |-> rows],
                                 !.fresh = FALSE, !.pc = "look"]
  <2>1. at' = [at EXCEPT ![c] = now] /\ UNCHANGED <<whole, artifact>>
    BY <1>8 DEF GetPage
  <2>2. Fields \subseteq DOMAIN now /\ now.pc = "look"
    BY <1>0 DEF Fields
  <2> QED
    BY <2>1, <2>2, OneCollectorMoves
<1>9. CASE FinishPage(c)
  <2> DEFINE over == [here EXCEPT !.pc = "collected"]
             on == [here EXCEPT !.page = @ + 1, !.pc = "page"]
  <2>1. CASE at' = [at EXCEPT ![c] = over]
    <3>1. UNCHANGED <<whole, artifact>>
      BY <1>9 DEF FinishPage
    <3>2. Fields \subseteq DOMAIN over /\ over.pc = "collected"
      BY <1>0 DEF Fields
    <3> QED
      BY <2>1, <3>1, <3>2, OneCollectorMoves
  <2>2. CASE at' = [at EXCEPT ![c] = on]
    <3>1. UNCHANGED <<whole, artifact>>
      BY <1>9 DEF FinishPage
    <3>2. Fields \subseteq DOMAIN on /\ on.pc = "page"
      BY <1>0 DEF Fields
    <3> QED
      BY <2>2, <3>1, <3>2, OneCollectorMoves
  <2>3. at' = [at EXCEPT ![c] = over] \/ at' = [at EXCEPT ![c] = on]
    BY <1>9 DEF FinishPage
  <2> QED
    BY <2>1, <2>2, <2>3
<1> QED
  BY <1>1, <1>2, <1>3, <1>4, <1>5, <1>6, <1>7, <1>8, <1>9 DEF Read

\* A run begins at its first step, whichever way it was asked for.
LEMMA OpeningKeepsEvidence ==
    ASSUME Evidence, NEW c \in Collectors,
           \/ Begin(c)
           \/ \E store \in Stores, ocr \in BOOLEAN : OpenExtraction(c, store, ocr)
    PROVE  Evidence'
<1> USE DEF bytes, ledger, world
<1>1. CASE Begin(c)
  <2>1. PICK store \in Stores, explicit \in BOOLEAN, first \in 0..LastPage, last \in 0..LastPage :
             OpenRun(c, store, explicit, first, last)
    BY <1>1 DEF Begin
  <2> DEFINE now == [Idle EXCEPT !.pc = "held", !.run = Len(run) + 1, !.store = store,
                                 !.explicit = explicit, !.page = first, !.last = last,
                                 !.first = first, !.began = Len(listed)]
  <2>2. at' = [at EXCEPT ![c] = now] /\ UNCHANGED <<whole, artifact>>
    BY <2>1 DEF OpenRun
  <2>3. Fields \subseteq DOMAIN now /\ now.pc = "held"
    BY DEF Fields, Idle
  <2> QED
    BY <2>2, <2>3, OneCollectorMoves
<1>2. ASSUME NEW store \in Stores, NEW ocr \in BOOLEAN, OpenExtraction(c, store, ocr)
      PROVE  Evidence'
  <2> DEFINE now == [Idle EXCEPT !.pc = "collected", !.run = Len(run) + 1, !.store = store]
  <2>1. at' = [at EXCEPT ![c] = now] /\ UNCHANGED <<whole, artifact>>
    BY <1>2 DEF OpenExtraction
  <2>2. Fields \subseteq DOMAIN now /\ now.pc = "collected"
    BY DEF Fields, Idle
  <2> QED
    BY <2>1, <2>2, OneCollectorMoves
<1> QED
  BY <1>1, <1>2

\* However a run ends, and whenever.
LEMMA EndingKeepsEvidence ==
    ASSUME Evidence, NEW c \in Collectors,
           CompleteRun(c) \/ StopIf(c, MustStop(c) \/ RefusalCollides(c)) \/ Throw(c) \/ Die(c)
    PROVE  Evidence'
<1>1. at' = [at EXCEPT ![c] = Idle] /\ UNCHANGED <<whole, artifact>>
  BY DEF CompleteRun, StopIf, Throw, Die, Close, bytes, ledger
<1> QED
  BY <1>1, Idling

LEMMA LosingKeepsEvidence ==
    ASSUME Evidence, NEW c \in Collectors, LoseNotice(c)
    PROVE  Evidence'
<1> DEFINE here == at[c]
           now == [here EXCEPT !.fresh = TRUE, !.docs = Tail(@), !.counts.failed = @ + 1]
<1>1. at' = [at EXCEPT ![c] = now] /\ UNCHANGED <<whole, artifact>>
  BY DEF LoseNotice, bytes, ledger
<1>2. Fields \subseteq DOMAIN here
  BY DEF Evidence, Shape
<1>3. Fields \subseteq DOMAIN now /\ now.pc = "row"
  BY <1>2 DEF Fields, LoseNotice, Wanted, AtDocument
<1> QED
  BY <1>1, <1>3, OneCollectorMoves

\* Documents and readings are made beside the evidence, never of it.
LEMMA ReadingLeavesEvidence ==
    ASSUME Evidence, NEW c \in Collectors, Extract(c) \/ ReadPages(c) \/ PageRefused(c)
    PROVE  Evidence'
<1> USE DEF collection, bytes, ledger
<1>1. CASE Extract(c)
  <2>1. UNCHANGED <<at, whole, artifact>>
    BY <1>1 DEF Extract, ReadPending, LeaveNotice, LoadDocument, LoadPage, FinishExtracting
  <2> QED
    BY <2>1, Elsewhere
<1>2. CASE ReadPages(c)
  <2>1. UNCHANGED <<at, whole, artifact>>
    BY <1>2 DEF ReadPages, AskEngines, ReadAwaiting, LeaveUnread, Send, File, InsertReading,
                InsertWords, WithdrawRefusal, ReplaceRefusal, InsertRefusal, Filed, FinishReading
  <2> QED
    BY <2>1, Elsewhere
<1>3. CASE PageRefused(c)
  <2>1. UNCHANGED <<at, whole, artifact>>
    BY <1>3 DEF PageRefused
  <2> QED
    BY <2>1, Elsewhere
<1> QED
  BY <1>1, <1>2, <1>3

\* What any step keeps of the evidence.
LEMMA StepKeepsEvidence ==
    ASSUME Evidence, [AgencyNext]_agency
    PROVE  Evidence'
<1>1. ASSUME NEW row \in Rows, Publish(row)
      PROVE  Evidence'
  BY <1>1, Elsewhere DEF Publish, bytes, ledger
<1>2. ASSUME NEW c \in Collectors,
             \/ OpenAgencyRun(c)
             \/ \E store \in Stores, ocr \in BOOLEAN : OpenExtraction(c, store, ocr)
      PROVE  Evidence'
  BY <1>2, OpeningKeepsEvidence DEF OpenAgencyRun
<1>3. ASSUME NEW c \in Collectors, Work(c)
      PROVE  Evidence'
  <2>1. CASE Collect(c)
    BY <2>1, KeepKeepsEvidence, ReadKeepsEvidence DEF Collect
  <2>2. CASE Extract(c) \/ ReadPages(c)
    BY <2>2, ReadingLeavesEvidence
  <2>3. CASE CompleteAgencyRun(c) \/ Stopped(c)
    BY <2>3, EndingKeepsEvidence DEF CompleteAgencyRun, Stopped
  <2> QED
    BY <1>3, <2>1, <2>2, <2>3 DEF Work
<1>4. ASSUME NEW c \in Collectors, MissNotice(c)
      PROVE  Evidence'
  BY <1>4, LosingKeepsEvidence DEF MissNotice
<1>5. ASSUME NEW c \in Collectors, PageRefused(c)
      PROVE  Evidence'
  BY <1>5, ReadingLeavesEvidence
<1>6. ASSUME NEW c \in Collectors, CutShort(c)
      PROVE  Evidence'
  BY <1>6, EndingKeepsEvidence DEF CutShort
<1>7. CASE UNCHANGED agency
  BY <1>7, Elsewhere DEF agency, collection, bytes, ledger
<1> QED
  BY <1>1, <1>2, <1>3, <1>4, <1>5, <1>6, <1>7 DEF AgencyNext

\* An artefact's row is a promise that is kept: whatever any number of runs do,
\* in whatever order, and wherever each of them dies or fails, every artefact is
\* whole in the store its row names (raw-store.ts put before collect.ts's insert).
THEOREM EvidenceIsAlwaysHeld == AgencySpec => []EvidenceIsHeld
<1>1. AgencyInit => Evidence
  <2> SUFFICES ASSUME AgencyInit PROVE Evidence
    OBVIOUS
  <2>1. Shape
    BY DEF AgencyInit, Init, Shape, Fields, Idle
  <2>2. ReadyToRecord
    BY DEF AgencyInit, Init, ReadyToRecord, Idle
  <2>3. EvidenceIsHeld
    BY DEF AgencyInit, Init, EvidenceIsHeld
  <2> QED
    BY <2>1, <2>2, <2>3 DEF Evidence
<1>2. Evidence /\ [AgencyNext]_agency => Evidence'
  BY StepKeepsEvidence
<1>3. Evidence => EvidenceIsHeld
  BY DEF Evidence
<1> QED
  BY <1>1, <1>2, <1>3, PTL DEF AgencySpec
-----------------------------------------------------------------------------
(* Documents and readings.                                                 *)

JobFields == {"pc", "ocr", "todo", "notice", "next", "engines", "awaiting", "reads", "refuses",
              "filing", "unasked"}

\* Every run's job has its fields, and the pages loaded are pages.
JobShape ==
    /\ DOMAIN job = Collectors
    /\ \A c \in Collectors : JobFields \subseteq DOMAIN job[c]
    /\ document \subseteq Contents
    /\ page \subseteq PageKeys
    /\ faults \in Nat
    /\ overtaken \in BOOLEAN

\* Unless a run was overtaken, whoever is at work is alone.
Alone == ~overtaken => \A c, o \in Collectors : Busy(c) /\ Busy(o) => c = o

\* What is loaded is the file's own account: a page of it that has no text.
ScannedPages == {p \in page : p[2] \in Scans(p[1])}
OfScan(r) == <<r[1], r[2]>> \in page /\ r[2] \in Scans(r[1])

\* A job begins when the listing has been read.  While it loads a notice the
\* pages before the next are loaded, and what it files is of scanned pages.
Working(c) ==
    LET j == job[c]
    IN  /\ j.pc # "none" => at[c].pc = "collected"
        /\ IF j.pc = "pages"
           THEN /\ j.notice \in document
                /\ j.next \in Pages(j.notice)
                /\ \A k \in Pages(j.notice) : k < j.next => <<j.notice, k>> \in page
           ELSE j.notice = Null
        /\ j.awaiting \subseteq ScannedPages
        /\ \A r \in j.reads \cup j.refuses : OfScan(r)
        /\ j.pc \in {"words", "read", "refuse"} => OfScan(j.filing)
        /\ j.pc \in {"words", "read"} => j.filing \in reading
        /\ j.pc \notin {"file", "words", "read", "refuse"} => j.reads = {} /\ j.refuses = {}

\* Where the run still has to answer for a page and an engine, if it has not
\* been answered: in what came back of the service, in the statement after this
\* one, or in a notice that has not been sent.
Underway(c, p, e) ==
    LET j == job[c]
        r == <<p[1], p[2], e>>
    IN  \/ r \in j.reads \cup j.refuses
        \/ j.pc = "refuse" /\ r = j.filing
        \/ j.pc # "done" /\ p \in j.awaiting /\ p[1] \in j.todo

Answered(c) ==
    LET j == job[c]
    IN  /\ ~overtaken /\ j.ocr /\ ~j.unasked
        /\ j.pc \in {"send", "file", "words", "read", "refuse", "done"}
        => \A p \in ScannedPages, e \in j.engines :
              <<p[1], p[2], e>> \in reading \cup refusal \/ Underway(c, p, e)

ScansAreRead == \A r \in reading \cup refusal : OfScan(r)

\* The invariant.
PagesInv ==
    /\ JobShape
    /\ Alone
    /\ \A c \in Collectors : Working(c) /\ Answered(c)
    /\ ScansAreRead
    /\ NothingIsHalfMade


\* The collectors but the one at work: they keep what they had, and where no run
\* was overtaken they have no job.
LEMMA OthersStand ==
    ASSUME PagesInv, NEW c \in Collectors, NEW now, at[c].pc = "collected",
           job' = [job EXCEPT ![c] = now], JobFields \subseteq DOMAIN now,
           at' = at, overtaken' = overtaken, faults' \in Nat,
           document \subseteq document', document' \subseteq Contents,
           page \subseteq page', page' \subseteq PageKeys, reading \subseteq reading'
    PROVE  /\ JobShape'
           /\ Alone'
           /\ \A o \in Collectors \ {c} : Working(o)' /\ Answered(o)'
<1>1. JobShape'
  BY DEF PagesInv, JobShape
<1>2. Alone'
  BY DEF PagesInv, Alone, Busy
<1>3. ASSUME NEW o \in Collectors \ {c}
      PROVE  Working(o)' /\ Answered(o)'
  <2>1. job'[o] = job[o] /\ Working(o)
    BY DEF PagesInv, JobShape
  <2>2. Working(o)'
    BY <2>1 DEF Working, ScannedPages, OfScan
  <2>3. CASE overtaken
    BY <2>2, <2>3 DEF Answered
  <2>4. CASE ~overtaken
    <3>1. at[o].pc # "collected"
      BY <2>4 DEF PagesInv, Alone, Busy
    <3>2. job[o].pc = "none"
      BY <2>1, <3>1 DEF Working
    <3> QED
      BY <2>1, <2>2, <3>2 DEF Answered
  <2> QED
    BY <2>2, <2>3, <2>4
<1> QED
  BY <1>1, <1>2, <1>3

\* A step of one job that loads nothing, reads nothing and lets go of no notice
\* and of no reading whose words are still to come.
LEMMA OneJobMoves ==
    ASSUME PagesInv, NEW c \in Collectors, NEW now, at[c].pc = "collected",
           job' = [job EXCEPT ![c] = now], JobFields \subseteq DOMAIN now,
           UNCHANGED <<at, world, documents, reading, words>>,
           job[c].pc # "words", now.notice = job[c].notice,
           Working(c)', Answered(c)', ScansAreRead'
    PROVE  PagesInv'
<1>1. JobShape' /\ Alone' /\ \A o \in Collectors \ {c} : Working(o)' /\ Answered(o)'
  BY OthersStand DEF PagesInv, JobShape, world, documents
<1>2. NothingIsHalfMade'
  <2> SUFFICES ASSUME faults = 0
               PROVE  NothingIsHalfMade'
    BY DEF NothingIsHalfMade, world
  <2>1. \A o \in Collectors : job'[o].notice = job[o].notice
    BY DEF PagesInv, JobShape
  <2>2. \A o \in Collectors : job[o].pc = "words" => job'[o] = job[o]
    BY DEF PagesInv, JobShape
  <2>3. \A n \in document' :
           \/ {n} \X Pages(n) \subseteq page'
           \/ \E o \in Collectors : job'[o].notice = n
    BY <2>1 DEF PagesInv, NothingIsHalfMade, documents
  <2>4. \A r \in reading' \ words' :
           \E o \in Collectors : job'[o].pc = "words" /\ job'[o].filing = r
    BY <2>2 DEF PagesInv, NothingIsHalfMade
  <2> QED
    BY <2>3, <2>4 DEF NothingIsHalfMade
<1> QED
  BY <1>1, <1>2 DEF PagesInv

\* What stands while a job is at work.
LEMMA AtWork ==
    ASSUME PagesInv, NEW c \in Collectors
    PROVE  /\ JobFields \subseteq DOMAIN job[c]
           /\ Working(c) /\ Answered(c)
           /\ job[c].pc # "none" => at[c].pc = "collected"
BY DEF PagesInv, JobShape, Working

-----------------------------------------------------------------------------
(* Notices into documents.                                                 *)

LEMMA PendingKeepsPages ==
    ASSUME PagesInv, NEW c \in Collectors, ReadPending(c)
    PROVE  PagesInv'
<1> DEFINE now == [job[c] EXCEPT !.todo = Pending, !.pc = "extract"]
<1>1. /\ job' = [job EXCEPT ![c] = now]
      /\ UNCHANGED <<at, world, documents, readings>>
      /\ at[c].pc = "collected" /\ job[c].pc = "none"
  BY DEF ReadPending, collection
<1>2. /\ JobFields \subseteq DOMAIN now /\ job'[c] = now
      /\ now.pc = "extract" /\ now.notice = job[c].notice /\ now.awaiting = job[c].awaiting
      /\ now.reads = job[c].reads /\ now.refuses = job[c].refuses
  BY <1>1, AtWork DEF JobFields, PagesInv, JobShape
<1>3. Working(c)'
  BY <1>1, <1>2, AtWork DEF Working, ScannedPages, documents
<1>4. Answered(c)'
  BY <1>2 DEF Answered
<1>5. ScansAreRead'
  BY <1>1 DEF PagesInv, ScansAreRead, OfScan, documents, readings
<1> QED
  BY <1>1, <1>2, <1>3, <1>4, <1>5, OneJobMoves DEF readings

LEMMA LeavingKeepsPages ==
    ASSUME PagesInv, NEW c \in Collectors, NEW n \in Contents, LeaveNotice(c, n)
    PROVE  PagesInv'
<1> DEFINE now == [job[c] EXCEPT !.todo = @ \ {n}]
<1>1. /\ job' = [job EXCEPT ![c] = now]
      /\ UNCHANGED <<at, world, documents, readings>>
      /\ job[c].pc = "extract"
  BY DEF LeaveNotice, collection
<1>2. /\ JobFields \subseteq DOMAIN now /\ job'[c] = now
      /\ now.pc = "extract" /\ now.notice = job[c].notice /\ now.awaiting = job[c].awaiting
      /\ now.reads = job[c].reads /\ now.refuses = job[c].refuses
      /\ at[c].pc = "collected"
  BY <1>1, AtWork DEF JobFields, PagesInv, JobShape
<1>3. Working(c)'
  BY <1>1, <1>2, AtWork DEF Working, ScannedPages, documents
<1>4. Answered(c)'
  BY <1>2 DEF Answered
<1>5. ScansAreRead'
  BY <1>1 DEF PagesInv, ScansAreRead, OfScan, documents, readings
<1> QED
  BY <1>1, <1>2, <1>3, <1>4, <1>5, OneJobMoves DEF readings

LEMMA FinishingExtractingKeepsPages ==
    ASSUME PagesInv, NEW c \in Collectors, FinishExtracting(c)
    PROVE  PagesInv'
<1> DEFINE next == IF job[c].ocr THEN "engines" ELSE "done"
           now == [job[c] EXCEPT !.pc = next]
<1>1. /\ job' = [job EXCEPT ![c] = now]
      /\ UNCHANGED <<at, world, documents, readings>>
      /\ job[c].pc = "extract"
  BY DEF FinishExtracting, collection
<1>2. /\ JobFields \subseteq DOMAIN now /\ job'[c] = now
      /\ now.pc = next /\ now.notice = job[c].notice /\ now.awaiting = job[c].awaiting
      /\ now.reads = job[c].reads /\ now.refuses = job[c].refuses /\ now.ocr = job[c].ocr
      /\ at[c].pc = "collected"
  BY <1>1, AtWork DEF JobFields, PagesInv, JobShape
<1>3. Working(c)'
  BY <1>1, <1>2, AtWork DEF Working, ScannedPages, documents
<1>4. Answered(c)'
  BY <1>2 DEF Answered
<1>5. ScansAreRead'
  BY <1>1 DEF PagesInv, ScansAreRead, OfScan, documents, readings
<1> QED
  BY <1>1, <1>2, <1>3, <1>4, <1>5, OneJobMoves DEF readings

LEMMA DocumentKeepsPages ==
    ASSUME PagesInv, NEW c \in Collectors, NEW n \in Contents, LoadDocument(c, n)
    PROVE  PagesInv'
<1> DEFINE now == [job[c] EXCEPT !.notice = n, !.next = 1, !.pc = "pages"]
<1>1. /\ job' = [job EXCEPT ![c] = now]
      /\ UNCHANGED <<at, world, page, readings>>
      /\ document' = document \cup {n}
      /\ job[c].pc = "extract"
  BY DEF LoadDocument, collection
<1>2. /\ JobFields \subseteq DOMAIN now /\ job'[c] = now
      /\ now.pc = "pages" /\ now.notice = n /\ now.next = 1 /\ now.awaiting = job[c].awaiting
      /\ now.reads = job[c].reads /\ now.refuses = job[c].refuses
      /\ at[c].pc = "collected"
  BY <1>1, AtWork DEF JobFields, PagesInv, JobShape
<1>3. Working(c)'
  <2>1. 1 \in Pages(n) /\ \A k \in Pages(n) : ~(k < 1)
    BY AgencyAssumption DEF Pages
  <2> QED
    BY <1>1, <1>2, <2>1, AtWork DEF Working, ScannedPages
<1>4. Answered(c)'
  BY <1>2 DEF Answered
<1>5. ScansAreRead'
  BY <1>1 DEF PagesInv, ScansAreRead, OfScan, readings
<1>6. JobShape' /\ Alone' /\ \A o \in Collectors \ {c} : Working(o)' /\ Answered(o)'
  BY <1>1, <1>2, OthersStand, ZenonT(60) DEF PagesInv, JobShape, world, readings
<1>7. NothingIsHalfMade'
  <2> SUFFICES ASSUME faults = 0
               PROVE  NothingIsHalfMade'
    BY <1>1 DEF NothingIsHalfMade, world
  <2>1. \A o \in Collectors \ {c} : job'[o] = job[o]
    BY <1>1 DEF PagesInv, JobShape
  <2>2. job[c].notice = Null
    BY <1>1, AtWork DEF Working
  <2>3. ASSUME NEW m \in document'
        PROVE  \/ {m} \X Pages(m) \subseteq page'
               \/ \E o \in Collectors : job'[o].notice = m
    <3>1. CASE m = n
      BY <1>2, <3>1
    <3>2. CASE m # n
      <4>1. m \in document /\ m # Null
        BY <1>1, <3>2, AgencyAssumption DEF PagesInv, JobShape
      <4> QED
        BY <1>1, <2>1, <2>2, <4>1 DEF PagesInv, NothingIsHalfMade
    <3> QED
      BY <3>1, <3>2
  <2>4. \A r \in reading' \ words' :
           \E o \in Collectors : job'[o].pc = "words" /\ job'[o].filing = r
    BY <1>1, <2>1 DEF PagesInv, NothingIsHalfMade, readings
  <2> QED
    BY <2>3, <2>4 DEF NothingIsHalfMade
<1> QED
  BY <1>3, <1>4, <1>5, <1>6, <1>7 DEF PagesInv


LEMMA PageKeepsPages ==
    ASSUME PagesInv, NEW c \in Collectors, LoadPage(c)
    PROVE  PagesInv'
<1> DEFINE n == job[c].notice
           k == job[c].next
           done == [job[c] EXCEPT !.todo = @ \ {n}, !.notice = Null, !.pc = "extract"]
           on == [job[c] EXCEPT !.next = k + 1]
<1>1. /\ UNCHANGED <<at, world, document, readings>>
      /\ page' = page \cup {<<n, k>>}
      /\ job[c].pc = "pages"
      /\ \/ k = PageCount[n] /\ job' = [job EXCEPT ![c] = done]
         \/ k # PageCount[n] /\ job' = [job EXCEPT ![c] = on]
  BY DEF LoadPage, NoticeDone, collection
<1>2. /\ n \in document /\ n \in Contents
      /\ k \in Pages(n) /\ \A j \in Pages(n) : j < k => <<n, j>> \in page
      /\ at[c].pc = "collected"
  BY <1>1, AtWork DEF Working, PagesInv, JobShape
<1>3. PageCount[n] \in Nat \ {0} /\ n # Null
  BY <1>2, AgencyAssumption
<1>4. page' \subseteq PageKeys /\ page \subseteq page'
  BY <1>1, <1>2 DEF PageKeys, PagesInv, JobShape
<1>5. /\ JobFields \subseteq DOMAIN done /\ JobFields \subseteq DOMAIN on
      /\ done.pc = "extract" /\ done.notice = Null /\ done.awaiting = job[c].awaiting
      /\ done.reads = job[c].reads /\ done.refuses = job[c].refuses
      /\ on.pc = "pages" /\ on.notice = n /\ on.next = k + 1 /\ on.awaiting = job[c].awaiting
      /\ on.reads = job[c].reads /\ on.refuses = job[c].refuses
  BY <1>1, AtWork DEF JobFields
<1>6. /\ job'[c] \in {done, on}
      /\ \A o \in Collectors \ {c} : job'[o] = job[o]
  BY <1>1 DEF PagesInv, JobShape
<1>7. ScansAreRead'
  BY <1>1 DEF PagesInv, ScansAreRead, OfScan, readings
<1>8. JobShape' /\ Alone' /\ \A o \in Collectors \ {c} : Working(o)' /\ Answered(o)'
  <2>1. CASE job' = [job EXCEPT ![c] = done]
    BY <1>1, <1>2, <1>4, <1>5, <2>1, OthersStand DEF PagesInv, JobShape, world, readings
  <2>2. CASE job' = [job EXCEPT ![c] = on]
    BY <1>1, <1>2, <1>4, <1>5, <2>2, OthersStand DEF PagesInv, JobShape, world, readings
  <2> QED
    BY <1>1, <2>1, <2>2
<1>9. Answered(c)'
  BY <1>5, <1>6 DEF Answered
<1>10. ASSUME k = PageCount[n]
       PROVE  {n} \X Pages(n) \subseteq page'
  BY <1>1, <1>2, <1>3, <1>10 DEF Pages
<1>11. Working(c)'
  <2>1. ScannedPages \subseteq ScannedPages'
    BY <1>1 DEF ScannedPages
  <2>2. CASE job' = [job EXCEPT ![c] = done]
    <3>1. job'[c] = done
      BY <2>2 DEF PagesInv, JobShape
    <3> QED
      BY <1>1, <1>2, <1>5, <2>1, <3>1, AtWork DEF Working
  <2>3. CASE k # PageCount[n] /\ job' = [job EXCEPT ![c] = on]
    <3>1. job'[c] = on
      BY <2>3 DEF PagesInv, JobShape
    <3>2. k + 1 \in Pages(n) /\ \A j \in Pages(n) : j < k + 1 => j < k \/ j = k
      BY <1>2, <1>3, <2>3 DEF Pages
    <3>3. \A j \in Pages(n) : j < k + 1 => <<n, j>> \in page'
      BY <1>1, <1>2, <3>2
    <3> QED
      BY <1>1, <1>2, <1>5, <2>1, <3>1, <3>2, <3>3, AtWork DEF Working
  <2> QED
    BY <1>1, <2>2, <2>3
<1>12. NothingIsHalfMade'
  <2> SUFFICES ASSUME faults = 0
               PROVE  NothingIsHalfMade'
    BY <1>1 DEF NothingIsHalfMade, world
  <2>1. ASSUME NEW m \in document'
        PROVE  \/ {m} \X Pages(m) \subseteq page'
               \/ \E o \in Collectors : job'[o].notice = m
    <3>1. CASE m = n
      <4>1. CASE k = PageCount[n]
        BY <1>10, <3>1, <4>1
      <4>2. CASE k # PageCount[n]
        <5>1. job'[c].notice = n
          BY <1>1, <1>5, <4>2 DEF PagesInv, JobShape
        <5> QED
          BY <3>1, <5>1
      <4> QED
        BY <4>1, <4>2
    <3>2. CASE m # n
      <4>1. \/ {m} \X Pages(m) \subseteq page
            \/ \E o \in Collectors \ {c} : job[o].notice = m
        BY <1>1, <3>2 DEF PagesInv, NothingIsHalfMade
      <4> QED
        BY <1>4, <1>6, <4>1
    <3> QED
      BY <3>1, <3>2
  <2>2. \A r \in reading' \ words' :
           \E o \in Collectors : job'[o].pc = "words" /\ job'[o].filing = r
    BY <1>1, <1>6 DEF PagesInv, NothingIsHalfMade, readings
  <2> QED
    BY <2>1, <2>2 DEF NothingIsHalfMade
<1> QED
  BY <1>7, <1>8, <1>9, <1>11, <1>12 DEF PagesInv

LEMMA ExtractKeepsPages ==
    ASSUME PagesInv, NEW c \in Collectors, Extract(c)
    PROVE  PagesInv'
BY PendingKeepsPages, LeavingKeepsPages, DocumentKeepsPages, PageKeepsPages,
   FinishingExtractingKeepsPages DEF Extract

\* A page that is refused is a fault: the document is left short of it.
LEMMA RefusedPageKeepsPages ==
    ASSUME PagesInv, NEW c \in Collectors, PageRefused(c)
    PROVE  PagesInv'
<1> DEFINE done == [job[c] EXCEPT !.todo = @ \ {job[c].notice}, !.notice = Null,
                                  !.pc = "extract"]
<1>1. /\ UNCHANGED <<at, overtaken, documents, readings>>
      /\ faults' = faults + 1
      /\ job' = [job EXCEPT ![c] = done]
      /\ job[c].pc = "pages"
  BY DEF PageRefused, NoticeDone
<1>2. faults' \in Nat /\ faults' # 0
  BY <1>1 DEF PagesInv, JobShape
<1>3. /\ JobFields \subseteq DOMAIN done /\ job'[c] = done
      /\ done.pc = "extract" /\ done.notice = Null /\ done.awaiting = job[c].awaiting
      /\ done.reads = job[c].reads /\ done.refuses = job[c].refuses
      /\ at[c].pc = "collected"
  BY <1>1, AtWork DEF JobFields, PagesInv, JobShape
<1>4. Working(c)' /\ Answered(c)'
  BY <1>1, <1>3, AtWork DEF Working, Answered, ScannedPages, documents
<1>5. ScansAreRead'
  BY <1>1 DEF PagesInv, ScansAreRead, OfScan, documents, readings
<1>6. JobShape' /\ Alone' /\ \A o \in Collectors \ {c} : Working(o)' /\ Answered(o)'
  BY <1>1, <1>2, <1>3, OthersStand DEF PagesInv, JobShape, documents, readings
<1>7. NothingIsHalfMade'
  BY <1>2 DEF NothingIsHalfMade
<1> QED
  BY <1>4, <1>5, <1>6, <1>7 DEF PagesInv


-----------------------------------------------------------------------------
(* Pages into readings.                                                    *)

LEMMA AskingKeepsPages ==
    ASSUME PagesInv, NEW c \in Collectors, NEW installed \in SUBSET Engines, AskEngines(c, installed)
    PROVE  PagesInv'
<1>0. PICK now : now = [job[c] EXCEPT !.engines = installed,
                                       !.pc = IF installed = {} THEN "done" ELSE "awaiting",
                                       !.unasked = installed = {}]
  OBVIOUS
<1>1. /\ job' = [job EXCEPT ![c] = now]
      /\ UNCHANGED <<at, world, documents, readings>>
      /\ job[c].pc = "engines"
  BY <1>0 DEF AskEngines, collection
<1>2. /\ JobFields \subseteq DOMAIN now /\ job'[c] = now
      /\ now.pc \in {"done", "awaiting"} /\ now.awaiting = job[c].awaiting /\ (now.pc = "done" => now.unasked)
      /\ now.reads = job[c].reads /\ now.refuses = job[c].refuses
      /\ now.notice = job[c].notice /\ at[c].pc = "collected"
  BY <1>0, <1>1, AtWork DEF JobFields, PagesInv, JobShape
<1>3. Working(c)'
  BY <1>1, <1>2, AtWork, ZenonT(60) DEF Working, ScannedPages, OfScan, documents, readings
<1>4. Answered(c)'
  BY <1>2 DEF Answered
<1>5. ScansAreRead'
  BY <1>1 DEF PagesInv, ScansAreRead, OfScan, documents, readings
<1> QED
  BY <1>1, <1>2, <1>3, <1>4, <1>5, OneJobMoves DEF readings

\* Every scanned page has been read by the engines, or awaits them.
LEMMA AwaitingKeepsPages ==
    ASSUME PagesInv, NEW c \in Collectors, ReadAwaiting(c)
    PROVE  PagesInv'
<1> DEFINE due == Awaiting(job[c].engines)
           now == [job[c] EXCEPT !.awaiting = due, !.todo = {p[1] : p \in due}, !.pc = "send"]
<1>1. /\ job' = [job EXCEPT ![c] = now]
      /\ UNCHANGED <<at, world, documents, readings>>
      /\ job[c].pc = "awaiting"
  BY DEF ReadAwaiting, collection
<1>2. /\ JobFields \subseteq DOMAIN now /\ job'[c] = now
      /\ now.pc = "send" /\ now.awaiting = due /\ now.todo = {p[1] : p \in due}
      /\ now.engines = job[c].engines /\ now.reads = job[c].reads /\ now.refuses = job[c].refuses
      /\ now.notice = job[c].notice /\ at[c].pc = "collected"
  BY <1>1, AtWork DEF JobFields, PagesInv, JobShape
<1>3. Working(c)'
  <2>1. due \subseteq ScannedPages
    BY DEF Awaiting, ScannedPages
  <2> QED
    BY <1>1, <1>2, <2>1, AtWork DEF Working, ScannedPages, documents
<1>4. Answered(c)'
  <2>1. \A p \in ScannedPages, e \in now.engines :
           <<p[1], p[2], e>> \in reading \/ (p \in now.awaiting /\ p[1] \in now.todo)
    BY <1>2 DEF ScannedPages, Awaiting
  <2> QED
    BY <1>1, <1>2, <2>1 DEF Answered, Underway, ScannedPages, documents, readings
<1>5. ScansAreRead'
  BY <1>1 DEF PagesInv, ScansAreRead, OfScan, documents, readings
<1> QED
  BY <1>1, <1>2, <1>3, <1>4, <1>5, OneJobMoves DEF readings

LEMMA LeavingUnreadKeepsPages ==
    ASSUME PagesInv, NEW c \in Collectors, NEW n, LeaveUnread(c, n)
    PROVE  PagesInv'
<1> DEFINE now == [job[c] EXCEPT !.todo = @ \ {n}, !.unasked = TRUE]
<1>1. /\ job' = [job EXCEPT ![c] = now]
      /\ UNCHANGED <<at, world, documents, readings>>
      /\ job[c].pc = "send"
  BY DEF LeaveUnread, collection
<1>2. /\ JobFields \subseteq DOMAIN now /\ job'[c] = now
      /\ now.pc = "send" /\ now.awaiting = job[c].awaiting /\ now.unasked = TRUE
      /\ now.reads = job[c].reads /\ now.refuses = job[c].refuses
      /\ now.notice = job[c].notice /\ at[c].pc = "collected"
  BY <1>1, AtWork DEF JobFields, PagesInv, JobShape
<1>3. Working(c)'
  BY <1>1, <1>2, AtWork DEF Working, ScannedPages, OfScan, documents, readings
<1>4. Answered(c)'
  BY <1>2 DEF Answered
<1>5. ScansAreRead'
  BY <1>1 DEF PagesInv, ScansAreRead, OfScan, documents, readings
<1> QED
  BY <1>1, <1>2, <1>3, <1>4, <1>5, OneJobMoves DEF readings

\* What was asked of a notice comes back, read or refused.
LEMMA SendingKeepsPages ==
    ASSUME PagesInv, NEW c \in Collectors, NEW n, NEW read \in SUBSET Asked(c, n), Send(c, n, read)
    PROVE  PagesInv'
<1> DEFINE now == [job[c] EXCEPT !.todo = @ \ {n}, !.reads = read,
                              !.refuses = Asked(c, n) \ read, !.pc = "file"]
<1>1. /\ job' = [job EXCEPT ![c] = now]
      /\ UNCHANGED <<at, world, documents, readings>>
      /\ job[c].pc = "send"
  BY DEF Send, collection
<1>2. /\ JobFields \subseteq DOMAIN now /\ job'[c] = now
      /\ now.pc = "file" /\ now.awaiting = job[c].awaiting /\ now.todo = job[c].todo \ {n}
      /\ now.reads = read /\ now.refuses = Asked(c, n) \ read
      /\ now.engines = job[c].engines /\ now.ocr = job[c].ocr /\ now.unasked = job[c].unasked
      /\ now.notice = job[c].notice /\ at[c].pc = "collected"
  BY <1>1, AtWork DEF JobFields, PagesInv, JobShape
<1>3. Working(c)'
  <2>1. \A r \in Asked(c, n) : OfScan(r)
    <3> SUFFICES ASSUME NEW p \in job[c].awaiting, NEW e
                 PROVE  OfScan(<<p[1], p[2], e>>)
      BY DEF Asked, Request
    <3>1. p \in page /\ p[2] \in Scans(p[1]) /\ p \in PageKeys
      BY AtWork DEF Working, ScannedPages, PagesInv, JobShape
    <3>2. p = <<p[1], p[2]>>
      BY <3>1 DEF PageKeys
    <3> QED
      BY <3>1, <3>2 DEF OfScan
  <2>2. \A r \in now.reads \cup now.refuses : OfScan(r)
    BY <1>2, <2>1
  <2> QED
    BY <1>1, <1>2, <2>2, AtWork DEF Working, ScannedPages, OfScan, documents
<1>4. Answered(c)'
  <2> SUFFICES ASSUME ~overtaken, job[c].ocr, ~job[c].unasked,
                      NEW p \in ScannedPages, NEW e \in job[c].engines,
                      <<p[1], p[2], e>> \notin reading \cup refusal
               PROVE  \/ <<p[1], p[2], e>> \in now.reads \cup now.refuses
                      \/ p \in now.awaiting /\ p[1] \in now.todo
    BY <1>1, <1>2 DEF Answered, Underway, ScannedPages, documents, readings, world
  <2>1. p \in job[c].awaiting /\ p[1] \in job[c].todo
    BY <1>1, AtWork DEF Working, Answered, Underway
  <2>2. CASE p[1] = n
    BY <1>2, <2>1, <2>2 DEF Asked, Request
  <2>3. CASE p[1] # n
    BY <1>2, <2>1, <2>3
  <2> QED
    BY <2>2, <2>3
<1>5. ScansAreRead'
  BY <1>1 DEF PagesInv, ScansAreRead, OfScan, documents, readings
<1> QED
  BY <1>1, <1>2, <1>3, <1>4, <1>5, OneJobMoves DEF readings

LEMMA FiledKeepsPages ==
    ASSUME PagesInv, NEW c \in Collectors, Filed(c)
    PROVE  PagesInv'
<1> DEFINE now == [job[c] EXCEPT !.filing = <<>>, !.pc = "send"]
<1>1. /\ job' = [job EXCEPT ![c] = now]
      /\ UNCHANGED <<at, world, documents, readings>>
      /\ job[c].pc = "file" /\ job[c].reads = {} /\ job[c].refuses = {}
  BY DEF Filed, collection
<1>2. /\ JobFields \subseteq DOMAIN now /\ job'[c] = now
      /\ now.pc = "send" /\ now.awaiting = job[c].awaiting /\ now.todo = job[c].todo
      /\ now.engines = job[c].engines /\ now.ocr = job[c].ocr /\ now.unasked = job[c].unasked
      /\ now.reads = job[c].reads /\ now.refuses = job[c].refuses
      /\ now.notice = job[c].notice /\ at[c].pc = "collected"
  BY <1>1, AtWork DEF JobFields, PagesInv, JobShape
<1>3. Working(c)'
  BY <1>1, <1>2, AtWork DEF Working, ScannedPages, OfScan, documents, readings
<1>4. Answered(c)'
  BY <1>1, <1>2, AtWork DEF Answered, Underway, ScannedPages, documents, readings, world
<1>5. ScansAreRead'
  BY <1>1 DEF PagesInv, ScansAreRead, OfScan, documents, readings
<1> QED
  BY <1>1, <1>2, <1>3, <1>4, <1>5, OneJobMoves DEF readings

LEMMA FinishingReadingKeepsPages ==
    ASSUME PagesInv, NEW c \in Collectors, FinishReading(c)
    PROVE  PagesInv'
<1> DEFINE now == [job[c] EXCEPT !.awaiting = {}, !.pc = "done"]
<1>1. /\ job' = [job EXCEPT ![c] = now]
      /\ UNCHANGED <<at, world, documents, readings>>
      /\ job[c].pc = "send" /\ job[c].todo = {}
  BY DEF FinishReading, collection
<1>2. /\ JobFields \subseteq DOMAIN now /\ job'[c] = now
      /\ now.pc = "done" /\ now.awaiting = {}
      /\ now.engines = job[c].engines /\ now.ocr = job[c].ocr /\ now.unasked = job[c].unasked
      /\ now.reads = job[c].reads /\ now.refuses = job[c].refuses
      /\ now.notice = job[c].notice /\ at[c].pc = "collected"
  BY <1>1, AtWork DEF JobFields, PagesInv, JobShape
<1>3. Working(c)'
  BY <1>1, <1>2, AtWork DEF Working, ScannedPages, OfScan, documents, readings
<1>4. Answered(c)'
  BY <1>1, <1>2, AtWork DEF Answered, Underway, ScannedPages, documents, readings, world
<1>5. ScansAreRead'
  BY <1>1 DEF PagesInv, ScansAreRead, OfScan, documents, readings
<1> QED
  BY <1>1, <1>2, <1>3, <1>4, <1>5, OneJobMoves DEF readings

\* A reading that is held already is passed over; a new one has its words to come.
LEMMA InsertedReadingKeepsPages ==
    ASSUME PagesInv, NEW c \in Collectors, NEW r, InsertReading(c, r)
    PROVE  PagesInv'
<1>0. PICK now : now = [job[c] EXCEPT !.reads = @ \ {r}, !.filing = r,
                                       !.pc = IF r \in reading THEN "file" ELSE "words"]
  OBVIOUS
<1>1. /\ job' = [job EXCEPT ![c] = now]
      /\ UNCHANGED <<at, world, documents, words, refusal>>
      /\ reading' = reading \cup {r}
      /\ job[c].pc = "file" /\ r \in job[c].reads
  BY <1>0 DEF InsertReading, collection
<1>2. /\ JobFields \subseteq DOMAIN now /\ job'[c] = now
      /\ now.pc = "file" \/ now.pc = "words"
      /\ r \notin reading => now.pc = "words"
      /\ now.awaiting = job[c].awaiting /\ now.todo = job[c].todo
      /\ now.reads = job[c].reads \ {r} /\ now.refuses = job[c].refuses /\ now.filing = r
      /\ now.engines = job[c].engines /\ now.ocr = job[c].ocr /\ now.unasked = job[c].unasked
      /\ now.notice = job[c].notice /\ at[c].pc = "collected"
  BY <1>0, <1>1, AtWork DEF JobFields, PagesInv, JobShape
<1>3. Working(c)'
  <2>1. \A s \in job[c].reads \cup job[c].refuses : OfScan(s)'
    BY <1>1, AtWork DEF Working, OfScan, documents
  <2>2. OfScan(now.filing)' /\ \A s \in now.reads \cup now.refuses : OfScan(s)'
    BY <1>1, <1>2, <2>1
  <2>3. ScannedPages' = ScannedPages
    BY <1>1 DEF ScannedPages, documents
  <2> QED
    BY <1>1, <1>2, <2>2, <2>3, AtWork DEF Working
<1>4. Answered(c)'
  BY <1>1, <1>2, AtWork, ZenonT(60) DEF Answered, Underway, ScannedPages, documents, world
<1>5. ScansAreRead'
  <2>1. OfScan(r)
    BY <1>1, AtWork DEF Working
  <2> QED
    BY <1>1, <2>1 DEF PagesInv, ScansAreRead, OfScan, documents
<1>6. JobShape' /\ Alone' /\ \A o \in Collectors \ {c} : Working(o)' /\ Answered(o)'
  BY <1>1, <1>2, OthersStand DEF PagesInv, JobShape, world, documents
<1>7. NothingIsHalfMade'
  <2> SUFFICES ASSUME faults = 0
               PROVE  NothingIsHalfMade'
    BY <1>1 DEF NothingIsHalfMade, world
  <2>1. \A o \in Collectors \ {c} : job'[o] = job[o]
    BY <1>1 DEF PagesInv, JobShape
  <2>2. \A o \in Collectors : job'[o].notice = job[o].notice
    BY <1>2, <2>1
  <2>3. \A n \in document' :
           \/ {n} \X Pages(n) \subseteq page'
           \/ \E o \in Collectors : job'[o].notice = n
    BY <1>1, <2>2 DEF PagesInv, NothingIsHalfMade, documents
  <2>4. ASSUME NEW s \in reading' \ words'
        PROVE  \E o \in Collectors : job'[o].pc = "words" /\ job'[o].filing = s
    <3>1. CASE s \in reading
      <4>1. \E o \in Collectors : job[o].pc = "words" /\ job[o].filing = s
        BY <1>1, <2>4, <3>1 DEF PagesInv, NothingIsHalfMade
      <4> QED
        BY <1>1, <2>1, <4>1
    <3>2. CASE s \notin reading
      BY <1>1, <1>2, <2>4, <3>2
    <3> QED
      BY <3>1, <3>2
  <2> QED
    BY <2>3, <2>4 DEF NothingIsHalfMade
<1> QED
  BY <1>3, <1>4, <1>5, <1>6, <1>7 DEF PagesInv

LEMMA InsertedWordsKeepPages ==
    ASSUME PagesInv, NEW c \in Collectors, InsertWords(c)
    PROVE  PagesInv'
<1> DEFINE r == job[c].filing
           now == [job[c] EXCEPT !.pc = "read"]
<1>1. /\ job' = [job EXCEPT ![c] = now]
      /\ UNCHANGED <<at, world, documents, reading, refusal>>
      /\ words' = words \cup {r}
      /\ job[c].pc = "words"
  BY DEF InsertWords, collection
<1>2. /\ JobFields \subseteq DOMAIN now /\ job'[c] = now
      /\ now.pc = "read" /\ now.awaiting = job[c].awaiting /\ now.todo = job[c].todo
      /\ now.reads = job[c].reads /\ now.refuses = job[c].refuses /\ now.filing = r
      /\ now.engines = job[c].engines /\ now.ocr = job[c].ocr /\ now.unasked = job[c].unasked
      /\ now.notice = job[c].notice /\ at[c].pc = "collected"
  BY <1>1, AtWork DEF JobFields, PagesInv, JobShape
<1>3. Working(c)'
  BY <1>1, <1>2, AtWork DEF Working, ScannedPages, OfScan, documents
<1>4. Answered(c)'
  BY <1>1, <1>2, AtWork, ZenonT(60) DEF Answered, Underway, ScannedPages, documents, world
<1>5. ScansAreRead'
  BY <1>1 DEF PagesInv, ScansAreRead, OfScan, documents
<1>6. JobShape' /\ Alone' /\ \A o \in Collectors \ {c} : Working(o)' /\ Answered(o)'
  BY <1>1, <1>2, OthersStand DEF PagesInv, JobShape, world, documents
<1>7. NothingIsHalfMade'
  <2> SUFFICES ASSUME faults = 0
               PROVE  NothingIsHalfMade'
    BY <1>1 DEF NothingIsHalfMade, world
  <2>1. \A o \in Collectors \ {c} : job'[o] = job[o]
    BY <1>1 DEF PagesInv, JobShape
  <2>2. \A o \in Collectors : job'[o].notice = job[o].notice
    BY <1>2, <2>1
  <2>3. \A n \in document' :
           \/ {n} \X Pages(n) \subseteq page'
           \/ \E o \in Collectors : job'[o].notice = n
    BY <1>1, <2>2 DEF PagesInv, NothingIsHalfMade, documents
  <2>4. ASSUME NEW s \in reading' \ words'
        PROVE  \E o \in Collectors : job'[o].pc = "words" /\ job'[o].filing = s
    <3>1. s # r /\ \E o \in Collectors : job[o].pc = "words" /\ job[o].filing = s
      BY <1>1, <2>4 DEF PagesInv, NothingIsHalfMade
    <3> QED
      BY <2>1, <3>1
  <2> QED
    BY <2>3, <2>4 DEF NothingIsHalfMade
<1> QED
  BY <1>3, <1>4, <1>5, <1>6, <1>7 DEF PagesInv

\* A refusal is withdrawn when its page has been read, and replaced when it is
\* refused again: what it answered for is answered by the reading, or is being.
LEMMA WithdrawnRefusalKeepsPages ==
    ASSUME PagesInv, NEW c \in Collectors, WithdrawRefusal(c)
    PROVE  PagesInv'
<1> DEFINE now == [job[c] EXCEPT !.pc = "file"]
<1>1. /\ job' = [job EXCEPT ![c] = now]
      /\ UNCHANGED <<at, world, documents, reading, words>>
      /\ refusal' = refusal \ {job[c].filing}
      /\ job[c].pc = "read" /\ job[c].filing \in reading
  BY AtWork DEF WithdrawRefusal, collection, Working
<1>2. /\ JobFields \subseteq DOMAIN now /\ job'[c] = now
      /\ now.pc = "file" /\ now.awaiting = job[c].awaiting /\ now.todo = job[c].todo
      /\ now.reads = job[c].reads /\ now.refuses = job[c].refuses
      /\ now.engines = job[c].engines /\ now.ocr = job[c].ocr /\ now.unasked = job[c].unasked
      /\ now.notice = job[c].notice /\ at[c].pc = "collected"
  BY <1>1, AtWork DEF JobFields, PagesInv, JobShape
<1>3. Working(c)'
  BY <1>1, <1>2, AtWork DEF Working, ScannedPages, OfScan, documents
<1>4. Answered(c)'
  BY <1>1, <1>2, AtWork, ZenonT(60) DEF Answered, Underway, ScannedPages, documents, world
<1>5. ScansAreRead'
  BY <1>1 DEF PagesInv, ScansAreRead, OfScan, documents
<1> QED
  BY <1>1, <1>2, <1>3, <1>4, <1>5, OneJobMoves

LEMMA ReplacedRefusalKeepsPages ==
    ASSUME PagesInv, NEW c \in Collectors, NEW r, ReplaceRefusal(c, r)
    PROVE  PagesInv'
<1>0. PICK now : now = [job[c] EXCEPT !.refuses = @ \ {r}, !.filing = r, !.pc = "refuse"]
  OBVIOUS
<1>1. /\ job' = [job EXCEPT ![c] = now]
      /\ UNCHANGED <<at, world, documents, reading, words>>
      /\ refusal' = refusal \ {r}
      /\ job[c].pc = "file" /\ r \in job[c].refuses
  BY <1>0 DEF ReplaceRefusal, collection
<1>2. /\ JobFields \subseteq DOMAIN now /\ job'[c] = now
      /\ now.pc = "refuse" /\ now.awaiting = job[c].awaiting /\ now.todo = job[c].todo
      /\ now.reads = job[c].reads /\ now.refuses = job[c].refuses \ {r} /\ now.filing = r
      /\ now.engines = job[c].engines /\ now.ocr = job[c].ocr /\ now.unasked = job[c].unasked
      /\ now.notice = job[c].notice /\ at[c].pc = "collected"
  BY <1>0, <1>1, AtWork DEF JobFields, PagesInv, JobShape
<1>3. Working(c)'
  <2>1. \A s \in job[c].reads \cup job[c].refuses : OfScan(s)'
    BY <1>1, AtWork DEF Working, OfScan, documents
  <2>2. OfScan(now.filing)' /\ \A s \in now.reads \cup now.refuses : OfScan(s)'
    BY <1>1, <1>2, <2>1
  <2>3. ScannedPages' = ScannedPages
    BY <1>1 DEF ScannedPages, documents
  <2> QED
    BY <1>1, <1>2, <2>2, <2>3, AtWork DEF Working
<1>4. Answered(c)'
  BY <1>1, <1>2, AtWork, ZenonT(60) DEF Answered, Underway, ScannedPages, documents, world
<1>5. ScansAreRead'
  BY <1>1 DEF PagesInv, ScansAreRead, OfScan, documents
<1> QED
  BY <1>1, <1>2, <1>3, <1>4, <1>5, OneJobMoves

LEMMA InsertedRefusalKeepsPages ==
    ASSUME PagesInv, NEW c \in Collectors, InsertRefusal(c)
    PROVE  PagesInv'
<1> DEFINE r == job[c].filing
           now == [job[c] EXCEPT !.pc = "file"]
<1>1. /\ job' = [job EXCEPT ![c] = now]
      /\ UNCHANGED <<at, world, documents, reading, words>>
      /\ refusal' = refusal \cup {r}
      /\ job[c].pc = "refuse" /\ OfScan(r)
  BY AtWork DEF InsertRefusal, collection, Working
<1>2. /\ JobFields \subseteq DOMAIN now /\ job'[c] = now
      /\ now.pc = "file" /\ now.awaiting = job[c].awaiting /\ now.todo = job[c].todo
      /\ now.reads = job[c].reads /\ now.refuses = job[c].refuses
      /\ now.engines = job[c].engines /\ now.ocr = job[c].ocr /\ now.unasked = job[c].unasked
      /\ now.notice = job[c].notice /\ at[c].pc = "collected"
  BY <1>1, AtWork DEF JobFields, PagesInv, JobShape
<1>3. Working(c)'
  BY <1>1, <1>2, AtWork DEF Working, ScannedPages, OfScan, documents
<1>4. Answered(c)'
  BY <1>1, <1>2, AtWork, ZenonT(60) DEF Answered, Underway, ScannedPages, documents, world
<1>5. ScansAreRead'
  BY <1>1 DEF PagesInv, ScansAreRead, OfScan, documents
<1> QED
  BY <1>1, <1>2, <1>3, <1>4, <1>5, OneJobMoves

LEMMA ReadPagesKeepsPages ==
    ASSUME PagesInv, NEW c \in Collectors, ReadPages(c)
    PROVE  PagesInv'
<1>1. CASE \E installed \in SUBSET Engines : AskEngines(c, installed)
  BY <1>1, AskingKeepsPages
<1>2. CASE ReadAwaiting(c)
  BY <1>2, AwaitingKeepsPages
<1>3. CASE \E n \in job[c].todo :
              LeaveUnread(c, n) \/ \E read \in SUBSET Asked(c, n) : Send(c, n, read)
  BY <1>3, LeavingUnreadKeepsPages, SendingKeepsPages
<1>4. CASE File(c)
  BY <1>4, InsertedReadingKeepsPages, InsertedWordsKeepPages, WithdrawnRefusalKeepsPages,
     ReplacedRefusalKeepsPages, InsertedRefusalKeepsPages, FiledKeepsPages DEF File
<1>5. CASE FinishReading(c)
  BY <1>5, FinishingReadingKeepsPages
<1> QED
  BY <1>1, <1>2, <1>3, <1>4, <1>5 DEF ReadPages


-----------------------------------------------------------------------------
(* Before a job, after one, and beside them all.                           *)

\* A step of one collector that leaves it with no job.
LEMMA BetweenJobs ==
    ASSUME PagesInv, NEW c \in Collectors,
           \A o \in Collectors \ {c} : at'[o] = at[o] /\ job'[o] = job[o],
           UNCHANGED <<documents, readings>>,
           DOMAIN job' = Collectors, JobFields \subseteq DOMAIN job'[c],
           job'[c].pc = "none", job'[c].notice = Null, job'[c].awaiting \subseteq ScannedPages,
           job'[c].reads = {}, job'[c].refuses = {},
           faults' \in Nat, overtaken' \in BOOLEAN,
           faults' = 0 => faults = 0 /\ job[c].notice = Null /\ job[c].pc # "words",
           overtaken => overtaken',
           \/ overtaken' \/ at'[c].pc = "idle" \/ Busy(c)
           \/ \A o \in Collectors : ~Busy(o)
    PROVE  PagesInv'
<1>1. JobShape'
  BY DEF PagesInv, JobShape, documents
<1>2. Alone'
  BY DEF PagesInv, Alone, Busy
<1>3. ASSUME NEW o \in Collectors
      PROVE  Working(o)' /\ Answered(o)'
  <2>1. CASE o = c
    BY <2>1 DEF Working, Answered, ScannedPages, documents
  <2>2. CASE o # c
    <3>1. job'[o] = job[o] /\ at'[o] = at[o] /\ Working(o) /\ Answered(o)
      BY <2>2 DEF PagesInv
    <3> QED
      BY <3>1 DEF Working, Answered, Underway, ScannedPages, OfScan, documents, readings
  <2> QED
    BY <2>1, <2>2
<1>4. ScansAreRead'
  BY DEF PagesInv, ScansAreRead, OfScan, documents, readings
<1>5. NothingIsHalfMade'
  <2> SUFFICES ASSUME faults' = 0
               PROVE  NothingIsHalfMade'
    BY DEF NothingIsHalfMade
  <2>1. \A n \in document' :
           \/ {n} \X Pages(n) \subseteq page'
           \/ \E o \in Collectors : job'[o].notice = n
    <3> SUFFICES ASSUME NEW n \in document, ~({n} \X Pages(n) \subseteq page)
                 PROVE  \E o \in Collectors : job'[o].notice = n
      BY DEF documents
    <3>1. n # Null
      BY AgencyAssumption DEF PagesInv, JobShape
    <3>2. PICK o \in Collectors : job[o].notice = n
      BY DEF PagesInv, NothingIsHalfMade
    <3> QED
      BY <3>1, <3>2
  <2>2. \A r \in reading' \ words' :
           \E o \in Collectors : job'[o].pc = "words" /\ job'[o].filing = r
    <3> SUFFICES ASSUME NEW r \in reading \ words
                 PROVE  \E o \in Collectors : job'[o].pc = "words" /\ job'[o].filing = r
      BY DEF readings
    <3>1. PICK o \in Collectors : job[o].pc = "words" /\ job[o].filing = r
      BY DEF PagesInv, NothingIsHalfMade
    <3> QED
      BY <3>1
  <2> QED
    BY <2>1, <2>2 DEF NothingIsHalfMade
<1> QED
  BY <1>1, <1>2, <1>3, <1>4, <1>5 DEF PagesInv

\* Collecting is before the job, and is no other collector's business.
LEMMA CollectingIsItsOwn ==
    ASSUME Shape, NEW c \in Collectors, Keep(c) \/ Read(c) \/ LoseNotice(c)
    PROVE  /\ at[c].pc \notin {"idle", "collected"}
           /\ \A o \in Collectors \ {c} : at'[o] = at[o]
           /\ overtaken' = overtaken
           /\ faults' = faults \/ faults' = faults + 1
<1> USE DEF Shape, world
<1>1. CASE Look(c)
  BY <1>1 DEF Look
<1>2. CASE PutObject(c) \/ CreateFile(c) \/ FillFile(c)
  BY <1>2 DEF PutObject, CreateFile, FillFile
<1>3. CASE RecordArtifact(c)
  BY <1>3 DEF RecordArtifact
<1>4. CASE ReadHeld(c)
  BY <1>4 DEF ReadHeld
<1>5. CASE GetPage(c)
  BY <1>5 DEF GetPage
<1>6. CASE SeeAgain(c) \/ SkipHeld(c)
  BY <1>6 DEF SeeAgain, SkipHeld, AtDocument
<1>7. CASE Fetch(c)
  BY <1>7 DEF Fetch, Wanted, AtDocument
<1>8. CASE NotPermitted(c)
  BY <1>8 DEF NotPermitted, Wanted, AtDocument
<1>9. CASE RecordSighting(c)
  BY <1>9 DEF RecordSighting
<1>10. CASE NextRow(c)
  BY <1>10 DEF NextRow
<1>11. CASE FinishPage(c)
  BY <1>11 DEF FinishPage
<1>12. CASE LoseNotice(c)
  BY <1>12 DEF LoseNotice, Wanted, AtDocument
<1> QED
  BY <1>1, <1>2, <1>3, <1>4, <1>5, <1>6, <1>7, <1>8, <1>9, <1>10, <1>11, <1>12 DEF Keep, Read

LEMMA CollectingKeepsPages ==
    ASSUME PagesInv, Shape, NEW c \in Collectors, Collect(c) \/ MissNotice(c)
    PROVE  PagesInv'
<1>1. /\ Keep(c) \/ Read(c) \/ LoseNotice(c)
      /\ UNCHANGED <<documents, readings, job>>
  BY DEF Collect, MissNotice
<1>2. /\ at[c].pc \notin {"idle", "collected"}
      /\ \A o \in Collectors \ {c} : at'[o] = at[o]
      /\ overtaken' = overtaken
      /\ faults' = faults \/ faults' = faults + 1
  BY <1>1, CollectingIsItsOwn
<1>3. /\ job[c].pc = "none" /\ job[c].notice = Null /\ job[c].awaiting \subseteq ScannedPages
      /\ job[c].reads = {} /\ job[c].refuses = {}
  BY <1>2, AtWork DEF Working
<1>4. /\ DOMAIN job = Collectors /\ JobFields \subseteq DOMAIN job[c]
      /\ faults' \in Nat /\ (faults' = 0 => faults = 0) /\ overtaken' \in BOOLEAN
  BY <1>2 DEF PagesInv, JobShape
<1> QED
  BY <1>1, <1>2, <1>3, <1>4, BetweenJobs DEF Busy

LEMMA OpeningKeepsPages ==
    ASSUME PagesInv, Shape, NEW c \in Collectors,
           \/ OpenAgencyRun(c)
           \/ \E store \in Stores, ocr \in BOOLEAN : OpenExtraction(c, store, ocr)
    PROVE  PagesInv'
<1>1. PICK ocr \in BOOLEAN :
          /\ job' = [job EXCEPT ![c] = [NoJob EXCEPT !.ocr = ocr]]
          /\ UNCHANGED <<documents, readings>>
  BY DEF OpenAgencyRun, OpenExtraction
<1>2. /\ ~Busy(c)
      /\ \A o \in Collectors \ {c} : at'[o] = at[o]
      /\ faults' = faults
      /\ overtaken' \in BOOLEAN /\ (overtaken => overtaken')
      /\ overtaken' \/ \A o \in Collectors : ~Busy(o)
  <2>1. CASE OpenAgencyRun(c)
    BY <2>1 DEF OpenAgencyRun, Begin, OpenRun, Shape, PagesInv, JobShape
  <2>2. CASE \E store \in Stores, o \in BOOLEAN : OpenExtraction(c, store, o)
    BY <2>2 DEF OpenExtraction, Shape, PagesInv, JobShape
  <2> QED
    BY <2>1, <2>2
<1>3. /\ job[c].notice = Null /\ job[c].pc # "words"
  BY <1>2, AtWork DEF Working, Busy
<1>4. /\ DOMAIN job' = Collectors
      /\ job'[c] = [NoJob EXCEPT !.ocr = ocr]
      /\ \A o \in Collectors \ {c} : job'[o] = job[o]
      /\ faults' \in Nat
  BY <1>1, <1>2 DEF PagesInv, JobShape
<1>5. /\ JobFields \subseteq DOMAIN job'[c]
      /\ job'[c].pc = "none" /\ job'[c].notice = Null /\ job'[c].awaiting = {}
      /\ job'[c].reads = {} /\ job'[c].refuses = {}
  BY <1>4 DEF NoJob, JobFields
<1> QED
  BY <1>1, <1>2, <1>3, <1>4, <1>5, BetweenJobs

\* A run ends with nothing half made, or with a fault.
LEMMA EndingKeepsPages ==
    ASSUME PagesInv, Shape, NEW c \in Collectors,
           CompleteAgencyRun(c) \/ Stopped(c) \/ CutShort(c)
    PROVE  PagesInv'
<1>1. /\ job' = [job EXCEPT ![c] = NoJob]
      /\ at' = [at EXCEPT ![c] = Idle]
      /\ overtaken' = overtaken
      /\ UNCHANGED <<documents, readings>>
  BY DEF CompleteAgencyRun, Stopped, CutShort, CompleteRun, StopIf, Throw, Die, Close, world
<1>2. \/ faults' = faults + 1
      \/ faults' = faults /\ job[c].notice = Null /\ job[c].pc # "words"
  <2>1. CASE CompleteAgencyRun(c)
    BY <2>1, AtWork DEF CompleteAgencyRun, CompleteRun, Working, world
  <2>2. CASE Stopped(c)
    <3>1. faults' = faults /\ (MustStop(c) \/ RefusalCollides(c))
      BY <2>2 DEF Stopped, StopIf, world
    <3>2. job[c].pc \in {"none", "refuse"}
      BY <3>1, AtWork DEF MustStop, RefusalCollides
    <3> QED
      BY <3>1, <3>2, AtWork DEF Working
  <2>3. CASE CutShort(c)
    BY <2>3 DEF CutShort, Throw, Die
  <2> QED
    BY <2>1, <2>2, <2>3
<1>3. /\ DOMAIN job' = Collectors /\ job'[c] = NoJob
      /\ \A o \in Collectors \ {c} : at'[o] = at[o] /\ job'[o] = job[o]
      /\ at'[c].pc = "idle"
      /\ faults' \in Nat /\ overtaken' \in BOOLEAN
      /\ faults' = 0 => faults = 0 /\ job[c].notice = Null /\ job[c].pc # "words"
  BY <1>1, <1>2 DEF PagesInv, JobShape, Shape, Idle
<1>4. /\ JobFields \subseteq DOMAIN NoJob
      /\ NoJob.pc = "none" /\ NoJob.notice = Null /\ NoJob.awaiting = {}
      /\ NoJob.reads = {} /\ NoJob.refuses = {}
  BY DEF NoJob, JobFields
<1> QED
  BY <1>1, <1>3, <1>4, BetweenJobs

\* A publication, or nothing at all.
LEMMA BesidesKeepsPages ==
    ASSUME PagesInv, UNCHANGED <<at, faults, documents, readings, job>>,
           overtaken' \in BOOLEAN, overtaken => overtaken'
    PROVE  PagesInv'
<1>1. JobShape' /\ Alone'
  BY DEF PagesInv, JobShape, Alone, Busy, documents
<1>2. \A c \in Collectors : Working(c)' /\ Answered(c)'
  BY DEF PagesInv, Working, Answered, Underway, ScannedPages, OfScan, documents, readings
<1>3. ScansAreRead'
  BY DEF PagesInv, ScansAreRead, OfScan, documents, readings
<1>4. NothingIsHalfMade'
  BY DEF PagesInv, NothingIsHalfMade, documents, readings
<1> QED
  BY <1>1, <1>2, <1>3, <1>4 DEF PagesInv

LEMMA PagesBegin ==
    ASSUME AgencyInit
    PROVE  Evidence /\ PagesInv
<1>1. Evidence
  <2>1. Shape
    BY DEF AgencyInit, Init, Shape, Fields, Idle
  <2>2. ReadyToRecord
    BY DEF AgencyInit, Init, ReadyToRecord, Idle
  <2>3. EvidenceIsHeld
    BY DEF AgencyInit, Init, EvidenceIsHeld
  <2> QED
    BY <2>1, <2>2, <2>3 DEF Evidence
<1>2. JobShape
  BY DEF AgencyInit, Init, JobShape, JobFields, NoJob
<1>3. Alone
  BY DEF AgencyInit, Init, Alone, Busy, Idle
<1>4. \A c \in Collectors : Working(c) /\ Answered(c)
  BY DEF AgencyInit, Working, Answered, ScannedPages, OfScan, NoJob
<1>5. ScansAreRead /\ NothingIsHalfMade
  BY DEF AgencyInit, ScansAreRead, NothingIsHalfMade
<1> QED
  BY <1>1, <1>2, <1>3, <1>4, <1>5 DEF PagesInv

\* What any step keeps of the pages.
LEMMA StepKeepsPages ==
    ASSUME Evidence, PagesInv, [AgencyNext]_agency
    PROVE  (Evidence /\ PagesInv)'
<1>a. SUFFICES PagesInv'
  BY StepKeepsEvidence
<1>0. Shape
  BY DEF Evidence
<1>1. ASSUME NEW row \in Rows, Publish(row) /\ UNCHANGED <<documents, readings, job>>
      PROVE  PagesInv'
  BY <1>1, BesidesKeepsPages DEF Publish, PagesInv, JobShape
<1>2. ASSUME NEW c \in Collectors,
             \/ OpenAgencyRun(c)
             \/ \E store \in Stores, ocr \in BOOLEAN : OpenExtraction(c, store, ocr)
      PROVE  PagesInv'
  BY <1>0, <1>2, OpeningKeepsPages
<1>3. ASSUME NEW c \in Collectors, Work(c)
      PROVE  PagesInv'
  BY <1>0, <1>3, CollectingKeepsPages, ExtractKeepsPages, ReadPagesKeepsPages,
     EndingKeepsPages DEF Work
<1>4. ASSUME NEW c \in Collectors, MissNotice(c) \/ PageRefused(c) \/ CutShort(c)
      PROVE  PagesInv'
  BY <1>0, <1>4, CollectingKeepsPages, RefusedPageKeepsPages, EndingKeepsPages
<1>5. CASE UNCHANGED agency
  BY <1>5, BesidesKeepsPages DEF agency, collection, world, PagesInv, JobShape
<1> QED
  BY <1>1, <1>2, <1>3, <1>4, <1>5 DEF AgencyNext

\* Every page is accounted for, whatever notices there are and however many
\* pages, engines and runs: unless something has gone wrong no document stands
\* without its pages nor a reading without its words, but while a run is at it,
\* and a run nobody overtook that has put its pages to the engines leaves every
\* scanned page read by each or its refusal on file (documents.ts:78,
\* read-pages.ts:87-92, migration 0042).
THEOREM EveryPageIsAccountedFor == AgencySpec => []PagesAreAccountedFor
<1>1. AgencyInit => Evidence /\ PagesInv
  BY PagesBegin
<1>2. Evidence /\ PagesInv /\ [AgencyNext]_agency => (Evidence /\ PagesInv)'
  BY StepKeepsPages
<1>3. PagesInv => PagesAreAccountedFor
  <2> SUFFICES ASSUME PagesInv PROVE AbsenceIsStated
    BY DEF PagesInv, PagesAreAccountedFor
  <2>1. ASSUME NEW c \in Collectors,
               job[c].pc = "done" /\ job[c].ocr /\ ~job[c].unasked /\ ~overtaken,
               NEW p \in page, NEW e \in job[c].engines, p[2] \in Scans(p[1])
        PROVE  <<p[1], p[2], e>> \in reading \cup refusal
    <3>1. p \in ScannedPages
      BY <2>1 DEF ScannedPages
    <3>2. job[c].reads = {} /\ job[c].refuses = {}
      BY <2>1, AtWork DEF Working
    <3> QED
      BY <2>1, <3>1, <3>2, AtWork DEF Answered, Underway
  <2>2. \A r \in reading \cup refusal : <<r[1], r[2]>> \in page /\ r[2] \in Scans(r[1])
    BY DEF PagesInv, ScansAreRead, OfScan
  <2> QED
    BY <2>1, <2>2 DEF AbsenceIsStated
<1> QED
  BY <1>1, <1>2, <1>3, PTL DEF AgencySpec

------------------------------------------------------------------------------
(* The walk of the listing.                                                  *)

\* A document a run has dealt with: held, or reported as refused or lost.
Got(w, d) ==
    \/ Held(d)
    \/ d \in Refused /\ w.counts.notPermitted # 0
    \/ w.counts.failed # 0

GotAll(w, row) == \A d \in ToSet(DocumentsOf[row]) : Got(w, d)

InHand == {"look", "create", "fill", "record", "sight", "row"}
Walks == {"held", "page"} \cup InHand

\* Rows that stood on a page of the run's range when it opened.
InRange(w, i) ==
    /\ i \in DOMAIN listed
    /\ i > Len(listed) - w.began
    /\ (i - 1 - (Len(listed) - w.began)) \div PageSize >= w.first

\* What is behind the run is got; the rest of its range is ahead of it.
Walked(w) ==
    \A i \in DOMAIN listed :
        InRange(w, i) =>
            \/ GotAll(w, listed[i])
            \/ w.pc \in {"held", "page"} /\ PageNow(i) >= w.page
            \/ w.pc \in InHand /\ (PageNow(i) >= w.page + 1 \/ listed[i] \in ToSet(w.rows))
            \/ w.pc = "collected" /\ PageNow(i) > w.last

\* The page in hand.
PageInHand(w) ==
    /\ w.rows \in Seq(Rows) /\ w.rows # <<>>
    /\ ToSet(w.rows) \subseteq ToSet(listed)
    /\ w.docs \in Seq(Documents)
    /\ ToSet(w.docs) \subseteq ToSet(DocumentsOf[w.rows[1]])
    /\ \A d \in ToSet(DocumentsOf[w.rows[1]]) : d \in ToSet(w.docs) \/ Got(w, d)
    /\ w.listing \in PageBytes
    /\ w.pc \in {"look", "create", "fill", "record"} => w.saving \in Hashes
    /\ w.pc = "sight" \/ (w.pc \in {"look", "create", "fill", "record"} /\ w.saving \in Contents)
       => w.docs # <<>> /\ w.fresh

\* A walk of the listing, whatever goes on beside it.
Walk(w) ==
    /\ w.explicit \in BOOLEAN /\ w.fresh \in BOOLEAN
    /\ w.page \in Nat /\ w.last \in Nat /\ w.first \in Nat /\ w.began \in 0..Len(listed)
    /\ w.counts \in Counts
    /\ w.counts.failed # 0 => faults # 0
    /\ w.held \subseteq {d \in Documents : Held(d)}
    /\ w.fetched \subseteq w.held
    /\ w.pc \in InHand => PageInHand(w)
    /\ w.pc \in Walks \/ w.explicit => Walked(w)

WalkFields == {"pc", "explicit", "page", "last", "rows", "docs", "listing", "saving", "held",
               "fetched", "fresh", "counts", "first", "began", "store"}

Listing ==
    /\ DOMAIN at = Collectors
    /\ \A c \in Collectors : WalkFields \subseteq DOMAIN at[c]
    /\ listed \in Seq(Rows)
    /\ \A i, j \in DOMAIN listed : listed[i] = listed[j] => i = j
    /\ sighting \in Seq(Sighting)
    /\ \A i \in DOMAIN sighting :
          /\ sighting[i].row \in ToSet(listed)
          /\ sighting[i].document \in ToSet(DocumentsOf[sighting[i].row])
    /\ faults \in Nat /\ overtaken \in BOOLEAN

WalkInv == Listing /\ \A c \in Collectors : Walk(at[c])

-----------------------------------------------------------------------------
Quiet == faults = 0 /\ ~overtaken /\ EveryRowHasItsOwn

OwnOf(row) ==
    {d \in ToSet(DocumentsOf[row]) : \A other \in Rows \ {row} : d \notin ToSet(DocumentsOf[other])}

Settled(i) == PageNow(i) <= LastPage => \A d \in ToSet(DocumentsOf[listed[i]]) \ Refused : Held(d)

\* Below a row whose own notice is among ds, all is held.
SettledBelow(ds) ==
    \A i, j \in DOMAIN listed : i <= j /\ OwnOf(listed[i]) \cap ds # {} => Settled(j)

BetweenWalks == \A c \in Collectors : at[c].pc \in {"idle", "held", "collected"}

\* What was fetched is of the pages behind, or of the page in hand and fresh.
FetchedBehind(w) ==
    \A d \in w.fetched : \E i \in DOMAIN listed :
        /\ d \in ToSet(DocumentsOf[listed[i]])
        /\ PageNow(i) < w.page \/ (w.pc \in InHand /\ w.fresh /\ PageNow(i) = w.page)

QuietWalk(w) ==
    /\ w.pc \in Walks => w.began = Len(listed) /\ w.first = 0 /\ w.last = LastPage
    /\ w.pc \in {"page"} \cup InHand => SettledBelow(w.held \ w.fetched) /\ FetchedBehind(w)
    /\ w.pc = "held" => w.fetched = {}
    /\ w.pc \in InHand =>
          /\ \A row \in ToSet(w.rows) : \E i \in DOMAIN listed : listed[i] = row /\ PageNow(i) = w.page
          /\ ~w.fresh => \A d \in ToSet(DocumentsOf[w.rows[1]]) : d \in ToSet(w.docs) \/ d \in w.held

QuietBytes ==
    /\ \A k \in kept \ whole : \E c \in Collectors : at[c].pc = "fill" /\ k = Place(c)
    /\ \A c \in Collectors : at[c].pc = "create" => Place(c) \notin kept

QuietInv ==
    Quiet =>
        /\ QuietBytes
        /\ \A c \in Collectors : QuietWalk(at[c])
        /\ BetweenWalks => SettledBelow({d \in Documents : Held(d)})
        /\ \A c \in Collectors : at[c].pc = "collected" /\ at[c].listing # Null
              => \A i \in DOMAIN listed : Settled(i)

-----------------------------------------------------------------------------
(* Pages of a listing.                                                     *)

LEMMA PageOfRow ==
    ASSUME NEW x \in Nat, NEW p \in Nat
    PROVE  x \div PageSize \in Nat /\ (x \div PageSize >= p <=> x >= p * PageSize)
<1>0. PageSize \in Nat \ {0}
  BY CollectionAssumption
<1>1. PICK q : q = x \div PageSize
  OBVIOUS
<1>2. q \in Nat /\ x >= q * PageSize /\ x < (q + 1) * PageSize
  BY <1>0, <1>1
<1>3. q >= p => q * PageSize >= p * PageSize
  BY <1>0, <1>2
<1>4. q + 1 <= p => (q + 1) * PageSize <= p * PageSize
  BY <1>0, <1>2
<1>5. p * PageSize \in Nat /\ q * PageSize \in Nat /\ (q + 1) * PageSize \in Nat
  BY <1>0, <1>2
<1> QED
  BY <1>1, <1>2, <1>3, <1>4, <1>5

\* A row further down is on the same page or on a later one.
LEMMA LaterRows ==
    ASSUME NEW i \in Nat \ {0}, NEW j \in Nat \ {0}, i <= j
    PROVE  PageNow(i) \in Nat /\ PageNow(j) \in Nat /\ PageNow(i) <= PageNow(j)
<1>1. PICK x \in Nat, y \in Nat : x = i - 1 /\ y = j - 1 /\ x <= y
  OBVIOUS
<1>2. PICK p \in Nat : p = x \div PageSize
  BY PageOfRow
<1>3. x >= p * PageSize
  BY <1>2, PageOfRow
<1>4. p * PageSize \in Nat
  BY <1>2, CollectionAssumption
<1>5. y >= p * PageSize
  BY <1>1, <1>3, <1>4
<1>6. y \div PageSize >= p /\ y \div PageSize \in Nat
  BY <1>2, <1>5, PageOfRow
<1> QED
  BY <1>1, <1>2, <1>6 DEF PageNow

LEMMA CutOut ==
    ASSUME NEW s \in Seq(Rows), NEW m \in Nat \ {0}, NEW n \in 0..Len(s)
    PROVE  /\ SubSeq(s, m, n) \in Seq(Rows)
           /\ \A i \in m..n : s[i] \in ToSet(SubSeq(s, m, n))
           /\ \A e \in ToSet(SubSeq(s, m, n)) : \E i \in m..n : s[i] = e
<1>1. PICK t : t = SubSeq(s, m, n)
  OBVIOUS
<1>2. \A i \in m..n : s[i] \in Rows
  OBVIOUS
<1>3. /\ t \in Seq(Rows)
      /\ Len(t) = IF m <= n THEN n - m + 1 ELSE 0
      /\ \A i \in 1..n - m + 1 : t[i] = s[m + i - 1]
  BY <1>1, <1>2, SubSeqProperties
<1>4. DOMAIN t = 1..Len(t)
  BY <1>3
<1>5. ASSUME NEW i \in m..n
      PROVE  s[i] \in ToSet(t)
  <2>1. i - m + 1 \in 1..n - m + 1 /\ m + (i - m + 1) - 1 = i /\ m <= n
    OBVIOUS
  <2>2. i - m + 1 \in DOMAIN t /\ t[i - m + 1] = s[i]
    BY <1>3, <1>4, <2>1
  <2> QED
    BY <2>2 DEF ToSet
<1>6. ASSUME NEW e \in ToSet(t)
      PROVE  \E i \in m..n : s[i] = e
  <2>1. PICK k \in 1..Len(t) : t[k] = e
    BY <1>4 DEF ToSet
  <2>2. m <= n /\ k \in 1..n - m + 1
    BY <1>3, <2>1
  <2>3. m + k - 1 \in m..n /\ s[m + k - 1] = e
    BY <1>3, <2>1, <2>2
  <2> QED
    BY <2>3
<1> QED
  BY <1>1, <1>3, <1>5, <1>6

\* A page shows the rows that are on it.
LEMMA PageShows ==
    ASSUME NEW listing \in Seq(Rows), NEW p \in Nat
    PROVE  /\ Shown(listing, p) \in Seq(Rows)
           /\ \A i \in DOMAIN listing :
                 PageNow(i) >= p => listing[i] \in ToSet(Shown(listing, p)) \/ PageNow(i) >= p + 1
           /\ \A e \in ToSet(Shown(listing, p)) :
                 \E i \in DOMAIN listing : listing[i] = e /\ PageNow(i) = p
           /\ Shown(listing, p) = <<>> => \A i \in DOMAIN listing : ~(PageNow(i) >= p)
<1>0. PageSize \in Nat \ {0}
  BY CollectionAssumption
<1>1. PICK m \in Nat : m = p * PageSize
  BY <1>0
<1>2. PICK n \in Nat : n = (p + 1) * PageSize
  BY <1>0
<1>3. PICK k \in Nat : k = Len(listing) /\ DOMAIN listing = 1..k
  OBVIOUS
<1>4. PICK last \in 0..k : last = IF n < k THEN n ELSE k
  BY <1>2, <1>3
<1>5. Shown(listing, p) = SubSeq(listing, m + 1, last)
  BY <1>1, <1>2, <1>3, <1>4 DEF Shown
<1>6. /\ Shown(listing, p) \in Seq(Rows)
      /\ \A i \in m + 1..last : listing[i] \in ToSet(Shown(listing, p))
      /\ \A e \in ToSet(Shown(listing, p)) : \E i \in m + 1..last : listing[i] = e
  <2>1. PICK q \in Nat \ {0} : q = m + 1
    OBVIOUS
  <2>2. last \in 0..Len(listing)
    BY <1>3
  <2>3. /\ SubSeq(listing, q, last) \in Seq(Rows)
        /\ \A i \in q..last : listing[i] \in ToSet(SubSeq(listing, q, last))
        /\ \A e \in ToSet(SubSeq(listing, q, last)) : \E i \in q..last : listing[i] = e
    BY <2>2, CutOut
  <2> QED
    BY <1>5, <2>1, <2>3
<1>7. ASSUME NEW i \in DOMAIN listing
      PROVE  /\ PageNow(i) \in Nat
             /\ PageNow(i) >= p <=> i - 1 >= m
             /\ PageNow(i) >= p + 1 <=> i - 1 >= n
  <2>1. i - 1 \in Nat /\ p + 1 \in Nat
    BY <1>3
  <2> QED
    BY <1>1, <1>2, <2>1, PageOfRow DEF PageNow
<1>8. ASSUME NEW i \in DOMAIN listing, PageNow(i) >= p
      PROVE  listing[i] \in ToSet(Shown(listing, p)) \/ PageNow(i) >= p + 1
  <2>1. i - 1 >= n \/ i \in m + 1..last
    BY <1>3, <1>4, <1>7, <1>8
  <2> QED
    BY <1>6, <1>7, <2>1
<1>9. ASSUME NEW e \in ToSet(Shown(listing, p))
      PROVE  \E i \in DOMAIN listing : listing[i] = e /\ PageNow(i) = p
  <2>1. PICK i \in m + 1..last : listing[i] = e
    BY <1>6
  <2>2. i \in DOMAIN listing /\ i - 1 >= m /\ ~(i - 1 >= n)
    BY <1>3, <1>4, <2>1
  <2>3. PageNow(i) \in Nat /\ PageNow(i) >= p /\ ~(PageNow(i) >= p + 1)
    BY <1>7, <2>2
  <2> QED
    BY <2>1, <2>2, <2>3
<1>10. ASSUME NEW i \in DOMAIN listing, PageNow(i) >= p, Shown(listing, p) = <<>>
       PROVE  FALSE
  <2>1. i - 1 >= m /\ n = m + PageSize
    BY <1>0, <1>1, <1>2, <1>7, <1>10
  <2>2. m + 1 \in m + 1..last
    BY <1>0, <1>3, <1>4, <2>1
  <2>3. listing[m + 1] \in ToSet(<<>>)
    BY <1>6, <1>10, <2>2
  <2> QED
    BY <2>3 DEF ToSet
<1> QED
  BY <1>6, <1>8, <1>9, <1>10

-----------------------------------------------------------------------------
(* Steps of one collector.                                                 *)

\* What a walk knows of the ledger stays true as notices come in.
LEMMA WalkStands ==
    ASSUME NEW w, Walk(w), listed' = listed, faults # 0 => faults' # 0,
           \A d : Held(d) => Held(d)'
    PROVE  Walk(w)'
<1>1. \A d : Got(w, d) => Got(w, d)'
  BY DEF Got
<1>2. \A e : GotAll(w, e) => GotAll(w, e)'
  BY <1>1 DEF GotAll
<1>3. PageInHand(w) => PageInHand(w)'
  BY <1>1 DEF PageInHand
<1>4. Walked(w) => Walked(w)'
  BY <1>2 DEF Walked, InRange, PageNow
<1>5. w.held \subseteq {d \in Documents : Held(d)} => w.held \subseteq {d \in Documents : Held(d)'}
  OBVIOUS
<1> QED
  BY <1>3, <1>4, <1>5 DEF Walk

\* The same when nothing is published, sighted or lost.
LEMMA NothingComesIn ==
    ASSUME UNCHANGED <<listed, sighting, faults>>
    PROVE  /\ \A d : Held(d)' <=> Held(d)
           /\ \A w : Walk(w) => Walk(w)'
<1>1. \A d : Held(d)' <=> Held(d)
  BY DEF Held
<1> QED
  BY <1>1, WalkStands

\* And so does what a quiet walk knows.
LEMMA QuietStands ==
    ASSUME NEW w, QuietWalk(w), listed' = listed, \A d : Held(d) => Held(d)'
    PROVE  QuietWalk(w)'
<1>1. \A ds : SettledBelow(ds) => SettledBelow(ds)'
  BY DEF SettledBelow, Settled, PageNow, OwnOf
<1>2. FetchedBehind(w) => FetchedBehind(w)'
  BY DEF FetchedBehind, PageNow
<1> QED
  BY <1>1, <1>2 DEF QuietWalk, PageNow

\* In a quiet system the collector at work is alone, and only the file it has
\* created is not yet whole.
LEMMA InQuiet ==
    ASSUME WalkInv, QuietInv, PagesInv, Quiet, NEW c \in Collectors, Busy(c)
    PROVE  /\ \A o \in Collectors \ {c} : at[o].pc = "idle"
           /\ \A k \in kept \ whole : at[c].pc = "fill" /\ k = Place(c)
           /\ at[c].pc = "create" => Place(c) \notin kept
           /\ QuietWalk(at[c])
<1>1. \A o \in Collectors \ {c} : at[o].pc = "idle"
  BY DEF PagesInv, Alone, Busy, Quiet
<1> QED
  BY <1>1 DEF QuietInv, QuietBytes

\* A step of one collector keeps the invariant if it leaves that collector as
\* its walk should be.
LEMMA OneCollects ==
    ASSUME WalkInv, QuietInv, PagesInv, NEW c \in Collectors, Busy(c), NEW now,
           at' = [at EXCEPT ![c] = now], WalkFields \subseteq DOMAIN now,
           UNCHANGED <<listed, overtaken>>,
           faults' = faults \/ faults' = faults + 1,
           sighting' \in Seq(Sighting),
           \A i \in DOMAIN sighting' :
              /\ sighting'[i].row \in ToSet(listed)
              /\ sighting'[i].document \in ToSet(DocumentsOf[sighting'[i].row]),
           \A d : Held(d) => Held(d)',
           Walk(now)',
           Quiet /\ faults' = faults =>
              /\ QuietWalk(now)'
              /\ \A k \in kept' \ whole' : now.pc = "fill" /\ k = <<now.store, now.saving>>
              /\ now.pc = "create" => <<now.store, now.saving>> \notin kept'
              /\ now.pc \in {"idle", "held", "collected"}
                 => SettledBelow({d \in Documents : Held(d)})'
              /\ now.pc = "collected" /\ now.listing # Null
                 => \A i \in DOMAIN listed : Settled(i)'
    PROVE  WalkInv' /\ QuietInv'
<1>0. Listing /\ faults \in Nat /\ (faults # 0 => faults' # 0)
  BY DEF WalkInv, Listing
<1>1. at'[c] = now /\ \A o \in Collectors \ {c} : at'[o] = at[o]
  BY <1>0 DEF Listing
<1>2. Listing'
  BY <1>0, <1>1 DEF Listing
<1>3. ASSUME NEW o \in Collectors
      PROVE  Walk(at[o])'
  <2>1. CASE o = c
    BY <1>1, <2>1
  <2>2. CASE o # c
    <3>1. PICK w : w = at[o]
      OBVIOUS
    <3>2. Walk(w)
      BY <3>1 DEF WalkInv
    <3>3. Walk(w)'
      BY <1>0, <3>2, WalkStands
    <3> QED
      BY <1>1, <2>2, <3>1, <3>3
  <2> QED
    BY <2>1, <2>2
<1>4. QuietInv'
  <2> SUFFICES ASSUME Quiet'
               PROVE  /\ QuietBytes'
                      /\ \A o \in Collectors : QuietWalk(at[o])'
                      /\ BetweenWalks' => SettledBelow({d \in Documents : Held(d)})'
                      /\ \A o \in Collectors : at'[o].pc = "collected" /\ at'[o].listing # Null
                            => \A i \in DOMAIN listed' : Settled(i)'
    BY DEF QuietInv
  <2>1. Quiet /\ faults' = faults
    BY <1>0 DEF Quiet
  <2>2. \A o \in Collectors \ {c} : at'[o].pc = "idle"
    BY <1>1, <2>1, InQuiet
  <2>3. QuietBytes'
    BY <1>1, <2>1, <2>2 DEF QuietBytes, Place
  <2>4. ASSUME NEW o \in Collectors
        PROVE  QuietWalk(at[o])'
    <3>1. CASE o = c
      BY <1>1, <2>1, <3>1
    <3>2. CASE o # c
      BY <2>2, <3>2 DEF QuietWalk, Walks, InHand
    <3> QED
      BY <3>1, <3>2
  <2>5. BetweenWalks' => SettledBelow({d \in Documents : Held(d)})'
    BY <1>1, <2>1 DEF BetweenWalks
  <2>6. ASSUME NEW o \in Collectors,
               at'[o].pc = "collected" /\ at'[o].listing # Null
        PROVE  \A i \in DOMAIN listed' : Settled(i)'
    <3>1. o = c
      BY <2>2, <2>6
    <3> QED
      BY <1>1, <2>1, <2>6, <3>1
  <2> QED
    BY <2>3, <2>4, <2>5, <2>6
<1> QED
  BY <1>2, <1>3, <1>4 DEF WalkInv

-----------------------------------------------------------------------------
(* Keeping bytes.                                                          *)

\* A walk that is at another step of the same page and the same document.
SameWalk(w, v) ==
    /\ v.explicit = w.explicit /\ v.page = w.page /\ v.last = w.last /\ v.rows = w.rows
    /\ v.docs = w.docs /\ v.listing = w.listing /\ v.saving = w.saving /\ v.held = w.held
    /\ v.fetched = w.fetched /\ v.fresh = w.fresh /\ v.counts = w.counts
    /\ v.first = w.first /\ v.began = w.began /\ v.store = w.store

Saving == {"look", "create", "fill", "record"}

LEMMA SamePage ==
    ASSUME NEW w, NEW v, SameWalk(w, v), w.pc \in Saving, v.pc \in Saving \cup {"sight", "row"},
           v.pc = "sight" => w.saving \in Contents
    PROVE  (Walk(w) => Walk(v)) /\ (QuietWalk(w) => QuietWalk(v))
<1>1. \A d : Got(v, d) <=> Got(w, d)
  BY DEF SameWalk, Got
<1>2. \A e : GotAll(v, e) <=> GotAll(w, e)
  BY <1>1 DEF GotAll
<1>3. PageInHand(w) => PageInHand(v)
  BY <1>1 DEF SameWalk, PageInHand, Saving
<1>4. Walked(w) => Walked(v)
  BY <1>2 DEF SameWalk, Walked, InRange, Saving, InHand
<1>5. Walk(w) => Walk(v)
  BY <1>3, <1>4 DEF SameWalk, Walk, Saving, InHand, Walks
<1>6. FetchedBehind(w) => FetchedBehind(v)
  BY DEF SameWalk, FetchedBehind, Saving, InHand
<1>7. QuietWalk(w) => QuietWalk(v)
  BY <1>6 DEF SameWalk, QuietWalk, Saving, InHand, Walks
<1> QED
  BY <1>5, <1>7

\* A step that keeps bytes, and leaves what there is to know of the walk alone.
LEMMA KeepingMoves ==
    ASSUME WalkInv, QuietInv, PagesInv, NEW c \in Collectors, NEW now,
           at' = [at EXCEPT ![c] = now], WalkFields \subseteq DOMAIN now,
           SameWalk(at[c], now), at[c].pc \in Saving, now.pc \in Saving \cup {"sight", "row"},
           now.pc = "sight" => now.saving \in Contents,
           UNCHANGED <<listed, sighting, faults, overtaken>>,
           Quiet =>
              /\ now.pc = "create" => <<now.store, now.saving>> \notin kept'
              /\ \A k \in kept' \ whole' : now.pc = "fill" /\ k = <<now.store, now.saving>>
    PROVE  WalkInv' /\ QuietInv'
<1>1. PICK here : here = at[c]
  OBVIOUS
<1>2. Walk(here) /\ Busy(c)
  BY <1>1 DEF WalkInv, Saving, Busy
<1>3. SameWalk(here, now) /\ here.pc \in Saving /\ (now.pc = "sight" => here.saving \in Contents)
  BY <1>1 DEF SameWalk
<1>4. Walk(now)'
  BY <1>2, <1>3, SamePage, NothingComesIn
<1>5. \A d : Held(d) => Held(d)'
  BY NothingComesIn
<1>6. Quiet => QuietWalk(now)'
  BY <1>1, <1>2, <1>3, <1>5, InQuiet, SamePage, QuietStands
<1>7. now.pc \notin {"idle", "held", "collected"}
  BY DEF Saving
<1>8. /\ sighting' \in Seq(Sighting)
      /\ \A i \in DOMAIN sighting' :
              /\ sighting'[i].row \in ToSet(listed)
              /\ sighting'[i].document \in ToSet(DocumentsOf[sighting'[i].row])
  BY DEF WalkInv, Listing
<1> QED
  BY <1>2, <1>4, <1>5, <1>6, <1>7, <1>8, OneCollects

LEMMA KeepKeepsListing ==
    ASSUME WalkInv, QuietInv, PagesInv, NEW c \in Collectors, Keep(c)
    PROVE  WalkInv' /\ QuietInv'
<1> USE DEF bytes, ledger, world
<1>0. PICK here : here = at[c]
  OBVIOUS
<1>1. WalkFields \subseteq DOMAIN here /\ Place(c) = <<here.store, here.saving>>
  BY <1>0 DEF WalkInv, Listing, Place
<1>2. ASSUME Quiet, here.pc \in Saving
      PROVE  /\ \A k \in kept \ whole : here.pc = "fill" /\ k = Place(c)
             /\ here.pc = "create" => Place(c) \notin kept
  BY <1>0, <1>2, InQuiet DEF Busy, Saving
<1>3. ASSUME NEW pc \in Saving \cup {"sight", "row"}, here.pc \in Saving,
             at' = [at EXCEPT ![c].pc = pc], pc = "sight" => here.saving \in Contents,
             UNCHANGED <<listed, sighting, faults, overtaken>>,
             Quiet =>
                /\ pc = "create" => Place(c) \notin kept'
                /\ \A k \in kept' \ whole' : pc = "fill" /\ k = Place(c)
      PROVE  WalkInv' /\ QuietInv'
  <2>1. PICK now : now = [here EXCEPT !.pc = pc]
    OBVIOUS
  <2>2. at' = [at EXCEPT ![c] = now]
    BY <1>0, <1>3, <2>1
  <2>3. WalkFields \subseteq DOMAIN now /\ SameWalk(here, now) /\ now.pc = pc
    BY <1>1, <2>1 DEF WalkFields, SameWalk
  <2>4. Place(c) = <<now.store, now.saving>> /\ now.saving = here.saving
    BY <1>1, <2>3 DEF SameWalk
  <2> QED
    BY <1>0, <1>3, <2>2, <2>3, <2>4, KeepingMoves
<1>4. CASE Look(c)
  <2>1. CASE Place(c) \notin kept /\ at' = [at EXCEPT ![c].pc = "create"]
    BY <1>0, <1>2, <1>3, <1>4, <2>1 DEF Look, Saving
  <2>2. CASE Place(c) \in whole /\ at' = [at EXCEPT ![c].pc = "record"]
    BY <1>0, <1>2, <1>3, <1>4, <2>2 DEF Look, Saving
  <2> QED
    BY <1>4, <2>1, <2>2 DEF Look
<1>5. CASE PutObject(c)
  BY <1>0, <1>2, <1>3, <1>5 DEF PutObject, Saving
<1>6. CASE CreateFile(c)
  BY <1>0, <1>2, <1>3, <1>6 DEF CreateFile, Saving
<1>7. CASE FillFile(c)
  BY <1>0, <1>2, <1>3, <1>7 DEF FillFile, Saving
<1>8. CASE RecordArtifact(c)
  <2>1. PICK pc \in {"sight", "row"} : pc = IF here.saving \in Contents THEN "sight" ELSE "row"
    OBVIOUS
  <2>2. at' = [at EXCEPT ![c].pc = pc] /\ here.pc = "record" /\ (pc = "sight" => here.saving \in Contents)
    BY <1>0, <1>8, <2>1 DEF RecordArtifact
  <2> QED
    BY <1>0, <1>2, <1>3, <1>8, <2>2 DEF RecordArtifact, Saving
<1> QED
  BY <1>4, <1>5, <1>6, <1>7, <1>8 DEF Keep

-----------------------------------------------------------------------------
(* The documents of a row.                                                 *)

LEMMA HeadAndTail ==
    ASSUME NEW S, NEW s \in Seq(S), s # <<>>
    PROVE  /\ Head(s) \in S /\ Tail(s) \in Seq(S)
           /\ Head(s) = s[1] /\ Head(s) \in ToSet(s)
           /\ ToSet(s) = {Head(s)} \cup ToSet(Tail(s))
           /\ Len(s) > 1 => Tail(s) # <<>> /\ Tail(s)[1] = s[2]
           /\ Len(s) = 1 => ToSet(s) = {Head(s)}
<1>1. PICK n \in Nat \ {0} : n = Len(s) /\ DOMAIN s = 1..n
  BY EmptySeq
<1>2. PICK t \in Seq(S) : t = Tail(s) /\ Len(t) = n - 1 /\ \A i \in 1..n - 1 : t[i] = s[i + 1]
  BY <1>1, HeadTailProperties, ZenonT(60)
<1>3. Head(s) \in S /\ Head(s) = s[1]
  BY <1>1
<1>4. DOMAIN t = 1..n - 1
  BY <1>1, <1>2
<1>5. Head(s) \in ToSet(s)
  BY <1>1, <1>3 DEF ToSet
<1>6. ToSet(t) \subseteq ToSet(s)
  <2> SUFFICES ASSUME NEW i \in 1..n - 1 PROVE t[i] \in ToSet(s)
    BY <1>4 DEF ToSet
  <2>1. i + 1 \in DOMAIN s /\ t[i] = s[i + 1]
    BY <1>1, <1>2
  <2> QED
    BY <2>1 DEF ToSet
<1>7. ToSet(s) \subseteq {Head(s)} \cup ToSet(t)
  <2> SUFFICES ASSUME NEW i \in 1..n, i # 1 PROVE s[i] \in ToSet(t)
    BY <1>1, <1>3 DEF ToSet
  <2>1. i - 1 \in 1..n - 1 /\ (i - 1) + 1 = i
    BY <1>1
  <2>2. i - 1 \in DOMAIN t /\ t[i - 1] = s[i]
    BY <1>2, <1>4, <2>1
  <2> QED
    BY <2>2 DEF ToSet
<1>8. n > 1 => t # <<>> /\ t[1] = s[2]
  <2> SUFFICES ASSUME n > 1 PROVE t # <<>> /\ t[1] = s[2]
    OBVIOUS
  <2>1. 1 \in 1..n - 1 /\ n - 1 # 0 /\ 1 + 1 = 2
    BY <1>1
  <2>2. t[1] = s[1 + 1]
    BY <1>2, <2>1
  <2>3. t # <<>>
    BY <1>2, <2>1, EmptySeq
  <2> QED
    BY <2>1, <2>2, <2>3
<1>9. n = 1 => ToSet(s) = {Head(s)}
  BY <1>1, <1>3 DEF ToSet
<1> QED
  BY <1>1, <1>2, <1>3, <1>5, <1>6, <1>7, <1>8, <1>9

\* A document is dealt with, and the walk goes on to the next.
LEMMA DocumentPasses ==
    ASSUME WalkInv, QuietInv, PagesInv, NEW c \in Collectors, NEW here, here = at[c], NEW now,
           at' = [at EXCEPT ![c] = now], WalkFields \subseteq DOMAIN now,
           UNCHANGED <<listed, overtaken, kept, whole>>,
           faults' = faults \/ faults' = faults + 1,
           sighting' \in Seq(Sighting),
           \A i \in DOMAIN sighting' :
              /\ sighting'[i].row \in ToSet(listed)
              /\ sighting'[i].document \in ToSet(DocumentsOf[sighting'[i].row]),
           \A d : Held(d) => Held(d)',
           here.pc \in {"row", "sight"}, here.docs # <<>>,
           /\ now.pc = "row" /\ now.docs = Tail(here.docs)
           /\ now.explicit = here.explicit /\ now.page = here.page /\ now.last = here.last
           /\ now.rows = here.rows /\ now.listing = here.listing
           /\ now.first = here.first /\ now.began = here.began,
           now.fresh \in BOOLEAN, here.fresh => now.fresh,
           now.counts \in Counts,
           here.counts.failed # 0 => now.counts.failed # 0,
           here.counts.notPermitted # 0 => now.counts.notPermitted # 0,
           now.counts.failed # 0 => faults' # 0,
           here.held \subseteq now.held,
           now.held \subseteq {d \in Documents : Held(d)'},
           now.fetched \subseteq now.held,
           Got(now, Head(here.docs))',
           Quiet /\ faults' = faults =>
              /\ ~now.fresh => Head(here.docs) \in now.held
              /\ now.held \ now.fetched \subseteq here.held \ here.fetched
              /\ \A d \in now.fetched : d \in here.fetched \/ (now.fresh /\ d = Head(here.docs))
    PROVE  WalkInv' /\ QuietInv'
<1>1. Walk(here) /\ Busy(c) /\ PageInHand(here) /\ Listing
  BY DEF WalkInv, Busy, Walk, InHand
<1>2. /\ Tail(here.docs) \in Seq(Documents)
      /\ ToSet(here.docs) = {Head(here.docs)} \cup ToSet(now.docs)
      /\ Head(here.docs) \in ToSet(here.docs)
  BY <1>1, HeadAndTail DEF PageInHand
<1>3. \A d : Got(here, d) => Got(now, d)'
  BY DEF Got
<1>4. \A e : GotAll(here, e) => GotAll(now, e)'
  BY <1>3 DEF GotAll
<1>5. PageInHand(now)'
  BY <1>1, <1>2, <1>3 DEF PageInHand
<1>6. Walked(now)'
  <2>1. Walked(here)
    BY <1>1 DEF Walk, Walks, InHand
  <2> QED
    BY <1>4, <2>1 DEF Walked, InRange, InHand, PageNow
<1>7. Walk(now)'
  BY <1>1, <1>5, <1>6 DEF Walk
<1>8. ASSUME Quiet, faults' = faults
      PROVE  /\ QuietWalk(now)'
             /\ \A k \in kept' \ whole' : now.pc = "fill" /\ k = <<now.store, now.saving>>
  <2>1. QuietWalk(here) /\ \A k \in kept \ whole : here.pc = "fill"
    BY <1>1, <1>8, InQuiet
  <2>2. SettledBelow(here.held \ here.fetched) /\ FetchedBehind(here)
    BY <2>1 DEF QuietWalk, InHand
  <2>3. SettledBelow(now.held \ now.fetched)'
    BY <1>8, <2>2 DEF SettledBelow, Settled, PageNow, OwnOf
  <2>4. PICK i \in DOMAIN listed : listed[i] = here.rows[1] /\ PageNow(i) = here.page
    <3>1. here.rows \in Seq(Rows) /\ here.rows # <<>>
      BY <1>1 DEF PageInHand
    <3>2. here.rows[1] \in ToSet(here.rows)
      BY <3>1, HeadAndTail
    <3> QED
      BY <2>1, <3>2 DEF QuietWalk, InHand
  <2>5. Head(here.docs) \in ToSet(DocumentsOf[listed[i]])
    BY <1>1, <1>2, <2>4 DEF PageInHand
  <2>6. FetchedBehind(now)'
    <3> SUFFICES ASSUME NEW d \in now.fetched
                 PROVE  \E j \in DOMAIN listed :
                           /\ d \in ToSet(DocumentsOf[listed[j]])
                           /\ PageNow(j) < now.page \/ (now.fresh /\ PageNow(j) = now.page)
      BY DEF FetchedBehind, InHand, PageNow
    <3>1. CASE d \in here.fetched
      BY <2>2, <3>1 DEF FetchedBehind
    <3>2. CASE now.fresh /\ d = Head(here.docs)
      BY <2>4, <2>5, <3>2
    <3> QED
      BY <1>8, <3>1, <3>2
  <2>7. ~now.fresh => \A d \in ToSet(DocumentsOf[now.rows[1]]) : d \in ToSet(now.docs) \/ d \in now.held
    BY <1>2, <1>8, <2>1 DEF QuietWalk, InHand
  <2>8. QuietWalk(now)'
    BY <2>1, <2>3, <2>6, <2>7 DEF QuietWalk, InHand, Walks, PageNow
  <2> QED
    BY <2>1, <2>8
<1> QED
  BY <1>1, <1>7, <1>8, OneCollects

\* A sighting of the document in hand, of the row in hand.
LEMMA SeenOnPage ==
    ASSUME Listing, NEW c \in Collectors, NEW here, here = at[c], PageInHand(here),
           here.docs # <<>>, sighting' = Seen(c)
    PROVE  /\ sighting' \in Seq(Sighting)
           /\ \A i \in DOMAIN sighting' :
                 /\ sighting'[i].row \in ToSet(listed)
                 /\ sighting'[i].document \in ToSet(DocumentsOf[sighting'[i].row])
           /\ \A d : Held(d) => Held(d)'
           /\ Held(Head(here.docs))'
           /\ Head(here.docs) \in Documents
<1>2. /\ here.rows \in Seq(Rows) /\ here.rows # <<>> /\ here.docs \in Seq(Documents)
      /\ here.docs # <<>> /\ here.listing \in PageBytes
      /\ ToSet(here.rows) \subseteq ToSet(listed)
      /\ ToSet(here.docs) \subseteq ToSet(DocumentsOf[here.rows[1]])
  BY DEF PageInHand
<1>3. /\ Head(here.rows) \in Rows /\ Head(here.rows) \in ToSet(here.rows)
      /\ Head(here.rows) = here.rows[1]
  BY <1>2, HeadAndTail
<1>4. Head(here.docs) \in Documents /\ Head(here.docs) \in ToSet(here.docs)
  BY <1>2, HeadAndTail
<1>5. PICK s : s = [sha |-> ContentOf[Head(here.docs)], document |-> Head(here.docs),
                    row |-> Head(here.rows), page |-> here.listing]
  OBVIOUS
<1>6. /\ s \in Sighting /\ s.document = Head(here.docs)
      /\ s.row \in ToSet(listed) /\ s.document \in ToSet(DocumentsOf[s.row])
  <2>1. ContentOf[Head(here.docs)] \in Hashes
    BY <1>4, CollectionAssumption DEF Hashes
  <2> QED
    BY <1>2, <1>3, <1>4, <1>5, <2>1 DEF Sighting
<1>7. sighting' = Append(sighting, s)
  BY <1>5 DEF Seen
<1>8. PICK n \in Nat : n = Len(sighting) /\ DOMAIN sighting = 1..n
  BY DEF Listing
<1>9. /\ sighting' \in Seq(Sighting) /\ Len(sighting') = n + 1
      /\ \A i \in 1..n : sighting'[i] = sighting[i]
      /\ sighting'[n + 1] = s
  BY <1>6, <1>7, <1>8, AppendProperties DEF Listing
<1>10. DOMAIN sighting' = 1..n + 1
  BY <1>8, <1>9
<1>11. \A i \in DOMAIN sighting' :
          /\ sighting'[i].row \in ToSet(listed)
          /\ sighting'[i].document \in ToSet(DocumentsOf[sighting'[i].row])
  <2> SUFFICES ASSUME NEW i \in 1..n + 1
               PROVE  /\ sighting'[i].row \in ToSet(listed)
                      /\ sighting'[i].document \in ToSet(DocumentsOf[sighting'[i].row])
    BY <1>10
  <2>1. CASE i = n + 1
    BY <1>6, <1>9, <2>1
  <2>2. CASE i \in 1..n
    BY <1>8, <1>9, <2>2 DEF Listing
  <2> QED
    BY <1>8, <2>1, <2>2
<1>12. \A d : Held(d) => Held(d)'
  BY <1>8, <1>9, <1>10 DEF Held
<1>13. Held(Head(here.docs))'
  BY <1>6, <1>8, <1>9, <1>10 DEF Held
<1> QED
  BY <1>4, <1>9, <1>11, <1>12, <1>13

LEMMA SeeingAgainKeepsListing ==
    ASSUME WalkInv, QuietInv, PagesInv, NEW c \in Collectors, SeeAgain(c)
    PROVE  WalkInv' /\ QuietInv'
<1> USE DEF bytes, ledger, world
<1>1. PICK here : here = at[c]
  OBVIOUS
<1>2. /\ here.pc = "row" /\ here.docs # <<>> /\ Head(here.docs) \in here.fetched
      /\ sighting' = Seen(c)
      /\ at' = [at EXCEPT ![c] = [here EXCEPT !.docs = Tail(here.docs)]]
      /\ UNCHANGED <<listed, overtaken, kept, whole, faults>>
  BY <1>1 DEF SeeAgain, AtDocument
<1>3. Listing /\ Walk(here) /\ WalkFields \subseteq DOMAIN here
  BY <1>1 DEF WalkInv, Listing
<1>4. PageInHand(here)
  BY <1>2, <1>3 DEF Walk, InHand
<1>5. PICK now : now = [here EXCEPT !.docs = Tail(here.docs)]
  OBVIOUS
<1>6. /\ WalkFields \subseteq DOMAIN now /\ now.docs = Tail(here.docs) /\ now.pc = "row"
      /\ now.explicit = here.explicit /\ now.page = here.page /\ now.last = here.last
      /\ now.rows = here.rows /\ now.listing = here.listing /\ now.fresh = here.fresh
      /\ now.first = here.first /\ now.began = here.began /\ now.counts = here.counts
      /\ now.held = here.held /\ now.fetched = here.fetched
  BY <1>2, <1>3, <1>5 DEF WalkFields
<1>7. /\ sighting' \in Seq(Sighting)
      /\ \A i \in DOMAIN sighting' :
            /\ sighting'[i].row \in ToSet(listed)
            /\ sighting'[i].document \in ToSet(DocumentsOf[sighting'[i].row])
      /\ \A d : Held(d) => Held(d)'
      /\ Held(Head(here.docs))'
  BY <1>1, <1>2, <1>3, <1>4, SeenOnPage
<1>8. Got(now, Head(here.docs))'
  BY <1>7 DEF Got
<1>9. /\ now.fresh \in BOOLEAN /\ now.counts \in Counts
      /\ now.counts.failed # 0 => faults' # 0
      /\ now.held \subseteq {d \in Documents : Held(d)'} /\ now.fetched \subseteq now.held
      /\ Head(here.docs) \in now.held
  BY <1>2, <1>3, <1>6, <1>7 DEF Walk
<1>10. at' = [at EXCEPT ![c] = now] /\ UNCHANGED <<listed, overtaken, kept, whole>>
  BY <1>2, <1>5
<1>11. /\ here.fresh => now.fresh
       /\ here.counts.failed # 0 => now.counts.failed # 0
       /\ here.counts.notPermitted # 0 => now.counts.notPermitted # 0
       /\ here.held \subseteq now.held
       /\ here.pc \in {"row", "sight"} /\ here.docs # <<>>
       /\ (faults' = faults \/ faults' = faults + 1)
  BY <1>2, <1>6
<1>12. Quiet /\ faults' = faults =>
          /\ ~now.fresh => Head(here.docs) \in now.held
          /\ now.held \ now.fetched \subseteq here.held \ here.fetched
          /\ \A d \in now.fetched : d \in here.fetched \/ (now.fresh /\ d = Head(here.docs))
  BY <1>6, <1>9
<1> QED
  BY <1>1, <1>6, <1>7, <1>8, <1>9, <1>10, <1>11, <1>12, DocumentPasses, ZenonT(60)

\* Steps of a document that nothing is sighted of.
LEMMA UnseenPasses ==
    ASSUME WalkInv, QuietInv, PagesInv, NEW c \in Collectors, NEW here, here = at[c], NEW now,
           at' = [at EXCEPT ![c] = now], WalkFields \subseteq DOMAIN now,
           UNCHANGED <<listed, sighting, overtaken, kept, whole>>,
           faults' = faults \/ faults' = faults + 1,
           here.pc = "row", here.docs # <<>>,
           /\ now.pc = "row" /\ now.docs = Tail(here.docs)
           /\ now.explicit = here.explicit /\ now.page = here.page /\ now.last = here.last
           /\ now.rows = here.rows /\ now.listing = here.listing
           /\ now.first = here.first /\ now.began = here.began
           /\ now.held = here.held /\ now.fetched = here.fetched,
           now.fresh \in BOOLEAN, here.fresh => now.fresh,
           now.counts \in Counts,
           here.counts.failed # 0 => now.counts.failed # 0,
           here.counts.notPermitted # 0 => now.counts.notPermitted # 0,
           now.counts.failed # 0 => faults' # 0,
           Got(now, Head(here.docs)),
           faults' = faults /\ ~now.fresh => Head(here.docs) \in now.held
    PROVE  WalkInv' /\ QuietInv'
<1>1. /\ sighting' \in Seq(Sighting)
      /\ \A i \in DOMAIN sighting' :
            /\ sighting'[i].row \in ToSet(listed)
            /\ sighting'[i].document \in ToSet(DocumentsOf[sighting'[i].row])
  BY DEF WalkInv, Listing
<1>2. \A d : Held(d)' <=> Held(d)
  BY DEF Held
<1>3. Got(now, Head(here.docs))'
  BY <1>2 DEF Got
<1>4. now.held \subseteq {d \in Documents : Held(d)'} /\ now.fetched \subseteq now.held
  BY <1>2 DEF WalkInv, Walk
<1> QED
  BY <1>1, <1>2, <1>3, <1>4, DocumentPasses

LEMMA SkippingKeepsListing ==
    ASSUME WalkInv, QuietInv, PagesInv, NEW c \in Collectors, SkipHeld(c)
    PROVE  WalkInv' /\ QuietInv'
<1> USE DEF bytes, ledger, world
<1>1. PICK here : here = at[c]
  OBVIOUS
<1>2. /\ here.pc = "row" /\ here.docs # <<>> /\ Head(here.docs) \in here.held
      /\ at' = [at EXCEPT ![c] = [here EXCEPT !.docs = Tail(here.docs)]]
      /\ UNCHANGED <<listed, sighting, overtaken, kept, whole, faults>>
  BY <1>1 DEF SkipHeld, AtDocument
<1>3. Walk(here) /\ WalkFields \subseteq DOMAIN here
  BY <1>1 DEF WalkInv, Listing
<1>4. PICK now : now = [here EXCEPT !.docs = Tail(here.docs)]
  OBVIOUS
<1>5. /\ WalkFields \subseteq DOMAIN now /\ now.docs = Tail(here.docs) /\ now.pc = "row"
      /\ now.explicit = here.explicit /\ now.page = here.page /\ now.last = here.last
      /\ now.rows = here.rows /\ now.listing = here.listing /\ now.fresh = here.fresh
      /\ now.first = here.first /\ now.began = here.began /\ now.counts = here.counts
      /\ now.held = here.held /\ now.fetched = here.fetched
  BY <1>2, <1>3, <1>4 DEF WalkFields
<1>6. at' = [at EXCEPT ![c] = now] /\ UNCHANGED <<listed, sighting, overtaken, kept, whole>>
  BY <1>2, <1>4
<1>7. /\ Got(now, Head(here.docs)) /\ Head(here.docs) \in now.held
      /\ now.fresh \in BOOLEAN /\ now.counts \in Counts
      /\ now.counts.failed # 0 => faults' # 0
      /\ here.pc = "row" /\ here.docs # <<>> /\ faults' = faults
  BY <1>2, <1>3, <1>5 DEF Got, Walk
<1>8. here.fresh => now.fresh
  BY <1>5
<1> QED
  BY <1>1, <1>5, <1>6, <1>7, <1>8, UnseenPasses, ZenonT(60)

LEMMA RefusingKeepsListing ==
    ASSUME WalkInv, QuietInv, PagesInv, NEW c \in Collectors, NotPermitted(c)
    PROVE  WalkInv' /\ QuietInv'
<1> USE DEF bytes, ledger, world
<1>1. PICK here : here = at[c]
  OBVIOUS
<1>2. PICK counts : counts = [here.counts EXCEPT !.notPermitted = @ + 1]
  OBVIOUS
<1>3. /\ here.pc = "row" /\ here.docs # <<>> /\ Head(here.docs) \in Refused
      /\ at' = [at EXCEPT ![c] = [here EXCEPT !.fresh = TRUE, !.docs = Tail(here.docs),
                                              !.counts = counts]]
      /\ UNCHANGED <<listed, sighting, overtaken, kept, whole, faults>>
  BY <1>1, <1>2 DEF NotPermitted, Wanted, AtDocument
<1>4. Walk(here) /\ WalkFields \subseteq DOMAIN here
  BY <1>1 DEF WalkInv, Listing
<1>5. counts \in Counts /\ counts.failed = here.counts.failed /\ counts.notPermitted # 0
  BY <1>2, <1>4 DEF Walk, Counts
<1>6. PICK now : now = [here EXCEPT !.fresh = TRUE, !.docs = Tail(here.docs), !.counts = counts]
  OBVIOUS
<1>7. /\ WalkFields \subseteq DOMAIN now /\ now.docs = Tail(here.docs) /\ now.pc = "row"
      /\ now.explicit = here.explicit /\ now.page = here.page /\ now.last = here.last
      /\ now.rows = here.rows /\ now.listing = here.listing /\ now.fresh = TRUE
      /\ now.first = here.first /\ now.began = here.began /\ now.counts = counts
      /\ now.held = here.held /\ now.fetched = here.fetched
  BY <1>3, <1>4, <1>6 DEF WalkFields
<1>8. at' = [at EXCEPT ![c] = now] /\ UNCHANGED <<listed, sighting, overtaken, kept, whole>>
  BY <1>3, <1>6
<1>9. /\ Got(now, Head(here.docs))
      /\ now.fresh \in BOOLEAN /\ now.counts \in Counts
      /\ now.counts.failed # 0 => faults' # 0
      /\ here.counts.failed # 0 => now.counts.failed # 0
      /\ here.counts.notPermitted # 0 => now.counts.notPermitted # 0
      /\ here.pc = "row" /\ here.docs # <<>> /\ faults' = faults
  BY <1>3, <1>4, <1>5, <1>7 DEF Got, Walk
<1> QED
  BY <1>1, <1>7, <1>8, <1>9, UnseenPasses

LEMMA LosingKeepsListing ==
    ASSUME WalkInv, QuietInv, PagesInv, NEW c \in Collectors, LoseNotice(c)
    PROVE  WalkInv' /\ QuietInv'
<1> USE DEF bytes, ledger, world
<1>1. PICK here : here = at[c]
  OBVIOUS
<1>2. PICK counts : counts = [here.counts EXCEPT !.failed = @ + 1]
  OBVIOUS
<1>3. /\ here.pc = "row" /\ here.docs # <<>>
      /\ at' = [at EXCEPT ![c] = [here EXCEPT !.fresh = TRUE, !.docs = Tail(here.docs),
                                              !.counts = counts]]
      /\ UNCHANGED <<listed, sighting, overtaken, kept, whole>>
      /\ faults' = faults + 1
  BY <1>1, <1>2 DEF LoseNotice, Wanted, AtDocument
<1>4. Walk(here) /\ WalkFields \subseteq DOMAIN here /\ faults \in Nat
  BY <1>1 DEF WalkInv, Listing
<1>5. counts \in Counts /\ counts.failed # 0 /\ counts.notPermitted = here.counts.notPermitted
  <2>1. here.counts \in Counts
    BY <1>4 DEF Walk
  <2>2. here.counts.failed \in Nat /\ here.counts.failed + 1 \in Nat /\ here.counts.failed + 1 # 0
    BY <2>1 DEF Counts
  <2> QED
    BY <1>2, <2>1, <2>2 DEF Counts
<1>6. PICK now : now = [here EXCEPT !.fresh = TRUE, !.docs = Tail(here.docs), !.counts = counts]
  OBVIOUS
<1>7. /\ WalkFields \subseteq DOMAIN now /\ now.docs = Tail(here.docs) /\ now.pc = "row"
      /\ now.explicit = here.explicit /\ now.page = here.page /\ now.last = here.last
      /\ now.rows = here.rows /\ now.listing = here.listing /\ now.fresh = TRUE
      /\ now.first = here.first /\ now.began = here.began /\ now.counts = counts
      /\ now.held = here.held /\ now.fetched = here.fetched
  BY <1>3, <1>4, <1>6 DEF WalkFields
<1>8. at' = [at EXCEPT ![c] = now] /\ UNCHANGED <<listed, sighting, overtaken, kept, whole>>
  BY <1>3, <1>6
<1>a. faults' # 0
  BY <1>3, <1>4
<1>9. /\ Got(now, Head(here.docs))
      /\ now.fresh \in BOOLEAN /\ now.counts \in Counts
      /\ now.counts.failed # 0 => faults' # 0
      /\ here.counts.failed # 0 => now.counts.failed # 0
      /\ here.counts.notPermitted # 0 => now.counts.notPermitted # 0
      /\ here.pc = "row" /\ here.docs # <<>> /\ faults' = faults + 1
  BY <1>a, <1>3, <1>5, <1>7 DEF Got
<1> QED
  BY <1>1, <1>7, <1>8, <1>9, UnseenPasses

LEMMA SightingKeepsListing ==
    ASSUME WalkInv, QuietInv, PagesInv, NEW c \in Collectors, RecordSighting(c)
    PROVE  WalkInv' /\ QuietInv'
<1> USE DEF bytes, ledger, world
<1>1. PICK here : here = at[c]
  OBVIOUS
<1>2. PICK counts : counts = [here.counts EXCEPT !.fetched = @ + 1]
  OBVIOUS
<1>3. PICK d : d = Head(here.docs)
  OBVIOUS
<1>4. PICK now : now = [here EXCEPT !.held = @ \cup {d}, !.fetched = @ \cup {d},
                                    !.docs = Tail(@), !.counts = counts, !.pc = "row"]
  OBVIOUS
<1>5. here.pc = "sight" /\ sighting' = Seen(c)
  BY <1>1 DEF RecordSighting
<1>6. at' = [at EXCEPT ![c] = now]
  <2>1. now = Stored(here)
    BY <1>2, <1>3, <1>4 DEF Stored
  <2> QED
    BY <1>1, <2>1 DEF RecordSighting
<1>7. UNCHANGED <<listed, overtaken, kept, whole>> /\ faults' = faults
  BY DEF RecordSighting
<1>8. Listing /\ Walk(here) /\ WalkFields \subseteq DOMAIN here
  BY <1>1 DEF WalkInv, Listing
<1>9. PageInHand(here) /\ here.docs # <<>> /\ here.fresh
  BY <1>5, <1>8 DEF Walk, InHand, PageInHand
<1>10. counts \in Counts /\ counts.failed = here.counts.failed
       /\ counts.notPermitted = here.counts.notPermitted
  BY <1>2, <1>8 DEF Walk, Counts
<1>11. /\ WalkFields \subseteq DOMAIN now /\ now.docs = Tail(here.docs) /\ now.pc = "row"
       /\ now.explicit = here.explicit /\ now.page = here.page /\ now.last = here.last
       /\ now.rows = here.rows /\ now.listing = here.listing /\ now.fresh = here.fresh
       /\ now.first = here.first /\ now.began = here.began /\ now.counts = counts
       /\ now.held = here.held \cup {d} /\ now.fetched = here.fetched \cup {d}
  BY <1>4, <1>8 DEF WalkFields
<1>12. /\ sighting' \in Seq(Sighting)
       /\ \A i \in DOMAIN sighting' :
             /\ sighting'[i].row \in ToSet(listed)
             /\ sighting'[i].document \in ToSet(DocumentsOf[sighting'[i].row])
       /\ \A e : Held(e) => Held(e)'
       /\ Held(Head(here.docs))' /\ d \in Documents
  BY <1>1, <1>3, <1>5, <1>8, <1>9, SeenOnPage
<1>13. Got(now, Head(here.docs))'
  BY <1>12 DEF Got
<1>14. /\ now.fresh \in BOOLEAN /\ now.counts \in Counts
       /\ now.counts.failed # 0 => faults' # 0
       /\ here.counts.failed # 0 => now.counts.failed # 0
       /\ here.counts.notPermitted # 0 => now.counts.notPermitted # 0
       /\ here.fresh => now.fresh
       /\ here.pc \in {"row", "sight"} /\ here.docs # <<>>
  BY <1>5, <1>7, <1>8, <1>9, <1>10, <1>11 DEF Walk
<1>15. /\ here.held \subseteq now.held /\ now.fetched \subseteq now.held
       /\ now.held \subseteq {e \in Documents : Held(e)'}
  BY <1>3, <1>8, <1>11, <1>12 DEF Walk
<1>16. Quiet /\ faults' = faults =>
          /\ ~now.fresh => Head(here.docs) \in now.held
          /\ now.held \ now.fetched \subseteq here.held \ here.fetched
          /\ \A e \in now.fetched : e \in here.fetched \/ (now.fresh /\ e = Head(here.docs))
  BY <1>3, <1>9, <1>11
<1> QED
  BY <1>1, <1>6, <1>7, <1>11, <1>12, <1>13, <1>14, <1>15, <1>16, DocumentPasses, ZenonT(60)

\* A step that only reads: the walk alone moves.
LEMMA WalkMoves ==
    ASSUME WalkInv, QuietInv, PagesInv, NEW c \in Collectors, Busy(c), NEW now,
           at' = [at EXCEPT ![c] = now], WalkFields \subseteq DOMAIN now,
           UNCHANGED <<listed, sighting, overtaken, kept, whole, faults>>,
           at[c].pc # "fill", now.pc \notin {"held", "create"},
           Walk(now), Quiet => QuietWalk(now),
           Quiet /\ now.pc \in {"idle", "collected"} => SettledBelow({d \in Documents : Held(d)}),
           Quiet /\ now.pc = "collected" /\ now.listing # Null
              => \A i \in DOMAIN listed : Settled(i)
    PROVE  WalkInv' /\ QuietInv'
<1>1. Listing
  BY DEF WalkInv
<1>2. \A d : Held(d)' <=> Held(d)
  BY NothingComesIn
<1>3. Walk(now)'
  BY NothingComesIn
<1>4. Quiet => QuietWalk(now)' /\ \A k \in kept' \ whole' : now.pc = "fill" /\ k = <<now.store, now.saving>>
  BY <1>2, InQuiet, QuietStands
<1>5. sighting' \in Seq(Sighting) /\ \A i \in DOMAIN sighting' :
             /\ sighting'[i].row \in ToSet(listed)
             /\ sighting'[i].document \in ToSet(DocumentsOf[sighting'[i].row])
  BY <1>1 DEF Listing
<1>6. ASSUME Quiet, now.pc \in {"idle", "held", "collected"}
      PROVE  /\ SettledBelow({d \in Documents : Held(d)})'
             /\ now.pc = "collected" /\ now.listing # Null
                => \A i \in DOMAIN listed : Settled(i)'
  <2>1. SettledBelow({d \in Documents : Held(d)})'
    <3>1. PICK ds : ds = {d \in Documents : Held(d)}
      OBVIOUS
    <3>2. {d \in Documents : Held(d)}' = ds
      BY <1>2, <3>1
    <3>3. SettledBelow(ds)
      BY <1>6, <3>1
    <3>4. SettledBelow(ds)'
      BY <1>2, <3>3 DEF SettledBelow, Settled, PageNow, OwnOf
    <3> QED
      BY <3>2, <3>4 DEF SettledBelow
  <2>2. \A i : Settled(i) => Settled(i)'
    BY <1>2 DEF Settled, PageNow
  <2> QED
    BY <1>6, <2>1, <2>2
<1> QED
  BY <1>2, <1>3, <1>4, <1>5, <1>6, OneCollects

LEMMA FetchingKeepsListing ==
    ASSUME WalkInv, QuietInv, PagesInv, NEW c \in Collectors, Fetch(c)
    PROVE  WalkInv' /\ QuietInv'
<1> USE DEF bytes, ledger, world
<1>1. PICK here : here = at[c]
  OBVIOUS
<1>2. PICK content : content = ContentOf[Head(here.docs)]
  OBVIOUS
<1>3. PICK now : now = [here EXCEPT !.saving = content, !.fresh = TRUE, !.pc = "look"]
  OBVIOUS
<1>4. /\ here.pc = "row" /\ here.docs # <<>>
      /\ at' = [at EXCEPT ![c] = now]
      /\ UNCHANGED <<listed, sighting, overtaken, kept, whole, faults>>
  BY <1>1, <1>2, <1>3 DEF Fetch, Wanted, AtDocument
<1>5. Listing /\ Walk(here) /\ Busy(c) /\ WalkFields \subseteq DOMAIN here
  BY <1>1, <1>4 DEF WalkInv, Listing, Busy
<1>6. /\ WalkFields \subseteq DOMAIN now /\ now.pc = "look" /\ now.saving = content /\ now.fresh = TRUE
      /\ now.explicit = here.explicit /\ now.page = here.page /\ now.last = here.last
      /\ now.rows = here.rows /\ now.docs = here.docs /\ now.listing = here.listing
      /\ now.first = here.first /\ now.began = here.began /\ now.counts = here.counts
      /\ now.held = here.held /\ now.fetched = here.fetched
  BY <1>3, <1>5 DEF WalkFields
<1>7. PageInHand(here)
  BY <1>4, <1>5 DEF Walk, InHand
<1>8. content \in Hashes
  <2>1. Head(here.docs) \in Documents
    BY <1>4, <1>7, HeadAndTail DEF PageInHand
  <2> QED
    BY <1>2, <2>1, CollectionAssumption DEF Hashes
<1>9. \A d : Got(now, d) <=> Got(here, d)
  BY <1>6 DEF Got
<1>10. PageInHand(now)
  BY <1>4, <1>6, <1>7, <1>8, <1>9 DEF PageInHand
<1>11. Walked(now)
  <2>1. Walked(here)
    BY <1>4, <1>5 DEF Walk, Walks, InHand
  <2> QED
    BY <1>4, <1>6, <1>9, <2>1 DEF Walked, InRange, InHand, GotAll
<1>12. Walk(now)
  BY <1>5, <1>6, <1>10, <1>11 DEF Walk
<1>13. ASSUME Quiet
       PROVE  QuietWalk(now)
  <2>1. QuietWalk(here)
    BY <1>1, <1>5, <1>13, InQuiet
  <2>2. FetchedBehind(now)
    BY <1>4, <1>6, <2>1 DEF QuietWalk, FetchedBehind, InHand
  <2> QED
    BY <1>4, <1>6, <2>1, <2>2 DEF QuietWalk, InHand, Walks
<1> QED
  BY <1>1, <1>4, <1>5, <1>6, <1>12, <1>13, WalkMoves

-----------------------------------------------------------------------------
(* Rows and pages.                                                         *)

LEMMA ReadingHeldKeepsListing ==
    ASSUME WalkInv, QuietInv, PagesInv, NEW c \in Collectors, ReadHeld(c)
    PROVE  WalkInv' /\ QuietInv'
<1> USE DEF bytes, ledger, world
<1>1. PICK here : here = at[c]
  OBVIOUS
<1>2. PICK ds : ds = {d \in Documents : Held(d)}
  OBVIOUS
<1>3. PICK now : now = [here EXCEPT !.held = ds, !.pc = "page"]
  OBVIOUS
<1>4. /\ here.pc = "held" /\ at' = [at EXCEPT ![c] = now]
      /\ UNCHANGED <<listed, sighting, overtaken, kept, whole, faults>>
  BY <1>1, <1>2, <1>3 DEF ReadHeld
<1>5. Listing /\ Walk(here) /\ Busy(c) /\ WalkFields \subseteq DOMAIN here
  BY <1>1, <1>4 DEF WalkInv, Listing, Busy
<1>6. /\ WalkFields \subseteq DOMAIN now /\ now.pc = "page" /\ now.held = ds
      /\ now.explicit = here.explicit /\ now.page = here.page /\ now.last = here.last
      /\ now.fresh = here.fresh /\ now.first = here.first /\ now.began = here.began
      /\ now.counts = here.counts /\ now.fetched = here.fetched
  BY <1>3, <1>5 DEF WalkFields
<1>7. Walked(now)
  <2>1. Walked(here)
    BY <1>4, <1>5 DEF Walk, Walks
  <2> QED
    BY <1>4, <1>6, <2>1 DEF Walked, InRange, InHand, GotAll, Got
<1>8. Walk(now)
  BY <1>2, <1>5, <1>6, <1>7 DEF Walk, InHand
<1>9. ASSUME Quiet
      PROVE  QuietWalk(now)
  <2>1. QuietWalk(here) /\ \A o \in Collectors \ {c} : at[o].pc = "idle"
    BY <1>1, <1>5, <1>9, InQuiet
  <2>2. SettledBelow(ds)
    <3>1. BetweenWalks
      BY <1>1, <1>4, <2>1 DEF BetweenWalks
    <3> QED
      BY <1>2, <1>9, <3>1 DEF QuietInv
  <2>3. now.fetched = {}
    BY <1>4, <1>6, <2>1 DEF QuietWalk
  <2>4. SettledBelow(now.held \ now.fetched) /\ FetchedBehind(now)
    <3>1. now.held \ now.fetched = ds
      BY <1>6, <2>3
    <3> QED
      BY <2>2, <2>3, <3>1 DEF FetchedBehind
  <2> QED
    BY <1>4, <1>6, <2>1, <2>4 DEF QuietWalk, InHand, Walks
<1> QED
  BY <1>1, <1>4, <1>5, <1>6, <1>8, <1>9, WalkMoves

LEMMA GettingPageKeepsListing ==
    ASSUME WalkInv, QuietInv, PagesInv, NEW c \in Collectors, GetPage(c)
    PROVE  WalkInv' /\ QuietInv'
<1> USE DEF bytes, ledger, world
<1>1. PICK here : here = at[c]
  OBVIOUS
<1>2. PICK rows : rows = Shown(listed, here.page)
  OBVIOUS
<1>3. PICK docs : docs = DocumentsOf[rows[1]]
  OBVIOUS
<1>4. PICK shown : shown = [rows |-> rows]
  OBVIOUS
<1>5. PICK now : now = [here EXCEPT !.rows = rows, !.docs = docs, !.listing = shown,
                                    !.saving = shown, !.fresh = FALSE, !.pc = "look"]
  OBVIOUS
<1>6. /\ here.pc = "page" /\ rows # <<>> /\ at' = [at EXCEPT ![c] = now]
      /\ UNCHANGED <<listed, sighting, overtaken, kept, whole, faults>>
  BY <1>1, <1>2, <1>3, <1>4, <1>5 DEF GetPage
<1>7. Listing /\ Walk(here) /\ Busy(c) /\ WalkFields \subseteq DOMAIN here
  BY <1>1, <1>6 DEF WalkInv, Listing, Busy
<1>8. /\ WalkFields \subseteq DOMAIN now /\ now.pc = "look" /\ now.fresh = FALSE
      /\ now.rows = rows /\ now.docs = docs /\ now.listing = shown /\ now.saving = shown
      /\ now.explicit = here.explicit /\ now.page = here.page /\ now.last = here.last
      /\ now.first = here.first /\ now.began = here.began /\ now.counts = here.counts
      /\ now.held = here.held /\ now.fetched = here.fetched
  BY <1>5, <1>7 DEF WalkFields
<1>9. /\ rows \in Seq(Rows)
      /\ \A i \in DOMAIN listed :
            PageNow(i) >= here.page => listed[i] \in ToSet(rows) \/ PageNow(i) >= here.page + 1
      /\ \A e \in ToSet(rows) : \E i \in DOMAIN listed : listed[i] = e /\ PageNow(i) = here.page
  BY <1>2, <1>7, PageShows DEF Listing, Walk
<1>10. PageInHand(now)
  <2>1. ToSet(rows) \subseteq ToSet(listed)
    BY <1>9 DEF ToSet
  <2>2. rows[1] \in Rows
    BY <1>6, <1>9, HeadAndTail
  <2>3. docs \in Seq(Documents)
    BY <1>3, <2>2, CollectionAssumption
  <2>4. shown \in PageBytes /\ shown \in Hashes /\ shown \notin Contents
    BY <1>4, <1>9, CollectionAssumption DEF PageBytes, Hashes
  <2> QED
    BY <1>3, <1>6, <1>8, <1>9, <2>1, <2>3, <2>4 DEF PageInHand
<1>11. Walked(now)
  <2>1. Walked(here)
    BY <1>6, <1>7 DEF Walk, Walks
  <2> QED
    BY <1>6, <1>8, <1>9, <2>1 DEF Walked, InRange, InHand, GotAll, Got
<1>12. Walk(now)
  BY <1>7, <1>8, <1>10, <1>11 DEF Walk
<1>13. ASSUME Quiet
       PROVE  QuietWalk(now)
  <2>1. QuietWalk(here)
    BY <1>1, <1>7, <1>13, InQuiet
  <2>2. FetchedBehind(now)
    BY <1>6, <1>8, <2>1 DEF QuietWalk, FetchedBehind, InHand
  <2> QED
    BY <1>3, <1>6, <1>8, <1>9, <2>1, <2>2 DEF QuietWalk, InHand, Walks
<1> QED
  BY <1>1, <1>6, <1>7, <1>8, <1>12, <1>13, WalkMoves

LEMMA NextRowKeepsListing ==
    ASSUME WalkInv, QuietInv, PagesInv, NEW c \in Collectors, NextRow(c)
    PROVE  WalkInv' /\ QuietInv'
<1> USE DEF bytes, ledger, world
<1>1. PICK here : here = at[c]
  OBVIOUS
<1>2. PICK docs : docs = DocumentsOf[here.rows[2]]
  OBVIOUS
<1>3. PICK rows : rows = Tail(here.rows)
  OBVIOUS
<1>4. PICK now : now = [here EXCEPT !.rows = rows, !.docs = docs]
  OBVIOUS
<1>5. /\ here.pc = "row" /\ here.docs = <<>> /\ Len(here.rows) > 1
      /\ at' = [at EXCEPT ![c] = now]
      /\ UNCHANGED <<listed, sighting, overtaken, kept, whole, faults>>
  BY <1>1, <1>2, <1>3, <1>4 DEF NextRow
<1>6. Listing /\ Walk(here) /\ Busy(c) /\ WalkFields \subseteq DOMAIN here
  BY <1>1, <1>5 DEF WalkInv, Listing, Busy
<1>7. /\ WalkFields \subseteq DOMAIN now /\ now.pc = "row" /\ now.fresh = here.fresh
      /\ now.rows = rows /\ now.docs = docs /\ now.listing = here.listing
      /\ now.explicit = here.explicit /\ now.page = here.page /\ now.last = here.last
      /\ now.first = here.first /\ now.began = here.began /\ now.counts = here.counts
      /\ now.held = here.held /\ now.fetched = here.fetched
  BY <1>4, <1>5, <1>6 DEF WalkFields
<1>8. PageInHand(here)
  BY <1>5, <1>6 DEF Walk, InHand
<1>9. /\ rows \in Seq(Rows) /\ rows # <<>> /\ rows[1] = here.rows[2]
      /\ ToSet(here.rows) = {here.rows[1]} \cup ToSet(rows)
  BY <1>3, <1>5, <1>8, HeadAndTail DEF PageInHand
<1>10. \A d : Got(now, d) <=> Got(here, d)
  BY <1>7 DEF Got
<1>11. PageInHand(now)
  <2>1. rows[1] \in Rows
    BY <1>9, HeadAndTail
  <2>2. docs \in Seq(Documents)
    BY <1>2, <1>9, <2>1, CollectionAssumption
  <2> QED
    BY <1>2, <1>7, <1>8, <1>9, <2>2 DEF PageInHand
<1>12. Walked(now)
  <2>1. Walked(here)
    BY <1>5, <1>6 DEF Walk, Walks, InHand
  <2>2. GotAll(here, here.rows[1])
    BY <1>5, <1>8 DEF PageInHand, GotAll, ToSet
  <2> QED
    BY <1>5, <1>7, <1>9, <1>10, <2>1, <2>2 DEF Walked, InRange, InHand, GotAll
<1>13. Walk(now)
  BY <1>6, <1>7, <1>11, <1>12 DEF Walk
<1>14. ASSUME Quiet
       PROVE  QuietWalk(now)
  <2>1. QuietWalk(here)
    BY <1>1, <1>6, <1>14, InQuiet
  <2>2. FetchedBehind(now)
    BY <1>5, <1>7, <2>1 DEF QuietWalk, FetchedBehind, InHand
  <2> QED
    BY <1>2, <1>5, <1>7, <1>9, <2>1, <2>2 DEF QuietWalk, InHand, Walks
<1> QED
  BY <1>1, <1>5, <1>6, <1>7, <1>13, <1>14, WalkMoves

\* What is known where the last row of a page is done with.
LEMMA PageDone ==
    ASSUME Listing, NEW w, Walk(w), w.pc = "row", w.docs = <<>>, Len(w.rows) = 1
    PROVE  /\ PageInHand(w)
           /\ w.rows[1] \in ToSet(w.rows)
           /\ \A i \in DOMAIN listed : InRange(w, i) => GotAll(w, listed[i]) \/ PageNow(i) >= w.page + 1
<1>1. PageInHand(w) /\ Walked(w)
  BY DEF Walk, Walks, InHand
<1>2. ToSet(w.rows) = {w.rows[1]}
  BY <1>1, HeadAndTail DEF PageInHand
<1>3. GotAll(w, w.rows[1])
  BY <1>1 DEF PageInHand, GotAll, ToSet
<1> QED
  BY <1>1, <1>2, <1>3 DEF Walked, InHand

\* A quiet walk has every page behind it, the one that is done with included.
LEMMA QuietPageDone ==
    ASSUME Listing, Quiet, NEW w, Walk(w), QuietWalk(w),
           w.pc = "row", w.docs = <<>>, Len(w.rows) = 1
    PROVE  \A i \in DOMAIN listed :
              \/ \A d \in ToSet(DocumentsOf[listed[i]]) \ Refused : Held(d)
              \/ PageNow(i) >= w.page + 1
<1> SUFFICES ASSUME NEW i \in DOMAIN listed
             PROVE  \/ \A d \in ToSet(DocumentsOf[listed[i]]) \ Refused : Held(d)
                    \/ PageNow(i) >= w.page + 1
  OBVIOUS
<1>1. PICK n \in Nat : n = Len(listed) /\ DOMAIN listed = 1..n
  BY DEF Listing
<1>2. i \in Nat \ {0} /\ i - 1 - (n - n) = i - 1 /\ i > n - n
  BY <1>1
<1>3. PageNow(i) \in Nat
  BY <1>2, LaterRows
<1>4. w.began = n /\ w.first = 0
  BY <1>1 DEF QuietWalk, Walks, InHand
<1>5. InRange(w, i)
  BY <1>1, <1>2, <1>3, <1>4 DEF InRange, PageNow
<1>6. w.counts.failed = 0
  BY DEF Walk, Quiet
<1> QED
  BY <1>5, <1>6, PageDone DEF GotAll, Got

\* Where every row has a notice of its own, a page with nothing new on it has a
\* row that was held before the run, and all below that row is held.
LEMMA NothingNew ==
    ASSUME Listing, Quiet, NEW w, Walk(w), QuietWalk(w),
           w.pc = "row", w.docs = <<>>, Len(w.rows) = 1, ~w.fresh
    PROVE  \A i \in DOMAIN listed : Settled(i)
<1>1. PageInHand(w) /\ w.rows[1] \in ToSet(w.rows)
  BY PageDone
<1>2. PICK k \in DOMAIN listed : listed[k] = w.rows[1] /\ PageNow(k) = w.page
  BY <1>1 DEF QuietWalk, InHand
<1>3. listed[k] \in Rows
  BY <1>2 DEF Listing
<1>4. PICK d \in ToSet(DocumentsOf[listed[k]]) :
         \A other \in Rows \ {listed[k]} : d \notin ToSet(DocumentsOf[other])
  BY <1>3 DEF Quiet, EveryRowHasItsOwn
<1>5. d \in w.held
  BY <1>2, <1>4 DEF QuietWalk, InHand, ToSet
<1>6. d \notin w.fetched
  <2> SUFFICES ASSUME d \in w.fetched PROVE FALSE
    OBVIOUS
  <2>1. PICK i \in DOMAIN listed : d \in ToSet(DocumentsOf[listed[i]]) /\ PageNow(i) < w.page
    BY DEF QuietWalk, InHand, FetchedBehind
  <2>2. listed[i] \in Rows
    BY DEF Listing
  <2>3. i = k
    BY <1>4, <2>1, <2>2 DEF Listing
  <2> QED
    BY <1>2, <2>1, <2>3 DEF Walk
<1>7. \A j \in DOMAIN listed : k <= j => Settled(j)
  BY <1>3, <1>4, <1>5, <1>6 DEF QuietWalk, InHand, SettledBelow, OwnOf
<1>8. ASSUME NEW i \in DOMAIN listed, ~(k <= i)
      PROVE  Settled(i)
  <2>1. i \in Nat \ {0} /\ k \in Nat \ {0} /\ i <= k
    BY <1>8 DEF Listing
  <2>2. PageNow(i) \in Nat /\ PageNow(i) <= w.page
    BY <1>2, <2>1, LaterRows
  <2>3. ~(PageNow(i) >= w.page + 1)
    BY <2>2 DEF Walk
  <2> QED
    BY <2>3, QuietPageDone DEF Settled
<1> QED
  BY <1>7, <1>8

LEMMA FinishingPageKeepsListing ==
    ASSUME WalkInv, QuietInv, PagesInv, NEW c \in Collectors, FinishPage(c)
    PROVE  WalkInv' /\ QuietInv'
<1> USE DEF bytes, ledger, world
<1>1. PICK here : here = at[c]
  OBVIOUS
<1>2. /\ here.pc = "row" /\ here.docs = <<>> /\ Len(here.rows) = 1
      /\ UNCHANGED <<listed, sighting, overtaken, kept, whole, faults>>
  BY <1>1 DEF FinishPage
<1>3. Listing /\ Walk(here) /\ Busy(c) /\ WalkFields \subseteq DOMAIN here
  BY <1>1, <1>2 DEF WalkInv, Listing, Busy
<1>4. \A i \in DOMAIN listed :
         InRange(here, i) => GotAll(here, listed[i]) \/ PageNow(i) >= here.page + 1
  BY <1>2, <1>3, PageDone
<1>5. Quiet => QuietWalk(here)
  BY <1>1, <1>3, InQuiet
<1>6. CASE IsLast(c)
  <2>1. PICK now : now = [here EXCEPT !.pc = "collected"]
    OBVIOUS
  <2>2. at' = [at EXCEPT ![c] = now]
    BY <1>1, <1>6, <2>1 DEF FinishPage
  <2>3. /\ WalkFields \subseteq DOMAIN now /\ now.pc = "collected" /\ now.fresh = here.fresh
        /\ now.explicit = here.explicit /\ now.page = here.page /\ now.last = here.last
        /\ now.first = here.first /\ now.began = here.began /\ now.counts = here.counts
        /\ now.held = here.held /\ now.fetched = here.fetched
    BY <1>3, <2>1 DEF WalkFields
  <2>4. now.explicit => Walked(now)
    <3> SUFFICES ASSUME now.explicit, NEW i \in DOMAIN listed, InRange(now, i)
                 PROVE  GotAll(now, listed[i]) \/ PageNow(i) > now.last
      BY <2>3 DEF Walked
    <3>1. here.page = here.last /\ here.page \in Nat
      BY <1>1, <1>3, <1>6, <2>3 DEF IsLast, Walk
    <3>2. i \in Nat \ {0}
      BY <1>3 DEF Listing
    <3>3. PageNow(i) \in Nat
      BY <3>2, LaterRows
    <3>4. GotAll(here, listed[i]) \/ PageNow(i) >= here.page + 1
      BY <1>4, <2>3 DEF InRange
    <3> QED
      BY <2>3, <3>1, <3>3, <3>4 DEF GotAll, Got
  <2>5. Walk(now)
    BY <1>3, <2>3, <2>4 DEF Walk, InHand, Walks
  <2>6. QuietWalk(now)
    BY <2>3 DEF QuietWalk, InHand, Walks
  <2>7. ASSUME Quiet
        PROVE  \A i \in DOMAIN listed : Settled(i)
    <3>1. CASE ~here.fresh
      BY <1>2, <1>3, <1>5, <2>7, <3>1, NothingNew
    <3>2. CASE here.fresh
      <4> SUFFICES ASSUME NEW i \in DOMAIN listed PROVE Settled(i)
        OBVIOUS
      <4>1. here.page = LastPage /\ LastPage \in Nat
        BY <1>1, <1>2, <1>5, <1>6, <2>7, <3>2, CollectionAssumption DEF IsLast, QuietWalk, Walks, InHand
      <4>2. i \in Nat \ {0}
        BY <1>3 DEF Listing
      <4>3. PageNow(i) \in Nat
        BY <4>2, LaterRows
      <4>4. \/ \A d \in ToSet(DocumentsOf[listed[i]]) \ Refused : Held(d)
            \/ PageNow(i) >= here.page + 1
        BY <1>2, <1>3, <1>5, <2>7, QuietPageDone
      <4> QED
        BY <4>1, <4>3, <4>4 DEF Settled
    <3> QED
      BY <3>1, <3>2
  <2>8. Quiet => SettledBelow({d \in Documents : Held(d)})
    BY <2>7 DEF SettledBelow
  <2> QED
    BY <1>1, <1>2, <1>3, <2>2, <2>3, <2>5, <2>6, <2>7, <2>8, WalkMoves
<1>7. CASE ~IsLast(c)
  <2>1. PICK following : following = here.page + 1
    OBVIOUS
  <2>2. PICK now : now = [here EXCEPT !.page = following, !.pc = "page"]
    OBVIOUS
  <2>3. at' = [at EXCEPT ![c] = now]
    BY <1>1, <1>7, <2>1, <2>2 DEF FinishPage
  <2>4. /\ WalkFields \subseteq DOMAIN now /\ now.pc = "page" /\ now.fresh = here.fresh
        /\ now.explicit = here.explicit /\ now.page = following /\ now.last = here.last
        /\ now.first = here.first /\ now.began = here.began /\ now.counts = here.counts
        /\ now.held = here.held /\ now.fetched = here.fetched
    BY <1>3, <2>2 DEF WalkFields
  <2>5. following \in Nat /\ here.page \in Nat
    BY <1>3, <2>1 DEF Walk
  <2>6. Walked(now)
    BY <1>4, <2>1, <2>4 DEF Walked, InRange, InHand, GotAll, Got
  <2>7. Walk(now)
    BY <1>3, <2>4, <2>5, <2>6 DEF Walk, InHand
  <2>8. ASSUME Quiet
        PROVE  QuietWalk(now)
    <3>1. SettledBelow(here.held \ here.fetched) /\ FetchedBehind(here)
      BY <1>2, <1>5, <2>8 DEF QuietWalk, InHand
    <3>2. FetchedBehind(now)
      <4> SUFFICES ASSUME NEW d \in now.fetched
                   PROVE  \E i \in DOMAIN listed :
                             d \in ToSet(DocumentsOf[listed[i]]) /\ PageNow(i) < now.page
        BY DEF FetchedBehind
      <4>1. PICK i \in DOMAIN listed :
               /\ d \in ToSet(DocumentsOf[listed[i]])
               /\ PageNow(i) < here.page \/ PageNow(i) = here.page
        BY <2>4, <3>1 DEF FetchedBehind
      <4>2. i \in Nat \ {0}
        BY <1>3 DEF Listing
      <4>3. PageNow(i) \in Nat
        BY <4>2, LaterRows
      <4> QED
        BY <2>1, <2>4, <2>5, <4>1, <4>3
    <3> QED
      BY <1>2, <1>5, <2>4, <2>8, <3>1, <3>2 DEF QuietWalk, InHand, Walks
  <2> QED
    BY <1>1, <1>2, <1>3, <2>3, <2>4, <2>7, <2>8, WalkMoves
<1> QED
  BY <1>6, <1>7

-----------------------------------------------------------------------------
(* Where a run ends and begins.                                            *)

LEMMA IdleWalk ==
    /\ WalkFields \subseteq DOMAIN Idle /\ Idle.pc = "idle"
    /\ Listing => Walk(Idle)
    /\ QuietWalk(Idle)
<1>1. /\ Idle.pc = "idle" /\ Idle.explicit = FALSE /\ Idle.page = 0 /\ Idle.last = 0
      /\ Idle.held = {} /\ Idle.fetched = {} /\ Idle.fresh = FALSE /\ Idle.counts = NoCounts
      /\ Idle.first = 0 /\ Idle.began = 0
  BY DEF Idle
<1>2. WalkFields \subseteq DOMAIN Idle
  BY DEF Idle, WalkFields
<1>3. NoCounts \in Counts /\ NoCounts.failed = 0
  BY DEF NoCounts, Counts
<1>4. Listing => Walk(Idle)
  <2> SUFFICES ASSUME Listing PROVE Walk(Idle)
    OBVIOUS
  <2>1. 0 \in 0..Len(listed)
    BY DEF Listing
  <2>2. Idle.explicit \in BOOLEAN /\ Idle.fresh \in BOOLEAN /\ ~Idle.explicit
    BY <1>1
  <2>3. Idle.page \in Nat /\ Idle.last \in Nat /\ Idle.first \in Nat /\ Idle.began \in 0..Len(listed)
    BY <1>1, <2>1
  <2>4. Idle.counts \in Counts /\ (Idle.counts.failed # 0 => faults # 0)
    BY <1>1, <1>3
  <2>5. Idle.held \subseteq {d \in Documents : Held(d)} /\ Idle.fetched \subseteq Idle.held
    BY <1>1
  <2>6. Idle.pc \notin InHand /\ Idle.pc \notin Walks
    BY <1>1 DEF Walks, InHand
  <2> QED
    BY <2>2, <2>3, <2>4, <2>5, <2>6 DEF Walk
<1>5. QuietWalk(Idle)
  BY <1>1 DEF QuietWalk, Walks, InHand
<1> QED
  BY <1>1, <1>2, <1>4, <1>5

\* Where nothing has gone wrong, a run ends with its walk done, if it had one.
LEMMA EndsSettled ==
    ASSUME WalkInv, QuietInv, PagesInv, Quiet, NEW c \in Collectors,
           \/ at[c].pc = "collected"
           \/ MustStop(c) \/ RefusalCollides(c)
    PROVE  SettledBelow({d \in Documents : Held(d)}) /\ Busy(c) /\ at[c].pc # "fill"
<1>1. Listing /\ Walk(at[c])
  BY DEF WalkInv
<1>2. CASE at[c].pc = "collected" \/ RefusalCollides(c)
  <2>1. at[c].pc = "collected"
    BY <1>2, AtWork DEF RefusalCollides, Working
  <2>2. Busy(c)
    BY <2>1 DEF Busy
  <2>3. BetweenWalks
    BY <2>1, <2>2, InQuiet DEF BetweenWalks
  <2> QED
    BY <2>1, <2>2, <2>3 DEF QuietInv
<1>3. CASE MustStop(c)
  <2>1. Busy(c)
    BY <1>3 DEF MustStop, Busy
  <2>2. at[c].pc = "page" /\ Shown(listed, at[c].page) = <<>>
    BY <1>3, <2>1, InQuiet DEF MustStop
  <2>3. QuietWalk(at[c]) /\ Walked(at[c]) /\ at[c].page \in Nat
    BY <1>1, <2>1, <2>2, InQuiet DEF Walk, Walks
  <2>4. \A i \in DOMAIN listed : ~(PageNow(i) >= at[c].page)
    BY <1>1, <2>2, <2>3, PageShows DEF Listing
  <2>5. ASSUME NEW i \in DOMAIN listed
        PROVE  Settled(i)
    <3>1. PICK n \in Nat : n = Len(listed) /\ DOMAIN listed = 1..n
      BY <1>1 DEF Listing
    <3>2. i \in Nat \ {0} /\ i - 1 - (n - n) = i - 1 /\ i > n - n
      BY <3>1
    <3>3. PageNow(i) \in Nat
      BY <3>2, LaterRows
    <3>4. at[c].began = n /\ at[c].first = 0
      BY <2>2, <2>3, <3>1 DEF QuietWalk, Walks
    <3>5. InRange(at[c], i)
      BY <3>1, <3>2, <3>3, <3>4 DEF InRange, PageNow
    <3>6. GotAll(at[c], listed[i])
      BY <2>2, <2>3, <2>4, <3>5 DEF Walked, InHand
    <3>7. at[c].counts.failed = 0
      BY <1>1 DEF Walk, Quiet
    <3> QED
      BY <3>6, <3>7 DEF GotAll, Got, Settled
  <2> QED
    BY <2>1, <2>2, <2>5 DEF SettledBelow
<1> QED
  BY <1>2, <1>3

LEMMA EndingKeepsListing ==
    ASSUME WalkInv, QuietInv, PagesInv, NEW c \in Collectors,
           CompleteAgencyRun(c) \/ Stopped(c) \/ CutShort(c)
    PROVE  WalkInv' /\ QuietInv'
<1> USE DEF bytes, ledger, world
<1>1. /\ at' = [at EXCEPT ![c] = Idle]
      /\ UNCHANGED <<listed, sighting, overtaken, kept, whole>>
      /\ faults' = faults \/ faults' = faults + 1
  BY DEF CompleteAgencyRun, Stopped, CutShort, CompleteRun, StopIf, Throw, Die, Close
<1>2. Listing
  BY DEF WalkInv
<1>3. /\ WalkFields \subseteq DOMAIN Idle /\ Idle.pc = "idle" /\ Walk(Idle) /\ QuietWalk(Idle)
  BY <1>2, IdleWalk
<1>4. Busy(c)
  BY AtWork DEF CompleteAgencyRun, Stopped, CutShort, CompleteRun, StopIf, Throw, Die, MustStop,
                RefusalCollides, Working, Busy
<1>5. faults' = faults => at[c].pc = "collected" \/ MustStop(c) \/ RefusalCollides(c)
  BY <1>2 DEF CompleteAgencyRun, Stopped, CutShort, CompleteRun, StopIf, Throw, Die, Listing
<1>6. ASSUME Quiet, faults' = faults
      PROVE  SettledBelow({d \in Documents : Held(d)}) /\ at[c].pc # "fill"
  BY <1>5, <1>6, EndsSettled
<1>7. CASE faults' = faults
  <2>1. CASE Quiet
    BY <1>1, <1>3, <1>4, <1>6, <1>7, <2>1, WalkMoves
  <2>2. CASE ~Quiet
    <3>1. /\ Walk(Idle)'
          /\ \A d : Held(d) => Held(d)'
      BY <1>1, <1>3, <1>7, NothingComesIn
    <3> QED
      BY <1>1, <1>2, <1>3, <1>4, <2>2, <3>1, OneCollects DEF Listing
  <2> QED
    BY <2>1, <2>2
<1>8. CASE faults' = faults + 1
  <2>1. faults' # faults /\ (faults # 0 => faults' # 0)
    BY <1>2, <1>8 DEF Listing
  <2>2. \A d : Held(d) => Held(d)'
    BY <1>1 DEF Held
  <2>3. PICK w : w = Idle
    OBVIOUS
  <2>4. Walk(w)'
    BY <1>1, <1>3, <2>1, <2>2, <2>3, WalkStands
  <2> QED
    BY <1>1, <1>2, <1>3, <1>4, <2>1, <2>2, <2>3, <2>4, OneCollects DEF Listing
<1> QED
  BY <1>1, <1>7, <1>8

\* A run opens where nothing is, or beside another.
LEMMA Opens ==
    ASSUME WalkInv, QuietInv, PagesInv, NEW c \in Collectors, ~Busy(c), NEW now,
           at' = [at EXCEPT ![c] = now], WalkFields \subseteq DOMAIN now,
           UNCHANGED <<listed, sighting, kept, whole, faults>>,
           overtaken' \in BOOLEAN,
           overtaken' \/ (~overtaken /\ \A o \in Collectors : ~Busy(o)),
           now.pc = "held" \/ (now.pc = "collected" /\ now.listing = Null),
           Walk(now), ~overtaken' => QuietWalk(now)
    PROVE  WalkInv' /\ QuietInv'
<1>1. Listing /\ at'[c] = now /\ \A o \in Collectors \ {c} : at'[o] = at[o]
  BY DEF WalkInv, Listing
<1>2. (\A d : Held(d)' <=> Held(d)) /\ \A w : Walk(w) => Walk(w)'
  BY NothingComesIn
<1>3. Listing'
  BY <1>1 DEF Listing
<1>4. ASSUME NEW o \in Collectors
      PROVE  Walk(at[o])'
  <2>1. CASE o = c
    BY <1>1, <1>2, <2>1
  <2>2. CASE o # c
    <3>1. PICK w : w = at[o]
      OBVIOUS
    <3> QED
      BY <1>1, <1>2, <2>2, <3>1 DEF WalkInv
  <2> QED
    BY <2>1, <2>2
<1>5. QuietInv'
  <2> SUFFICES ASSUME Quiet'
               PROVE  /\ QuietBytes'
                      /\ \A o \in Collectors : QuietWalk(at[o])'
                      /\ SettledBelow({d \in Documents : Held(d)})'
                      /\ \A o \in Collectors : at'[o].pc = "collected" => at'[o].listing = Null
    BY DEF QuietInv
  <2>1. Quiet /\ ~overtaken' /\ \A o \in Collectors : at[o].pc = "idle"
    BY DEF Quiet, Busy
  <2>2. QuietBytes'
    BY <1>1, <2>1 DEF QuietInv, QuietBytes
  <2>3. QuietWalk(now)'
    BY <1>2, <2>1, QuietStands
  <2>4. \A o \in Collectors \ {c} : QuietWalk(at[o])'
    BY <1>1, <2>1 DEF QuietWalk, Walks, InHand
  <2>5. SettledBelow({d \in Documents : Held(d)})'
    <3>1. PICK ds : ds = {d \in Documents : Held(d)}
      OBVIOUS
    <3>2. {d \in Documents : Held(d)}' = ds
      BY <1>2, <3>1
    <3>3. SettledBelow(ds)
      BY <2>1, <3>1 DEF QuietInv, BetweenWalks
    <3>4. SettledBelow(ds)'
      BY <1>2, <3>3 DEF SettledBelow, Settled, PageNow, OwnOf
    <3> QED
      BY <3>2, <3>4 DEF SettledBelow
  <2> QED
    BY <1>1, <2>1, <2>2, <2>3, <2>4, <2>5
<1> QED
  BY <1>3, <1>4, <1>5 DEF WalkInv

\* A walk that is about to begin.
LEMMA Beginning ==
    ASSUME Listing, NEW w, w.pc = "held" \/ (w.pc = "collected" /\ ~w.explicit),
           w.explicit \in BOOLEAN, w.fresh = FALSE, w.page \in Nat, w.last \in Nat,
           w.first = w.page, w.began = Len(listed) \/ (w.pc = "collected" /\ w.began = 0),
           w.counts = NoCounts, w.held = {}, w.fetched = {}
    PROVE  /\ Walk(w)
           /\ (w.pc = "held" => w.first = 0 /\ w.last = LastPage) => QuietWalk(w)
<1>1. PICK n \in Nat : n = Len(listed) /\ DOMAIN listed = 1..n
  BY DEF Listing
<1>2. w.began \in 0..Len(listed)
  BY <1>1
<1>3. w.counts \in Counts /\ w.counts.failed = 0
  BY DEF NoCounts, Counts
<1>4. w.pc = "held" => Walked(w)
  <2> SUFFICES ASSUME w.pc = "held", NEW i \in DOMAIN listed, InRange(w, i)
               PROVE  PageNow(i) >= w.page
    BY DEF Walked
  <2>1. i - 1 - (n - n) = i - 1 /\ w.began = n
    BY <1>1
  <2> QED
    BY <1>1, <2>1 DEF InRange, PageNow
<1>5. Walk(w)
  BY <1>2, <1>3, <1>4 DEF Walk, Walks, InHand
<1>6. (w.pc = "held" => w.first = 0 /\ w.last = LastPage) => QuietWalk(w)
  BY DEF QuietWalk, Walks, InHand
<1> QED
  BY <1>5, <1>6

LEMMA OpeningKeepsListing ==
    ASSUME WalkInv, QuietInv, PagesInv, NEW c \in Collectors,
           \/ OpenAgencyRun(c)
           \/ \E store \in Stores, ocr \in BOOLEAN : OpenExtraction(c, store, ocr)
    PROVE  WalkInv' /\ QuietInv'
<1> USE DEF bytes, ledger, world
<1>1. Listing
  BY DEF WalkInv
<1>2. CASE OpenAgencyRun(c)
  <2>1. PICK store \in Stores, explicit \in BOOLEAN, first \in 0..LastPage, last \in 0..LastPage :
           first <= last /\ OpenRun(c, store, explicit, first, last)
    BY <1>2 DEF OpenAgencyRun, Begin
  <2>2. PICK id : id = Len(run) + 1
    OBVIOUS
  <2>3. PICK n : n = Len(listed)
    OBVIOUS
  <2>4. PICK now : now = [Idle EXCEPT !.pc = "held", !.run = id, !.store = store,
                                      !.explicit = explicit, !.page = first, !.last = last,
                                      !.first = first, !.began = n]
    OBVIOUS
  <2>5. at' = [at EXCEPT ![c] = now]
    BY <2>1, <2>2, <2>3, <2>4, ZenonT(60) DEF OpenRun
  <2>6. /\ ~Busy(c) /\ UNCHANGED <<listed, sighting, kept, whole, faults>>
        /\ ~explicit => first = 0 /\ last = LastPage
        /\ overtaken' = \/ overtaken
                        \/ explicit /\ (first # 0 \/ last # LastPage)
                        \/ \E o \in Collectors : Busy(o)
    BY <2>1 DEF OpenRun
  <2>7. /\ now.pc = "held" /\ now.explicit = explicit /\ now.page = first /\ now.last = last
        /\ now.first = first /\ now.began = n /\ now.held = {} /\ now.fetched = {}
        /\ now.fresh = FALSE /\ now.counts = NoCounts
        /\ WalkFields \subseteq DOMAIN now
    BY <2>4 DEF Idle, WalkFields
  <2>8. first \in Nat /\ last \in Nat
    BY CollectionAssumption
  <2>9. Walk(now) /\ (now.first = 0 /\ now.last = LastPage => QuietWalk(now))
    BY <1>1, <2>3, <2>7, <2>8, Beginning
  <2>10. /\ overtaken' \in BOOLEAN
         /\ overtaken' \/ (~overtaken /\ \A o \in Collectors : ~Busy(o))
         /\ ~overtaken' => first = 0 /\ last = LastPage
    BY <1>1, <2>6 DEF Listing
  <2> QED
    BY <2>5, <2>6, <2>7, <2>9, <2>10, Opens
<1>3. ASSUME NEW store \in Stores, NEW ocr \in BOOLEAN, OpenExtraction(c, store, ocr)
      PROVE  WalkInv' /\ QuietInv'
  <2>1. PICK id : id = Len(run) + 1
    OBVIOUS
  <2>2. PICK now : now = [Idle EXCEPT !.pc = "collected", !.run = id, !.store = store]
    OBVIOUS
  <2>3. at' = [at EXCEPT ![c] = now]
    BY <1>3, <2>1, <2>2 DEF OpenExtraction
  <2>4. /\ ~Busy(c) /\ UNCHANGED <<listed, sighting, kept, whole, faults>>
        /\ overtaken' = (overtaken \/ \E o \in Collectors : Busy(o))
    BY <1>3 DEF OpenExtraction
  <2>5. /\ now.pc = "collected" /\ now.explicit = FALSE /\ now.page = 0 /\ now.last = 0
        /\ now.first = 0 /\ now.began = 0 /\ now.held = {} /\ now.fetched = {}
        /\ now.fresh = FALSE /\ now.counts = NoCounts /\ now.listing = Null
        /\ WalkFields \subseteq DOMAIN now
    BY <2>2 DEF Idle, WalkFields
  <2>6. Walk(now) /\ QuietWalk(now)
    <3>1. now.explicit \in BOOLEAN /\ ~now.explicit
      BY <2>5
    <3>2. now.page \in Nat /\ now.last \in Nat /\ now.first = now.page
      BY <2>5
    <3>3. now.pc # "held"
      BY <2>5
    <3> QED
      BY <1>1, <2>5, <3>1, <3>2, <3>3, Beginning
  <2>7. /\ overtaken' \in BOOLEAN
        /\ overtaken' \/ (~overtaken /\ \A o \in Collectors : ~Busy(o))
    BY <1>1, <2>4 DEF Listing
  <2> QED
    BY <2>3, <2>4, <2>5, <2>6, <2>7, Opens
<1> QED
  BY <1>2, <1>3

\* Every other row of the listing moves one place.
LEMMA ListingGrows ==
    ASSUME Listing, NEW row \in Rows, listed' = <<row>> \o listed
    PROVE  /\ listed' \in Seq(Rows) /\ Len(listed') = Len(listed) + 1
           /\ DOMAIN listed' = 1..Len(listed) + 1 /\ DOMAIN listed = 1..Len(listed)
           /\ Len(listed) \in Nat
           /\ listed'[1] = row /\ \A i \in DOMAIN listed : listed'[i + 1] = listed[i]
           /\ \A i \in DOMAIN listed' : i # 1 => i - 1 \in DOMAIN listed /\ listed'[i] = listed[i - 1]
           /\ ToSet(listed') = {row} \cup ToSet(listed)
<1>1. PICK n \in Nat : n = Len(listed) /\ DOMAIN listed = 1..n
  BY DEF Listing
<1>2. /\ listed' \in Seq(Rows) /\ Len(listed') = n + 1
      /\ \A i \in 1..n + 1 : listed'[i] = IF i <= 1 THEN row ELSE listed[i - 1]
  <2>1. /\ <<row>> \in Seq(Rows) /\ Len(<<row>>) = 1 /\ <<row>>[1] = row
    OBVIOUS
  <2>2. /\ <<row>> \o listed \in Seq(Rows)
        /\ Len(<<row>> \o listed) = 1 + n
        /\ \A i \in 1..1 + n : (<<row>> \o listed)[i] = IF i <= 1 THEN <<row>>[i] ELSE listed[i - 1]
    BY <1>1, <2>1, ConcatProperties DEF Listing
  <2>3. \A i \in 1..n + 1 : i <= 1 => i = 1
    BY <1>1
  <2> QED
    BY <1>1, <2>1, <2>2, <2>3
<1>3. DOMAIN listed' = 1..n + 1
  BY <1>2
<1>4. listed'[1] = row /\ \A i \in 1..n : listed'[i + 1] = listed[i]
  BY <1>1, <1>2
<1>5. \A i \in 1..n + 1 : i # 1 => i - 1 \in 1..n /\ listed'[i] = listed[i - 1]
  BY <1>1, <1>2
<1>6. ToSet(listed') \subseteq {row} \cup ToSet(listed)
  BY <1>1, <1>3, <1>4, <1>5 DEF ToSet
<1>7. {row} \cup ToSet(listed) \subseteq ToSet(listed')
  <2>1. row \in ToSet(listed')
    <3>1. 1 \in DOMAIN listed'
      BY <1>1, <1>3
    <3> QED
      BY <1>4, <3>1 DEF ToSet
  <2>2. ASSUME NEW i \in 1..n
        PROVE  listed[i] \in ToSet(listed')
    <3>1. i + 1 \in DOMAIN listed'
      BY <1>1, <1>3
    <3> QED
      BY <1>4, <3>1 DEF ToSet
  <2> QED
    BY <1>1, <2>1, <2>2 DEF ToSet
<1> QED
  BY <1>1, <1>2, <1>3, <1>4, <1>5, <1>6, <1>7

\* A walk goes on while the listing grows above it.
LEMMA WalkSurvives ==
    ASSUME Listing, NEW w, Walk(w), NEW row \in Rows, listed' = <<row>> \o listed,
           UNCHANGED <<sighting, faults>>
    PROVE  Walk(w)'
<1>1. PICK n \in Nat : n = Len(listed)
  BY DEF Listing
<1>2. /\ Len(listed') = n + 1 /\ DOMAIN listed' = 1..n + 1 /\ DOMAIN listed = 1..n
      /\ \A i \in DOMAIN listed' : i # 1 => i - 1 \in DOMAIN listed /\ listed'[i] = listed[i - 1]
      /\ ToSet(listed) \subseteq ToSet(listed')
  BY <1>1, ListingGrows
<1>3. \A d : Held(d)' <=> Held(d)
  BY DEF Held
<1>4. (\A d : Got(w, d)' <=> Got(w, d)) /\ \A e : GotAll(w, e)' <=> GotAll(w, e)
  BY <1>3 DEF Got, GotAll
<1>5. PageInHand(w) => PageInHand(w)'
  BY <1>2, <1>4 DEF PageInHand
<1>6. PICK b \in 0..n : b = w.began
  BY <1>1 DEF Walk
<1>7. w.page \in Nat /\ w.last \in Nat
  BY DEF Walk
<1>8. Walked(w) => Walked(w)'
  <2> SUFFICES ASSUME Walked(w), NEW i \in DOMAIN listed', InRange(w, i)', NEW e, e = listed'[i]
               PROVE  \/ GotAll(w, e)'
                      \/ w.pc \in {"held", "page"} /\ PageNow(i) >= w.page
                      \/ w.pc \in InHand /\ (PageNow(i) >= w.page + 1 \/ e \in ToSet(w.rows))
                      \/ w.pc = "collected" /\ PageNow(i) > w.last
    BY DEF Walked, PageNow
  <2>1. i > n + 1 - b /\ (i - 1 - (n + 1 - b)) \div PageSize >= w.first /\ i \in 1..n + 1
    BY <1>2, <1>6, SMTT(40) DEF InRange
  <2>2. PICK j \in 1..n : j = i - 1 /\ e = listed[j]
    BY <1>2, <2>1
  <2>3. j > n - b /\ j - 1 - (n - b) = i - 1 - (n + 1 - b)
    BY <2>1, <2>2
  <2>4. InRange(w, j)
    BY <1>1, <1>2, <1>6, <2>1, <2>2, <2>3 DEF InRange
  <2>5. PageNow(i) \in Nat /\ PageNow(j) \in Nat /\ PageNow(j) <= PageNow(i)
    <3>1. i \in Nat \ {0} /\ j \in Nat \ {0} /\ j <= i
      BY <2>1, <2>2
    <3> QED
      BY <3>1, LaterRows
  <2>6. \/ GotAll(w, listed[j])
        \/ w.pc \in {"held", "page"} /\ PageNow(j) >= w.page
        \/ w.pc \in InHand /\ (PageNow(j) >= w.page + 1 \/ listed[j] \in ToSet(w.rows))
        \/ w.pc = "collected" /\ PageNow(j) > w.last
    BY <1>2, <2>4 DEF Walked
  <2>7. /\ PageNow(j) >= w.page => PageNow(i) >= w.page
        /\ PageNow(j) >= w.page + 1 => PageNow(i) >= w.page + 1
        /\ PageNow(j) > w.last => PageNow(i) > w.last
    BY <1>7, <2>5
  <2> QED
    BY <1>4, <2>2, <2>6, <2>7
<1>9. w.began \in 0..Len(listed')
  BY <1>1, <1>2, <1>6
<1>10. {d \in Documents : Held(d)'} = {d \in Documents : Held(d)}
  BY <1>3
<1> QED
  BY <1>5, <1>8, <1>9, <1>10 DEF Walk

\* A new row's own notice is not held yet, and every other row only moves away
\* from the pages that are read.
LEMMA PublishingKeepsListing ==
    ASSUME WalkInv, QuietInv, NEW row \in Rows, Publish(row)
    PROVE  WalkInv' /\ QuietInv'
<1> USE DEF bytes, ledger
<1>1. /\ row \notin ToSet(listed) /\ listed' = <<row>> \o listed
      /\ overtaken' = (overtaken \/ \E c \in Collectors : Busy(c))
      /\ UNCHANGED <<sighting, at, kept, whole, faults>>
  BY DEF Publish
<1>2. Listing
  BY DEF WalkInv
<1>3. PICK n \in Nat : n = Len(listed)
  BY <1>2 DEF Listing
<1>4. /\ listed' \in Seq(Rows)
      /\ DOMAIN listed' = 1..n + 1 /\ DOMAIN listed = 1..n
      /\ listed'[1] = row
      /\ \A i \in DOMAIN listed' : i # 1 => i - 1 \in DOMAIN listed /\ listed'[i] = listed[i - 1]
      /\ ToSet(listed') = {row} \cup ToSet(listed)
  BY <1>1, <1>2, <1>3, ListingGrows
<1>5. Listing'
  <2>1. ASSUME NEW i \in DOMAIN listed', NEW j \in DOMAIN listed', listed'[i] = listed'[j]
        PROVE  i = j
    <3>1. CASE i # 1 /\ j # 1
      <4>1. listed[i - 1] = listed[j - 1] /\ i - 1 \in DOMAIN listed /\ j - 1 \in DOMAIN listed
        BY <1>4, <2>1, <3>1
      <4>2. i - 1 = j - 1
        BY <1>2, <4>1 DEF Listing
      <4> QED
        BY <1>4, <4>2
    <3>2. CASE i = 1 /\ j # 1
      BY <1>1, <1>4, <2>1, <3>2 DEF ToSet
    <3>3. CASE j = 1 /\ i # 1
      BY <1>1, <1>4, <2>1, <3>3 DEF ToSet
    <3> QED
      BY <3>1, <3>2, <3>3
  <2>2. overtaken' \in BOOLEAN
    BY <1>1, <1>2 DEF Listing
  <2> QED
    BY <1>1, <1>2, <1>4, <2>1, <2>2 DEF Listing
<1>6. ASSUME NEW c \in Collectors
      PROVE  Walk(at[c])'
  <2>1. PICK w : w = at[c]
    OBVIOUS
  <2>2. Walk(w)'
    BY <1>1, <1>2, <2>1, WalkSurvives DEF WalkInv
  <2> QED
    BY <1>1, <2>1, <2>2
<1>7. QuietInv'
  <2> SUFFICES ASSUME Quiet'
               PROVE  /\ QuietBytes'
                      /\ \A c \in Collectors : QuietWalk(at[c])' /\ at'[c].pc # "collected"
                      /\ SettledBelow({d \in Documents : Held(d)})'
    BY DEF QuietInv
  <2>1. Quiet /\ \A c \in Collectors : at[c].pc = "idle"
    BY <1>1 DEF Quiet, Busy
  <2>2. QuietBytes'
    BY <1>1, <2>1 DEF QuietInv, QuietBytes, Place
  <2>3. \A c \in Collectors : QuietWalk(at[c])' /\ at'[c].pc # "collected"
    BY <1>1, <2>1 DEF QuietWalk, Walks, InHand
  <2>4. \A d : Held(d)' <=> Held(d)
    BY <1>1 DEF Held
  <2>5. SettledBelow({d \in Documents : Held(d)})
    BY <2>1 DEF QuietInv, BetweenWalks
  <2>6. ASSUME NEW i \in DOMAIN listed', NEW j \in DOMAIN listed', i <= j,
               NEW d \in OwnOf(listed'[i]), d \in Documents, Held(d)
        PROVE  Settled(j)'
    <3>1. i # 1
      <4> SUFFICES ASSUME i = 1 PROVE FALSE
        OBVIOUS
      <4>1. PICK k \in DOMAIN sighting : sighting[k].document = d
        BY <2>6 DEF Held
      <4>2. sighting[k].row \in ToSet(listed) /\ d \in ToSet(DocumentsOf[sighting[k].row])
        BY <1>2, <4>1 DEF Listing
      <4>3. sighting[k].row \in Rows
        BY <1>2, <4>2 DEF Listing, ToSet
      <4> QED
        BY <1>1, <1>4, <2>6, <4>2, <4>3 DEF OwnOf
    <3>2. PICK k \in 1..n, l \in 1..n : k = i - 1 /\ l = j - 1 /\ k <= l /\ listed'[i] = listed[k] /\ listed'[j] = listed[l]
      <4>1. j # 1
        BY <1>4, <2>6, <3>1
      <4>2. i - 1 <= j - 1
        BY <1>4, <2>6
      <4> QED
        BY <1>4, <3>1, <4>1, <4>2
    <3>3. Settled(l)
      BY <1>4, <2>5, <2>6, <3>2 DEF SettledBelow
    <3>4. PageNow(j) \in Nat /\ PageNow(l) \in Nat /\ PageNow(l) <= PageNow(j)
      <4>1. j \in Nat \ {0} /\ l \in Nat \ {0} /\ l <= j
        BY <1>4, <3>2
      <4> QED
        BY <4>1, LaterRows
    <3>5. PageNow(j) <= LastPage => PageNow(l) <= LastPage
      BY <3>4, CollectionAssumption
    <3> QED
      BY <2>4, <3>2, <3>3, <3>5 DEF Settled, PageNow
  <2>7. SettledBelow({d \in Documents : Held(d)})'
    <3>1. PICK ds : ds = {d \in Documents : Held(d)}
      OBVIOUS
    <3>2. {d \in Documents : Held(d)}' = ds
      BY <2>4, <3>1
    <3>3. SettledBelow(ds)'
      BY <2>6, <3>1 DEF SettledBelow
    <3> QED
      BY <3>2, <3>3 DEF SettledBelow
  <2> QED
    BY <2>2, <2>3, <2>7
<1> QED
  BY <1>5, <1>6, <1>7 DEF WalkInv

LEMMA BesidesKeepsListing ==
    ASSUME WalkInv, QuietInv, UNCHANGED <<listed, sighting, at, kept, whole, overtaken>>,
           faults' = faults \/ faults' = faults + 1
    PROVE  WalkInv' /\ QuietInv'
<1>1. Listing /\ (faults # 0 => faults' # 0) /\ faults' \in Nat
  BY DEF WalkInv, Listing
<1>2. \A d : Held(d)' <=> Held(d)
  BY DEF Held
<1>3. Listing'
  BY <1>1 DEF Listing
<1>4. ASSUME NEW c \in Collectors
      PROVE  Walk(at[c])'
  <2>1. PICK w : w = at[c]
    OBVIOUS
  <2>2. Walk(w)'
    BY <1>1, <1>2, <2>1, WalkStands DEF WalkInv
  <2> QED
    BY <2>1, <2>2
<1>5. QuietInv'
  <2>1. Quiet' => Quiet /\ faults' = faults
    BY <1>1 DEF Quiet
  <2> SUFFICES ASSUME Quiet, faults' = faults PROVE QuietInv'
    BY <2>1 DEF QuietInv
  <2>2. QuietBytes' /\ (BetweenWalks' => BetweenWalks)
    BY DEF QuietInv, QuietBytes, BetweenWalks, Place
  <2>3. ASSUME NEW c \in Collectors
        PROVE  QuietWalk(at[c])'
    <3>1. PICK w : w = at[c]
      OBVIOUS
    <3>2. QuietWalk(w)'
      BY <1>2, <3>1, QuietStands DEF QuietInv
    <3> QED
      BY <3>1, <3>2
  <2>4. BetweenWalks => SettledBelow({d \in Documents : Held(d)})'
    <3> SUFFICES ASSUME BetweenWalks PROVE SettledBelow({d \in Documents : Held(d)})'
      OBVIOUS
    <3>1. PICK ds : ds = {d \in Documents : Held(d)}
      OBVIOUS
    <3>2. {d \in Documents : Held(d)}' = ds
      BY <1>2, <3>1
    <3>3. SettledBelow(ds)'
      BY <1>2, <3>1 DEF QuietInv, SettledBelow, Settled, PageNow, OwnOf
    <3> QED
      BY <3>2, <3>3 DEF SettledBelow
  <2>5. \A i : Settled(i) => Settled(i)'
    BY <1>2 DEF Settled, PageNow
  <2> QED
    BY <2>2, <2>3, <2>4, <2>5 DEF QuietInv
<1> QED
  BY <1>3, <1>4, <1>5 DEF WalkInv

LEMMA StepKeepsListing ==
    ASSUME WalkInv, QuietInv, PagesInv, [AgencyNext]_agency
    PROVE  WalkInv' /\ QuietInv'
<1> USE DEF collection, bytes, ledger, world
<1>1. ASSUME NEW row \in Rows, Publish(row)
      PROVE  WalkInv' /\ QuietInv'
  BY <1>1, PublishingKeepsListing
<1>2. ASSUME NEW c \in Collectors,
             \/ OpenAgencyRun(c)
             \/ \E store \in Stores, ocr \in BOOLEAN : OpenExtraction(c, store, ocr)
      PROVE  WalkInv' /\ QuietInv'
  BY <1>2, OpeningKeepsListing
<1>3. ASSUME NEW c \in Collectors, Collect(c)
      PROVE  WalkInv' /\ QuietInv'
  BY <1>3, KeepKeepsListing, ReadingHeldKeepsListing, GettingPageKeepsListing,
     SeeingAgainKeepsListing, SkippingKeepsListing, FetchingKeepsListing,
     RefusingKeepsListing, SightingKeepsListing, NextRowKeepsListing,
     FinishingPageKeepsListing DEF Collect, Read
<1>4. ASSUME NEW c \in Collectors, Extract(c)
      PROVE  WalkInv' /\ QuietInv'
  <2>1. UNCHANGED <<listed, sighting, at, kept, whole, overtaken, faults>>
    BY <1>4 DEF Extract, ReadPending, LeaveNotice, LoadDocument, LoadPage, FinishExtracting
  <2> QED
    BY <2>1, BesidesKeepsListing
<1>5. ASSUME NEW c \in Collectors, ReadPages(c)
      PROVE  WalkInv' /\ QuietInv'
  <2>1. UNCHANGED <<listed, sighting, at, kept, whole, overtaken, faults>>
    BY <1>5 DEF ReadPages, AskEngines, ReadAwaiting, LeaveUnread, Send, File, InsertReading,
                InsertWords, WithdrawRefusal, ReplaceRefusal, InsertRefusal, Filed, FinishReading
  <2> QED
    BY <2>1, BesidesKeepsListing
<1>6. ASSUME NEW c \in Collectors, MissNotice(c)
      PROVE  WalkInv' /\ QuietInv'
  BY <1>6, LosingKeepsListing DEF MissNotice
<1>7. ASSUME NEW c \in Collectors, PageRefused(c)
      PROVE  WalkInv' /\ QuietInv'
  BY <1>7, BesidesKeepsListing DEF PageRefused
<1>8. ASSUME NEW c \in Collectors, CompleteAgencyRun(c) \/ Stopped(c) \/ CutShort(c)
      PROVE  WalkInv' /\ QuietInv'
  BY <1>8, EndingKeepsListing
<1>9. CASE UNCHANGED agency
  BY <1>9, BesidesKeepsListing DEF agency
<1> QED
  BY <1>1, <1>2, <1>3, <1>4, <1>5, <1>6, <1>7, <1>8, <1>9 DEF AgencyNext, Work

\* What a run leaves out of its walk of the listing is held already, whatever the
\* listing, the pages and the documents, and however many runs, publications,
\* refusals, losses and deaths: a backfill that reports nothing lost and nothing
\* refused has covered its range, and where every row has a notice of its own a
\* nightly run that stops early has missed nothing (collect.ts:206-252).
THEOREM WalksLeaveNothing == AgencySpec => []ListingIsCovered
<1> DEFINE Inv == Evidence /\ PagesInv /\ WalkInv /\ QuietInv
<1>1. AgencyInit => Inv
  <2> SUFFICES ASSUME AgencyInit PROVE WalkInv /\ QuietInv
    BY PagesBegin
  <2>1. /\ listed = FirstRows /\ kept = {} /\ sighting = <<>>
        /\ at = [c \in Collectors |-> Idle] /\ faults = 0 /\ overtaken = FALSE
    BY DEF AgencyInit, Init
  <2>2. sighting \in Seq(Sighting) /\ DOMAIN sighting = {}
    BY <2>1
  <2>3. Listing
    BY <2>1, <2>2, IdleWalk, CollectionAssumption DEF Listing
  <2>4. \A c \in Collectors : at[c] = Idle
    BY <2>1
  <2>5. WalkInv
    BY <2>3, <2>4, IdleWalk DEF WalkInv
  <2>6. QuietBytes
    BY <2>1, <2>4, IdleWalk DEF QuietBytes
  <2>7. \A d : ~Held(d)
    BY <2>2 DEF Held
  <2>8. SettledBelow({d \in Documents : Held(d)})
    BY <2>7 DEF SettledBelow
  <2> QED
    BY <2>4, <2>5, <2>6, <2>8, IdleWalk DEF QuietInv
<1>2. Inv /\ [AgencyNext]_agency => Inv'
  BY StepKeepsPages, StepKeepsListing
<1>3. Inv => ListingIsCovered
  <2> SUFFICES ASSUME WalkInv, QuietInv PROVE ListingIsCovered
    OBVIOUS
  <2>1. BackfillCovers
    <3> SUFFICES ASSUME NEW c \in Collectors, at[c].pc = "collected", at[c].explicit,
                        at[c].counts.failed = 0, at[c].counts.notPermitted = 0,
                        NEW i \in DOMAIN listed, i > Len(listed) - at[c].began,
                        PageWhenBegun(c, i) >= at[c].first, PageNow(i) <= at[c].last
                 PROVE  AllHeld(listed[i])
      BY DEF BackfillCovers
    <3>1. Walk(at[c]) /\ Listing
      BY DEF WalkInv
    <3>2. InRange(at[c], i)
      BY DEF InRange, PageWhenBegun
    <3>3. GotAll(at[c], listed[i]) \/ PageNow(i) > at[c].last
      BY <3>1, <3>2 DEF Walk, Walked, InHand
    <3>4. i \in Nat \ {0}
      BY <3>1 DEF Listing
    <3>5. PageNow(i) \in Nat /\ at[c].last \in Nat
      BY <3>1, <3>4, LaterRows DEF Walk
    <3>6. GotAll(at[c], listed[i])
      BY <3>3, <3>5
    <3> QED
      BY <3>6 DEF GotAll, Got, AllHeld
  <2>2. EveryRowHasItsOwn => EarlyStopMissesNothing
    BY DEF QuietInv, Quiet, EarlyStopMissesNothing, Settled
  <2> QED
    BY <2>1, <2>2 DEF ListingIsCovered
<1> QED
  BY <1>1, <1>2, <1>3, PTL DEF AgencySpec

=============================================================================
