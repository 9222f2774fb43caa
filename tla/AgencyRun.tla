------------------------------ MODULE AgencyRun ------------------------------
(***************************************************************************)
(* A whole run of services/ingestion/src/maharashtra/cli.ts: collect the   *)
(* listing (NoticeCollection), make a document of every notice held        *)
(* without one (documents.ts, cag/load.ts) and, when asked to, send pages  *)
(* with no text layer to the OCR service and file what each engine says of *)
(* them (ocr/read-pages.ts, migration 0042; services/ocr/.../service.py).  *)
(* Nothing here is in a transaction.                                       *)
(***************************************************************************)
EXTENDS NoticeCollection

CONSTANTS
    PageCount,   \* how many pages each notice has
    Typed,       \* the pages of each notice that have a text layer
    Unreadable,  \* the notices no document can be extracted from
    Engines      \* the OCR engines a run asks for

ASSUME AgencyAssumption ==
    /\ PageCount \in [Contents -> Nat \ {0}]
    /\ Unreadable \subseteq Contents
    /\ Null \notin Contents

VARIABLES
    document,  \* document: the notices that have one
    page,      \* document_page: <<notice, page number>>
    reading,   \* page_reading with content: <<notice, page number, engine>>
    words,     \* those of them whose page_reading_item rows are all there
    refusal,   \* page_reading with a refusal
    job        \* what each run is doing once the listing is read

documents == <<document, page>>
readings == <<reading, words, refusal>>
agency == <<collection, documents, readings, job>>

Pages(n) == 1..PageCount[n]
Scans(n) == Pages(n) \ Typed[n]
PageKeys == UNION {{n} \X Pages(n) : n \in Contents}
ReadingKeys == UNION {{n} \X Pages(n) \X Engines : n \in Contents}

NoJob == [pc |-> "none", ocr |-> FALSE, todo |-> {}, notice |-> Null, next |-> 1, engines |-> {},
          awaiting |-> {}, reads |-> {}, refuses |-> {}, filing |-> <<>>, unasked |-> FALSE]

AgencyInit ==
    /\ Init
    /\ document = {}
    /\ page = {}
    /\ reading = {}
    /\ words = {}
    /\ refusal = {}
    /\ job = [c \in Collectors |-> NoJob]

-----------------------------------------------------------------------------
(* Opening a run, and the collection it begins with.                       *)

OpenAgencyRun(c) ==
    /\ Begin(c)
    /\ \E ocr \in BOOLEAN : job' = [job EXCEPT ![c] = [NoJob EXCEPT !.ocr = ocr]]
    /\ UNCHANGED <<documents, readings>>

\* --extract-only: no listing is read.
OpenExtraction(c, store, ocr) ==
    /\ ~Busy(c)
    /\ Len(run) < MaxRuns
    /\ run' = Append(run, [status |-> "running", counts |-> NoCounts])
    /\ at' = [at EXCEPT ![c] = [Idle EXCEPT !.pc = "collected", !.run = Len(run) + 1,
                                            !.store = store]]
    /\ job' = [job EXCEPT ![c] = [NoJob EXCEPT !.ocr = ocr]]
    /\ overtaken' = (overtaken \/ \E o \in Collectors : Busy(o))
    /\ UNCHANGED <<listed, bytes, ledger, faults, documents, readings>>

Collect(c) ==
    /\ Keep(c) \/ Read(c)
    /\ UNCHANGED <<documents, readings, job>>

MissNotice(c) ==
    /\ LoseNotice(c)
    /\ UNCHANGED <<documents, readings, job>>

-----------------------------------------------------------------------------
(* Notices into documents.                                                 *)

StoredHere(c, n) == \E a \in artifact : a.sha = n /\ a.storedIn = at[c].store

\* Retained notices that a listing row was seen to point to, with no document.
Pending == {n \in Contents : (\E i \in DOMAIN sighting : sighting[i].sha = n) /\ n \notin document}

ReadPending(c) ==
    /\ at[c].pc = "collected"
    /\ job[c].pc = "none"
    /\ job' = [job EXCEPT ![c].todo = Pending, ![c].pc = "extract"]
    /\ UNCHANGED <<collection, documents, readings>>

\* Held in another store, or nothing can be extracted from it: left as it is.
LeaveNotice(c, n) ==
    /\ job[c].pc = "extract"
    /\ n \in job[c].todo
    /\ ~StoredHere(c, n) \/ <<at[c].store, n>> \notin whole \/ n \in Unreadable
    /\ job' = [job EXCEPT ![c].todo = @ \ {n}]
    /\ UNCHANGED <<collection, documents, readings>>

LoadDocument(c, n) ==
    /\ job[c].pc = "extract"
    /\ n \in job[c].todo \ Unreadable
    /\ StoredHere(c, n) /\ <<at[c].store, n>> \in whole
    /\ document' = document \cup {n}
    /\ job' = [job EXCEPT ![c].notice = n, ![c].next = 1, ![c].pc = "pages"]
    /\ UNCHANGED <<collection, page, readings>>

NoticeDone(c) ==
    job' = [job EXCEPT ![c].todo = @ \ {job[c].notice}, ![c].notice = Null, ![c].pc = "extract"]

\* The last page is never loaded.
LoadPage_OneShort(c) ==
    LET n == job[c].notice
    IN  /\ job[c].pc = "pages"
        /\ page' = page \cup {<<n, job[c].next>>}
        /\ IF job[c].next >= PageCount[n] - 1 THEN NoticeDone(c)
           ELSE job' = [job EXCEPT ![c].next = @ + 1]
        /\ UNCHANGED <<collection, document, readings>>

LoadPage(c) ==
    LET n == job[c].notice
    IN  /\ job[c].pc = "pages"
        /\ page' = page \cup {<<n, job[c].next>>}
        /\ IF job[c].next = PageCount[n] THEN NoticeDone(c)
           ELSE job' = [job EXCEPT ![c].next = @ + 1]
        /\ UNCHANGED <<collection, document, readings>>

\* The database refuses a page: caught, logged, and the run goes on to the next
\* notice.  The document and the pages before this one stay.
PageRefused(c) ==
    /\ job[c].pc = "pages"
    /\ faults < MaxFaults
    /\ faults' = faults + 1
    /\ NoticeDone(c)
    /\ UNCHANGED <<listed, bytes, ledger, run, at, overtaken, documents, readings>>

FinishExtracting(c) ==
    /\ job[c].pc = "extract"
    /\ job[c].todo = {}
    /\ job' = [job EXCEPT ![c].pc = IF job[c].ocr THEN "engines" ELSE "done"]
    /\ UNCHANGED <<collection, documents, readings>>

Extract(c) ==
    \/ ReadPending(c)
    \/ \E n \in Contents : LeaveNotice(c, n) \/ LoadDocument(c, n)
    \/ LoadPage(c) \/ FinishExtracting(c)

-----------------------------------------------------------------------------
(* Pages into readings.                                                    *)

\* The engines that the service has installed, of those asked for.  With none,
\* or with no service, nothing is read and the run goes on.
AskEngines(c, installed) ==
    /\ job[c].pc = "engines"
    /\ job' = [job EXCEPT ![c].engines = installed,
                          ![c].pc = IF installed = {} THEN "done" ELSE "awaiting",
                          ![c].unasked = installed = {}]
    /\ UNCHANGED <<collection, documents, readings>>

\* A page that any engine has read awaits no other.
Awaiting_Any(engines) ==
    {p \in page : p[2] \in Scans(p[1]) /\ \A e \in engines : <<p[1], p[2], e>> \notin reading}

\* Pages as the file states them, with no text, that an installed engine has
\* not read: a refusal is not a reading.
Awaiting(engines) ==
    {p \in page : p[2] \in Scans(p[1]) /\ \E e \in engines : <<p[1], p[2], e>> \notin reading}

ReadAwaiting(c) ==
    LET awaiting == Awaiting(job[c].engines)
    IN  /\ job[c].pc = "awaiting"
        /\ job' = [job EXCEPT ![c].awaiting = awaiting, ![c].todo = {p[1] : p \in awaiting},
                              ![c].pc = "send"]
        /\ UNCHANGED <<collection, documents, readings>>

\* What the service is asked to read of a notice: every installed engine, for
\* every page of it that any of them has not read.
Request(c, n) == {p \in job[c].awaiting : p[1] = n}
Asked(c, n) == {<<p[1], p[2], e>> : p \in Request(c, n), e \in job[c].engines}

\* Held elsewhere, or the service did not answer, or not in time.
LeaveUnread(c, n) ==
    /\ job[c].pc = "send"
    /\ n \in job[c].todo
    /\ job' = [job EXCEPT ![c].todo = @ \ {n}, ![c].unasked = TRUE]
    /\ UNCHANGED <<collection, documents, readings>>

\* The service reads every page with every engine or says why it did not.
Send(c, n, read) ==
    /\ job[c].pc = "send"
    /\ n \in job[c].todo
    /\ StoredHere(c, n) /\ <<at[c].store, n>> \in whole
    /\ job' = [job EXCEPT ![c].todo = @ \ {n}, ![c].reads = read,
                          ![c].refuses = Asked(c, n) \ read, ![c].pc = "file"]
    /\ UNCHANGED <<collection, documents, readings>>

\* A reading that is already held is not stored again, and what stands beside
\* it is not looked at.
InsertReading(c, r) ==
    /\ job[c].pc = "file"
    /\ r \in job[c].reads
    /\ reading' = reading \cup {r}
    /\ job' = [job EXCEPT ![c].reads = @ \ {r}, ![c].filing = r,
                          ![c].pc = IF r \in reading THEN "file" ELSE "words"]
    /\ UNCHANGED <<collection, documents, words, refusal>>

InsertWords(c) ==
    /\ job[c].pc = "words"
    /\ words' = words \cup {job[c].filing}
    /\ job' = [job EXCEPT ![c].pc = "read"]
    /\ UNCHANGED <<collection, documents, reading, refusal>>

WithdrawRefusal(c) ==
    /\ job[c].pc = "read"
    /\ refusal' = refusal \ {job[c].filing}
    /\ job' = [job EXCEPT ![c].pc = "file"]
    /\ UNCHANGED <<collection, documents, reading, words>>

\* A refusal replaces the one that stands, in two statements.
ReplaceRefusal(c, r) ==
    /\ job[c].pc = "file"
    /\ job[c].reads = {}
    /\ r \in job[c].refuses
    /\ refusal' = refusal \ {r}
    /\ job' = [job EXCEPT ![c].refuses = @ \ {r}, ![c].filing = r, ![c].pc = "refuse"]
    /\ UNCHANGED <<collection, documents, reading, words>>

InsertRefusal(c) ==
    /\ job[c].pc = "refuse"
    /\ job[c].filing \notin refusal
    /\ refusal' = refusal \cup {job[c].filing}
    /\ job' = [job EXCEPT ![c].pc = "file"]
    /\ UNCHANGED <<collection, documents, reading, words>>

Filed(c) ==
    /\ job[c].pc = "file"
    /\ job[c].reads = {} /\ job[c].refuses = {}
    /\ job' = [job EXCEPT ![c].filing = <<>>, ![c].pc = "send"]
    /\ UNCHANGED <<collection, documents, readings>>

FinishReading(c) ==
    /\ job[c].pc = "send"
    /\ job[c].todo = {}
    /\ job' = [job EXCEPT ![c].awaiting = {}, ![c].pc = "done"]
    /\ UNCHANGED <<collection, documents, readings>>

File(c) ==
    \/ \E r \in job[c].reads : InsertReading(c, r)
    \/ InsertWords(c) \/ WithdrawRefusal(c)
    \/ \E r \in job[c].refuses : ReplaceRefusal(c, r)
    \/ InsertRefusal(c) \/ Filed(c)

ReadPages(c) ==
    \/ \E installed \in SUBSET Engines : AskEngines(c, installed)
    \/ ReadAwaiting(c)
    \/ \E n \in job[c].todo :
          LeaveUnread(c, n) \/ \E read \in SUBSET Asked(c, n) : Send(c, n, read)
    \/ File(c) \/ FinishReading(c)

-----------------------------------------------------------------------------
(* How a run ends.                                                         *)

CompleteAgencyRun(c) ==
    /\ job[c].pc = "done"
    /\ CompleteRun(c)
    /\ job' = [job EXCEPT ![c] = NoJob]
    /\ UNCHANGED <<documents, readings>>

\* Two processes refuse one page: the second insert breaks page_reading_refused_once.
RefusalCollides(c) == job[c].pc = "refuse" /\ job[c].filing \in refusal

Stopped(c) ==
    /\ StopIf(c, MustStop(c) \/ RefusalCollides(c))
    /\ job' = [job EXCEPT ![c] = NoJob]
    /\ UNCHANGED <<documents, readings>>

CutShort(c) ==
    /\ Throw(c) \/ Die(c)
    /\ job' = [job EXCEPT ![c] = NoJob]
    /\ UNCHANGED <<documents, readings>>

Work(c) ==
    Collect(c) \/ Extract(c) \/ ReadPages(c) \/ CompleteAgencyRun(c) \/ Stopped(c)

AgencyNext ==
    \/ \E row \in Rows : Publish(row) /\ UNCHANGED <<documents, readings, job>>
    \/ \E c \in Collectors :
          \/ OpenAgencyRun(c)
          \/ \E store \in Stores, ocr \in BOOLEAN : OpenExtraction(c, store, ocr)
          \/ Work(c)
          \/ MissNotice(c) \/ PageRefused(c) \/ CutShort(c)

AgencySpec == AgencyInit /\ [][AgencyNext]_agency

-----------------------------------------------------------------------------
(* Properties.                                                             *)

JobState ==
    [pc : {"none", "extract", "pages", "engines", "awaiting", "send", "file", "words", "read",
           "refuse", "done"},
     ocr : BOOLEAN, todo : SUBSET Contents, notice : Contents \cup {Null}, next : Nat \ {0},
     engines : SUBSET Engines, awaiting : SUBSET PageKeys, reads : SUBSET ReadingKeys,
     refuses : SUBSET ReadingKeys, filing : ReadingKeys \cup {<<>>}, unasked : BOOLEAN]

\* Every variable holds a value of its kind.
AgencyTypeOK ==
    /\ CollectionTypeOK
    /\ document \subseteq Contents
    /\ page \subseteq PageKeys
    /\ reading \subseteq ReadingKeys
    /\ words \subseteq reading
    /\ refusal \subseteq ReadingKeys
    /\ job \in [Collectors -> JobState]

\* A document has all of its pages and a reading all of its words, or a program
\* is at that very work, unless something has gone wrong: a fault is the only way
\* to a half-made row, which no later run goes back to (documents.ts:78,
\* read-pages.ts:87-92).
NothingIsHalfMade ==
    faults = 0 =>
        /\ \A n \in document :
              \/ {n} \X Pages(n) \subseteq page
              \/ \E c \in Collectors : job[c].notice = n
        /\ \A r \in reading \ words : \E c \in Collectors : job[c].pc = "words" /\ job[c].filing = r

\* An absence is stated (0042): when a run that had the ledger to itself has put
\* every page to the engines installed, each of them has read each scanned page
\* or left its reason, and none has been asked of a page the file has text for.
AbsenceIsStated ==
    /\ \A c \in Collectors :
          job[c].pc = "done" /\ job[c].ocr /\ ~job[c].unasked /\ ~overtaken
          => \A p \in page, e \in job[c].engines :
                p[2] \in Scans(p[1]) => <<p[1], p[2], e>> \in reading \cup refusal
    /\ \A r \in reading \cup refusal : <<r[1], r[2]>> \in page /\ r[2] \in Scans(r[1])

\* Every page is accounted for: loaded whole with its document, and either read
\* whole by each engine or given its reason (documents.ts:78, 0042).
PagesAreAccountedFor == NothingIsHalfMade /\ AbsenceIsStated
=============================================================================
