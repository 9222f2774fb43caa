-------------------------- MODULE NoticeCollection --------------------------
(***************************************************************************)
(* Tender notices collected from an agency's own listing                   *)
(* (services/ingestion/src/maharashtra/collect.ts, load.ts, cli.ts) into   *)
(* the raw store (raw-store.ts) and the ledger's account of what was found *)
(* (source_artifact and artifact_sighting, migrations 0037 and 0040).      *)
(*                                                                         *)
(* The listing runs newest first, a page at a time, and grows at its head  *)
(* while it is read.  Every statement commits on its own: a process killed *)
(* between two of them leaves the first.  A hash is the bytes it hashes: a *)
(* notice's artefact is its content and a listing page's is the rows it    *)
(* shows.                                                                  *)
(***************************************************************************)
EXTENDS Integers, SequencesExt

CONSTANTS
    Collectors,   \* processes that may run the collector; no lock excludes two
    Rows,         \* listing rows, each published once
    Documents,    \* the URLs rows point to
    DocumentsOf,  \* the URLs each row points to
    Contents,     \* what a notice's bytes may be
    ContentOf,    \* what each URL serves
    Refused,      \* the URLs whose path robots.txt refuses
    Stores,       \* where a run may keep bytes
    LocalStores,  \* those of them that are a directory
    FirstRows,    \* the listing when the collector is first run
    PageSize,
    LastPage,     \* the last page the agency is read to; pages count from 0
    MaxRuns,      \* bound on runs
    MaxFaults,    \* bound on lost notices, errors and deaths
    Null

ASSUME CollectionAssumption ==
    /\ DocumentsOf \in [Rows -> Seq(Documents)]
    /\ ContentOf \in [Documents -> Contents]
    /\ LocalStores \subseteq Stores
    /\ Contents \cap [rows : Seq(Rows)] = {}
    /\ FirstRows \in Seq(Rows)
    /\ \A i, j \in DOMAIN FirstRows : FirstRows[i] = FirstRows[j] => i = j
    /\ PageSize \in Nat \ {0}
    /\ LastPage \in Nat
    /\ MaxRuns \in Nat
    /\ MaxFaults \in Nat

VARIABLES
    listed,    \* the agency's listing, newest first
    kept,      \* <<store, hash>>: something is there
    whole,     \* <<store, hash>>: it is all there
    artifact,  \* source_artifact
    sighting,  \* artifact_sighting, in the order of its ids
    run,       \* ingestion_run, by id
    at,        \* what each collector is doing
    faults,    \* what has gone wrong so far: known to no program
    overtaken  \* a run has read part of the listing, or shared it with another
               \* run or with a publication: known to no program

bytes == <<kept, whole>>
ledger == <<artifact, sighting>>
world == <<faults, overtaken>>
collection == <<listed, bytes, ledger, run, at, world>>

PageBytes == [rows : Seq(Rows)]
Hashes == Contents \cup PageBytes

Artifact == [sha : Hashes, storedIn : Stores]
Sighting == [sha : Hashes, document : Documents, row : Rows, page : PageBytes]

Counts == [fetched : Nat, notPermitted : Nat, failed : Nat]
NoCounts == [fetched |-> 0, notPermitted |-> 0, failed |-> 0]
Run == [status : {"running", "succeeded", "failed"}, counts : Counts]

Idle == [pc |-> "idle", run |-> 0, store |-> Null, explicit |-> FALSE, page |-> 0, last |-> 0,
         rows |-> <<>>, docs |-> <<>>, listing |-> Null, saving |-> Null, held |-> {},
         fetched |-> {}, fresh |-> FALSE, counts |-> NoCounts, first |-> 0, began |-> 0]

-----------------------------------------------------------------------------

Init ==
    /\ listed = FirstRows
    /\ kept = {}
    /\ whole = {}
    /\ artifact = {}
    /\ sighting = <<>>
    /\ run = <<>>
    /\ at = [c \in Collectors |-> Idle]
    /\ faults = 0
    /\ overtaken = FALSE

Busy(c) == at[c].pc # "idle"
Held(d) == \E i \in DOMAIN sighting : sighting[i].document = d
IsArtifact(sha) == \E a \in artifact : a.sha = sha

\* The agency publishes a notice: its row goes to the head of the listing and
\* every other row moves one place towards the pages after it.
Publish(row) ==
    /\ row \notin ToSet(listed)
    /\ listed' = <<row>> \o listed
    /\ overtaken' = (overtaken \/ \E c \in Collectors : Busy(c))
    /\ UNCHANGED <<bytes, ledger, run, at, faults>>

\* --pages=FROM-TO is a backfill that reads them all; without it a run reads
\* from the first page and may stop early.
OpenRun(c, store, explicit, first, last) ==
    /\ ~Busy(c)
    /\ Len(run) < MaxRuns
    /\ ~explicit => first = 0 /\ last = LastPage
    /\ run' = Append(run, [status |-> "running", counts |-> NoCounts])
    /\ at' = [at EXCEPT ![c] =
                [Idle EXCEPT !.pc = "held", !.run = Len(run) + 1, !.store = store,
                             !.explicit = explicit, !.page = first, !.last = last,
                             !.first = first, !.began = Len(listed)]]
    /\ overtaken' = \/ overtaken
                    \/ explicit /\ (first # 0 \/ last # LastPage)
                    \/ \E o \in Collectors : Busy(o)
    /\ UNCHANGED <<listed, bytes, ledger, faults>>

ReadHeld(c) ==
    /\ at[c].pc = "held"
    /\ at' = [at EXCEPT ![c].held = {d \in Documents : Held(d)}, ![c].pc = "page"]
    /\ UNCHANGED <<listed, bytes, ledger, run, world>>

\* The rows a listing shows on a page.
Shown(listing, page) ==
    SubSeq(listing, page * PageSize + 1,
           IF (page + 1) * PageSize < Len(listing) THEN (page + 1) * PageSize ELSE Len(listing))

\* The listing cited is the first page the run read, on every page.
GetPage_FirstCited(c) ==
    LET rows == Shown(listed, at[c].page)
    IN  /\ at[c].pc = "page"
        /\ rows # <<>>
        /\ at' = [at EXCEPT ![c].rows = rows, ![c].docs = DocumentsOf[rows[1]],
                            ![c].listing = IF @ = Null THEN [rows |-> rows] ELSE @,
                            ![c].saving = [rows |-> rows],
                            ![c].fresh = FALSE, ![c].pc = "look"]
        /\ UNCHANGED <<listed, bytes, ledger, run, world>>

GetPage(c) ==
    LET rows == Shown(listed, at[c].page)
    IN  /\ at[c].pc = "page"
        /\ rows # <<>>
        /\ at' = [at EXCEPT ![c].rows = rows, ![c].docs = DocumentsOf[rows[1]],
                            ![c].listing = [rows |-> rows], ![c].saving = [rows |-> rows],
                            ![c].fresh = FALSE, ![c].pc = "look"]
        /\ UNCHANGED <<listed, bytes, ledger, run, world>>

-----------------------------------------------------------------------------
(* Keeping bytes, then saying where they are.                              *)

Place(c) == <<at[c].store, at[c].saving>>

\* What is already under the hash is trusted to be its bytes.
Look_Trusting(c) ==
    /\ at[c].pc = "look"
    /\ at' = [at EXCEPT ![c].pc = IF Place(c) \in kept THEN "record" ELSE "create"]
    /\ UNCHANGED <<listed, bytes, ledger, run, world>>

\* What is already under the hash is verified, never overwritten; put throws at
\* anything else (see Stop).
Look(c) ==
    /\ at[c].pc = "look"
    /\ \/ Place(c) \notin kept /\ at' = [at EXCEPT ![c].pc = "create"]
       \/ Place(c) \in whole /\ at' = [at EXCEPT ![c].pc = "record"]
    /\ UNCHANGED <<listed, bytes, ledger, run, world>>

\* A bucket takes an object whole, over whatever is there.  A directory opens
\* the file only where there is none (flag wx), and fills it afterwards.
PutObject(c) ==
    /\ at[c].pc = "create"
    /\ at[c].store \notin LocalStores
    /\ kept' = kept \cup {Place(c)}
    /\ whole' = whole \cup {Place(c)}
    /\ at' = [at EXCEPT ![c].pc = "record"]
    /\ UNCHANGED <<listed, ledger, run, world>>

CreateFile(c) ==
    /\ at[c].pc = "create"
    /\ at[c].store \in LocalStores
    /\ Place(c) \notin kept
    /\ kept' = kept \cup {Place(c)}
    /\ at' = [at EXCEPT ![c].pc = "fill"]
    /\ UNCHANGED <<listed, whole, ledger, run, world>>

FillFile(c) ==
    /\ at[c].pc = "fill"
    /\ whole' = whole \cup {Place(c)}
    /\ at' = [at EXCEPT ![c].pc = "record"]
    /\ UNCHANGED <<listed, kept, ledger, run, world>>

\* ON CONFLICT (sha256) DO NOTHING: an artefact keeps the store it was first put in.
RecordArtifact(c) ==
    /\ at[c].pc = "record"
    /\ artifact' = IF IsArtifact(at[c].saving) THEN artifact
                   ELSE artifact \cup {[sha |-> at[c].saving, storedIn |-> at[c].store]}
    /\ at' = [at EXCEPT ![c].pc = IF at[c].saving \in Contents THEN "sight" ELSE "row"]
    /\ UNCHANGED <<listed, bytes, sighting, run, world>>

-----------------------------------------------------------------------------
(* The rows of a page, and the documents each points to.                   *)

AtDocument(c) == at[c].pc = "row" /\ at[c].docs # <<>>

\* Another row's sighting of a notice, or the first.
Seen(c) ==
    Append(sighting, [sha |-> ContentOf[Head(at[c].docs)], document |-> Head(at[c].docs),
                      row |-> Head(at[c].rows), page |-> at[c].listing])

SeeAgain(c) ==
    /\ AtDocument(c)
    /\ Head(at[c].docs) \in at[c].fetched
    /\ sighting' = Seen(c)
    /\ at' = [at EXCEPT ![c].docs = Tail(@)]
    /\ UNCHANGED <<listed, bytes, artifact, run, world>>

SkipHeld(c) ==
    /\ AtDocument(c)
    /\ Head(at[c].docs) \in at[c].held \ at[c].fetched
    /\ at' = [at EXCEPT ![c].docs = Tail(@)]
    /\ UNCHANGED <<listed, bytes, ledger, run, world>>

Wanted(c) == AtDocument(c) /\ Head(at[c].docs) \notin at[c].held

\* A notice counts as new only once it has been kept, which is after its page.
Fetch_Uncounted(c) ==
    /\ Wanted(c)
    /\ Head(at[c].docs) \notin Refused
    /\ at' = [at EXCEPT ![c].saving = ContentOf[Head(at[c].docs)], ![c].pc = "look"]
    /\ UNCHANGED <<listed, bytes, ledger, run, world>>

Fetch(c) ==
    /\ Wanted(c)
    /\ Head(at[c].docs) \notin Refused
    /\ at' = [at EXCEPT ![c].saving = ContentOf[Head(at[c].docs)], ![c].fresh = TRUE,
                        ![c].pc = "look"]
    /\ UNCHANGED <<listed, bytes, ledger, run, world>>

NotPermitted(c) ==
    /\ Wanted(c)
    /\ Head(at[c].docs) \in Refused
    /\ at' = [at EXCEPT ![c].fresh = TRUE, ![c].docs = Tail(@),
                        ![c].counts.notPermitted = @ + 1]
    /\ UNCHANGED <<listed, bytes, ledger, run, world>>

\* No answer, or anything but 200: counted, and the run goes on without it.
LoseNotice(c) ==
    /\ Wanted(c)
    /\ Head(at[c].docs) \notin Refused
    /\ faults < MaxFaults
    /\ faults' = faults + 1
    /\ at' = [at EXCEPT ![c].fresh = TRUE, ![c].docs = Tail(@), ![c].counts.failed = @ + 1]
    /\ UNCHANGED <<listed, bytes, ledger, run, overtaken>>

\* The collector me after its document is in the ledger.
Stored(me) == [me EXCEPT !.held = @ \cup {Head(me.docs)}, !.fetched = @ \cup {Head(me.docs)},
                         !.docs = Tail(@), !.counts.fetched = @ + 1, !.pc = "row"]

RecordSighting(c) ==
    /\ at[c].pc = "sight"
    /\ sighting' = Seen(c)
    /\ at' = [at EXCEPT ![c] = Stored(@)]
    /\ UNCHANGED <<listed, bytes, artifact, run, world>>

NextRow(c) ==
    /\ at[c].pc = "row"
    /\ at[c].docs = <<>>
    /\ Len(at[c].rows) > 1
    /\ at' = [at EXCEPT ![c].rows = Tail(@), ![c].docs = DocumentsOf[at[c].rows[2]]]
    /\ UNCHANGED <<listed, bytes, ledger, run, world>>

\* A backfill, too, stops where nothing on a page was new.
IsLast_AlwaysStopping(c) == at[c].page = at[c].last \/ ~at[c].fresh

\* After this page there is no other: the range ends, or nothing on it was new.
IsLast(c) == at[c].page = at[c].last \/ (~at[c].explicit /\ ~at[c].fresh)

FinishPage(c) ==
    /\ at[c].pc = "row"
    /\ at[c].docs = <<>>
    /\ Len(at[c].rows) = 1
    /\ at' = IF IsLast(c) THEN [at EXCEPT ![c].pc = "collected"]
             ELSE [at EXCEPT ![c].page = @ + 1, ![c].pc = "page"]
    /\ UNCHANGED <<listed, bytes, ledger, run, world>>

-----------------------------------------------------------------------------
(* How a run ends.                                                         *)

Close(c, status, counts) ==
    /\ run' = [run EXCEPT ![at[c].run] = [status |-> status, counts |-> counts]]
    /\ at' = [at EXCEPT ![c] = Idle]

CompleteRun(c) ==
    /\ at[c].pc = "collected"
    /\ Close(c, "succeeded", at[c].counts)
    /\ UNCHANGED <<listed, bytes, ledger, world>>

\* What the program itself throws at: a page with no rows, bytes under a hash
\* that do not verify, a file that another process created first.
MustStop(c) ==
    \/ at[c].pc = "page" /\ Shown(listed, at[c].page) = <<>>
    \/ at[c].pc = "look" /\ Place(c) \in kept \ whole
    \/ at[c].pc = "create" /\ at[c].store \in LocalStores /\ Place(c) \in kept

\* cli.ts hands failRun no counts, so the run says one error and nothing else.
Failed == [NoCounts EXCEPT !.failed = 1]

StopIf(c, thrown) ==
    /\ thrown
    /\ Close(c, "failed", Failed)
    /\ UNCHANGED <<listed, bytes, ledger, world>>

Stop(c) == StopIf(c, MustStop(c))

\* The host, the store or the database fails it, at any await.
Throw(c) ==
    /\ Busy(c)
    /\ faults < MaxFaults
    /\ faults' = faults + 1
    /\ Close(c, "failed", Failed)
    /\ UNCHANGED <<listed, bytes, ledger, overtaken>>

\* Killed: the run row stays as it was opened.
Die(c) ==
    /\ Busy(c)
    /\ faults < MaxFaults
    /\ faults' = faults + 1
    /\ at' = [at EXCEPT ![c] = Idle]
    /\ UNCHANGED <<listed, bytes, ledger, run, overtaken>>

Keep(c) ==
    \/ Look(c) \/ PutObject(c) \/ CreateFile(c) \/ FillFile(c) \/ RecordArtifact(c)

Read(c) ==
    \/ ReadHeld(c) \/ GetPage(c) \/ SeeAgain(c) \/ SkipHeld(c) \/ Fetch(c) \/ NotPermitted(c)
    \/ RecordSighting(c) \/ NextRow(c) \/ FinishPage(c)

Begin(c) ==
    \E store \in Stores, explicit \in BOOLEAN, first, last \in 0..LastPage :
        first <= last /\ OpenRun(c, store, explicit, first, last)

-----------------------------------------------------------------------------
(* Properties.                                                             *)

CollectorState ==
    [pc : {"idle", "held", "page", "look", "create", "fill", "record", "sight", "row",
           "collected"},
     run : 0..MaxRuns, store : Stores \cup {Null}, explicit : BOOLEAN, page : 0..LastPage,
     last : 0..LastPage, rows : Seq(Rows), docs : Seq(Documents),
     listing : PageBytes \cup {Null}, saving : Hashes \cup {Null}, held : SUBSET Documents,
     fetched : SUBSET Documents, fresh : BOOLEAN, counts : Counts, first : 0..LastPage,
     began : Nat]

\* Every variable holds a value of its kind.
CollectionTypeOK ==
    /\ listed \in Seq(Rows)
    /\ kept \subseteq Stores \X Hashes
    /\ whole \subseteq kept
    /\ artifact \subseteq Artifact
    /\ sighting \in Seq(Sighting)
    /\ run \in Seq(Run) /\ Len(run) <= MaxRuns
    /\ at \in [Collectors -> CollectorState]
    /\ faults \in 0..MaxFaults
    /\ overtaken \in BOOLEAN

\* An artefact's row is a promise (0037): the store it names holds all of its
\* bytes, whatever died, failed or ran beside the run that wrote it.
EvidenceIsHeld ==
    \A a \in artifact : <<a.storedIn, a.sha>> \in whole

\* A listing fact cites the page it was printed on (0040): the page a sighting
\* names is retained, shows the row the facts are of, and the row points to the
\* document that was fetched, whose own bytes are the artefact.
SightingCitesItsPage ==
    \A i \in DOMAIN sighting :
        LET s == sighting[i]
        IN  /\ IsArtifact(s.page) /\ IsArtifact(s.sha)
            /\ s.row \in ToSet(s.page.rows)
            /\ s.document \in ToSet(DocumentsOf[s.row])
            /\ s.sha = ContentOf[s.document]

AllHeld(row) == \A d \in ToSet(DocumentsOf[row]) : Held(d)
PageNow(i) == (i - 1) \div PageSize
PageWhenBegun(c, i) == (i - 1 - (Len(listed) - at[c].began)) \div PageSize

\* A backfill covers its range: when it ends having reported nothing failed and
\* nothing refused, every notice on its pages when it opened is held, unless so
\* many have been published since that its row has passed the last page.
BackfillCovers ==
    \A c \in Collectors :
        /\ at[c].pc = "collected"
        /\ at[c].explicit
        /\ at[c].counts.failed = 0
        /\ at[c].counts.notPermitted = 0
        => \A i \in DOMAIN listed :
              /\ i > Len(listed) - at[c].began
              /\ PageWhenBegun(c, i) >= at[c].first
              /\ PageNow(i) <= at[c].last
              => AllHeld(listed[i])

\* Where a nightly run stops early, it has missed nothing (collect.ts:19-21), as
\* long as every run so far read the listing alone, to its end and undisturbed.
EarlyStopMissesNothing ==
    \A c \in Collectors :
        at[c].pc = "collected" /\ at[c].listing # Null /\ faults = 0 /\ ~overtaken
        => \A i \in DOMAIN listed :
              PageNow(i) <= LastPage
              => \A d \in ToSet(DocumentsOf[listed[i]]) \ Refused : Held(d)

\* Every row points to a notice that no other row points to.
EveryRowHasItsOwn ==
    \A row \in Rows : \E d \in ToSet(DocumentsOf[row]) :
        \A other \in Rows \ {row} : d \notin ToSet(DocumentsOf[other])

\* What a run leaves out of its walk of the listing is held already: of the pages
\* it was told to read, and, if every row has a notice of its own, of those it
\* stopped short of.  (Without one, a page that shows only what an earlier page of
\* the same run brought in is taken for one that was collected before.)
ListingIsCovered == BackfillCovers /\ (EveryRowHasItsOwn => EarlyStopMissesNothing)
=============================================================================
