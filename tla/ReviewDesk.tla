----------------------------- MODULE ReviewDesk -----------------------------
(***************************************************************************)
(* The review terminal (services/ingestion/src/review): which candidates a *)
(* session offers, in which partition each falls, and what a key, a page   *)
(* of them or a bulk command decides.  A session reads the amounts claimed *)
(* and its queue once and then writes one decision at a time, while other  *)
(* reviewers and the parser's loader go on.  What becomes of a decision    *)
(* afterwards is FactReview's.                                             *)
(***************************************************************************)
EXTENDS Naturals, Sequences, FiniteSets
LOCAL INSTANCE FiniteSetsExt

CONSTANTS
    Candidates,  \* ids of facts read from documents
    PlaceIn,     \* document and page of each
    KindOf,      \* "money" or "place"
    ValueRead,   \* its normalised value, or NoReading
    Evidence,    \* the amounts its sentence states: [paise, mark, criterion]
    Held0,       \* the candidates held at first
    Desks,       \* reviewers at work
    Commands,    \* what a session is started with
    Lines,       \* candidates on a page of a batch
    DefaultLimit, PartitionLimit, \* 500 and 100_000
    MaxSittings, MaxLoaderSteps, NoReading

ASSUME CandidatesAreIds ==
    /\ Candidates \subseteq Nat \ {0} /\ IsFiniteSet(Candidates)
    /\ PlaceIn \in [Candidates -> Nat \X Nat]
    /\ \A f \in Candidates : DOMAIN Evidence[f] = 1..Len(Evidence[f])
    /\ {Lines, DefaultLimit, PartitionLimit} \subseteq Nat

DecidedAs == {"verified", "rejected", "corrected"}

ASSUME CommandsAreTyped ==
    Commands \subseteq [mode : {"single", "batch", "bulk", "corrections", "places"},
                        kind : {"any", "money", "place"}, document : Nat, ids : SUBSET Candidates,
                        only : {"all", "criterion", "no_value", "mismatch", "confirmed",
                                "confirmed_in_context", "ambiguous"},
                        limit : Nat, decision : DecidedAs, note : STRING]

VARIABLES
    standing,  \* document_fact.verification_status, by id
    session,   \* what each reviewer's process holds
    glanced,   \* the facts verified by one key for a page
    sittings, loaderSteps

desks == <<standing, session, glanced, sittings, loaderSteps>>

Stored(f) == standing[f] \in DecidedAs \cup {"unverified"}

(***************************************************************************)
(* Reading a candidate against its own evidence.                           *)
(***************************************************************************)

Stated(f) == {Evidence[f][i].paise : i \in DOMAIN Evidence[f]}

\* claimedAmountsByPage: whatever has been decided of the facts.
ClaimedByPage_Undecided(document) ==
    [page \in {PlaceIn[f] : f \in Candidates} |->
        {ValueRead[f] : f \in {g \in Candidates :
            /\ standing[g] = "unverified" /\ KindOf[g] = "money" /\ PlaceIn[g] = page
            /\ document \in {0, PlaceIn[g][1]}}} \ {NoReading}]

ClaimedByPage_Document(document) ==
    [page \in {PlaceIn[f] : f \in Candidates} |->
        {ValueRead[f] : f \in {g \in Candidates :
            /\ Stored(g) /\ KindOf[g] = "money" /\ PlaceIn[g][1] = page[1]
            /\ document \in {0, PlaceIn[g][1]}}} \ {NoReading}]

ClaimedByPage(document) ==
    [page \in {PlaceIn[f] : f \in Candidates} |->
        {ValueRead[f] : f \in {g \in Candidates :
            /\ Stored(g) /\ KindOf[g] = "money" /\ PlaceIn[g] = page
            /\ document \in {0, PlaceIn[g][1]}}} \ {NoReading}]

\* selfCheck, with what is accounted for on the page.
SelfCheck(f, claimed) ==
    IF ValueRead[f] = NoReading THEN "no_value"
    ELSE IF ValueRead[f] \notin Stated(f) THEN "mismatch"
    ELSE IF Len(Evidence[f]) = 1 THEN "confirmed"
    ELSE IF Stated(f) \ {ValueRead[f]} \subseteq claimed[PlaceIn[f]]
         THEN "confirmed_in_context" ELSE "ambiguous"

\* thresholdPhrase: criterion words about the first statement of the amount
\* under the rupee mark the parser prints.
Governed(f) ==
    LET said == {i \in DOMAIN Evidence[f] :
                    Evidence[f][i].mark = "rupee" /\ Evidence[f][i].paise = ValueRead[f]}
    IN  said # {} /\ Evidence[f][Min(said)].criterion

Batchable == {"confirmed", "confirmed_in_context"}

(***************************************************************************)
(* The queue.                                                              *)
(***************************************************************************)

Before(f, g) ==
    \/ PlaceIn[f][1] < PlaceIn[g][1]
    \/ PlaceIn[f][1] = PlaceIn[g][1] /\ PlaceIn[f][2] < PlaceIn[g][2]
    \/ PlaceIn[f] = PlaceIn[g] /\ f < g

Queued(set) ==
    [n \in 1..Cardinality(set) |->
        CHOOSE f \in set : Cardinality({g \in set : Before(g, f)}) = n - 1]

FirstOf(queue, n) == SubSeq(queue, 1, IF n < Len(queue) THEN n ELSE Len(queue))

\* Those of a queue that are in a set, in the queue's order.
Among(queue, set) ==
    LET kept[n \in 0..Len(queue)] ==
            IF n = 0 THEN <<>>
            ELSE IF queue[n] \in set THEN Append(kept[n - 1], queue[n]) ELSE kept[n - 1]
    IN  kept[Len(queue)]

\* pendingReview: the undecided that match, in the order of the reports.
PendingReview(o, limit) ==
    LET matching == {f \in Candidates :
            /\ standing[f] = "unverified"
            /\ o.kind \in {"any", KindOf[f]}
            /\ o.document \in {0, PlaceIn[f][1]}
            /\ o.ids = {} \/ f \in o.ids}
    IN  FirstOf(Queued(matching), limit)

\* What the database is asked for: a named set whole, a partition unlimited.
QueryLimit(o) ==
    IF o.ids # {} THEN Cardinality(o.ids)
    ELSE IF o.only # "all" THEN PartitionLimit
    ELSE IF o.limit # 0 THEN o.limit ELSE DefaultLimit

\* buildQueue: a criterion never enters a partition a page is accepted from.
InPartition(f, only, claimed) ==
    \/ only = "all"
    \/ only = "criterion" /\ Governed(f)
    \/ only = SelfCheck(f, claimed) /\ ~(only \in Batchable /\ Governed(f))

BuildQueue(o, claimed) ==
    LET matching == Among(PendingReview(o, QueryLimit(o)),
                          {f \in Candidates : InPartition(f, o.only, claimed)})
    IN  IF o.limit = 0 THEN matching ELSE FirstOf(matching, o.limit)

\* groupByPlace: the rows of a reading that name one place.
GroupByPlace(queue, place) == Among(queue, {f \in Candidates : ValueRead[f] = place})

(***************************************************************************)
(* A session.                                                              *)
(***************************************************************************)

NoSession == [stage |-> "away"]

\* bulkDecision, batchPartition, prepareCorrections: what is refused whole,
\* before anything is shown or decided.
IsRefused(o) ==
    \/ o.mode = "corrections" /\ o.note = ""
    \/ o.mode = "bulk" /\ (o.decision = "corrected" \/ o.note = "" \/ (o.ids = {} /\ o.only = "all"))
    \/ o.mode = "batch" /\ o.only \notin Batchable

DesksInit ==
    /\ standing = [f \in Candidates |-> IF f \in Held0 THEN "unverified" ELSE "absent"]
    /\ session = [d \in Desks |-> NoSession]
    /\ glanced = {}
    /\ sittings = 0 /\ loaderSteps = 0

Become(d, s) == session' = [session EXCEPT ![d] = s]

\* The first query of a session: the amounts that are accounted for.
Sit(d, o) ==
    /\ session[d].stage \in {"away", "done"} /\ sittings < MaxSittings
    /\ o.ids \subseteq {f \in Candidates : standing[f] # "absent"}
    /\ sittings' = sittings + 1
    /\ Become(d, [stage |-> "reading", command |-> o, claimed |-> ClaimedByPage(o.document),
                  queue |-> <<>>, flagged |-> <<>>, todo |-> <<>>, failed |-> {}])
    /\ UNCHANGED <<standing, glanced, loaderSteps>>

\* The second: the queue; a misuse or an empty queue ends it here.
ReadQueue(d) ==
    /\ session[d].stage = "reading"
    /\ LET s == session[d]
           o == s.command
           queue == IF o.mode = "corrections" THEN Queued(o.ids)
                    ELSE BuildQueue(o, s.claimed)
       IN  IF queue = <<>> \/ IsRefused(o)
           THEN Become(d, NoSession)
           ELSE Become(d, [s EXCEPT
                   !.stage = "open",
                   !.queue = IF o.mode \in {"bulk", "corrections"} THEN <<>> ELSE queue,
                   !.todo = IF o.mode \in {"bulk", "corrections"}
                            THEN [i \in DOMAIN queue |-> <<queue[i], o.decision, FALSE>>]
                            ELSE <<>>])
    /\ UNCHANGED <<standing, glanced, sittings, loaderSteps>>

IsAsking(s) == s.stage = "open" /\ s.todo = <<>>

\* reviewOne: three keys decide; any other, or no value for a correction, skips.
AnswerOne(d, key) ==
    LET s == session[d]
        shown == IF s.flagged # <<>> THEN Head(s.flagged) ELSE Head(s.queue)
    IN  /\ IsAsking(s)
        /\ s.flagged # <<>> \/ (s.command.mode = "single" /\ s.queue # <<>>)
        /\ Become(d, [s EXCEPT
              !.flagged = <<>>,
              !.queue = IF s.flagged # <<>> THEN s.queue ELSE Tail(s.queue),
              !.todo = IF key \in DecidedAs THEN << <<shown, key, FALSE>> >> ELSE <<>>])
        /\ UNCHANGED <<standing, glanced, sittings, loaderSteps>>

\* reviewBatch: "a" verifies the page, a number takes one out and leaves the rest.
AnswerPage(d, key) ==
    LET s == session[d]
        page == FirstOf(s.queue, Lines)
    IN  /\ IsAsking(s) /\ s.flagged = <<>> /\ s.command.mode = "batch" /\ s.queue # <<>>
        /\ Become(d, [s EXCEPT
              !.queue = SubSeq(s.queue, Len(page) + 1, Len(s.queue)),
              !.flagged = IF key \in DOMAIN page THEN <<page[key]>> ELSE <<>>,
              !.todo = IF key = 0 THEN [i \in DOMAIN page |-> <<page[i], "verified", TRUE>>]
                       ELSE <<>>])
        /\ UNCHANGED <<standing, glanced, sittings, loaderSteps>>

\* places-cli: one key for every page that names the place.
AnswerPlace(d, key) ==
    LET s == session[d]
        group == GroupByPlace(s.queue, ValueRead[Head(s.queue)])
    IN  /\ IsAsking(s) /\ s.command.mode = "places" /\ s.queue # <<>>
        /\ Become(d, [s EXCEPT
              !.queue = Among(s.queue, {f \in Candidates : ValueRead[f] # ValueRead[group[1]]}),
              !.todo = IF key \in {"verified", "rejected"}
                       THEN [i \in DOMAIN group |-> <<group[i], key, FALSE>>] ELSE <<>>])
        /\ UNCHANGED <<standing, glanced, sittings, loaderSteps>>

\* apply, recordDecision: one statement, which leaves a decided or deleted row.
RecordNext(d) ==
    LET s == session[d]
        f == Head(s.todo)[1]
    IN  /\ s.stage = "open" /\ s.todo # <<>>
        /\ Become(d, [s EXCEPT !.todo = Tail(@)])
        /\ standing' = IF standing[f] = "unverified"
                       THEN [standing EXCEPT ![f] = Head(s.todo)[2]] ELSE standing
        /\ glanced' = IF Head(s.todo)[3] /\ standing[f] = "unverified"
                      THEN glanced \cup {f} ELSE glanced
        /\ UNCHANGED <<sittings, loaderSteps>>

\* A statement the database refuses is reported and passed over; in places it
\* ends the session.
FailToRecord(d) ==
    LET s == session[d]
    IN  /\ s.stage = "open" /\ s.todo # <<>>
        /\ Become(d, IF s.command.mode = "places" THEN NoSession
                     ELSE [s EXCEPT !.todo = Tail(@), !.failed = @ \cup {Head(s.todo)[1]}])
        /\ UNCHANGED <<standing, glanced, sittings, loaderSteps>>

Finish(d) ==
    /\ IsAsking(session[d]) /\ session[d].flagged = <<>> /\ session[d].queue = <<>>
    /\ Become(d, [session[d] EXCEPT !.stage = "done"])
    /\ UNCHANGED <<standing, glanced, sittings, loaderSteps>>

\* "q", a closed input, or the process killed between two decisions.
Leave(d) ==
    /\ session[d].stage \in {"reading", "open"}
    /\ Become(d, NoSession)
    /\ UNCHANGED <<standing, glanced, sittings, loaderSteps>>

\* The loader inserts a candidate, or deletes an undecided one.
ReloadCandidate(f) ==
    /\ loaderSteps < MaxLoaderSteps
    /\ standing[f] \in {"absent", "unverified"}
    /\ standing' = [standing EXCEPT ![f] = IF @ = "absent" THEN "unverified" ELSE "retired"]
    /\ loaderSteps' = loaderSteps + 1
    /\ UNCHANGED <<session, glanced, sittings>>

DesksNext ==
    \/ \E d \in Desks :
          \/ \E o \in Commands : Sit(d, o)
          \/ ReadQueue(d)
          \/ \E key \in DecidedAs \cup {"enter"} : AnswerOne(d, key)
          \/ \E key \in 0..(Lines + 1) : AnswerPage(d, key)
          \/ \E key \in {"verified", "rejected", "enter"} : AnswerPlace(d, key)
          \/ RecordNext(d) \/ FailToRecord(d) \/ Finish(d) \/ Leave(d)
    \/ \E f \in Candidates : ReloadCandidate(f)

DesksSpec == DesksInit /\ [][DesksNext]_desks

(***************************************************************************)
(* Properties.                                                             *)
(***************************************************************************)

\* A page accepted with one key asks no question a line cannot carry
\* (review/cli.ts:347-360, ADR-024, ADR-025): each figure verified so is stated
\* by its evidence, not first as a cut-off, and every other amount stated there
\* is, or was when the reviewer sat down, the value of a fact of the same page.
GlanceIsWarranted ==
    \A f \in glanced :
        /\ ValueRead[f] \in Stated(f) /\ ~Governed(f)
        /\ \A amount \in Stated(f) : \E g \in Candidates :
              standing[g] # "absent" /\ PlaceIn[g] = PlaceIn[f] /\ ValueRead[g] = amount

\* A set named by ids, and narrowed by nothing else the command can say.
NamesASet(o) ==
    \/ o.mode = "corrections"
    \/ o.mode = "bulk" /\ o.ids # {} /\ o.only = "all" /\ o.kind = "any" /\ o.document = 0 /\ o.limit = 0

\* A set named by ids is decided whole (cli.ts:303-308: "asking for 824 named
\* facts decided the first 500 and reported success"): a session that ended
\* left none of them undecided except those it said it could not record.
NamedSetIsWhole ==
    \A d \in Desks : session[d].stage = "done" /\ NamesASet(session[d].command) =>
        \A f \in session[d].command.ids : standing[f] = "unverified" => f \in session[d].failed

DecisionsAreWarranted == GlanceIsWarranted /\ NamedSetIsWhole

\* The partition of a candidate does not depend on how far the review is
\* (queue.ts:139-147): no decision moves a candidate into another.
PartitionsHold ==
    [][standing' # standing /\ loaderSteps' = loaderSteps =>
        \A f \in Candidates : SelfCheck(f, ClaimedByPage(0)) = SelfCheck(f, ClaimedByPage(0))']_desks

\* A decision taken many at a time rests on what each candidate shows, and on
\* nothing decided before it.
ReviewsAreWarranted == [][DecisionsAreWarranted']_desks /\ PartitionsHold
=============================================================================
