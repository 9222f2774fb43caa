--------------------------- MODULE ResourceCache ---------------------------
(***************************************************************************)
(* The browser's copy of what the API has said (apps/web/src/lib/          *)
(* resource-cache.ts) and the panels that read through it (lib/            *)
(* use-resource.ts).  A step is one task of the browser's event loop with  *)
(* the microtasks it leaves: an answer arriving with every continuation of *)
(* its promise, a render, the effects of a render.                         *)
(***************************************************************************)
EXTENDS Naturals, Sequences, FiniteSets, SequencesExt

CONSTANTS
    Urls, Panels,
    Capacities,   \* how many entries a cache may be built to keep
    MaxVersion,   \* bound on the ledger's versions
    MaxReads,     \* bound on the requests in flight
    Behind,       \* may an answer from past the browser's HTTP cache be old?
    Null

VARIABLES
    server,    \* the ledger's newest version
    flights,   \* the requests in flight
    capacity,  \* how many entries the cache was built to keep
    entries,   \* the cache, least recently used first
    highest,   \* the watermark
    panel      \* what each panel asks for, waits for and holds

vars == <<server, flights, capacity, entries, highest, panel>>

Versions == 0..MaxVersion
ReadIds == 1..MaxReads

\* `since` is the ledger's version when the request was last sent; `asked` tells a
\* request from the one before it.
Flight == [url : Urls, asked : {"first", "again", "anew"}, since : Versions]

\* An entry is waiting for its flight, or has settled on a version (flight 0).
Entry == [url : Urls, flight : 0..MaxReads, version : Versions \cup {Null}]

Value == [of : Urls, version : Versions]

\* `due`: the effect has to run, because the URL or the watermark changed.
\* `awaiting`: the flight whose result the panel will take.
Panel == [url : Urls \cup {Null}, due : BOOLEAN, awaiting : 0..MaxReads,
          held : [url : Urls \cup {Null}, value : Value \cup {Null}, failed : BOOLEAN]]

ASSUME ConstantsAssumption ==
    /\ Capacities \subseteq Nat \ {0}
    /\ Capacities # {}
    /\ MaxVersion \in Nat
    /\ MaxReads \in Nat
    /\ Behind \in BOOLEAN
    /\ IsFiniteSet(Urls)
    /\ Null \notin Urls \cup Versions \cup Value \cup Flight

-----------------------------------------------------------------------------
NothingHeld == [url |-> Null, value |-> Null, failed |-> FALSE]
Unused == [url |-> Null, due |-> FALSE, awaiting |-> 0, held |-> NothingHeld]

Init ==
    /\ server = 0
    /\ flights = [q \in ReadIds |-> Null]
    /\ capacity \in Capacities
    /\ entries = <<>>
    /\ highest = 0
    /\ panel = [p \in Panels |-> Unused]

\* A load commits.
Load ==
    /\ server < MaxVersion
    /\ server' = server + 1
    /\ UNCHANGED <<flights, capacity, entries, highest, panel>>

-----------------------------------------------------------------------------
(* The cache.                                                              *)

InFlight(q) == flights[q] # Null

EntryOf(u) == {e \in ToSet(entries) : e.url = u}

\* The entries are a Map: those that are left keep their order.
Without(es, gone) ==
    LET kept[n \in 0..Len(es)] ==
          IF n = 0 THEN <<>>
          ELSE IF es[n] \in gone THEN kept[n - 1] ELSE Append(kept[n - 1], es[n])
    IN  kept[Len(es)]

Except(e) == Without(entries, {e})

\* peek: a settled read of the URL, if one is held.
Peek(u) ==
    IF \E e \in EntryOf(u) : e.flight = 0
      THEN [of |-> u, version |-> (CHOOSE e \in EntryOf(u) : TRUE).version] ELSE Null

\* The oldest entries go, the one just asked for stays.
Trim(es) == IF Len(es) <= capacity THEN es ELSE SubSeq(es, Len(es) - capacity + 1, Len(es))

\* What the request may be told: the copy of any version kept by the browser or
\* the CDN, or, past them, what the ledger has been since it was asked.
MayAnswer(q) ==
    IF flights[q].asked = "first" \/ Behind THEN 0..server ELSE flights[q].since..server

\* Mutant of Accepted: an old answer never is.
Accepted_New(q, v) == v >= highest

\* An answer older than the watermark is asked for once more, and whatever comes
\* back then is accepted.
Accepted(q, v) == v >= highest \/ flights[q].asked # "first"

\* Mutant of Overtaken: a read still in flight is dropped too.
Overtaken_InFlight(e, v) == e.flight # 0 \/ e.version < v

\* What advance drops.
Overtaken(e, v) == e.flight = 0 /\ e.version < v

SettledOn(q, v) ==
    [i \in DOMAIN entries |->
       IF entries[i].flight = q
         THEN [url |-> entries[i].url, flight |-> 0, version |-> v] ELSE entries[i]]

\* Mutant of Told: the panels are not told.
Told_None(p, v) == panel[p]

\* A panel told of a new watermark reads again.  (One not yet subscribed has its
\* first effect to run.)
Told(p, v) ==
    [panel[p] EXCEPT !.due = @ \/ (v > highest /\ panel[p].url # Null)]

\* The promise the panel waits for is over; its result is kept under the URL it
\* was read for.
Delivered(p, q, value) ==
    LET told == Told(p, IF value = Null THEN 0 ELSE value.version)
    IN  IF panel[p].awaiting = q
          THEN [url |-> told.url, due |-> told.due, awaiting |-> 0,
                held |-> [url |-> flights[q].url, value |-> value, failed |-> value = Null]]
          ELSE told

\* The answer settles the entry, raises the watermark, and reaches the panels.
SettleRead(q, v) ==
    /\ flights' = [flights EXCEPT ![q] = Null]
    /\ highest' = IF v > highest THEN v ELSE highest
    /\ entries' = IF v > highest
                    THEN Without(SettledOn(q, v), {e \in ToSet(SettledOn(q, v)) : Overtaken(e, v)})
                    ELSE SettledOn(q, v)
    /\ panel' = [p \in Panels |-> Delivered(p, q, [of |-> flights[q].url, version |-> v])]

\* Another request for the same promise.
AskAgain(q) ==
    /\ flights' = [flights EXCEPT ![q] =
            [url |-> flights[q].url, since |-> server,
             asked |-> IF flights[q].asked = "again" THEN "anew" ELSE "again"]]
    /\ UNCHANGED <<entries, highest, panel>>

Answered(q, v) ==
    /\ InFlight(q)
    /\ v \in MayAnswer(q)
    /\ IF Accepted(q, v) THEN SettleRead(q, v) ELSE AskAgain(q)
    /\ UNCHANGED <<server, capacity>>

\* Mutant of Evicted: whatever is cached for the URL.
Evicted_Url(e, q) == e.url = flights[q].url

\* A failed read takes only its own entry with it.
Evicted(e, q) == e.flight = q

\* The request fails, is refused, or its answer names no version.
Failed(q) ==
    /\ InFlight(q)
    /\ flights' = [flights EXCEPT ![q] = Null]
    /\ entries' = Without(entries, {e \in ToSet(entries) : Evicted(e, q)})
    /\ panel' = [p \in Panels |-> Delivered(p, q, Null)]
    /\ UNCHANGED <<server, capacity, highest>>

-----------------------------------------------------------------------------
(* The panels.  React runs the effects of a render before the next one.    *)

\* A panel is put on the page.
Mount(p, u) ==
    /\ panel[p] = Unused
    /\ panel' = [panel EXCEPT ![p] =
                   [url |-> u, due |-> TRUE, awaiting |-> 0,
                    held |-> [url |-> u, value |-> Peek(u), failed |-> FALSE]]]
    /\ UNCHANGED <<server, flights, capacity, entries, highest>>

\* It is rendered for another URL.
Navigate(p, u) ==
    /\ panel[p].url # u
    /\ ~panel[p].due
    /\ panel' = [panel EXCEPT ![p] = [url |-> u, due |-> TRUE,
                                      awaiting |-> panel[p].awaiting, held |-> panel[p].held]]
    /\ UNCHANGED <<server, flights, capacity, entries, highest>>

UnmountPanel(p) ==
    /\ panel[p] # Unused
    /\ panel' = [panel EXCEPT ![p] = Unused]
    /\ UNCHANGED <<server, flights, capacity, entries, highest>>

\* What is held while the read is in flight: what this URL said before.
Meanwhile(p) == IF panel[p].held.url = panel[p].url THEN panel[p].held.value ELSE Null

Reading(p, q, value) ==
    panel' = [panel EXCEPT ![p] =
                [url |-> panel[p].url, due |-> FALSE, awaiting |-> q,
                 held |-> [url |-> panel[p].url, value |-> value, failed |-> FALSE]]]

\* Nothing to ask for.
EffectOfNothing(p) ==
    /\ panel[p].due
    /\ panel[p].url = Null
    /\ panel' = [panel EXCEPT ![p] = Unused]
    /\ UNCHANGED <<server, flights, capacity, entries, highest>>

\* A read of the URL, settled or in flight, is shared.
Shared(e, u) == e.url = u

\* The shared read becomes the most recently used.
EffectShares(p) ==
    /\ panel[p].due
    /\ \E e \in ToSet(entries) :
         /\ Shared(e, panel[p].url)
         /\ entries' = Append(Except(e), e)
         /\ Reading(p, e.flight,
                    IF e.flight = 0 THEN [of |-> e.url, version |-> e.version] ELSE Meanwhile(p))
    /\ UNCHANGED <<server, flights, capacity, highest>>

\* Otherwise a request is sent.
EffectAsks(p) ==
    LET u == panel[p].url
    IN  /\ panel[p].due
        /\ u # Null
        /\ \A e \in ToSet(entries) : ~Shared(e, u)
        /\ \E q \in ReadIds :
             /\ ~InFlight(q) /\ \A f \in 1..(q - 1) : InFlight(f)
             /\ flights' = [flights EXCEPT ![q] = [url |-> u, asked |-> "first", since |-> server]]
             /\ entries' = Trim(Append(entries, [url |-> u, flight |-> q, version |-> Null]))
             /\ Reading(p, q, Meanwhile(p))
        /\ UNCHANGED <<server, capacity, highest>>

\* What a render of the panel puts on the page.
ShownBy(p) ==
    IF panel[p].held.url = panel[p].url THEN panel[p].held.value
    ELSE IF panel[p].url = Null THEN Null
    ELSE Peek(panel[p].url)

Loading(p) ==
    /\ panel[p].url # Null
    /\ ShownBy(p) = Null
    /\ ~(panel[p].held.url = panel[p].url /\ panel[p].held.failed)

-----------------------------------------------------------------------------
PanelEffect(p) == EffectOfNothing(p) \/ EffectShares(p) \/ EffectAsks(p)

Answers(q) == Failed(q) \/ \E v \in Versions : Answered(q, v)

Next ==
    \/ Load
    \/ \E q \in ReadIds : Answers(q)
    \/ \E p \in Panels :
         \/ \E u \in Urls : Mount(p, u)
         \/ \E u \in Urls \cup {Null} : Navigate(p, u)
         \/ UnmountPanel(p)
         \/ PanelEffect(p)

\* A request is answered or fails, and React runs the effects it owes.
Fairness ==
    /\ \A q \in ReadIds : WF_vars(Answers(q))
    /\ \A p \in Panels : WF_vars(PanelEffect(p))

Spec == Init /\ [][Next]_vars /\ Fairness

-----------------------------------------------------------------------------
(* Properties.                                                             *)

(* The shapes of the state; the cache names a URL once and never holds more *)
(* than its capacity.                                                      *)
TypeOK ==
    /\ server \in Versions
    /\ flights \in [ReadIds -> Flight \cup {Null}]
    /\ capacity \in Capacities
    /\ entries \in Seq(Entry) /\ Len(entries) <= capacity
    /\ \A i, j \in DOMAIN entries : entries[i].url = entries[j].url => i = j
    /\ highest \in 0..server
    /\ panel \in [Panels -> Panel]

\* The cache is large enough to push nothing out.
HoldsEvery == Cardinality(Urls) <= capacity

(* Concurrent reads of one URL share one request, while the cache is large *)
(* enough to hold every URL: not even a version overtaking it, a failure   *)
(* or a panel leaving makes a second one.                                  *)
OneFlightPerUrl ==
    \A q, r \in ReadIds :
      HoldsEvery /\ InFlight(q) /\ InFlight(r) /\ flights[q].url = flights[r].url => q = r

\* Nothing in flight, every effect run: the page changes no more by itself.
AtRest == (\A q \in ReadIds : ~InFlight(q)) /\ (\A p \in Panels : ~panel[p].due)

(* What a panel shows was read for the URL it is rendered for, however late *)
(* an earlier read is answered and whatever was held before; and on a page  *)
(* at rest two panels of one URL show one answer, the one the cache holds:  *)
(* a version that overtakes an answer reaches every panel that shows it.    *)
SameUrlSameAnswer ==
    \A p \in Panels : ShownBy(p) # Null =>
      /\ ShownBy(p).of = panel[p].url
      /\ HoldsEvery /\ AtRest => ShownBy(p) = Peek(panel[p].url)

(* A page at rest shows one state of the ledger, not two side by side      *)
(* (resource-cache.ts, "Version-mixed pages").                             *)
PageIsOneVersion ==
    AtRest => \A p, q \in Panels :
                ShownBy(p) # Null /\ ShownBy(q) # Null => ShownBy(p).version = ShownBy(q).version

(* A settled answer leaves the cache only overtaken by a newer version, or *)
(* as the least recently used of a full cache: the failure of an earlier   *)
(* read of its URL, pushed out meanwhile, does not take it along.          *)
GoodAnswerIsKept ==
    [][\A e \in ToSet(entries) :
         e.flight = 0 /\ ~(\E x \in ToSet(entries') : x = e) =>
           \/ highest' > highest /\ e.version < highest'
           \/ Len(entries) = capacity /\ e = Head(entries) /\ flights' # flights
              /\ \E p \in Panels : panel[p].due /\ ~panel'[p].due]_vars

(* A panel that stays on a URL ends its loading, with an answer or with a  *)
(* failure, even when the server itself stays behind the watermark.  (With *)
(* HoldsEvery the bound on requests in flight keeps no effect waiting.)    *)
EveryPanelIsAnswered ==
    \A p \in Panels, u \in Urls :
      HoldsEvery /\ Loading(p) /\ panel[p].url = u ~> ~(Loading(p) /\ panel[p].url = u)

(* Panels of one page share requests and answers, and lose none: the three *)
(* facts above together.                                                   *)
AnswersAreShared == []OneFlightPerUrl /\ []SameUrlSameAnswer /\ GoodAnswerIsKept
=============================================================================
