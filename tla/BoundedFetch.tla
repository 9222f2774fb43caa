----------------------------- MODULE BoundedFetch -----------------------------
(***************************************************************************)
(* How the collectors ask a government host for something                  *)
(* (services/ingestion/src/net/fetch-with-limits.ts), and what each of     *)
(* them asks for: the agencies' polite client (maharashtra/http.ts), a     *)
(* portal's session (gepnic/fetch.ts), audit reports (cag/client.ts),      *)
(* budget exports (beams/client.ts) and map queries (osm/overpass.ts).     *)
(*                                                                         *)
(* The host may answer anything, drop the connection or say nothing.  Time *)
(* is counted in ticks, and does not pass over a timer that is due: a      *)
(* timer and an answer of the same tick come in either order.  Bodies are  *)
(* counted in chunks; the method after a redirect, cookies and validators  *)
(* are left out.                                                           *)
(***************************************************************************)
EXTENDS Robots, FiniteSets

CONSTANTS
    Callers,       \* collectors at work
    Paths,         \* of the host's pages
    Scenes,        \* the kinds of the collectors, the pages they are after and what
                   \* the host's robots.txt says, as they may be
    HeadersTicks,  \* headersTimeoutMs
    IdleTicks,     \* idleTimeoutMs
    TotalTicks,    \* totalTimeoutMs
    MaxBytes,
    Attempts,      \* of a request that may be repeated
    Backoff,       \* the pause before each repetition; the last goes on
    RetryAfter,    \* what a server may ask for
    MaxRetryAfter,
    MaxRedirects,
    Interval,      \* minIntervalMs
    SlotTries,     \* how often the status page is asked for a free slot
    SlotPause,     \* the longest wait it may ask for
    QueryTries     \* ATTEMPTS_PER_DISTRICT

\* The last pause is the longest that a client is set to make of itself.
ASSUME FetchAssumption ==
    /\ "robots.txt" \notin Callers
    /\ \A scene \in Scenes :
         /\ scene.errand \in [Callers -> {"polite", "portal", "report", "export", "query", "absent"}]
         /\ scene.page \in [Callers -> Paths]
         /\ scene.file \in Seq(Directives)
    /\ {HeadersTicks, IdleTicks, TotalTicks, MaxBytes, Attempts, MaxRetryAfter, MaxRedirects,
        Interval, SlotTries, SlotPause, QueryTries} \subseteq Nat
    /\ Attempts > 0
    /\ RetryAfter \subseteq Nat
    /\ Backoff \in Seq(Nat) /\ Backoff # <<>>
    /\ \A n \in DOMAIN Backoff : Backoff[n] <= Backoff[Len(Backoff)]

VARIABLES
    errand,  \* the kind of each collector
    page,    \* the page it is after
    file,    \* the host's robots.txt
    policy,  \* what the polite client knows of it
    queue,   \* the polite client's requests, in the order they were made
    since,   \* ticks since the last of them ended
    fetch,   \* fetchWithLimits, for each who may call it
    caller   \* how far each collector is

fetching == <<errand, page, file, policy, queue, since, fetch, caller>>

\* The policy is one more thing to fetch, and anyone's promise to wait for.
RobotsTxt == "robots.txt"
Fetchers == Callers \cup {RobotsTxt}

Elsewhere == "elsewhere"  \* another host, no location, or http after https
Unasked == [state |-> "unasked", says |-> [kind |-> "none", rules |-> <<>>]]

Off == [pc |-> "off", url |-> Elsewhere, at |-> Elsewhere, hops |-> 0, attempt |-> 0, elapsed |-> 0,
        silent |-> 0, received |-> 0, pause |-> 0, age |-> 0, status |-> "none"]

Steps == [polite |-> <<"page">>, portal |-> <<"robots", "landing">>,
          report |-> <<"listing", "report">>, export |-> <<"session", "export">>,
          query  |-> <<"slot", "query">>, absent |-> <<"nothing">>]

StepOf(c) == Steps[errand[c]][caller[c].step]

FetchInit ==
    /\ \E scene \in Scenes : errand = scene.errand /\ page = scene.page /\ file = scene.file
    /\ policy = Unasked
    /\ queue = <<>>
    /\ since = Interval
    /\ fetch = [f \in Fetchers |-> Off]
    /\ caller = [c \in Callers |-> [stage |-> IF errand[c] = "absent" THEN "ended" ELSE "ready",
                                    step |-> 1, asks |-> 1, tries |-> 1,
                                    rest |-> 0]]

-----------------------------------------------------------------------------
(* One bounded fetch.                                                      *)

Waiting(f) == fetch[f].pc \in {"headers", "body"}

\* A status page or a query, which is a POST, is asked for once.
TriesOf(f) == IF f \in Callers /\ StepOf(f) \in {"slot", "query"} THEN 1 ELSE Attempts

BackoffAt(attempt) == Backoff[IF attempt < Len(Backoff) THEN attempt ELSE Len(Backoff)]

Larger(x, y) == IF x > y THEN x ELSE y
Smaller(x, y) == IF x < y THEN x ELSE y

\* What is left of a fetch that is over.
Over(f, pc, status) ==
    [fetch EXCEPT ![f] = [Off EXCEPT !.pc = pc, !.url = fetch[f].url, !.at = fetch[f].at,
                                     !.status = status,
                                     !.received = Smaller(fetch[f].received, 1)]]

Fails(f) == Over(f, "failed", "none")

\* A failure that may pass.
MayPass(f, wait) ==
    IF fetch[f].attempt >= TriesOf(f) THEN Fails(f)
    ELSE [fetch EXCEPT ![f].pc = "pause", ![f].pause = wait]

BackedOff(f) == MayPass(f, BackoffAt(fetch[f].attempt))

Attempt(f, url, n) ==
    [fetch[f] EXCEPT !.pc = "headers", !.url = url, !.at = url, !.hops = 0, !.attempt = n,
                     !.elapsed = 0, !.silent = 0, !.received = 0, !.pause = 0, !.status = "none"]

Others == <<errand, page, file, policy, queue, since, caller>>

\* What each client refuses from the status line and the headers: a page that is
\* not there, a report that is not a PDF.
Accepts(f, status) ==
    CASE f \in Callers /\ StepOf(f) \in {"landing", "query"} -> status \in {"ok", "html"}
      [] f \in Callers /\ StepOf(f) = "report" -> status = "ok"
      [] OTHER -> TRUE

\* "busy" is one of 429, 502, 503 and 504; "html" is a 200 that is not the thing
\* itself.  On the last attempt a busy host's answer is an answer like another.
Answer(f, status, declared) ==
    /\ fetch[f].pc = "headers"
    /\ ~(status = "busy" /\ fetch[f].attempt < TriesOf(f))
    /\ fetch' = IF Accepts(f, status) /\ declared <= MaxBytes
                THEN [fetch EXCEPT ![f].pc = "body", ![f].status = status, ![f].silent = 0]
                ELSE Over(f, "failed", IF Accepts(f, status) THEN "none" ELSE status)
    /\ UNCHANGED Others

Busy(f, after) ==
    /\ fetch[f].pc = "headers"
    /\ fetch[f].attempt < TriesOf(f)
    /\ fetch' = MayPass(f, Smaller(Larger(after, BackoffAt(fetch[f].attempt)), MaxRetryAfter))
    /\ UNCHANGED Others

\* Followed within the host, under the attempt's deadline, so many times.
Redirect(f, to) ==
    /\ fetch[f].pc = "headers"
    /\ fetch' = IF fetch[f].hops >= MaxRedirects \/ to = Elsewhere THEN Fails(f)
                ELSE [fetch EXCEPT ![f].at = to, ![f].hops = @ + 1, ![f].silent = 0]
    /\ UNCHANGED Others

Chunk(f) ==
    /\ fetch[f].pc = "body"
    /\ fetch' = IF fetch[f].received = MaxBytes THEN Fails(f)
                ELSE [fetch EXCEPT ![f].received = @ + 1, ![f].silent = 0]
    /\ UNCHANGED Others

EndBody(f) ==
    /\ fetch[f].pc = "body"
    /\ fetch' = Over(f, "done", fetch[f].status)
    /\ UNCHANGED Others

\* A connection refused or dropped, before the headers or after: a TypeError.
Drop(f) ==
    /\ Waiting(f)
    /\ fetch' = BackedOff(f)
    /\ UNCHANGED Others

Host(f) ==
    \/ \E status \in {"ok", "html", "gone", "busy", "error"}, declared \in {0, MaxBytes + 1} :
          Answer(f, status, declared)
    \/ \E after \in RetryAfter : Busy(f, after)
    \/ \E to \in Paths \cup {Elsewhere} : Redirect(f, to)
    \/ Chunk(f) \/ EndBody(f) \/ Drop(f)

HeadersDue(f) == fetch[f].pc = "headers" /\ fetch[f].silent = HeadersTicks
IdleDue(f) == fetch[f].pc = "body" /\ fetch[f].silent = IdleTicks

\* Mutant of TotalDue: what has just arrived gives the whole more time.
TotalDue_Silent(f) == Waiting(f) /\ fetch[f].silent = TotalTicks

TotalDue(f) == Waiting(f) /\ fetch[f].elapsed = TotalTicks

\* No answer in time may pass; a body that stalled, or an exchange that never
\* ended, will do it again.
TimeOut(f) ==
    /\ \/ HeadersDue(f) /\ fetch' = BackedOff(f)
       \/ IdleDue(f) /\ fetch' = Fails(f)
       \/ TotalDue(f) /\ fetch' = Fails(f)
    /\ UNCHANGED Others

TryAgain(f) ==
    /\ fetch[f].pc = "pause"
    /\ fetch[f].pause = 0
    /\ fetch' = [fetch EXCEPT ![f] = Attempt(f, fetch[f].url, fetch[f].attempt + 1)]
    /\ UNCHANGED Others

Opened(f, url) == [fetch EXCEPT ![f] = [Attempt(f, url, 1) EXCEPT !.age = 0]]

\* Mutant of IsOver: nobody goes on from a failure.
IsOver_Answered(f) == fetch[f].pc = "done"

IsOver(f) == fetch[f].pc \in {"done", "failed"}

-----------------------------------------------------------------------------
(* The polite client.                                                      *)

Polite(f) == f = RobotsTxt \/ errand[f] = "polite"

\* Only the first to ask sends for the policy; all of them wait for it.
AskPolicy(c) ==
    /\ caller[c].stage = "ready"
    /\ Polite(c)
    /\ caller' = [caller EXCEPT ![c].stage = "policy"]
    /\ IF policy.state = "unasked"
       THEN policy' = [policy EXCEPT !.state = "asked"] /\ queue' = Append(queue, RobotsTxt)
       ELSE UNCHANGED <<policy, queue>>
    /\ UNCHANGED <<errand, page, file, since, fetch>>

\* A policy that could not be fetched fails everyone who asks, to the end of the run.
HearPolicy(c) ==
    /\ caller[c].stage = "policy"
    /\ policy.state \in {"known", "failed"}
    /\ IF policy.state = "known" /\ MayFetch(policy.says, page[c])
       THEN queue' = Append(queue, c) /\ caller' = [caller EXCEPT ![c].stage = "queued"]
       ELSE queue' = queue /\ caller' = [caller EXCEPT ![c].stage = "ended"]
    /\ UNCHANGED <<errand, page, file, policy, since, fetch>>

\* When the request before has ended, well or not, and the interval has passed.
SendNext ==
    /\ queue # <<>>
    /\ fetch[Head(queue)].pc = "off"
    /\ since >= Interval
    /\ fetch' = Opened(Head(queue), IF Head(queue) = RobotsTxt THEN RobotsTxt ELSE page[Head(queue)])
    /\ UNCHANGED Others

SettlePolicy ==
    /\ IsOver(RobotsTxt)
    /\ policy.state = "asked"
    /\ policy' = IF fetch[RobotsTxt].pc = "failed" THEN [policy EXCEPT !.state = "failed"]
                 ELSE [state |-> "known", says |-> ReadRobots(fetch[RobotsTxt].status, file)]
    /\ queue' = Tail(queue)
    /\ since' = 0
    /\ fetch' = [fetch EXCEPT ![RobotsTxt] = [Off EXCEPT !.pc = "done", !.status = fetch[RobotsTxt].status]]
    /\ UNCHANGED <<errand, page, file, caller>>

\* The URL a response carries is the one that was asked for, so that its path is
\* found permitted again whatever was read.
UrlOf(f) == fetch[f].url

HandOut(c) ==
    /\ caller[c].stage = "queued"
    /\ IsOver(c)
    /\ queue' = Tail(queue)
    /\ since' = 0
    /\ caller' = [caller EXCEPT ![c].stage =
                    IF /\ fetch[c].pc = "done"
                       /\ UrlOf(c) # page[c] => MayFetch(policy.says, UrlOf(c))
                    THEN "got" ELSE "ended"]
    /\ fetch' = [fetch EXCEPT ![c] = [Off EXCEPT !.pc = "done", !.at = fetch[c].at]]
    /\ UNCHANGED <<errand, page, file, policy>>

-----------------------------------------------------------------------------
(* The others, one request after another on their own.                     *)

Begin(c) ==
    /\ caller[c].stage = "ready"
    /\ ~Polite(c)
    /\ caller[c].rest = 0
    /\ fetch' = Opened(c, page[c])
    /\ caller' = [caller EXCEPT ![c].stage = "asking"]
    /\ UNCHANGED <<errand, page, file, policy, queue, since>>

\* An answer that was accepted and is still no use.
Usable(c) ==
    CASE StepOf(c) = "robots" -> ~RefusesEverything(ReadRobots(fetch[c].status, file))
      [] StepOf(c) \in {"listing", "session"} -> fetch[c].status \in {"ok", "html"}
      [] StepOf(c) = "export" -> fetch[c].status \in {"ok", "html"} /\ fetch[c].received > 0
      [] OTHER -> TRUE

\* The next request, or the one before again, after a rest.
Moves(c, next) ==
    /\ caller' = [caller EXCEPT ![c] = next]
    /\ fetch' = [fetch EXCEPT ![c] = Off]

Stops(c, stage) == caller' = [caller EXCEPT ![c].stage = stage] /\ UNCHANGED fetch

\* 429 or a server's error; of the other errors some are the server's.
MayDecline(c) == fetch[c].pc = "failed" /\ fetch[c].status \in {"busy", "error"}
MustDecline(c) == fetch[c].pc = "failed" /\ fetch[c].status = "busy"

Proceed(c) ==
    /\ caller[c].stage = "asking"
    /\ IsOver(c)
    /\ StepOf(c) \notin {"slot", "query"}
    /\ IF ~(fetch[c].pc = "done" /\ Usable(c)) THEN Stops(c, "ended")
       ELSE IF caller[c].step = 2 THEN Stops(c, "got")
       ELSE Moves(c, [caller[c] EXCEPT !.stage = "ready", !.step = 2])
    /\ UNCHANGED <<errand, page, file, policy, queue, since>>

\* A slot is free, or it is not yet known to be; after so many waits the query is
\* sent all the same.
ReadSlots(c, wait) ==
    /\ caller[c].stage = "asking"
    /\ IsOver(c)
    /\ StepOf(c) = "slot"
    /\ wait = 0 => fetch[c].pc = "done" /\ fetch[c].status \in {"ok", "html"}
    /\ Moves(c, [caller[c] EXCEPT !.stage = "ready", !.rest = wait, !.asks = @ + 1,
                                  !.step = IF wait = 0 \/ @ = 2 \/ caller[c].asks = SlotTries
                                           THEN 2 ELSE 1])
    /\ UNCHANGED <<errand, page, file, policy, queue, since>>

\* A query the service declines is asked again, for a slot first.
ReadQuery(c) ==
    /\ caller[c].stage = "asking"
    /\ IsOver(c)
    /\ StepOf(c) = "query"
    /\ \/ fetch[c].pc = "done" /\ Stops(c, "got")
       \/ fetch[c].pc = "failed" /\ ~MustDecline(c) /\ Stops(c, "ended")
       \/ MayDecline(c) /\ IF caller[c].tries = QueryTries THEN Stops(c, "ended")
                           ELSE Moves(c, [stage |-> "ready", step |-> 1, asks |-> 1,
                                          tries |-> caller[c].tries + 1, rest |-> SlotPause])
    /\ UNCHANGED <<errand, page, file, policy, queue, since>>

-----------------------------------------------------------------------------
(* Time, and the whole.                                                    *)

IsDue(f) == \/ HeadersDue(f) \/ IdleDue(f) \/ TotalDue(f)
            \/ fetch[f].pc = "pause" /\ fetch[f].pause = 0

Tick ==
    /\ \A f \in Fetchers : ~IsDue(f)
    /\ fetch' = [f \in Fetchers |->
                    IF Waiting(f) THEN [fetch[f] EXCEPT !.elapsed = @ + 1, !.silent = @ + 1,
                                                        !.age = @ + 1]
                    ELSE IF fetch[f].pc = "pause" THEN [fetch[f] EXCEPT !.pause = @ - 1,
                                                                        !.age = @ + 1]
                    ELSE fetch[f]]
    /\ since' = Smaller(since + 1, Interval)
    /\ caller' = [c \in Callers |-> [caller[c] EXCEPT !.rest = Larger(@ - 1, 0)]]
    /\ UNCHANGED <<errand, page, file, policy, queue>>

\* What the collectors do of themselves.
Collect ==
    \/ \E f \in Fetchers : TimeOut(f) \/ TryAgain(f)
    \/ SendNext \/ SettlePolicy
    \/ \E c \in Callers :
          \/ AskPolicy(c) \/ HearPolicy(c) \/ HandOut(c)
          \/ Begin(c) \/ Proceed(c) \/ ReadQuery(c)
          \/ \E wait \in {0, SlotPause} : ReadSlots(c, wait)
    \/ Tick

FetchNext == Collect \/ \E f \in Fetchers : Host(f)

\* Timers fire and promises settle; the host owes nothing.
FetchSpec == FetchInit /\ [][FetchNext]_fetching /\ WF_fetching(Collect)

-----------------------------------------------------------------------------
(* Properties.                                                             *)

Allowance(f) == TriesOf(f) * TotalTicks
                + (TriesOf(f) - 1) * Larger(Backoff[Len(Backoff)], MaxRetryAfter)

\* However the host trickles, moves, drops and asks to be tried later, a fetch is
\* over within the time its attempts and its pauses are allowed.
EndsInTime == \A f \in Fetchers : fetch[f].age <= Allowance(f)

\* Whatever the host does, each collector gets its answer or its failure, though
\* others failed before it in the queue or wait for the same policy.
EveryErrandEnds == \A c \in Callers : <>(caller[c].stage \in {"got", "ended"})

SaysYes(path) ==
    \/ fetch[RobotsTxt].status = "gone"
    \/ fetch[RobotsTxt].status = "ok" /\ Permits(file, path)

\* An agency's page is asked for only when its host's policy was read and permits
\* it, and if it does; and the host is never asked two things at once.
HostIsHeeded ==
    /\ \A c \in Callers : errand[c] = "polite" =>
          /\ fetch[c].pc # "off" => policy.state = "known" /\ SaysYes(page[c])
          /\ caller[c].stage = "ended" /\ fetch[c].pc = "off" =>
                policy.state = "failed" \/ ~SaysYes(page[c])
    /\ \A f, g \in Fetchers :
          Polite(f) /\ Polite(g) /\ fetch[f].pc \notin {"off", "done", "failed"}
          /\ fetch[g].pc \notin {"off", "done", "failed"} => f = g

\* maharashtra/http.ts: "a path the policy refuses is never fetched, not fetched
\* and discarded".
RefusedIsNeverFetched ==
    \A c \in Callers :
        errand[c] = "polite" /\ fetch[c].pc # "off" => SaysYes(fetch[c].at)

\* A fetch keeps to its time and to its host's wishes at once: an answer to try
\* later, to go elsewhere or to stay away is heeded within the allowance.
FetchesKeepWithin == EndsInTime /\ HostIsHeeded
=============================================================================
