--------------------------- MODULE CorrectionIntake ---------------------------
(***************************************************************************)
(* A reader's report of a data error: received by an instance of the web   *)
(* application (apps/web/src/app/api/v1/corrections/route.ts, server/      *)
(* rate-limit.ts, server/intake.ts), stored by the one function its        *)
(* connection may execute (migration 0046), and decided by reviewers       *)
(* (review/correction-requests.ts).  A report is named by the post that    *)
(* made it, and the reader's reference with it.                            *)
(***************************************************************************)
EXTENDS Integers, Sequences, FiniteSets

CONSTANTS
    Posts,
    Submissions, \* what a post may be, as far as the route looks at it
    Instances,   \* of the web application, each with one connection
    Ceiling,     \* reports an hour
    Hour,        \* in ticks
    MaxClock,    \* bound on the ticks
    Reviewers,
    Final,       \* the statuses that close a report, with a note and a name
    Notes,
    NoNote,
    MaxDecisions \* bound on the reviewers' decisions

VARIABLES
    clock,
    configured,  \* is there a credential for the intake?
    post,        \* how far each post is, and what its sender was told
    inbox,       \* correction_request
    superseded,  \* correction_request_history, for each of them
    decisions,   \* how many times a reviewer has decided
    made         \* the final decisions among them, for the properties

intake == <<clock, configured, post, inbox, superseded, decisions, made>>

ASSUME SubmissionsAssumption ==
    Submissions \subseteq [fromSite : BOOLEAN, large : BOOLEAN, internal : BOOLEAN,
                          readable : BOOLEAN, problems : SUBSET {"automated", "field"}]

ASSUME IntakeAssumption ==
    /\ IsFiniteSet(Posts)
    /\ IsFiniteSet(Instances) /\ Instances # {} /\ NoNote \notin Instances
    /\ Ceiling \in Nat /\ Hour \in Nat /\ MaxClock \in Nat /\ MaxDecisions \in Nat
    /\ {"none", "received", "reviewing"} \cap Final = {}

NoReport == [status |-> "none", receivedAt |-> 0, by |-> NoNote, at |-> 0, note |-> NoNote]

Held(p) == inbox[p] # NoReport

IntakeInit ==
    /\ clock = 0
    /\ configured \in BOOLEAN
    /\ post = [p \in Posts |-> [stage |-> "unsent", at |-> NoNote, now |-> 0, told |-> "nothing"]]
    /\ inbox = [p \in Posts |-> NoReport]
    /\ superseded = [p \in Posts |-> <<>>]
    /\ decisions = 0
    /\ made = {}

AnHourPasses ==
    /\ clock < MaxClock
    /\ clock' = clock + 1
    /\ UNCHANGED <<configured, post, inbox, superseded, decisions, made>>

-----------------------------------------------------------------------------
(* The route and the limit at the edge.                                    *)

\* The limit counts nobody of our own, and a check that fails lets everyone by.
IsLimited(s, verdict) == ~s.internal /\ verdict = "over"

Refusal(s, verdict) ==
    IF ~s.fromSite THEN "forbidden"
    ELSE IF s.large THEN "too large"
    ELSE IF IsLimited(s, verdict) THEN "rate limited"
    ELSE IF ~s.readable THEN "bad request"
    ELSE IF "automated" \in s.problems THEN "received, without a reference"
    ELSE IF s.problems # {} THEN "bad request"
    ELSE IF ~configured THEN "unavailable"
    ELSE "none"

TellPost(p, what) == [post[p] EXCEPT !.stage = "told", !.at = NoNote, !.now = 0, !.told = what]

ReceivePost(p, i, s, verdict) ==
    /\ post[p].stage = "unsent"
    /\ post' = [post EXCEPT ![p] =
                  IF Refusal(s, verdict) = "none" THEN [@ EXCEPT !.stage = "queued", !.at = i]
                  ELSE TellPost(p, Refusal(s, verdict))]
    /\ UNCHANGED <<clock, configured, inbox, superseded, decisions, made>>

-----------------------------------------------------------------------------
(* submit_correction, a transaction of its own.                            *)

\* What has been committed of the last hour.
Recent == Cardinality({p \in Posts : Held(p) /\ inbox[p].receivedAt > clock - Hour})

\* Mutant of IsPaused: one report more.
IsPaused_Above == Recent > Ceiling

IsPaused == Recent >= Ceiling

\* The count is read; whoever counts meanwhile sees the same.
CountReports(p) ==
    /\ post[p].stage = "queued"
    /\ \A q \in Posts : ~(post[q].stage = "storing" /\ post[q].at = post[p].at)
    /\ post' = [post EXCEPT ![p] = IF IsPaused THEN TellPost(p, "paused")
                                   ELSE [@ EXCEPT !.stage = "storing", !.now = clock]]
    /\ UNCHANGED <<clock, configured, inbox, superseded, decisions, made>>

\* It commits, and the answer arrives or is lost with the connection.
StoreReport(p, arrives) ==
    /\ post[p].stage = "storing"
    /\ inbox' = [inbox EXCEPT ![p] = [NoReport EXCEPT !.status = "received",
                                                      !.receivedAt = post[p].now]]
    /\ post' = [post EXCEPT ![p] = TellPost(p, IF arrives THEN "received" ELSE "error")]
    /\ UNCHANGED <<clock, configured, superseded, decisions, made>>

FailToStore(p) ==
    /\ post[p].stage \in {"queued", "storing"}
    /\ post' = [post EXCEPT ![p] = TellPost(p, "error")]
    /\ UNCHANGED <<clock, configured, inbox, superseded, decisions, made>>

-----------------------------------------------------------------------------
(* The reviewers.                                                          *)

\* Mutant of Supersedes: a decision of the same status replaces nothing.
Supersedes_Status(old, new) == old.status # new.status

Supersedes(old, new) ==
    <<old.status, old.by, old.at, old.note>> # <<new.status, new.by, new.at, new.note>>

\* A reviewer takes a report up, or decides it and says why; taking it up again
\* leaves who decided it before, and may replace what was noted.
DecideReport(r, p, status, note) ==
    LET final == status \in Final
        old == inbox[p]
        new == [old EXCEPT !.status = status,
                           !.by = IF final THEN r ELSE @,
                           !.at = IF final THEN decisions + 1 ELSE @,
                           !.note = IF note = NoNote THEN @ ELSE note]
    IN  /\ Held(p)
        /\ final => note # NoNote
        /\ decisions < MaxDecisions
        /\ decisions' = decisions + 1
        /\ inbox' = [inbox EXCEPT ![p] = new]
        /\ superseded' = IF Supersedes(old, new) THEN [superseded EXCEPT ![p] = Append(@, old)]
                         ELSE superseded
        /\ made' = IF final THEN made \cup {[of |-> p, as |-> new]} ELSE made
        /\ UNCHANGED <<clock, configured, post>>

-----------------------------------------------------------------------------
IntakeNext ==
    \/ AnHourPasses
    \/ \E p \in Posts :
          \/ \E i \in Instances, s \in Submissions, verdict \in {"over", "under", "unreachable"} :
                ReceivePost(p, i, s, verdict)
          \/ CountReports(p)
          \/ \E arrives \in BOOLEAN : StoreReport(p, arrives)
          \/ FailToStore(p)
          \/ \E r \in Reviewers, status \in Final \cup {"reviewing"}, note \in Notes \cup {NoNote} :
                DecideReport(r, p, status, note)

IntakeSpec == IntakeInit /\ [][IntakeNext]_intake

-----------------------------------------------------------------------------
(* Properties.                                                             *)

\* The reports of any hour pass the ceiling by no more than those that were
\* counted side by side, one for each other instance.  (0046: "a ceiling that
\* holds even if the edge rate limit is missing".)
CeilingNearlyHolds == Recent <= Ceiling + Cardinality(Instances) - 1

\* A reader who is given a reference has a report under it, and one who is told it
\* was not taken has none; whatever becomes of it, each final decision is in the
\* row or, once, among those it superseded, with its reviewer and its note.
EveryReportIsKept ==
    /\ \A p \in Posts :
          /\ post[p].told = "received" => Held(p)
          /\ Held(p) => post[p].told \in {"received", "error"}
    /\ \A d \in made :
          LET filed == {n \in DOMAIN superseded[d.of] : superseded[d.of][n] = d.as}
          IN  Cardinality(filed) + (IF inbox[d.of] = d.as THEN 1 ELSE 0) = 1

\* The inbox is bounded as it says, and loses nothing it took.
InboxHolds == CeilingNearlyHolds /\ EveryReportIsKept

\* 0046, "A decision says who made it and when": a note stands beside the name of
\* the reviewer who wrote it.
NoteIsItsReviewers ==
    \A p \in Posts : inbox[p].by # NoNote =>
        \E d \in made : d.of = p /\ d.as.by = inbox[p].by /\ d.as.note = inbox[p].note
=============================================================================
