------------------------------ MODULE TenderViews ------------------------------
(***************************************************************************)
(* What a reader is told of the tenders held: the counts, lists and records *)
(* the repository reads (tender.repository.ts), what of them may be shown   *)
(* in a deployment (source-licence.ts, publishable.ts), and what the panel  *)
(* says of them (data-state.ts, tenders.tsx).                               *)
(***************************************************************************)
EXTENDS Naturals, Sequences, FiniteSets, SequencesExt

CONSTANTS
    Absent,             \* no value, in any of the places there may be none
    Awaited, Missed,    \* what a request comes to before its answer, or instead
    Adverts,            \* tenders there are to be held
    EPortalOf,          \* tender -> the portal it was read from
    IssuerOf,           \* tender -> the department it states, or Absent
    ClosesAt,           \* tender -> when it closes, or Absent
    RankOf,             \* tender -> its place by closing date and title
    UnitsOf,            \* state -> its districts
    StateOfPortal,      \* portal -> state
    ListCap,            \* the limit a list has whatever is asked for
    StaleAfter,         \* STALE_AFTER_HOURS: how long a success stays current
    Questions,          \* what readers ask: of a state, of one of its districts or the unplaced
    MayGrant,           \* grants that may be recorded: a department, or "all"
    Deployments,        \* environments the site may run in: see InternalPreview
    LastHour            \* bound: the last value of the hour

\* What stands for no value is no department, hour or window and none of the page's
\* sentences.
ASSUME ViewsAssumption ==
    /\ Absent \notin MayGrant \cup {"unavailable", "not_collected", "not_checked"}
    /\ Absent \notin Nat \cup [lastSuccess : Nat \cup {Absent}, attempted : BOOLEAN]
    /\ IsFiniteSet(Adverts)
    /\ StaleAfter \in Nat
    /\ LastHour \in Nat
    /\ \A q \in Questions :
          /\ q.state \in DOMAIN UnitsOf \cup {Absent}
          /\ q.unit # Absent => /\ q.state # Absent /\ q.unit \in UnitsOf[q.state]
                               /\ ~q.unplaced

\* A state and a district are places, and a district has one parent.
ASSUME DistrictsAssumption ==
    /\ Absent \notin DOMAIN UnitsOf
    /\ \A s, t \in DOMAIN UnitsOf : /\ Absent \notin UnitsOf[s]
                                    /\ s # t => UnitsOf[s] \cap UnitsOf[t] = {}

Territories == DOMAIN UnitsOf
Units == UNION {UnitsOf[s] : s \in Territories}
EPortals == DOMAIN StateOfPortal
Issuers == {IssuerOf[t] : t \in Adverts} \ {Absent}

VARIABLES
    rows,               \* tender held -> its district, or Absent
    windows,            \* tender_collection_window: portal -> its window, or Absent
    hour,
    deployment,
    grants,             \* permissions recorded
    question,           \* [state, unit, issuer, unplaced]: what the reader looks at
    overview,           \* the answer to the overview request, Awaited or Missed
    list                \* the answer to the list request, or none yet

tenderviews == <<rows, windows, hour, deployment, grants, question, overview, list>>

HeldAdverts == DOMAIN rows

\* last_success_at, or Absent; and whether the portal was last checked later than
\* that, or without any.
Window == [lastSuccess : (0..LastHour) \cup {Absent}, attempted : BOOLEAN]

----------------------------------------------------------------------------
(* tender.repository.ts *)

\* STILL_OPEN: a tender that states no closing date is open.
StillOpen(t) == ClosesAt[t] = Absent \/ ClosesAt[t] > hour

\* tenderStatus: it says neither, of a tender without a date.
StatusOf(t) ==
    IF ClosesAt[t] = Absent THEN "unknown"
    ELSE IF ClosesAt[t] > hour THEN "open" ELSE "closed"

\* FROM_STATE_PORTAL: a window ties a portal to its state.
FromPortalOf(t, s) ==
    s = Absent \/ (windows[EPortalOf[t]] # Absent /\ StateOfPortal[EPortalOf[t]] = s)

OfIssuer(t, issuer) == issuer = Absent \/ IssuerOf[t] = issuer

\* countsByDistrict: by where the office is placed, never by the portal; a
\* district without any is absent.
CountsByDistrict(issuer, s) ==
    LET counted == {t \in HeldAdverts : /\ StillOpen(t) /\ OfIssuer(t, issuer) /\ rows[t] # Absent
                                        /\ s = Absent \/ rows[t] \in UnitsOf[s]}
    IN  [u \in {rows[t] : t \in counted} |-> Cardinality({t \in counted : rows[t] = u})]

\* The sum of the counts: as many as are counted under one head or another.
Total(counts) == Cardinality(UNION {{u} \X (1..counts[u]) : u \in DOMAIN counts})

DepartmentsOf(s) ==
    LET advertised == {t \in HeldAdverts : StillOpen(t) /\ IssuerOf[t] # Absent /\ FromPortalOf(t, s)}
    IN  [d \in {IssuerOf[t] : t \in advertised} |->
            Cardinality({t \in advertised : IssuerOf[t] = d})]

Matching(unit, issuer, unplaced, s) ==
    {t \in HeldAdverts : /\ StillOpen(t)
                         /\ unit = Absent \/ rows[t] = unit
                         /\ OfIssuer(t, issuer)
                         /\ unplaced => rows[t] = Absent
                         /\ FromPortalOf(t, s)}

CountTenders(unit, issuer, unplaced, s) == Cardinality(Matching(unit, issuer, unplaced, s))

ListTenders(unit, issuer, unplaced, s) ==
    LET all == SetToSortSeq(Matching(unit, issuer, unplaced, s),
                            LAMBDA t, u : RankOf[t] < RankOf[u])
    IN  SubSeq(all, 1, IF Len(all) < ListCap THEN Len(all) ELSE ListCap)

UnplacedCount_Closed(s) == Cardinality({t \in HeldAdverts : rows[t] = Absent /\ FromPortalOf(t, s)})

\* Narrowed to the state's own portals, and by nothing else.
UnplacedCount(s) ==
    Cardinality({t \in HeldAdverts : StillOpen(t) /\ rows[t] = Absent /\ FromPortalOf(t, s)})

\* collectionStatusOf: a sweep that has begun and not ended reads like one that failed.
CollectionStatusOf(w) ==
    IF w.attempted THEN "failing"
    ELSE IF w.lastSuccess = Absent \/ w.lastSuccess + StaleAfter < hour THEN "stale"
    ELSE "collected"

\* ORDER BY last_success_at DESC NULLS LAST.
NoEarlier(w, v) ==
    v.lastSuccess = Absent \/ (w.lastSuccess # Absent /\ w.lastSuccess >= v.lastSuccess)

NotCollected == [status |-> "not_collected", lastSuccess |-> Absent]

\* collectionForState: the answers there may be, the first of several windows that
\* succeeded together being any of them.
CollectionForState(s) ==
    LET theirs == {windows[p] : p \in {q \in EPortals : StateOfPortal[q] = s}} \ {Absent}
        first == {w \in theirs : \A v \in theirs : NoEarlier(w, v)}
    IN  IF theirs = {} THEN {NotCollected}
        ELSE {[status |-> CollectionStatusOf(w), lastSuccess |-> w.lastSuccess] : w \in first}

----------------------------------------------------------------------------
(* source-licence.ts and publishable.ts, for the portals: their terms require *)
(* permission, department by department.                                      *)

SwitchedOn(e) == e.switch

\* internalPreview: never where the public can look.
InternalPreview(e) ==
    /\ e.vercel # "production"
    /\ e.node = "production" => e.vercel = "preview"
    /\ e.preview

Granted(issuer) == "all" \in grants \/ issuer \in grants
Publishable_Any(issuer) ==
    \/ grants # {} /\ SwitchedOn(deployment)
    \/ InternalPreview(deployment)

Publishable(issuer) ==
    \/ Granted(issuer) /\ SwitchedOn(deployment)
    \/ InternalPreview(deployment)

\* tenderDetailsArePublishable: for every tender at once, so no issuer is named.
DetailsArePublishable == Publishable(Absent)

----------------------------------------------------------------------------
(* The routes and the panel. *)

\* GET tenders/overview, of one snapshot.  Of its parts the page's own behaviour turns
\* on the collection alone; the counts beside it are the operators above.
OverviewAnswers ==
    {[collection |-> c] :
        c \in IF question.state = Absent THEN {Absent} ELSE CollectionForState(question.state)}

NoList == [tenders |-> <<>>, by |-> Absent, under |-> {}]

\* GET tenders: the list asked for, or none while details are withheld.  Who answered
\* (`by`, `under`) is kept for the properties alone.
ListAnswer(unit, unplaced) ==
    LET s == IF unplaced THEN question.state ELSE Absent
    IN  IF DetailsArePublishable
        THEN [tenders |-> ListTenders(unit, question.issuer, unplaced, s),
              by |-> deployment, under |-> grants]
        ELSE NoList

\* neverChecked: a window whose freshness is stale without a success.
NeverChecked(c) == c.status = "stale" /\ c.lastSuccess = Absent

\* withheldNotice: what stands where the counts would; Absent: the counts do.
Notice ==
    IF overview = Missed THEN "unavailable"
    ELSE IF overview = Awaited \/ question.state = Absent THEN Absent
    ELSE IF overview.collection.status = "not_collected" THEN "not_collected"
    ELSE IF NeverChecked(overview.collection) THEN "not_checked"
    ELSE Absent

----------------------------------------------------------------------------
(* What happens. *)

\* Mutant of SweepBegins: an attempt makes the window it is recorded in.
SweepBegins_Inserts(p) ==
    /\ windows' = [windows EXCEPT ![p] =
           [lastSuccess |-> IF @ = Absent THEN Absent ELSE @.lastSuccess, attempted |-> TRUE]]
    /\ UNCHANGED <<rows, hour, deployment, grants, question, overview, list>>

\* loadTenders: the attempt is recorded before the transaction, in a window there
\* already is.  A load that fails leaves no more than this.
SweepBegins(p) ==
    /\ windows[p] # Absent
    /\ windows' = [windows EXCEPT ![p].attempted = TRUE]
    /\ UNCHANGED <<rows, hour, deployment, grants, question, overview, list>>

\* What a sweep of a portal may find that is not held, each placed by a rule or not.
Findings(p) ==
    UNION {[new -> Units \cup {Absent}] :
              new \in SUBSET {t \in Adverts \ HeldAdverts : EPortalOf[t] = p}}

\* Its COMMIT: the tenders, and the window with them.
SweepSucceeds(p, found) ==
    /\ windows[p] # Absent => windows[p].attempted
    /\ rows' = [t \in HeldAdverts \cup DOMAIN found |->
                   IF t \in DOMAIN found THEN found[t] ELSE rows[t]]
    /\ windows' = [windows EXCEPT ![p] = [lastSuccess |-> hour, attempted |-> FALSE]]
    /\ UNCHANGED <<hour, deployment, grants, question, overview, list>>

\* A reviewer, the resolver or a later sweep places it elsewhere.
MoveAdvert(t, u) ==
    /\ t \in HeldAdverts
    /\ u # rows[t]
    /\ rows' = [rows EXCEPT ![t] = u]
    /\ UNCHANGED <<windows, hour, deployment, grants, question, overview, list>>

HourPasses ==
    /\ hour < LastHour
    /\ hour' = hour + 1
    /\ UNCHANGED <<rows, windows, deployment, grants, question, overview, list>>

\* A grant is recorded and deployed, or the site is deployed elsewhere.  A page that
\* is open stays as it is.
Redeploy(e, g) ==
    /\ <<e, g>> # <<deployment, grants>>
    /\ deployment' = e
    /\ grants' = g
    /\ UNCHANGED <<rows, windows, hour, question, overview, list>>

\* The reader looks elsewhere; answers to the last question are not shown.
LookAt(q) ==
    /\ q # question
    /\ question' = q
    /\ overview' = Awaited
    /\ list' = NoList
    /\ UNCHANGED <<rows, windows, hour, deployment, grants>>

\* useResource: an answer, or its failure, takes the place of what was there; it is
\* asked for again whenever another answer names a newer version.
HearOverview ==
    /\ overview' \in OverviewAnswers \cup {Missed}
    /\ UNCHANGED <<rows, windows, hour, deployment, grants, question, list>>

\* useTendersFor: a unit's tenders, or the unplaced once asked for.
HearList ==
    /\ question.unit # Absent \/ question.unplaced
    /\ list' \in {ListAnswer(question.unit, question.unplaced), NoList}
    /\ UNCHANGED <<rows, windows, hour, deployment, grants, question, overview>>

\* The whole country, to begin with.
Everywhere == [state |-> Absent, unit |-> Absent, issuer |-> Absent, unplaced |-> FALSE]

ViewsInit ==
    /\ rows = <<>>
    /\ windows = [p \in EPortals |-> Absent]
    /\ hour = 0
    /\ deployment \in Deployments
    /\ grants \in {{}} \cup {{g} : g \in MayGrant}
    /\ question = Everywhere
    /\ overview = Awaited
    /\ list = NoList

ViewsNext ==
    \/ \E p \in EPortals : SweepBegins(p) \/ \E found \in Findings(p) : SweepSucceeds(p, found)
    \/ \E t \in Adverts, u \in Units \cup {Absent} : MoveAdvert(t, u)
    \/ HourPasses
    \/ \E e \in Deployments, g \in {{}} \cup {{x} : x \in MayGrant} : Redeploy(e, g)
    \/ \E q \in Questions : LookAt(q)
    \/ HearOverview
    \/ HearList

ViewsSpec == ViewsInit /\ [][ViewsNext]_tenderviews

----------------------------------------------------------------------------
\* Whatever is held and wherever it was placed, the counts a reader may be given
\* add up: every open tender is in one district's count or among the unplaced,
\* a district's count is the length of its list, the states' counts make up the
\* country's, and the unplaced said to be held are those a list of them names
\* (countsByDistrict, countTenders, listTenders, unplacedCount).
OpenTendersAddUp ==
    /\ \A d \in Issuers \cup {Absent} :
          LET counts == CountsByDistrict(d, Absent)
          IN  /\ Total(counts) + CountTenders(Absent, d, TRUE, Absent)
                    = CountTenders(Absent, d, FALSE, Absent)
              /\ \A u \in Units : CountTenders(u, d, FALSE, Absent)
                    = IF u \in DOMAIN counts THEN counts[u] ELSE 0
              /\ Total(counts) = Total([s \in Territories |-> Total(CountsByDistrict(d, s))])
    /\ \A s \in Territories \cup {Absent} :
          /\ UnplacedCount(s) = CountTenders(Absent, Absent, TRUE, s)
          /\ \A d \in DOMAIN DepartmentsOf(s) :
                DepartmentsOf(s)[d] = CountTenders(Absent, d, FALSE, s)
    /\ Cardinality({t \in HeldAdverts : StatusOf(t) # "closed"})
          = CountTenders(Absent, Absent, FALSE, Absent)

\* Some sweep of the state's portals has succeeded.
EverCollected(s) ==
    \E p \in EPortals : /\ StateOfPortal[p] = s
                        /\ windows[p] # Absent
                        /\ windows[p].lastSuccess # Absent

\* What is on the page claims no more than it may, however long ago it was answered
\* and whatever was deployed since.  A tender is named only if the deployment that
\* answered was the operator's own preview, or had a grant for its department or for
\* all: never in public without one, whatever is switched on.  And a count is given
\* for a state only if a sweep of it has succeeded, although the page takes a failing
\* portal for one that has (publicationDecision, internalPreview, withheldNotice).
PageSaysNoMore ==
    /\ \A i \in DOMAIN list.tenders :
          \/ "all" \in list.under
          \/ IssuerOf[list.tenders[i]] \in list.under
          \/ list.by.preview /\ list.by.vercel # "production"
    /\ question.state # Absent /\ Notice = Absent /\ overview # Awaited =>
          EverCollected(question.state)

\* What is counted and what is listed is neither too little nor too much.
TendersAreToldTruly == OpenTendersAddUp /\ PageSaysNoMore
=============================================================================
