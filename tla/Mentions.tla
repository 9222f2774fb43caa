------------------------------ MODULE Mentions ------------------------------
(***************************************************************************)
(* What reviewed names become: governments and departments, and the        *)
(* mentions that tie them and the places of a state to the facts that name *)
(* them (cag/bodies-load.ts, cag/places-load.ts).  A load runs in one      *)
(* transaction at READ COMMITTED while reviewers decide and other loads    *)
(* run; readers are shown a body or a place only through its mentions      *)
(* (public-body.repository.ts, place-mention.repository.ts).               *)
(***************************************************************************)
EXTENDS Naturals, FiniteSets

CONSTANTS
    Names,       \* the facts that name a body or a place
    NameOf,      \* what the parser read for each of them
    NamedFor,    \* what a reviewer may correct it to: a set of values
    FiledUnder,  \* the unit its document is filed under
    Unreadable,  \* facts read from a scan, or of a source not to be republished
    UnitRows,       \* [name, level, parent, drawn] of each unit of the ledger
    NoPlace,
    All,         \* in the place of a state: every state
    Scopes,      \* what a load may be asked for: [kind, state]
    Loaders, MaxNameDecisions, MaxMentionLoads

ASSUME MentionsAreBounded == MaxNameDecisions \in Nat /\ MaxMentionLoads \in Nat
ASSUME NamesAssumption == DOMAIN NameOf = Names

VARIABLES
    verdict,    \* fact -> unverified | verified | corrected | rejected
    corrected,  \* fact -> the corrected value
    bodies,     \* the rows of public_body
    mentions,   \* the rows of public_body_mention and place_mention: [of, fact]
    loading,       \* loader -> its transaction
    earned,     \* [of, fact] a decision in favour ever gave (for the properties)
    decisions, loads

mentioning == <<verdict, corrected, bodies, mentions, loading, earned, decisions, loads>>

(***************************************************************************)
(* Names and what they name.  A value is [sort, name]: a government (by    *)
(* the place it governs), a department, or a place of a level.             *)
(***************************************************************************)

Level(u) == UnitRows[u].level
Parent(u) == UnitRows[u].parent

UpFrom[u \in DOMAIN UnitRows] == {u} \cup (IF Parent(u) = NoPlace THEN {} ELSE UpFrom[Parent(u)])

\* The state a document is filed under or inside.
StateOf(f) == CHOOSE u \in UpFrom[FiledUnder[f]] : Level(u) = "state"

Sorts == [body |-> {"government", "department"}, place |-> {"district", "sub_district"}]
OfKind(f, kind) == NameOf[f].sort \in Sorts[kind]

Value(f) == IF verdict[f] = "corrected" THEN corrected[f] ELSE NameOf[f]
InFavour(f) == verdict[f] \in {"verified", "corrected"}

\* placeOfGovernment: the report's state, or a country or a state of that name.
PlacesOfGovernment(name, s) ==
    IF name = UnitRows[s].name THEN {s}
    ELSE LET found == {u \in DOMAIN UnitRows : UnitRows[u].name = name /\ Level(u) \in {"country", "state"}}
         IN  {u \in found : Level(u) = "country" \/ \A v \in found : Level(v) # "country"}

Body(kind, name, u) == [unit |-> u, kind |-> kind, name |-> name]
GovernmentOf(s) == Body("government", UnitRows[s].name, s)

ParentOf(b) == IF b.kind = "department" THEN {GovernmentOf(b.unit)} ELSE {}

\* The places of a state, as PLACES_OF_STATE lists them.
PlacesOf(s) ==
    {u \in DOMAIN UnitRows : \/ Level(u) = "district" /\ Parent(u) = s
                          \/ /\ Level(u) = "sub_district"
                             /\ Level(Parent(u)) = "district" /\ Parent(Parent(u)) = s}

\* What a value is a mention of, if the ledger places it: of several units of
\* the name, the one the query happens to list first (last, for places).
HoldersOf(v, s) ==
    LET One(found) == IF found = {} THEN {} ELSE {CHOOSE u \in found : TRUE}
    IN  CASE v.sort = "government" ->
               {Body("government", v.name, u) : u \in One(PlacesOfGovernment(v.name, s))}
          [] v.sort = "department" -> {Body("department", v.name, s)}
          [] OTHER -> One({u \in PlacesOf(s) : Level(u) = v.sort /\ UnitRows[u].name = v.name})

(***************************************************************************)
(* A load: bodies of one state or of all, or places of one state.          *)
(***************************************************************************)

\* Whose mentions a load answers for.  A load of places takes the documents
\* filed directly under the state; a load of bodies those anywhere inside it.
InScope(f, scope) ==
    /\ OfKind(f, scope.kind)
    /\ IF scope.kind = "place" THEN FiledUnder[f] = scope.state
       ELSE scope.state \in {All, StateOf(f)}

Confirmed(scope) == {f \in Names : InScope(f, scope) /\ InFavour(f) /\ f \notin Unreadable}

Wanted(scope) ==
    UNION {{[of |-> h, fact |-> f] : h \in HoldersOf(Value(f), StateOf(f))} : f \in Confirmed(scope)}

\* ensureBody: the body a mention is of, and the government a department is of.
Needed(wanted, kind) ==
    IF kind = "place" THEN {} ELSE UNION {{m.of} \cup ParentOf(m.of) : m \in wanted}

NoLoad == [stage |-> "idle", scope |-> [kind |-> "body", state |-> All], wanted |-> {},
           made |-> {}, added |-> {}, dropped |-> {}, fresh |-> FALSE]

\* Every decision, and every other load's commit, since it read (for the properties).
Stale == [l \in Loaders |-> [loading[l] EXCEPT !.fresh = FALSE]]

MentionsInit ==
    /\ verdict = [f \in Names |-> "unverified"] /\ corrected = NameOf
    /\ bodies = {} /\ mentions = {} /\ earned = {}
    /\ loading = [l \in Loaders |-> NoLoad]
    /\ decisions = 0 /\ loads = 0

\* BEGIN; the confirmed mentions; the version.
ReadConfirmed(l) ==
    /\ loading[l].stage = "idle" /\ loads < MaxMentionLoads
    /\ \E scope \in Scopes :
          loading' = [loading EXCEPT ![l] = [NoLoad EXCEPT !.stage = "read", !.scope = scope,
                                                     !.wanted = Wanted(scope), !.fresh = TRUE]]
    /\ loads' = loads + 1
    /\ UNCHANGED <<verdict, corrected, bodies, mentions, earned, decisions>>

\* The bodies another transaction has inserted and not committed.
Unsettled(l) == UNION {loading[k].made : k \in Loaders \ {l}}

\* ensureBody and the mentions, ON CONFLICT DO NOTHING.
Write(l) ==
    /\ loading[l].stage \in {"read", "waits"}
    /\ LET missing == Needed(loading[l].wanted, loading[l].scope.kind) \ bodies
       IN  /\ missing \cap Unsettled(l) = {}
           /\ loading' = [loading EXCEPT ![l].stage = "written", ![l].made = missing,
                                   ![l].added = loading[l].wanted \ mentions]
    /\ UNCHANGED <<verdict, corrected, bodies, mentions, earned, decisions, loads>>

\* An INSERT of a body another load is inserting waits for that load.
Wait(l) ==
    /\ loading[l].stage = "read"
    /\ Needed(loading[l].wanted, loading[l].scope.kind) \cap Unsettled(l) # {}
    /\ loading' = [loading EXCEPT ![l].stage = "waits"]
    /\ UNCHANGED <<verdict, corrected, bodies, mentions, earned, decisions, loads>>

Withdrawn_ByFact(l) ==
    {m \in mentions : /\ InScope(m.fact, loading[l].scope)
                      /\ \A w \in loading[l].wanted : w.fact # m.fact}

\* The mentions of the scope that are not wanted, on what is committed by now.
Withdrawn(l) == {m \in mentions : InScope(m.fact, loading[l].scope) /\ m \notin loading[l].wanted}

Withdraw(l) ==
    /\ loading[l].stage = "written"
    /\ loading' = [loading EXCEPT ![l].stage = "withdrawn", ![l].dropped = Withdrawn(l)]
    /\ UNCHANGED <<verdict, corrected, bodies, mentions, earned, decisions, loads>>

\* COMMIT: a load waiting for a body this one made fails on it and rolls back.
CommitMentions(l) ==
    /\ loading[l].stage = "withdrawn"
    /\ bodies' = bodies \cup loading[l].made
    /\ mentions' = (mentions \cup loading[l].added) \ loading[l].dropped
    /\ loading' = [k \in Loaders |->
                  IF k = l THEN NoLoad
                  ELSE IF loading[k].stage = "waits"
                          /\ Needed(loading[k].wanted, loading[k].scope.kind) \cap loading[l].made # {}
                       THEN NoLoad
                  ELSE Stale[k]]
    /\ UNCHANGED <<verdict, corrected, earned, decisions, loads>>

\* A failure anywhere, or the process ending: ROLLBACK.
Abandon(l) ==
    /\ loading[l].stage # "idle"
    /\ loading' = [loading EXCEPT ![l] = NoLoad]
    /\ UNCHANGED <<verdict, corrected, bodies, mentions, earned, decisions, loads>>

\* A reviewer decides, or revises.
DecideName(f) ==
    /\ decisions < MaxNameDecisions
    /\ \E v \in {"verified", "rejected", "corrected"}, value \in NamedFor[f] :
          /\ verdict' = [verdict EXCEPT ![f] = v]
          /\ corrected' = [corrected EXCEPT ![f] = IF v = "corrected" THEN value ELSE NameOf[f]]
          /\ earned' = IF v = "rejected" THEN earned
                       ELSE earned \cup {[of |-> h, fact |-> f] :
                              h \in HoldersOf(IF v = "corrected" THEN value ELSE NameOf[f], StateOf(f))}
    /\ decisions' = decisions + 1
    /\ loading' = Stale
    /\ UNCHANGED <<bodies, mentions, loads>>

MentionsNext ==
    \/ \E l \in Loaders : \/ ReadConfirmed(l) \/ Wait(l) \/ Write(l) \/ Withdraw(l)
                          \/ CommitMentions(l) \/ Abandon(l)
    \/ \E f \in Names : DecideName(f)

MentionsSpec == MentionsInit /\ [][MentionsNext]_mentioning

(***************************************************************************)
(* What a reader is shown.                                                 *)
(***************************************************************************)

ShownMentions == {m \in mentions : InFavour(m.fact) /\ m.fact \notin Unreadable}
ShownOf(h) == {m.fact : m \in {n \in ShownMentions : n.of = h}}

\* body(): nothing without a shown mention; its government and its departments
\* only where they are shown themselves.
Shown(b) == b \in bodies /\ ShownOf(b) # {}
BodyPage(b) == [reports |-> ShownOf(b), parent |-> {p \in ParentOf(b) : Shown(p)},
                departments |-> {d \in bodies : ParentOf(d) = {b} /\ Shown(d)}]

\* namedWithin: the places under a unit that a shown mention names and a
\* boundary gives a point.
NamedWithin(u) == {p \in DOMAIN UnitRows : u \in UpFrom[p] /\ ShownOf(p) # {} /\ UnitRows[p].drawn}

(***************************************************************************)
(* Properties.                                                             *)
(***************************************************************************)

\* No reader is shown a body or a place under a name no reviewer ever agreed to
\* for the page, or one the last word on the page is against; a department shown
\* is of a body the ledger holds with its government (bodies-load.ts:6-23).
NamesAreEarned ==
    /\ mentions \subseteq earned
    /\ \A m \in ShownMentions : OfKind(m.fact, "body") => m.of \in bodies
    /\ \A b \in bodies : ParentOf(b) \subseteq bodies
    /\ \A u \in DOMAIN UnitRows : \A p \in NamedWithin(u) :
          \E f \in Names : InFavour(f) /\ [of |-> p, fact |-> f] \in earned

\* A load that nobody decides beside leaves exactly what the decisions say of its
\* documents: nothing under a name that was corrected, nothing missing; and no
\* load ever takes away what another state's or the other kind's decisions gave
\* (bodies-load.ts:13-22, 205-240; places-load.ts:76-82).
LoadsAgree ==
    \A l \in Loaders :
        CommitMentions(l) =>
            /\ loading[l].fresh => {m \in mentions' : InScope(m.fact, loading[l].scope)} = Wanted(loading[l].scope)
            /\ \A m \in mentions \ mentions' : InScope(m.fact, loading[l].scope)

MentionsAgree == [](NamesAreEarned) /\ [][LoadsAgree]_mentioning
=============================================================================
