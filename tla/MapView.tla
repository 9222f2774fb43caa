------------------------------- MODULE MapView -------------------------------
(***************************************************************************)
(* The explorer's map: how a mounted MapCanvas comes to have a renderer,    *)
(* and how the binder (map/engine/binder.ts) carries what the explorer      *)
(* wants drawn to it, layer by layer, sending only what changed.            *)
(*                                                                         *)
(* A level of areas is a set of places; a source's data is what it was last *)
(* given, or Nothing when it is empty. The renderer is not this             *)
(* repository's: whether it keeps a feature's numbers when its source is    *)
(* given new data is `keeps'.                                               *)
(***************************************************************************)
EXTENDS Naturals, FiniteSets

CONSTANTS
    Nothing,
    Mounts,         \* mounts of the component, in the order 1..Mounts
    Levels,         \* the levels of areas the ledger may send: sets of places
    Unsourced,      \* those whose features name no source
    Geometries,     \* boundaries of a selected unit
    Offered,        \* what the tender overview may say: see Shades
    Pins,           \* sets of named places
    Switches,       \* the sets of layers a reader may have switched on
    Pointed,        \* places the pointer goes to
    BaseStyle       \* the provider's style: records [kind, class, name]

ASSUME MountsAssumption == Nothing \notin 1..Mounts

Spots == (UNION Levels) \cup (UNION Pins)

Layers == {"states", "areas", "unit", "tenders", "pins"}
Sources == Layers \ {"tenders"}

VARIABLES
    phase,          \* mount -> where its start() has come to
    cancelled,      \* mounts whose cleanup has run
    failure,        \* a sentence replaces the map
    request,        \* the cached request for the outlines: "none", "asked", "held"
    bound,          \* the mount whose map the binder draws on
    input,          \* the MapInput
    base,           \* what the base map draws, as records of BaseStyle
    data,           \* source -> what it holds
    snapshot,       \* layer -> the inputs read for it last, or Nothing
    sent,           \* feature-state the binder remembers: place -> number
    numbers,        \* feature-state the renderer holds
    drawn,          \* layers made visible
    hovered, lifted,\* the feature under the pointer; the features lifted
    keeps

binder == <<data, snapshot, sent, numbers, drawn>>
pointer == <<hovered, lifted>>
mapview == <<phase, cancelled, failure, request, bound, input, base, binder, pointer, keeps>>

NoNumbers == [p \in Spots |-> 0]
NoHover == [layer |-> Nothing, place |-> Nothing]

\* What an overview may say of a state: who published it, whether the state is
\* collected, and a count for each district that has one.
Shades(i) == IF i.tenders = Nothing THEN NoNumbers
             ELSE [p \in Spots |-> IF p \in DOMAIN i.tenders.counts
                                    THEN i.tenders.counts[p] ELSE 0]

Provenance(l, i) ==
    CASE l = "states" -> TRUE
      [] l = "areas" -> i.areas \notin {Nothing, {}} \cup Unsourced
      [] l = "unit" -> i.unit # Nothing
      [] l = "pins" -> i.pins \notin {Nothing, {}}
      [] l = "tenders" -> i.tenders # Nothing /\ i.tenders.sourced

\* refusal: a layer draws nothing when nobody collects it or no source is named.
Refused(l, i) ==
    \/ l = "tenders" /\ i.tenders # Nothing /\ ~i.tenders.collected
    \/ ~Provenance(l, i)

Toggled(l, i) == l \in {"unit", "tenders"} \/ l \in i.on

----------------------------------------------------------------------------
(* The base map. *)

Jurisdictions == {"continent", "country", "state", "province"}

\* withoutAdministrativeClaims: no boundary, no name of a jurisdiction.
Stripped(style) ==
    {x \in style : x.kind # "boundary" /\ ~(x.kind = "place" /\ x.class \in Jurisdictions)}

\* The names the ledger draws itself: those of the level in view, or none.
LedgerNames(i) == IF "names" \in i.on /\ i.areas # Nothing THEN i.areas ELSE {}

\* basemapNameFilters: the base map gives way to a name the ledger draws.
BaseNames(i) ==
    {x.name : x \in {y \in base : y.kind = "place"}} \ LedgerNames(i)

----------------------------------------------------------------------------
(* The binder. *)

\* createBinder: nothing sent yet, on a map nothing was sent to.
Fresh ==
    [data |-> [l \in Sources |-> Nothing], snapshot |-> [l \in Sources |-> Nothing],
     sent |-> NoNumbers, numbers |-> NoNumbers, lifted |-> {}]

Now == [data |-> data, snapshot |-> snapshot, sent |-> sent, numbers |-> numbers, lifted |-> lifted]

\* bindData for one layer: an emptied source when the layer is refused; else
\* what it reads, when that is not what it read last.
ToSend(l, i, was) ==
    IF Refused(l, i) THEN Nothing
    ELSE IF was.snapshot[l] = i[l] THEN was.data[l] ELSE i[l]

Snapshot_Kept(l, i, was) == IF Refused(l, i) THEN was.snapshot[l] ELSE i[l]
Snapshot(l, i, was) == IF Refused(l, i) THEN Nothing ELSE i[l]

\* update: the data of every layer, then numbers and visibility. New data for
\* the areas makes the binder forget which numbers it had set on them.
Bind(i, was) ==
    LET given == [l \in Sources |-> ToSend(l, i, was)]
        resent == given["areas"] # was.data["areas"]
        previous == IF resent THEN NoNumbers ELSE was.sent
        held == IF resent /\ ~keeps THEN NoNumbers ELSE was.numbers
        next == IF Refused("tenders", i) THEN NoNumbers ELSE Shades(i)
    IN  /\ data' = given
        /\ snapshot' = [l \in Sources |-> Snapshot(l, i, was)]
        /\ numbers' = [p \in Spots |-> IF next[p] = previous[p] THEN held[p] ELSE next[p]]
        /\ sent' = next
        /\ drawn' = {l \in Layers : ~Refused(l, i) /\ Toggled(l, i)}
        /\ lifted' = {x \in was.lifted : keeps \/ given[x.layer] = was.data[x.layer]}

----------------------------------------------------------------------------
(* The component. *)

Live(m) == m \notin cancelled

\* The effect on mount; a strict mount is cleaned up and made again.
MountMap(m) ==
    /\ phase[m] = "none"
    /\ m > 1 => m - 1 \in cancelled
    /\ phase' = [phase EXCEPT ![m] = "styling"]
    /\ UNCHANGED <<cancelled, failure, request, bound, input, base, binder, pointer, keeps>>

\* fetchBasemap: any failure is no base map.
HearStyle(m) ==
    /\ phase[m] = "styling"
    /\ IF Live(m)
       THEN /\ phase' = [phase EXCEPT ![m] = "loading"]
            /\ base' \in {{}, Stripped(BaseStyle)}
       ELSE /\ phase' = [phase EXCEPT ![m] = "over"]
            /\ UNCHANGED base
    /\ UNCHANGED <<cancelled, failure, request, bound, input, binder, pointer, keeps>>

\* whenLoaded resolves; the outlines are asked for once, and shared.
HearLoad(m) ==
    /\ phase[m] = "loading"
    /\ phase' = [phase EXCEPT ![m] = IF Live(m) THEN "outlining" ELSE "over"]
    /\ request' = IF Live(m) /\ request = "none" THEN "asked" ELSE request
    /\ UNCHANGED <<cancelled, failure, bound, input, base, binder, pointer, keeps>>

\* start() throws: the renderer cannot be made, or does not load in time.
FailToLoad(m) ==
    /\ phase[m] = "loading"
    /\ phase' = [phase EXCEPT ![m] = "over"]
    /\ failure' = (failure \/ Live(m))
    /\ UNCHANGED <<cancelled, request, bound, input, base, binder, pointer, keeps>>

AnswerOutlines ==
    /\ request = "asked"
    /\ request' \in {"held", "failed"}
    /\ UNCHANGED <<phase, cancelled, failure, bound, input, base, binder, pointer, keeps>>

\* The outlines are here: a binder is made, and the render that follows gives
\* it the input, the outlines among it.
HearOutlines(m) ==
    /\ phase[m] = "outlining"
    /\ request = "held"
    /\ IF Live(m)
       THEN /\ phase' = [phase EXCEPT ![m] = "ready"]
            /\ bound' = m
            /\ input' = [input EXCEPT !.states = "outlines"]
            /\ Bind([input EXCEPT !.states = "outlines"], Fresh)
            /\ UNCHANGED hovered
       ELSE /\ phase' = [phase EXCEPT ![m] = "over"]
            /\ UNCHANGED <<bound, input, binder, pointer>>
    /\ UNCHANGED <<cancelled, failure, request, base, keeps>>

\* The request failed, and is not kept: the next mount asks again.
MissOutlines(m) ==
    /\ phase[m] = "outlining"
    /\ request = "failed"
    /\ phase' = [phase EXCEPT ![m] = "over"]
    /\ failure' = (failure \/ Live(m))
    /\ request' = IF \E n \in 1..Mounts : n # m /\ phase[n] = "outlining" THEN request ELSE "none"
    /\ UNCHANGED <<cancelled, bound, input, base, binder, pointer, keeps>>

\* Any error event of the renderer.
RendererFails(m) ==
    /\ phase[m] \in {"loading", "outlining", "ready"}
    /\ Live(m)
    /\ failure' = TRUE
    /\ UNCHANGED <<phase, cancelled, request, bound, input, base, binder, pointer, keeps>>

\* The cleanup: the map goes, with all it held, and the binder with it.
Unmount(m) ==
    /\ phase[m] # "none"
    /\ Live(m)
    /\ cancelled' = cancelled \cup {m}
    /\ phase' = [phase EXCEPT ![m] = IF @ = "ready" THEN "over" ELSE @]
    /\ bound' = Nothing
    /\ data' = Fresh.data
    /\ snapshot' = Fresh.snapshot
    /\ sent' = NoNumbers
    /\ numbers' = NoNumbers
    /\ drawn' = {}
    /\ hovered' = NoHover
    /\ lifted' = {}
    /\ UNCHANGED <<failure, request, input, base, keeps>>

\* The effect on the input: with a binder, every change of it is bound. What a
\* reader does changes one part; going elsewhere changes what the ledger sends.
\* (Once a sentence has taken the map's place, what is bound is not followed.)
ShowInput(i) ==
    /\ ~failure
    /\ input' = i
    /\ IF bound # Nothing
       THEN Bind(i, Now) /\ UNCHANGED hovered
       ELSE UNCHANGED <<binder, pointer>>
    /\ UNCHANGED <<phase, cancelled, failure, request, bound, base, keeps>>

Inputs ==
    {[input EXCEPT !.areas = a, !.tenders = t] :
        a \in Levels \cup {Nothing}, t \in Offered \cup {Nothing}}
    \cup {[input EXCEPT !.unit = u] : u \in Geometries \cup {Nothing}}
    \cup {[input EXCEPT !.pins = p] : p \in Pins \cup {Nothing}}
    \cup {[input EXCEPT !.on = s] : s \in Switches}

\* hitAt: the first layer in hit order that is drawn and has a feature there.
HitAt(p) ==
    IF "pins" \in drawn /\ data["pins"] # Nothing /\ p \in data["pins"]
    THEN [layer |-> "pins", place |-> p]
    ELSE IF "areas" \in drawn /\ data["areas"] # Nothing /\ p \in data["areas"]
         THEN [layer |-> "areas", place |-> p]
         ELSE NoHover

\* mousemove, and mouseout: at most one feature is lifted.
Point(p) ==
    LET hit == IF p = Nothing THEN NoHover ELSE HitAt(p)
    IN  /\ bound # Nothing
        /\ ~failure
        /\ hit # hovered
        /\ hovered' = hit
        /\ lifted' = (lifted \ {hovered}) \cup ({hit} \ {NoHover})
        /\ UNCHANGED <<phase, cancelled, failure, request, bound, input, base, binder, keeps>>

MapInit ==
    /\ phase = [m \in 1..Mounts |-> "none"]
    /\ cancelled = {}
    /\ failure = FALSE
    /\ request = "none"
    /\ bound = Nothing
    /\ input = [states |-> Nothing, areas |-> Nothing, unit |-> Nothing, pins |-> Nothing,
                tenders |-> Nothing, on |-> CHOOSE s \in Switches : \A t \in Switches : t \subseteq s]
    /\ base = {}
    /\ data = [l \in Sources |-> Nothing]
    /\ snapshot = [l \in Sources |-> Nothing]
    /\ sent = NoNumbers
    /\ numbers = NoNumbers
    /\ drawn = {}
    /\ hovered = NoHover
    /\ lifted = {}
    /\ keeps \in BOOLEAN

MapNext ==
    \/ \E m \in 1..Mounts :
          \/ MountMap(m) \/ HearStyle(m) \/ HearLoad(m) \/ FailToLoad(m)
          \/ HearOutlines(m) \/ MissOutlines(m) \/ RendererFails(m) \/ Unmount(m)
    \/ AnswerOutlines
    \/ \E i \in Inputs : i # input /\ ShowInput(i)
    \/ \E p \in Pointed \cup {Nothing} : Point(p)

MapSpec == MapInit /\ [][MapNext]_mapview

----------------------------------------------------------------------------
\* Whatever the order the parts of the input came and went in, what the map of
\* the living mount holds is what the last input asks for: a refused layer's
\* source is empty and every other holds what it reads; every number the input
\* gives is on its district, and no other if the renderer drops numbers with
\* the data; at most the feature last pointed at is lifted; and no place is
\* named by the base map and the ledger at once (binder.ts update, MapCanvas).
MapShowsItsInput ==
    /\ bound \notin cancelled
    /\ bound # Nothing =>
        /\ \A l \in Sources : data[l] = IF Refused(l, input) THEN Nothing ELSE input[l]
        /\ drawn = {l \in Layers : ~Refused(l, input) /\ Toggled(l, input)}
        /\ "tenders" \in drawn =>
              \A p \in Spots : Shades(input)[p] > 0 => numbers[p] = Shades(input)[p]
        /\ "tenders" \in drawn /\ ~keeps => numbers = Shades(input)
        /\ lifted \subseteq {hovered}
        /\ BaseNames(input) \cap LedgerNames(input) = {}

\* A layer that may not draw leaves no number on the map, on a renderer that
\* keeps what it is not told to remove (binder.ts bindFeatureState).
RefusedKeepsNoNumbers ==
    bound # Nothing /\ Refused("tenders", input) => numbers = NoNumbers
=============================================================================
