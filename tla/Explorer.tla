------------------------------ MODULE Explorer ------------------------------
(***************************************************************************)
(* The explorer's selection: the place, record, layers and department a    *)
(* reader has chosen (state/useExplorerState.ts), the address that mirrors *)
(* it (state/explorer-url.ts), and everything on the page that changes it. *)
(* What the panels offer comes from two answers that arrive when they do:  *)
(* the level inside the place, and the place's own detail.                 *)
(*                                                                         *)
(* A click that MapLibre resolves against a frame older than the page's    *)
(* state is left out: a shape can be clicked only while its level is held. *)
(* So is an address with an empty `state=`, which opens as a state no      *)
(* place has and is dropped when the address is next written.              *)
(***************************************************************************)
EXTENDS Geography, Naturals

CONSTANTS
    States,      \* the codes of the states that have an outline
    Documents,
    Departments, \* those a reader may choose, by their names without outer spaces
    LongNames,   \* names of more than 200 characters, which an address may hold
    Toggles,     \* the layers a reader may switch, all on at first
    Named,       \* the places a reviewed page names
    Links,       \* addresses the page may be opened at
    NoLayers,    \* the address's token for no layer at all
    Malformed,   \* a parameter that should be a number and is not
    Newest,      \* the ledger's newest version, while the page is open
    MaxMoves     \* bounds what the reader changes

Parameters == {"state", "unit", "document", "layers", "department", "pin"}

\* An address has the parameters there are, each once. A parameter that is not
\* a number is nobody's id, and the token for no layer is no layer's. No department's
\* name is too long for an address, which the code does not see to. A place's
\* ancestors are places: AncestorsOf follows Filed within them.
ASSUME ExplorerAssumption ==
    /\ \A q \in Links : q = [f \in Parameters |-> q[f]]
    /\ Newest \in Nat
    /\ Malformed # Nowhere
    /\ {Malformed, Nowhere} \cap (1..Newest \cup Places \cup Documents) = {}
    /\ LongNames \cap (Departments \cup {Nowhere}) = {}
    /\ NoLayers \notin Toggles
    /\ \A layers \in SUBSET (Toggles \cup {NoLayers}) : layers # Nowhere
    /\ Shapes \subseteq Places
    /\ \A p \in Places : AncestorsOf[p] \in Seq(Places)

VARIABLES
    view,       \* .state .unit .document .layers .department .pin
    address,    \* the query string, as its parameters
    moves,      \* how often the reader has changed something
    moved,      \* the reader has changed something since the page opened
    level,      \* the answer for the place's level is held
    detail,     \* the answer for the unit's detail is held
    watermark   \* the version the answers have named, 0 before any

explorer == <<view, address, moves, moved, level, detail, watermark>>

ParseLayers_NoToken(raw) ==
    IF raw = Nowhere \/ raw \cap Toggles = {} THEN Toggles ELSE raw \cap Toggles

ParseLayers(raw) ==
    IF raw = Nowhere THEN Toggles
    ELSE IF raw = {NoLayers} THEN {}
    ELSE IF raw \cap Toggles = {} THEN Toggles
    ELSE raw \cap Toggles

LayersParam(layers) ==
    IF layers = Toggles THEN Nowhere
    ELSE IF layers = {} THEN {NoLayers} ELSE layers

\* positiveInt: an id is a row's, or one no row has, or no number at all.
PositiveInt(raw) == IF raw = Malformed THEN Nowhere ELSE raw

\* parseDepartment: any name is kept, the ledger's or not, unless it is too long.
ParseDepartment(raw) == IF raw \in LongNames THEN Nowhere ELSE raw

ParseExplorerState(q) ==
    [q EXCEPT !.unit = PositiveInt(@), !.document = PositiveInt(@), !.layers = ParseLayers(@),
              !.department = ParseDepartment(@), !.pin = PositiveInt(@)]

ToQueryString(v) == [v EXCEPT !.layers = LayersParam(@)]

\* reconcile: a unit that is not of the state it is named with is dropped.
ActualState(unit) == IF unit \in Places THEN StateCodeOf(unit) ELSE Nowhere

Reconcile(v) ==
    IF v.state = Nowhere \/ v.unit = Nowhere \/ ActualState(v.unit) = v.state
    THEN v ELSE [v EXCEPT !.unit = Nowhere]

\* reconcilePin: a version the ledger does not hold is no pin.
ReconcilePin(v) ==
    IF v.pin # Nowhere /\ v.pin \notin 1..Newest THEN [v EXCEPT !.pin = Nowhere] ELSE v

\* ExplorePage: what the server makes of an address.
Opening(q) == ReconcilePin(Reconcile(ParseExplorerState(q)))

\* Whose level and records the page asks for.
ParentUnit(v) == IF v.unit # Nowhere THEN v.unit ELSE StateUnit(v.state)

Open(q) ==
    /\ view' = Opening(q)
    /\ address' = q
    /\ moved' = FALSE
    /\ level' = FALSE
    /\ detail' = FALSE
    /\ watermark' = 0
    /\ UNCHANGED moves

ExplorerInit ==
    /\ address \in Links
    /\ view = Opening(address)
    /\ moves = 0
    /\ moved = FALSE
    /\ level = FALSE
    /\ detail = FALSE
    /\ watermark = 0

\* apply: every change drops the pin and writes the address.  The panels of
\* another place wait for theirs; those of the same place keep them.
Patch(v) ==
    LET next == [v EXCEPT !.pin = Nowhere]
    IN  /\ moves < MaxMoves
        /\ view' = next
        /\ address' = ToQueryString(next)
        /\ level' = (level /\ ParentUnit(next) = ParentUnit(view))
        /\ detail' = (detail /\ next.unit = view.unit)
        /\ moves' = moves + 1
        /\ moved' = TRUE
        /\ UNCHANGED watermark

SelectState(code) ==
    Patch([view EXCEPT !.state = code, !.unit = Nowhere,
                       !.document = Nowhere, !.department = Nowhere])

SelectUnit(u) == Patch([view EXCEPT !.unit = u])

SelectPlace(code, u) ==
    Patch([view EXCEPT !.state = code, !.unit = u,
                       !.department = IF code = view.state THEN @ ELSE Nowhere])

HearLevel ==
    /\ ~level
    /\ ParentUnit(view) \in Places
    /\ level' = TRUE
    /\ watermark' = Newest
    /\ UNCHANGED <<view, address, moves, moved, detail>>

HearDetail ==
    /\ ~detail
    /\ view.unit \in Places
    /\ detail' = TRUE
    /\ watermark' = Newest
    /\ UNCHANGED <<view, address, moves, moved, level>>

\* FilterPanel's two lists; a state outside the directory cannot be chosen.
ChooseState ==
    \E code \in States \cup {Nowhere} :
        /\ code # Nowhere => StateUnit(code) # Nowhere
        /\ SelectState(code)

Listed == IF level THEN ChildrenOf(ParentUnit(view)) ELSE {}

ChooseListed ==
    /\ view.state # Nowhere
    /\ Listed # {}
    /\ \E u \in Listed \cup {Nowhere} : SelectUnit(u)

\* "Up one level", by the detail's ancestors, if they are there.
Ancestors == IF detail THEN AncestorsOf[view.unit] ELSE <<>>

StepUp ==
    LET n == Len(Ancestors)
    IN  /\ view.unit # Nowhere
        /\ SelectUnit(IF n < 2 THEN Nowhere
                      ELSE IF LevelOf[Ancestors[n - 1]] = "state" THEN Nowhere
                      ELSE Ancestors[n - 1])

\* Breadcrumb: the country and the state both lead to the country.
ChooseCrumb ==
    LET below == {i \in DOMAIN Ancestors : LevelOf[Ancestors[i]] \notin {"state", "country"}}
    IN  \/ view.state \in States /\ SelectState(Nowhere)
        \/ \E i \in below : (\E j \in below : j > i) /\ SelectUnit(Ancestors[i])

\* The map: pins before areas, areas before states (engine/binder.ts hitAt).
Drawn == IF level THEN BoundariesOfChildren(ParentUnit(view)) ELSE {}

ClickMap ==
    \/ /\ "audit" \in view.layers
       /\ StateUnit(view.state) \in Places
       /\ \E u \in NamedWithin(StateUnit(view.state), Named) : SelectUnit(u)
    \/ "areas" \in view.layers /\ \E u \in Drawn : SelectUnit(u)
    \/ "states" \in view.layers /\ \E code \in States : SelectState(code)

\* A result of the search box.
ChooseResult ==
    \E p \in Places : SelectPlace(StateCodeOf(p), IF p \in Shapes THEN p ELSE Nowhere)

ChooseDocument ==
    \E d \in Documents \cup {Nowhere} : d # view.document /\ Patch([view EXCEPT !.document = d])

ToggleLayer ==
    \E t \in Toggles :
        Patch([view EXCEPT !.layers = IF t \in @ THEN @ \ {t} ELSE @ \cup {t}])

ChooseDepartment ==
    \E d \in Departments :
        Patch([view EXCEPT !.department = IF @ = d THEN Nowhere ELSE d])

\* CopyViewLink: the view with the version its answers named.
ViewLink == ToQueryString([view EXCEPT !.pin = IF watermark > 0 THEN watermark ELSE Nowhere])

OpenAgain == Open(address) \/ Open(ViewLink)

ExplorerNext ==
    \/ HearLevel \/ HearDetail
    \/ ChooseState \/ ChooseListed \/ StepUp \/ ChooseCrumb \/ ClickMap \/ ChooseResult
    \/ ChooseDocument \/ ToggleLayer \/ ChooseDepartment
    \/ OpenAgain

ExplorerSpec == ExplorerInit /\ [][ExplorerNext]_explorer

-----------------------------------------------------------------------------
\* A selection naming one state and a unit inside another is not a selection
\* (explorer-url.ts 137).
Coherent(v) == v = Reconcile(v)

\* Whatever the reader has chosen, by whichever of the page's ways, the view is
\* a selection: its unit is filed in its state.
SelectionIsCoherent == Coherent(view)

\* The address in the bar, opened by someone else, gives the reader's own view,
\* and the copied link gives it with the version it was drawn from; only a unit
\* that is not of the state it was offered under is lost on the way.  And
\* neither the view nor the address claims a version once the reader has
\* changed anything (explorer-url.ts, useExplorerState.ts 62-68).
AddressRestoresView ==
    /\ [Opening(address) EXCEPT !.pin = view.pin] = Reconcile(view)
    /\ Opening(ViewLink) =
          Reconcile([view EXCEPT !.pin = IF watermark > 0 THEN watermark ELSE Nowhere])
    /\ moved => view.pin = Nowhere /\ address.pin = Nowhere
=============================================================================
