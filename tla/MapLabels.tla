------------------------------ MODULE MapLabels ------------------------------
(***************************************************************************)
(* The place names on the explorer's map: which of them the arbiter draws   *)
(* (map/labels/arbiter.ts) and what the DOM then shows of it                *)
(* (map/place-labels.ts), frame by frame as the camera moves and the names  *)
(* change.                                                                  *)
(*                                                                         *)
(* What a camera position shows is given: which names are near it, which of *)
(* those are on the screen, and which pairs of boxes touch there.           *)
(***************************************************************************)
EXTENDS Naturals, FiniteSets, Sequences

CONSTANTS
    Names,
    Key,            \* name -> the tier, size and id it is ordered by, in one number
    Cameras,        \* camera positions
    Near,           \* camera -> names anchored in or near the view
    OnScreen,       \* camera -> names whose box meets the screen
    Touching,       \* camera -> pairs of names whose boxes touch
    MaxNodes,
    MinVisible,     \* MIN_VISIBLE_MS, in ticks
    Cooldown,       \* COOLDOWN_MS
    Settle,         \* the timer of settleAfterMove
    LabelSets,      \* what setLabels may be given: [offered, selected]
    MaxTouches      \* bound: what the reader does

VARIABLES
    camera,
    labels,         \* [offered: the names there are, selected: those pinned]
    switched,       \* whether names are shown at all
    visibleFor,     \* arbiter: name -> ticks it has been visible, or Never
    hidden,         \* arbiter: name -> ticks visibleFor it was hidden, or Never
    nodes,          \* names that have a DOM node
    bright,         \* nodes with opacity 1
    frame,          \* an animation frame is asked for
    settling,       \* ticks until the settling pass, or Never
    restless,       \* the camera has moved and not come to rest
    anew,           \* names given a new node while the arbiter remembered them
    touches

maplabels == <<camera, labels, switched, visibleFor, hidden, nodes, bright, frame, settling,
               restless, anew, touches>>

Never == 99

\* The timer outlasts both windows, as 650 ms does 600 and 400.
ASSUME SettleAssumption ==
    {MinVisible, Cooldown, Settle} \subseteq 0..(Never - 1) /\ Settle > MinVisible /\ Settle > Cooldown

ASSUME CamerasAssumption ==
    /\ IsFiniteSet(Names) /\ MaxNodes \in Nat
    /\ \A c \in Cameras : OnScreen[c] \subseteq Names /\ Near[c] \subseteq Names

Older(age, most) == IF age = Never \/ age >= most THEN age ELSE age + 1

Touch(x, y) == {x, y} \in Touching[camera]

\* byPriority: the reader's selection first, then tier, size and id.
Foremost(x, y) ==
    \/ x \in labels.selected /\ y \notin labels.selected
    \/ (x \in labels.selected <=> y \in labels.selected) /\ Key[x] < Key[y]

ByPriority(set) ==
    [n \in 1..Cardinality(set) |->
        CHOOSE x \in set : Cardinality({y \in set : Foremost(y, x)}) = n - 1]

\* nearView: in order of priority, as many as may have a node.
NearView ==
    LET order == ByPriority(labels.offered \cap Near[camera])
    IN  SubSeq(order, 1, IF Len(order) < MaxNodes THEN Len(order) ELSE MaxNodes)

----------------------------------------------------------------------------
(* LabelArbiter.solve *)

HoldsPlace(x) == visibleFor[x] # Never /\ visibleFor[x] < MinVisible
CoolingDown_Once(x) == hidden[x] # Never
CoolingDown(x) == hidden[x] # Never /\ hidden[x] < Cooldown

\* place: where a name touches none placed before, in its turn.
Fits(x, placed) ==
    /\ x \in OnScreen[camera] \ placed /\ ~CoolingDown(x)
    /\ \A y \in placed : ~Touch(x, y)

Fill(order, held) ==
    LET placed[n \in 0..Len(order)] ==
            IF n = 0 THEN held
            ELSE IF Fits(order[n], placed[n - 1]) THEN placed[n - 1] \cup {order[n]}
            ELSE placed[n - 1]
    IN  placed[Len(order)]

NamesOf(order) == {order[n] : n \in 1..Len(order)}

\* Three passes: pinned, shown too recently to give way, then by priority.
Visible(order) ==
    Fill(order, {x \in NamesOf(order) \cap OnScreen[camera] : x \in labels.selected \/ HoldsPlace(x)})

\* remember: what was shown or hidden starts its window; a name no longer
\* offered is forgotten.
Remember(order, visible) ==
    LET there == NamesOf(order)
    IN  /\ visibleFor' = [x \in Names |->
                       IF x \notin there \/ x \notin visible THEN Never
                       ELSE IF visibleFor[x] = Never THEN 0 ELSE visibleFor[x]]
        /\ hidden' = [x \in Names |->
                       IF x \notin there \/ (x \in visible /\ visibleFor[x] = Never) THEN Never
                       ELSE IF x \notin visible /\ visibleFor[x] # Never THEN 0 ELSE hidden[x]]

\* The layout pass of an animation frame: nodes for the near names only, and
\* the opacity of those the arbiter has just shown or hidden.
Layout ==
    /\ frame
    /\ frame' = FALSE
    /\ IF ~switched
       THEN /\ bright' = {}
            /\ UNCHANGED <<visibleFor, hidden, nodes, anew>>
       ELSE LET order == NearView
                visible == Visible(order)
                kept == bright \cap NamesOf(order)
                shown == {x \in visible : visibleFor[x] = Never}
                gone == {x \in NamesOf(order) \ visible : visibleFor[x] # Never}
            IN  /\ nodes' = NamesOf(order)
                /\ Remember(order, visible)
                /\ bright' = (kept \cup shown) \ gone
                /\ anew' = (anew \cup {x \in NamesOf(order) \ nodes : visibleFor[x] # Never})
                             \cap (NamesOf(order) \ shown)
    /\ UNCHANGED <<camera, labels, switched, settling, restless, touches>>

----------------------------------------------------------------------------
(* What asks for a pass. *)

Move(c) ==
    /\ c # camera
    /\ touches < MaxTouches
    /\ camera' = c
    /\ frame' = TRUE
    /\ restless' = TRUE
    /\ touches' = touches + 1
    /\ UNCHANGED <<labels, switched, visibleFor, hidden, nodes, bright, settling, anew>>

\* moveend; its frame was asked for by the last move.
Rest ==
    /\ restless
    /\ restless' = FALSE
    /\ settling' = Settle
    /\ UNCHANGED <<camera, labels, switched, visibleFor, hidden, nodes, bright, frame, anew, touches>>

\* setLabels: a name that is gone, or whose text or anchor changed, loses its
\* node; the arbiter is not told.
SetLabels(new, moved) ==
    /\ touches < MaxTouches
    /\ labels' = new
    /\ nodes' = nodes \cap (new.offered \ moved)
    /\ bright' = bright \cap (new.offered \ moved)
    /\ frame' = TRUE
    /\ settling' = Settle
    /\ touches' = touches + 1
    /\ UNCHANGED <<camera, switched, visibleFor, hidden, restless, anew>>

\* setVisible: the arbiter forgets what it had shown. (Once a frame and before
\* the frame's other calls: no reader clicks the switch twice within one.)
SetVisible ==
    /\ ~frame
    /\ touches < MaxTouches
    /\ switched' = ~switched
    /\ visibleFor' = [x \in Names |-> Never]
    /\ hidden' = [x \in Names |-> Never]
    /\ frame' = TRUE
    /\ touches' = touches + 1
    /\ UNCHANGED <<camera, labels, nodes, bright, settling, restless, anew>>

\* A tick; a frame asked for comes before it is over.
LabelTick ==
    /\ ~frame
    /\ settling = Never => ~restless
    /\ visibleFor' = [x \in Names |-> Older(visibleFor[x], MinVisible)]
    /\ hidden' = [x \in Names |-> Older(hidden[x], Cooldown)]
    /\ settling' = IF settling \in {0, Never} THEN Never ELSE settling - 1
    /\ frame' = (settling = 0)
    /\ UNCHANGED <<camera, labels, switched, nodes, bright, restless, anew, touches>>

\* createPlaceLabelLayer, given its first names.
LabelsInit ==
    /\ camera \in Cameras
    /\ labels \in LabelSets
    /\ switched = TRUE
    /\ visibleFor = [x \in Names |-> Never]
    /\ hidden = [x \in Names |-> Never]
    /\ nodes = {}
    /\ bright = {}
    /\ frame = TRUE
    /\ settling = Settle
    /\ restless = FALSE
    /\ anew = {}
    /\ touches = 0

LabelsNext ==
    \/ Layout
    \/ Rest
    \/ SetVisible
    \/ LabelTick
    \/ \E c \in Cameras : Move(c)
    \/ \E new \in LabelSets : \E moved \in SUBSET new.offered :
          Cardinality(moved) < 2 /\ SetLabels(new, moved)

LabelsSpec == LabelsInit /\ [][LabelsNext]_maplabels

----------------------------------------------------------------------------
Settled == settling = Never /\ ~frame /\ ~restless

Shown == {x \in bright : x \in OnScreen[camera]}

\* Once the reader and the timers are done, no two of the names drawn touch
\* unless one is the reader's selection, and a name on the screen that is not
\* drawn would touch one that is, unless it is not drawn for want of a node or
\* was given a new one unknown to the arbiter (arbiter.ts solve, place-labels.ts
\* settleAfterMove).
NamesSettleApart ==
    Settled =>
        IF ~switched THEN bright = {}
        ELSE /\ \A x, y \in Shown : x # y /\ Touch(x, y) => {x, y} \cap labels.selected # {}
             /\ \A x \in (nodes \cap OnScreen[camera]) \ (bright \cup anew) :
                   \E y \in bright \cup anew : Touch(x, y)

\* The reader's selection, when it is on the screen, is drawn (place-labels.ts:51).
SelectionIsDrawn ==
    Settled /\ switched => labels.selected \cap OnScreen[camera] \cap nodes \subseteq bright
=============================================================================
