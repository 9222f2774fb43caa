------------------------------- MODULE MCSite -------------------------------
(***************************************************************************)
(* What the reader's page does, in one run: the search (SearchDialog), the  *)
(* places and the address (Explorer), the map (MapView) and its names       *)
(* (MapLabels), and what is told of the tenders (TenderViews).  They share  *)
(* no variable here; which of them a behaviour is about is chosen in its    *)
(* first state, and the others stay there.                                  *)
(***************************************************************************)
EXTENDS SearchDialog, Explorer, MapView, MapLabels, TenderViews, TLC

CONSTANTS sA, sB, dA, dX, tA, doc, dep, A, B, Z, a1, a2, b1, g, k1, k2, k3,
          t1, t2, p1, p2

VARIABLE part

----------------------------------------------------------------------------
(* Two states.  dX is filed under sB and lies inside sA; tA is below dA.      *)

Ranks == (sA :> "state") @@ (sB :> "state") @@ (dA :> "district") @@ (dX :> "district")
           @@ (tA :> "sub_district")
FiledUnder == (sA :> Nowhere) @@ (sB :> Nowhere) @@ (dA :> sA) @@ (dX :> sB) @@ (tA :> dA)
LiesIn == {<<dA, sA>>, <<tA, sA>>, <<tA, dA>>, <<dX, sA>>}
Codes == (sA :> A) @@ (sB :> B) @@ (dA :> Nowhere) @@ (dX :> Nowhere) @@ (tA :> Nowhere)

Plain == [state |-> Nowhere, unit |-> Nowhere, document |-> Nowhere, layers |-> Nowhere,
          department |-> Nowhere, pin |-> Nowhere]

\* Addresses as shared, as typed, and as an older version of the page wrote them.
Addresses ==
    { Plain,
      [Plain EXCEPT !.state = A, !.unit = dX, !.layers = {NoLayers}],
      [Plain EXCEPT !.state = Z, !.unit = Malformed, !.layers = {"later"},
                    !.department = "longer than 200 characters"],
      [Plain EXCEPT !.state = B, !.unit = dX, !.layers = {"areas", "later"},
                    !.department = dep, !.pin = 1],
      [Plain EXCEPT !.unit = tA, !.document = doc, !.pin = 2] }

----------------------------------------------------------------------------
(* The areas of two units, of which one has no stated source.                  *)

Areas == {{a1, a2}, {b1}, {a2}}
WithoutSource == {{a2}}
Marked == {{a1}}
Turned == {{"states", "areas", "pins", "names"}, {"states", "areas"}}

Offering(collected, counts) == [sourced |-> TRUE, collected |-> collected, counts |-> counts]
Offers == {Offering(TRUE, a1 :> 1), Offering(TRUE, (a1 :> 2) @@ (a2 :> 1)),
           Offering(FALSE, a1 :> 1)}

Basemap == {[kind |-> "boundary", class |-> "state", name |-> b1],
            [kind |-> "place", class |-> "town", name |-> a1],
            [kind |-> "place", class |-> "state", name |-> a2]}

----------------------------------------------------------------------------
(* Three names: k1 touches k2 from afar, k2 touches k3 until the map is near.   *)

Keys == (k1 :> 1) @@ (k2 :> 2) @@ (k3 :> 3)
NearTo == ("far" :> {k1, k2, k3}) @@ ("between" :> {k1, k2, k3}) @@ ("near" :> {k2, k3})
InSight == ("far" :> {k1, k2, k3}) @@ ("between" :> {k1, k2, k3}) @@ ("near" :> {k2})
Overlapping == ("far" :> {{k1, k2}, {k2, k3}}) @@ ("between" :> {{k2, k3}}) @@ ("near" :> {})

Everything == [offered |-> {k1, k2, k3}, selected |-> {}]
LabelOffers == {Everything, [Everything EXCEPT !.selected = {k3}],
             [offered |-> {k1, k2}, selected |-> {}]}

----------------------------------------------------------------------------
(* Two states, each with a portal, a tender and a district; one tender states a *)
(* department and a closing date.                                               *)

Advertised == (t1 :> p1) @@ (t2 :> p2)
Issued == (t1 :> dep) @@ (t2 :> Absent)
Closing == (t1 :> 1) @@ (t2 :> Absent)
Ranked == (t1 :> 1) @@ (t2 :> 2)
Within == (sA :> {dA}) @@ (sB :> {dX})
Serving == (p1 :> sA) @@ (p2 :> sB)

Look(state, unit, issuer, unplaced) ==
    [state |-> state, unit |-> unit, issuer |-> issuer, unplaced |-> unplaced]
Looks ==
    { Look(Absent, Absent, dep, TRUE), Look(sA, Absent, Absent, TRUE), Look(sA, dA, dep, FALSE),
      Look(sB, dX, Absent, FALSE) }

\* In public with everything switched on, and on the operator's own machine.
Sites ==
    {[vercel |-> "production", node |-> "production", preview |-> TRUE, switch |-> TRUE],
     [vercel |-> "none", node |-> "development", preview |-> TRUE, switch |-> FALSE]}

----------------------------------------------------------------------------
SiteInit ==
    /\ part \in {"search", "explorer", "map", "labels", "views"}
    /\ DialogInit
    /\ ExplorerInit
    /\ MapInit
    /\ LabelsInit
    /\ ViewsInit
    /\ part # "explorer" => address = Plain
    /\ part # "map" => keeps
    /\ part # "labels" => camera = "far" /\ labels = Everything
    /\ part # "views" => grants = {} /\ deployment.switch

SiteNext ==
    /\ UNCHANGED part
    /\ \/ /\ part = "search" /\ DialogNext
          /\ UNCHANGED <<explorer, mapview, maplabels, tenderviews>>
       \/ /\ part = "explorer" /\ ExplorerNext
          /\ UNCHANGED <<dialog, mapview, maplabels, tenderviews>>
       \/ /\ part = "map" /\ MapNext
          /\ UNCHANGED <<dialog, explorer, maplabels, tenderviews>>
       \/ /\ part = "labels" /\ LabelsNext
          /\ UNCHANGED <<dialog, explorer, mapview, tenderviews>>
       \/ /\ part = "views" /\ ViewsNext
          /\ UNCHANGED <<dialog, explorer, mapview, maplabels>>

SiteSpec ==
    SiteInit /\ [][SiteNext]_<<part, dialog, explorer, mapview, maplabels, tenderviews>>
=============================================================================
