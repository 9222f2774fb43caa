---------------------------- MODULE MCCollection ----------------------------
(***************************************************************************)
(* The collections of procurement, in one run: an agency's notices          *)
(* (AgencyRun), the facts of a scanned one (ScanFacts), the tenders of the  *)
(* portals (TenderLedger), and the watch kept over the sweeps (Freshness).  *)
(* They share no variable here; which of them a behaviour is about is       *)
(* chosen in its first state, and the others stay there.                    *)
(***************************************************************************)
EXTENDS AgencyRun, TenderLedger, Freshness, ScanFacts, TLC

CONSTANTS k1, r1, r2, r3, r4, d1, d2, d3, d4, d5, n1, n2, local, bucket, e1, e2,
          c1, c2, v1, p1, p2, t1, u1, ra, rb, fa, fb, ft, fo

\* Bound on what sweepers and reviewers begin, taken together.
CONSTANT MaxActs

VARIABLE part

\* Two rows of one page share a notice, and the row still to be published shares
\* it with both; its own is one that robots.txt refuses.
Points == (r1 :> <<d1>>) @@ (r2 :> <<d2, d5>>) @@ (r3 :> <<d3, d5>>) @@ (r4 :> <<d5, d4>>)
Serves == (d1 :> n1) @@ [d \in {d2, d3, d4, d5} |-> n2]
Oldest == <<r3, r2, r1>>

\* One notice is typed; the other has a typed page and a scan.
Lengths == (n1 :> 2) @@ (n2 :> 1)
Text == (n1 :> {1}) @@ (n2 :> {1})

\* Only the first portal advertises a tender.
OnlyFirst == [t \in Tenders |-> p1]

Symmetry == Permutations(Sweepers) \cup Permutations(Engines)

\* The deadline as first stated, with the detail page and without it, and as
\* extended, with a page that has changed and a place that is only inferred.
Sightings ==
    {[listed |-> 1, detail |-> None, place |-> Unplaced],
     [listed |-> 1, detail |-> "chain", place |-> Stated(u1)],
     [listed |-> 2, detail |-> "office", place |-> Inferred(u1)]}

\* Two engines' readings of a page: of the first, a label and the two words of a
\* figure that runs over the end of its line; of the second, the figure alone.
Word(x0, x1, y, sure) == [x0 |-> x0, x1 |-> x1, y0 |-> y, y1 |-> y + 1, sure |-> sure]
Inks == (ra :> <<Word(0, 1, 0, 4), Word(1, 2, 0, 8), Word(0, 1, 1, 5)>>) @@ (rb :> <<Word(0, 2, 0, 7)>>)
FiguresPrinted == (ra :> (fa :> {2, 3})) @@ (rb :> (fb :> {1}))

CollectionInit ==
    /\ part \in {"agencies", "scans", "tenders", "freshness"}
    /\ AgencyInit
    /\ TenderInit
    /\ FreshnessInit
    /\ ScansInit
    /\ part # "scans" => parser = "notice"

CollectionNext ==
    /\ UNCHANGED part
    /\ \/ part = "agencies" /\ AgencyNext /\ UNCHANGED <<vars, watching, scanning>>
       \/ part = "scans" /\ ScansNext /\ UNCHANGED <<agency, vars, watching>>
       \/ part = "tenders" /\ Next /\ UNCHANGED <<agency, watching, scanning>>
          /\ nextRun' + nextDecision' <= MaxActs + 2
       \/ part = "freshness" /\ FreshnessNext /\ UNCHANGED <<agency, vars, scanning>>

CollectionSpec ==
    CollectionInit /\ [][CollectionNext]_<<part, agency, vars, watching, scanning>>
=============================================================================
