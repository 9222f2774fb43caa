--------------------------- MODULE MCTenderLedger ---------------------------
EXTENDS TenderLedger, TLC

CONSTANTS c1, c2, r1, p1, p2, t1, d1

\* Only the first portal advertises a tender.
OnlyFirst == [t \in Tenders |-> p1]

Symmetry == Permutations(Sweepers)

\* The deadline as first stated, with the detail page and without it, and as
\* extended, with a page that has changed and a place that is only inferred.
Sightings ==
    {[listed |-> 1, detail |-> None, place |-> Unplaced],
     [listed |-> 1, detail |-> "chain", place |-> Stated(d1)],
     [listed |-> 2, detail |-> "office", place |-> Inferred(d1)]}
=============================================================================
