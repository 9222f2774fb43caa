----------------------------- MODULE Geography ------------------------------
(***************************************************************************)
(* What a request may learn of the places of the ledger                    *)
(* (packages/database/src/geography.repository.ts).  Two orders lie over   *)
(* the places and need not agree: where a place is filed (parent_id), and  *)
(* whose boundary holds the point its name is drawn at.                    *)
(***************************************************************************)
EXTENDS Naturals, Sequences, FiniteSets

CONSTANTS
    Places,   \* the rows of admin_unit
    LevelOf,  \* the level of each
    Filed,    \* the parent each is filed under, or Nowhere
    Shapes,   \* the places whose boundary is held
    Inside,   \* pairs: the first's label point is in the second's larger shape
    CodeOf,   \* the directory's code of each state, or Nowhere
    Nowhere

\* ancestorsOf: a place and those it is filed under, the outermost first.
AncestorsOf[p \in Places] ==
    IF Filed[p] = Nowhere THEN <<p>> ELSE Append(AncestorsOf[Filed[p]], p)

\* stateCodeOf: the code of the state a place is filed in.
StateCodeOf(p) ==
    LET states == {i \in DOMAIN AncestorsOf[p] : LevelOf[AncestorsOf[p][i]] = "state"}
    IN  IF states = {} THEN Nowhere
        ELSE CodeOf[AncestorsOf[p][CHOOSE i \in states : \A j \in states : i >= j]]

\* childrenOf: by shape, except in a place that has none.
ChildrenOf(p) ==
    IF p \in Shapes
    THEN {c \in Shapes \ {p} : <<c, p>> \in Inside}
    ELSE {c \in Places : Filed[c] = p}

\* boundariesOfChildren: by filing.
BoundariesOfChildren(p) == {c \in Shapes : Filed[c] = p}

\* statesByLgdCode: the row of a state's code, if the directory has one.
StateUnit(code) ==
    LET rows == {p \in Places : LevelOf[p] = "state" /\ CodeOf[p] = code}
    IN  IF code = Nowhere \/ rows = {} THEN Nowhere ELSE CHOOSE p \in rows : TRUE

\* namedWithin: the places drawn as pins, of those a reviewed page names.
NamedWithin(p, named) ==
    {c \in named \cap Shapes : \E i \in DOMAIN AncestorsOf[c] : AncestorsOf[c][i] = p}
=============================================================================
