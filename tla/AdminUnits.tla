----------------------------- MODULE AdminUnits -----------------------------
(***************************************************************************)
(* How the places of the ledger come to be: named by the Local Government  *)
(* Directory (lgd/load.ts), drawn by OpenStreetMap (osm/load.ts), and      *)
(* filed under one another by what an operator said and what the shapes    *)
(* hold.  A load of boundaries is one transaction with a savepoint for     *)
(* each unit; a state of the directory is a statement of its own.          *)
(***************************************************************************)
EXTENDS Naturals, Sequences, FiniteSets

CONSTANTS
    Relations,   \* the administrative boundaries of the map
    TaggedLevel, \* the ledger's level of each one's admin_level, or NoTag
    RefOf,       \* its ref:LGD tag: a register and a code, or NoTag
    Unclosed,    \* those whose ways do not close, or that lie outside India
    AreaOf,      \* the area of each shape
    HoldsPoint,  \* pairs: the first's shape holds a point on the second's surface
    Answers,     \* what the map answers for each: sequences, one per level filter
    StateCodes,  \* the codes the directory lists
    Mappers, MaxUnits, MaxImports, NoTag

Levels == {"country", "state", "district", "sub_district", "urban_local_body", "village"}
TagCodes == {RefOf[r].code : r \in {q \in Relations : RefOf[q] # NoTag}}

ASSUME AnswersAreRelations ==
    /\ Answers \in [Relations -> SUBSET Seq(Relations)]
    /\ TaggedLevel \in [Relations -> Levels \cup {NoTag}] /\ AreaOf \in [Relations -> Nat]
    /\ NoTag \notin Relations \cup Levels \cup StateCodes \cup TagCodes
    /\ \A r \in Relations : RefOf[r] # NoTag => RefOf[r] = [kind |-> RefOf[r].kind, code |-> RefOf[r].code]
    /\ \A level \in Levels, code \in StateCodes \cup TagCodes \cup {NoTag} :
          NoTag # [kind |-> level, code |-> code]

VARIABLES
    unit,  \* admin_unit joined to its boundary, by id
    walk,  \* per operator, the children still to be queried
    imports  \* how many imports there have been

units == <<unit, walk, imports>>

NoUnit == 0
\* LEVEL_DEPTH_SQL.
DepthOf == [l \in Levels |->
    CASE l = "country" -> 0 [] l = "state" -> 1 [] l = "district" -> 2
      [] l = "sub_district" -> 3 [] l = "urban_local_body" -> 4 [] l = "village" -> 5]

UnitsInit ==
    /\ unit = <<>>
    /\ walk = [o \in Mappers |-> {}]
    /\ imports = 0

(***************************************************************************)
(* Reading a relation.                                                     *)
(***************************************************************************)

\* lgdKindMatchesLevel: a code counts only in the register of the unit's level.
KindMatches_Any(kind, level) == TRUE

KindMatches(kind, level) == kind = level

\* parseRelation: what is refused, and the code that is kept.
IsAccepted(r) == TaggedLevel[r] # NoTag /\ r \notin Unclosed
CodeKept(r) ==
    IF RefOf[r] # NoTag /\ KindMatches(RefOf[r].kind, TaggedLevel[r]) THEN RefOf[r].code ELSE NoTag

ParseRelations(answer) == {answer[i] : i \in {j \in DOMAIN answer : IsAccepted(answer[j])}}

(***************************************************************************)
(* The table.                                                              *)
(***************************************************************************)

\* Its constraints: a code once in a level, a relation once, no unit its own parent.
IsLawful(t) ==
    /\ \A i, j \in DOMAIN t : i # j =>
          /\ t[i].lgd = NoTag \/ t[i].lgd # t[j].lgd \/ t[i].level # t[j].level
          /\ t[i].relation = NoTag \/ t[i].relation # t[j].relation
    /\ \A i \in DOMAIN t : t[i].parent # i

RowOf(t, r) == {i \in DOMAIN t : t[i].relation = r}

\* claimDirectoryUnit: the row the directory named takes the relation.
ClaimDirectoryUnit(t, r) ==
    [i \in DOMAIN t |->
        IF /\ CodeKept(r) # NoTag /\ t[i].relation = NoTag
           /\ t[i].lgd = CodeKept(r) /\ t[i].level = TaggedLevel[r]
        THEN [t[i] EXCEPT !.relation = r] ELSE t[i]]

\* The upsert by relation: the name stays, a code or a parent is only added.
Upserted(t, r, parent) ==
    IF RowOf(t, r) = {}
    THEN Append(t, [lgd |-> CodeKept(r), level |-> TaggedLevel[r], relation |-> r,
                    parent |-> parent, namedBy |-> "map", shape |-> FALSE])
    ELSE [i \in DOMAIN t |->
            IF t[i].relation # r THEN t[i]
            ELSE [t[i] EXCEPT !.lgd = IF @ = NoTag THEN CodeKept(r) ELSE @,
                              !.parent = IF parent # NoUnit THEN parent ELSE @]]

Drawn(t, r) == [i \in DOMAIN t |-> [t[i] EXCEPT !.shape = @ \/ t[i].relation = r]]

\* One savepoint: all of the unit's statements, or none of them.
StoreUnit(t, r, parent) ==
    LET stored == Drawn(Upserted(ClaimDirectoryUnit(t, r), r, parent), r)
    IN  IF IsLawful(ClaimDirectoryUnit(t, r)) /\ IsLawful(stored) THEN stored ELSE t

\* assignParentsSpatially: the smallest shallower shape around each.
Holders_AnyLevel(t, c) ==
    {p \in DOMAIN t : /\ p # c /\ t[p].shape /\ t[c].shape
                      /\ <<t[p].relation, t[c].relation>> \in HoldsPoint}

Holders(t, c) ==
    {p \in DOMAIN t : /\ p # c /\ t[p].shape /\ t[c].shape
                      /\ DepthOf[t[p].level] < DepthOf[t[c].level]
                      /\ AreaOf[t[p].relation] > AreaOf[t[c].relation]
                      /\ <<t[p].relation, t[c].relation>> \in HoldsPoint}

AssignParents(t) ==
    [c \in DOMAIN t |->
        IF Holders(t, c) = {} THEN t[c]
        ELSE [t[c] EXCEPT !.parent =
                CHOOSE p \in Holders(t, c) :
                    \A q \in Holders(t, c) : AreaOf[t[p].relation] <= AreaOf[t[q].relation]]]

\* loadBoundaries: those of an answer that were read, one after another.
LoadBoundaries(answer, read, parent) ==
    LET loaded[n \in 0..Len(answer)] ==
          IF n = 0 THEN unit
          ELSE IF answer[n] \in read THEN StoreUnit(loaded[n - 1], answer[n], parent)
          ELSE loaded[n - 1]
    IN  AssignParents(loaded[Len(answer)])

(***************************************************************************)
(* What operators do.                                                      *)
(***************************************************************************)

MayLoad == imports < MaxImports

\* loadStates: one row of the directory, in autocommit.
LoadState(c) ==
    /\ MayLoad
    /\ unit' = IF \E i \in DOMAIN unit : unit[i].lgd = c /\ unit[i].level = "state"
               THEN [i \in DOMAIN unit |->
                        IF unit[i].lgd = c /\ unit[i].level = "state"
                        THEN [unit[i] EXCEPT !.namedBy = "directory"] ELSE unit[i]]
               ELSE Append(unit, [lgd |-> c, level |-> "state", relation |-> NoTag,
                                  parent |-> NoUnit, namedBy |-> "directory", shape |-> FALSE])
    /\ imports' = imports + 1
    /\ UNCHANGED walk

\* ingestRelation: nothing usable opens no transaction; and any one of the units
\* may be one the database refuses.
Ingest(r, parent) ==
    \E answer \in Answers[r] :
      LET read == ParseRelations(answer)
      IN  \E refused \in {{}} \cup {{q} : q \in read} :
            /\ imports' = imports + 1
            /\ IF read = {} THEN unit' = unit
               ELSE unit' = LoadBoundaries(answer, read \ refused, parent)

\* --relation, with the unit the operator says it is, or none.
IngestOne(r) ==
    /\ MayLoad
    /\ \E parent \in {NoUnit} \cup RowOf(unit, r) \cup
                     {i \in DOMAIN unit : unit[i].relation = NoTag /\ unit[i].lgd = CodeKept(r)
                                          /\ unit[i].level = TaggedLevel[r]} : Ingest(r, parent)
    /\ UNCHANGED walk

\* --within: the children that carry a relation, read once.
StartWalk(o, u) ==
    /\ MayLoad /\ walk[o] = {}
    /\ walk' = [walk EXCEPT ![o] = {<<i, unit[i].relation>> :
                    i \in {j \in DOMAIN unit : unit[j].parent = u /\ unit[j].relation # NoTag}}]
    /\ walk'[o] # {}
    /\ UNCHANGED <<unit, imports>>

\* The next child is ingested, or declined every time and left out.
WalkOn(o) ==
    \E target \in walk[o] :
        /\ walk' = [walk EXCEPT ![o] = @ \ {target}]
        /\ \/ MayLoad /\ Ingest(target[2], target[1])
           \/ UNCHANGED <<unit, imports>>

UnitsNext ==
    \/ \E c \in StateCodes : LoadState(c)
    \/ \E r \in Relations : IngestOne(r)
    \/ \E o \in Mappers, u \in 1..MaxUnits : u \in DOMAIN unit /\ StartWalk(o, u)
    \/ \E o \in Mappers : WalkOn(o)

UnitsSpec == UnitsInit /\ [][UnitsNext]_units

(***************************************************************************)
(* Properties.                                                             *)
(***************************************************************************)

\* A place is one unit: however the directory and the map came upon it, and a
\* unit carries the identifiers of one place only (osm/load.ts:44-58; Zanskar,
\* whose only code is a subdistrict's, boundaries.ts:259-269).
OneUnitPerPlace ==
    /\ \A i \in DOMAIN unit : unit[i].relation # NoTag /\ unit[i].lgd # NoTag
          => RefOf[unit[i].relation] = [kind |-> unit[i].level, code |-> unit[i].lgd]
    /\ \A i, j \in DOMAIN unit : i # j /\ unit[i].relation # NoTag =>
          RefOf[unit[i].relation] # [kind |-> unit[j].level, code |-> unit[j].lgd]

\* The recursion that walks the parents ends (geography.repository.ts:298-300:
\* "bounded by the nine levels of the hierarchy"): where every unit below the
\* states lies in a shallower shape that is held, each parent is shallower than
\* its child, in whatever order the imports came.
ParentsAreShallower ==
    (\A i \in DOMAIN unit : unit[i].shape /\ DepthOf[unit[i].level] > 1 => Holders(unit, i) # {})
    => \A i \in DOMAIN unit : unit[i].parent # NoUnit =>
          DepthOf[unit[unit[i].parent].level] < DepthOf[unit[i].level]

\* The ledger of places is sound: told apart, and filed without a loop.
PlacesAreSound == OneUnitPerPlace /\ ParentsAreShallower
=============================================================================
