----------------------------- MODULE FigureLinks -----------------------------
(***************************************************************************)
(* The two halves of a bilingual report, paired so that a figure stated in *)
(* both is counted once (services/ingestion/src/cag/figure-link.ts and     *)
(* figure-link-cli.ts, migration 0014).                                    *)
(*                                                                         *)
(* The linker reads every figure in one statement, clears every link in    *)
(* another and then writes one link at a time, each of them committed on   *)
(* its own, while reviewers and the parser go on.                          *)
(***************************************************************************)
EXTENDS Integers, FiniteSets, SequencesExt

CONSTANTS
    Figures,     \* the rows of document_fact that may come to be
    InLatin,     \* those on pages of the English half
    Values,      \* the amounts a figure may publish
    ValueOf,     \* what the parser reads each figure as
    Linkers,     \* processes that may run the linker
    OneLinker,   \* whether the operator runs one at a time
    MaxChanges,  \* bound on what reviewers and the parser do
    NoFigure     \* what a figure no other stands for is linked to

ASSUME FigureLinksAssumption ==
    /\ IsFiniteSet(Figures)
    /\ NoFigure \notin Figures \cup Values
    /\ InLatin \subseteq Figures
    /\ ValueOf \in [Figures -> Values \cup {NoFigure}]
    /\ OneLinker \in BOOLEAN
    /\ MaxChanges \in Nat

VARIABLES
    held,     \* the figures there are
    value,    \* coalesce(corrected_value, normalised_value)
    status,   \* verification_status
    same,     \* same_figure_as
    linker,   \* what each linker is doing
    changes,
    restated  \* figures changed since a linker last read them all: known to no program

figures == <<held, value, status>>
links == <<figures, same, linker, changes, restated>>

Resting == [pc |-> "resting", todo |-> {}]

LinksInit ==
    /\ held \in SUBSET Figures
    /\ value = ValueOf
    /\ status = [f \in Figures |-> "unverified"]
    /\ same = [f \in Figures |-> NoFigure]
    /\ linker = [l \in Linkers |-> Resting]
    /\ changes = 0
    /\ restated = FALSE

-----------------------------------------------------------------------------
(* Reviewers and the parser.                                               *)

Change ==
    /\ changes < MaxChanges
    /\ changes' = changes + 1
    /\ restated' = TRUE
    /\ UNCHANGED linker

\* A correction publishes another value, a rejection none.
Review(f, decision, v) ==
    /\ f \in held
    /\ \/ decision \in {"verified", "rejected"} /\ v = value[f]
       \/ decision = "corrected" /\ v \in Values
    /\ status' = [status EXCEPT ![f] = decision]
    /\ value' = [value EXCEPT ![f] = v]
    /\ UNCHANGED <<held, same>>
    /\ Change

ParserAdds(f) ==
    /\ f \notin held
    /\ held' = held \cup {f}
    /\ value' = [value EXCEPT ![f] = ValueOf[f]]
    /\ status' = [status EXCEPT ![f] = "unverified"]
    /\ UNCHANGED same
    /\ Change

\* ON DELETE SET NULL.
ParserRetires(f) ==
    /\ f \in held
    /\ status[f] = "unverified"
    /\ held' = held \ {f}
    /\ same' = [g \in Figures |-> IF g = f \/ same[g] = f THEN NoFigure ELSE same[g]]
    /\ UNCHANGED <<value, status>>
    /\ Change

-----------------------------------------------------------------------------
(* The linker.                                                             *)

\* Rejected figures are paired like any other.
Linkable_Any == {f \in held : value[f] # NoFigure}

Linkable == {f \in held : value[f] # NoFigure /\ status[f] # "rejected"}

Group(linkable, v) ==
    LET all == {f \in linkable : value[f] = v}
    IN  [devanagari |-> all \ InLatin, latin |-> all \cap InLatin]

\* The first of each half, however many there are.
PairFigures_First(linkable) ==
    {<<CHOOSE d \in g.devanagari : TRUE, CHOOSE l \in g.latin : TRUE>> :
        g \in {h \in {Group(linkable, v) : v \in Values} : h.devanagari # {} /\ h.latin # {}}}

\* One figure in each half, or none of them is paired.
PairFigures(linkable) ==
    {<<CHOOSE d \in g.devanagari : TRUE, CHOOSE l \in g.latin : TRUE>> :
        g \in {h \in {Group(linkable, v) : v \in Values} :
                  Cardinality(h.devanagari) = 1 /\ Cardinality(h.latin) = 1}}

ReadFigures(l) ==
    /\ linker[l].pc = "resting"
    /\ OneLinker => \A m \in Linkers : linker[m].pc = "resting"
    /\ linker' = [linker EXCEPT ![l] = [pc |-> "clear", todo |-> PairFigures(Linkable)]]
    /\ restated' = FALSE
    /\ UNCHANGED <<figures, same, changes>>

\* The links that stand are left for the new ones to overwrite.
ClearLinks_Not(l) ==
    /\ linker[l].pc = "clear"
    /\ linker' = [linker EXCEPT ![l].pc = "link"]
    /\ UNCHANGED <<figures, same, changes, restated>>

ClearLinks(l) ==
    /\ linker[l].pc = "clear"
    /\ same' = [f \in Figures |-> NoFigure]
    /\ linker' = [linker EXCEPT ![l].pc = "link"]
    /\ UNCHANGED <<figures, changes, restated>>

\* A citation that is gone is no row to update; a counted figure that is gone
\* breaks the foreign key, and the linker with it.
WriteLink(l, pair) ==
    /\ linker[l].pc = "link"
    /\ pair \in linker[l].todo
    /\ pair[1] \in held => pair[2] \in held
    /\ same' = IF pair[1] \in held THEN [same EXCEPT ![pair[1]] = pair[2]] ELSE same
    /\ linker' = [linker EXCEPT ![l].todo = @ \ {pair}]
    /\ UNCHANGED <<figures, changes, restated>>

FinishLinking(l) ==
    /\ linker[l].pc = "link"
    /\ linker[l].todo = {}
    /\ linker' = [linker EXCEPT ![l] = Resting]
    /\ UNCHANGED <<figures, same, changes, restated>>

\* Killed, or a statement that fails.
LinkerDies(l) ==
    /\ linker[l].pc # "resting"
    /\ linker' = [linker EXCEPT ![l] = Resting]
    /\ UNCHANGED <<figures, same, changes, restated>>

Relink(l) ==
    \/ ReadFigures(l) \/ ClearLinks(l) \/ FinishLinking(l) \/ LinkerDies(l)
    \/ \E pair \in linker[l].todo : WriteLink(l, pair)

LinksNext ==
    \/ \E f \in Figures :
          \/ \E decision \in {"verified", "corrected", "rejected"}, v \in Values \cup {NoFigure} :
                Review(f, decision, v)
          \/ ParserAdds(f) \/ ParserRetires(f)
    \/ \E l \in Linkers : Relink(l)

LinksSpec == LinksInit /\ [][LinksNext]_links

-----------------------------------------------------------------------------
(* Properties.                                                             *)

Citations == {f \in held : same[f] # NoFigure}

\* Citations and the figures they resolve to stay apart, which the schema cannot
\* say (0014): no chain, no loop, and a pair of halves, never three, though every
\* link is written on its own and a linker may die between two.
PairsAreApart ==
    /\ \A f \in Citations : same[f] \in held /\ same[f] \notin Citations
    /\ \A f, g \in Citations : same[f] = same[g] => f = g

\* What a linker leaves, when nothing was restated since it read: linked are just
\* those figures of the two halves that publish one value nobody else in either
\* half does.
PairsAreThose ==
    \A l \in Linkers :
        linker[l].pc = "link" /\ linker[l].todo = {} /\ ~restated
        => \A d \in held \ InLatin, e \in held \cap InLatin :
              (same[d] = e) <=>
                /\ value[d] = value[e] /\ value[d] # NoFigure
                /\ {status[d], status[e]} \cap {"rejected"} = {}
                /\ \A f \in held \ {d, e} : value[f] = value[d] => status[f] = "rejected"

\* The figures of two halves are joined just where they are one figure, and a
\* join never reaches a third (0014, figure-link-cli.ts:63).
FiguresAreCountedOnce == PairsAreApart /\ PairsAreThose
=============================================================================
