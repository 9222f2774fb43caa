---------------------------- MODULE ReviewLedger ----------------------------
(***************************************************************************)
(* What review promises about a claim, with rows, parser versions and      *)
(* database sessions left out: a claim is offered, an undecided one may be *)
(* withdrawn by whoever offered it, a person decides it once, and after    *)
(* that it only changes by a decision that keeps the one it replaces.      *)
(***************************************************************************)
EXTENDS Sequences

CONSTANTS
    Claims,     \* what may be claimed
    Rulings,    \* the decisions a person may make
    Undecided,  \* the mark of a claim nobody has decided
    NoClaim     \* the mark of a claim not on offer

VARIABLE ledger   \* per claim: not on offer, or its ruling and the ones it replaced

Entry == [ruling : Rulings \cup {Undecided}, replaced : Seq(Rulings)]

TypeOK == ledger \in [Claims -> Entry \cup {NoClaim}]

Init == ledger = [c \in Claims |-> NoClaim]

Offer(c) ==
    /\ ledger[c] = NoClaim
    /\ ledger' = [ledger EXCEPT ![c] = [ruling |-> Undecided, replaced |-> <<>>]]

Open(c) == ledger[c] # NoClaim /\ ledger[c].ruling = Undecided

Withdraw(S) ==
    /\ S # {}
    /\ \A c \in S : Open(c)
    /\ ledger' = [c \in Claims |-> IF c \in S THEN NoClaim ELSE ledger[c]]

Rule(c, d) ==
    /\ Open(c)
    /\ ledger' = [ledger EXCEPT ![c].ruling = d]

Replace(c, d) ==
    /\ ledger[c] # NoClaim
    /\ ledger[c].ruling \notin {Undecided, d}
    /\ ledger' = [ledger EXCEPT ![c] =
                    [ruling |-> d, replaced |-> Append(@.replaced, @.ruling)]]

Next ==
    \/ \E c \in Claims : Offer(c)
    \/ \E S \in SUBSET Claims : Withdraw(S)
    \/ \E c \in Claims, d \in Rulings : Rule(c, d) \/ Replace(c, d)

Spec == Init /\ [][Next]_ledger
=============================================================================
