------------------------------ MODULE MCLedger ------------------------------
(***************************************************************************)
(* The ledger's versions as the loads open them (LedgerVersions) and as    *)
(* the requests read them (LedgerRead), and its schema as the migrator     *)
(* applies it (Migrator), its places as the directory and the map fill     *)
(* them in (AdminUnits), and who and where a report names (Mentions), each *)
(* small enough for TLC.  Which of them a behaviour is about is chosen in  *)
(* its first state; the others stay there.                                 *)
(***************************************************************************)
EXTENDS LedgerRead, LedgerVersions, Migrator, AdminUnits, Mentions, TLC

CONSTANTS rI, rS, rD, rT, rC, rZ, india, sM, sG, dM, tK, l1, l2

VARIABLE part

\* Checkouts of one repository as it grows: a second and a third file; one with the
\* first edited; and a branch whose second file has the same prefix and another name,
\* alone and merged.
First == 1 :> "x"
Second == First @@ (2 :> "y")
Third == Second @@ (4 :> "z")
Edited == (1 :> "changed") @@ (2 :> "y")
Branch == First @@ (3 :> "w")
Merged == Second @@ (3 :> "w")

Copies == {First, Second, Third, Edited, Branch, Merged}
Misnamed == {Merged}

\* A country, a state, two of its districts, one of them with a code of another
\* register; and in the other a taluka and a city that reach into each other.
Tagged ==
    (rI :> "country") @@ (rS :> "state") @@ (rD :> "district") @@ (rZ :> "district")
    @@ (rT :> "sub_district") @@ (rC :> "urban_local_body")
Ref(kind, code) == [kind |-> kind, code |-> code]
Refs ==
    (rS :> Ref("state", "27")) @@ (rD :> Ref("district", "15")) @@ (rZ :> Ref("sub_district", "15"))
    @@ [r \in {rI, rT, rC} |-> NoTag]
Areas == (rI :> 9) @@ (rS :> 7) @@ (rD :> 5) @@ (rZ :> 4) @@ (rC :> 3) @@ (rT :> 2)
Around == ({rS} \X {rD, rZ, rT, rC}) \cup ({rD} \X {rT, rC}) \cup {<<rC, rT>>, <<rT, rC>>}
Asked ==
    (rI :> {<<rS>>}) @@ (rS :> {<<rD, rZ>>, <<rT, rC>>}) @@ (rD :> {<<rC, rT>>})
    @@ (rT :> {<<rC>>}) @@ (rC :> {<<rT>>}) @@ (rZ :> {<<>>})

\* Three names read in reports of two states, and what each may be corrected to.
\* The taluka has no shape.
Filing(name, level, parent, drawn) ==
    [name |-> name, level |-> level, parent |-> parent, drawn |-> drawn]
UnitsFiled ==
    (india :> Filing("India", "country", NoPlace, TRUE)) @@ (sM :> Filing("Maharashtra", "state", india, TRUE))
    @@ (sG :> Filing("Goa", "state", india, TRUE)) @@ (dM :> Filing("Mulshi", "district", sM, TRUE))
    @@ (tK :> Filing("Karjat", "sub_district", dM, FALSE))

Name(sort, name) == [sort |-> sort, name |-> name]
NamesRead ==
    << Name("department", "Finance"), Name("government", "India"), Name("district", "Mulshi") >>
Renamed ==
    << {Name("department", "Works"), Name("government", "Maharashtra")},
       {Name("department", "Finance")}, {Name("sub_district", "Karjat")} >>
ReportsOf == <<sM, sG, sM>>
Covering ==
    { [kind |-> "body", state |-> All], [kind |-> "body", state |-> sM],
      [kind |-> "place", state |-> sM] }

LedgerInit ==
    /\ part \in {"reads", "loads", "migrations", "places", "mentions"}
    /\ ReadInit /\ Init /\ MigratorInit /\ UnitsInit /\ MentionsInit

LedgerNext ==
    /\ UNCHANGED part
    /\ \/ part = "reads" /\ ReadNext /\ UNCHANGED <<vars, migrating, units, mentioning>>
       \/ part = "loads" /\ Next /\ UNCHANGED <<reading, migrating, units, mentioning>>
       \/ part = "migrations" /\ MigratorNext /\ UNCHANGED <<reading, vars, units, mentioning>>
       \/ part = "places" /\ UnitsNext /\ UNCHANGED <<reading, vars, migrating, mentioning>>
       \/ part = "mentions" /\ MentionsNext /\ UNCHANGED <<reading, vars, migrating, units>>

LedgerSpec ==
    /\ LedgerInit
    /\ [][LedgerNext]_<<part, reading, vars, migrating, units, mentioning>>
    /\ ReadFairness
=============================================================================
