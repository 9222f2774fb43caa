------------------------------- MODULE Migrator -------------------------------
(***************************************************************************)
(* The migrations of the ledger, applied by hand from a checkout of the    *)
(* repository (packages/database/src/migrator.ts, cli.ts).  A checkout is  *)
(* a function from the names of its files to their texts.  A name, all of  *)
(* which is the id recorded, stands for its place in the order of names; a *)
(* text stands for its checksum.  Two checkouts may give one prefix to     *)
(* files of two names.  Nothing keeps two operators from migrating one     *)
(* database at once.                                                       *)
(***************************************************************************)
EXTENDS Integers, Sequences, FiniteSets

CONSTANTS
    Operators,
    Checkouts,   \* what an operator's working copy may hold
    MisnamedIn,  \* those with a name of no place, or two of one prefix
    MaxRuns      \* bound on the runs of the program

VARIABLES
    hasTable,    \* does schema_migration exist?
    recorded,    \* schema_migration: name -> text
    schema,      \* what was executed and committed, in order: <<name, text, checkout>>
    migrator,    \* each operator's program
    runs         \* how many were started

migrating == <<hasTable, recorded, schema, migrator, runs>>

ASSUME CheckoutsAssumption ==
    /\ \A c \in Checkouts : DOMAIN c \subseteq Nat /\ IsFiniteSet(DOMAIN c)
    /\ MisnamedIn \subseteq Checkouts

NoFiles == [n \in {} |-> n]

Stopped == [stage |-> "off", files |-> NoFiles, pending |-> {}, open |-> <<>>, says |-> "nothing"]

\* Names in S, the lowest first, one at a time.
Lowest(S) == CHOOSE n \in S : \A k \in S : n <= k

MigratorInit ==
    /\ hasTable = FALSE
    /\ recorded = NoFiles
    /\ schema = <<>>
    /\ migrator = [o \in Operators |-> Stopped]
    /\ runs = 0

LoadMigrations(o, files, asks) ==
    /\ migrator[o].stage = "off"
    /\ runs < MaxRuns
    /\ runs' = runs + 1
    /\ migrator' = [migrator EXCEPT ![o] =
                      IF files \in MisnamedIn THEN [Stopped EXCEPT !.says = "error"]
                      ELSE [Stopped EXCEPT !.stage = asks, !.files = files]]
    /\ UNCHANGED <<hasTable, recorded, schema>>

\* Two programs that create the table at once: the second is told it exists, or
\* is refused for a row of the catalogue, which is FailToMigrate.
EnsureMigrationTable(o) ==
    /\ migrator[o].stage = "ensure"
    /\ hasTable' = TRUE
    /\ migrator' = [migrator EXCEPT ![o].stage = "read"]
    /\ UNCHANGED <<recorded, schema, runs>>

\* An applied file whose text is another now.
IsChanged(files, applied) ==
    \E n \in DOMAIN files \cap DOMAIN applied : files[n] # applied[n]

IsAhead(files, applied) == ~(DOMAIN applied \subseteq DOMAIN files)

Pending(files, applied) == DOMAIN files \ DOMAIN applied

\* Decided once, on one read, for all the files of the run.
ReadApplied(o) ==
    LET files == migrator[o].files
        wrong == IsChanged(files, recorded) \/ IsAhead(files, recorded)
        left == Pending(files, recorded)
    IN  /\ migrator[o].stage = "read"
        /\ migrator' = [migrator EXCEPT ![o] =
                          IF wrong THEN [Stopped EXCEPT !.says = "error"]
                          ELSE IF left = {} THEN [@ EXCEPT !.stage = "off", !.says = "up to date"]
                          ELSE [@ EXCEPT !.stage = "apply", !.pending = left]]
        /\ UNCHANGED <<hasTable, recorded, schema, runs>>

\* In a transaction that may not write, and without the table if there is none.
StatusOf(o) ==
    LET files == migrator[o].files
        wrong == IsChanged(files, recorded) \/ IsAhead(files, recorded)
    IN  /\ migrator[o].stage = "status"
        /\ migrator' = [migrator EXCEPT ![o] =
                          [Stopped EXCEPT !.says = IF wrong THEN "error" ELSE "status"]]
        /\ UNCHANGED <<hasTable, recorded, schema, runs>>

-----------------------------------------------------------------------------
(* applyMigration: the text and its record, in one transaction.            *)

\* What others have recorded and not committed: the key of a row in the index.
HeldByOthers(o) == {migrator[p].open[1] : p \in {q \in Operators \ {o} : migrator[q].stage = "recorded"}}

ExecuteText(o) ==
    LET n == Lowest(migrator[o].pending)
    IN  /\ migrator[o].stage = "apply"
        /\ migrator' = [migrator EXCEPT ![o].stage = "executed",
                                        ![o].open = <<n, migrator[o].files[n], migrator[o].files>>]
        /\ UNCHANGED <<hasTable, recorded, schema, runs>>

\* An insert waits for a transaction that holds its key, and is refused if the
\* key was committed.
RecordMigration(o) ==
    /\ migrator[o].stage = "executed"
    /\ migrator[o].open[1] \notin HeldByOthers(o) \cup DOMAIN recorded
    /\ migrator' = [migrator EXCEPT ![o].stage = "recorded"]
    /\ UNCHANGED <<hasTable, recorded, schema, runs>>

CommitMigration(o) ==
    LET n == migrator[o].open[1]
        left == migrator[o].pending \ {n}
    IN  /\ migrator[o].stage = "recorded"
        /\ recorded' = [k \in DOMAIN recorded \cup {n} |->
                          IF k = n THEN migrator[o].open[2] ELSE recorded[k]]
        /\ schema' = Append(schema, migrator[o].open)
        /\ migrator' = [migrator EXCEPT ![o] =
                          IF left = {} THEN [@ EXCEPT !.stage = "off", !.pending = {}, !.open = <<>>,
                                                      !.says = "applied"]
                          ELSE [@ EXCEPT !.stage = "apply", !.pending = left, !.open = <<>>]]
        /\ UNCHANGED <<hasTable, runs>>

\* Mutant of AfterFailure: the rest is applied all the same.
AfterFailure_GoOn(m) ==
    LET left == m.pending \ {Lowest(m.pending)}
    IN  IF m.stage \in {"apply", "executed", "recorded"} /\ left # {}
        THEN [m EXCEPT !.stage = "apply", !.pending = left, !.open = <<>>]
        ELSE [Stopped EXCEPT !.says = "error"]

\* The transaction is rolled back and the program ends; the rest is not tried.
AfterFailure(m) == [Stopped EXCEPT !.says = "error"]

\* A statement fails, or the program or its connection is lost.
FailToMigrate(o) ==
    /\ migrator[o].stage # "off"
    /\ migrator' = [migrator EXCEPT ![o] = AfterFailure(migrator[o])]
    /\ UNCHANGED <<hasTable, recorded, schema, runs>>

-----------------------------------------------------------------------------
MigratorNext ==
    \E o \in Operators :
        \/ \E files \in Checkouts, asks \in {"ensure", "status"} : LoadMigrations(o, files, asks)
        \/ EnsureMigrationTable(o)
        \/ ReadApplied(o)
        \/ StatusOf(o)
        \/ ExecuteText(o)
        \/ RecordMigration(o)
        \/ CommitMigration(o)
        \/ FailToMigrate(o)

MigratorSpec == MigratorInit /\ [][MigratorNext]_migrating

-----------------------------------------------------------------------------
(* Properties.                                                             *)

\* The database and its own account of itself agree: what was committed was
\* committed once and is what is recorded; no file was executed while a lower one
\* of the same checkout was not; and whoever is told that all is applied has a
\* database that holds each file as the checkout has it.
SchemaIsAsRecorded ==
    /\ \A n \in 1..Len(schema) :
          /\ schema[n][1] \in DOMAIN recorded
          /\ recorded[schema[n][1]] = schema[n][2]
          /\ \A k \in 1..(n - 1) : schema[k][1] # schema[n][1]
          /\ \A low \in DOMAIN schema[n][3] : low < schema[n][1] =>
                \E k \in 1..(n - 1) : schema[k][1] = low /\ schema[k][2] = schema[n][3][low]
    /\ \A o \in Operators : migrator[o].says \in {"applied", "up to date"} =>
          \A n \in DOMAIN migrator[o].files :
             \E k \in 1..Len(schema) : schema[k][1] = n /\ schema[k][2] = migrator[o].files[n]
=============================================================================
