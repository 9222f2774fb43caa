--------------------------- MODULE DistrictPlacing ---------------------------
(***************************************************************************)
(* Which district a tender belongs to: the resolver's four rules           *)
(* (gepnic/resolve.ts, detail.ts, aliases.ts) over the districts the       *)
(* ledger holds and the post offices' directory, which an operator         *)
(* replaces whole, in one transaction, while the resolver reads it in two  *)
(* statements (pincode/load.ts, resolve-cli.ts).  What reviewers decide    *)
(* meanwhile is in TenderLedger.                                           *)
(***************************************************************************)
EXTENDS Naturals, Sequences, FiniteSets

CONSTANTS
    Adverts,       \* the unplaced tenders of the state: [chain, pieces, place, pincode]
    HeldDistricts, \* the keys of the districts the ledger holds under the state
    Aliases,       \* an approved alias -> the district it stands for
    SpelledAs,     \* piece of text -> the district its vowel-less key is, if any
    Exactly,       \* pieces that spell it with its vowels
    Lengthy,       \* pieces long enough to be trusted without
    WordsIn,       \* piece of text -> districts one of its words spells
    Files,         \* file -> the directory's rows: [pincode, office, district, state]
    Spellings,     \* how the directories spell the state
    Operators, OneOperator, MaxReplacements, MaxPasses,
    Absent         \* no district, no text, nothing

\* What the table holds once.
Identity(r) == <<r.pincode, r.office, r.district>>

ASSUME PlacingIsBounded ==
    /\ MaxReplacements \in Nat /\ MaxPasses \in Nat /\ OneOperator \in BOOLEAN

\* A file spells the state one way; two may spell it differently.
ASSUME OneSpellingPerFile ==
    \A f \in DOMAIN Files : \A q, r \in Files[f] :
        {q.state, r.state} \subseteq Spellings => q.state = r.state

\* A file ends, and lists an office of a district once.
ASSUME OfficesAreListed ==
    \A f \in DOMAIN Files :
        /\ IsFiniteSet(Files[f])
        /\ \A q, r \in Files[f] : Identity(q) = Identity(r) => q = r

\* A chain is a list of segments and a segment a list of words; an alias is kept
\* only where the district it stands for is held (aliases.ts).
ASSUME AdvertsAreRead ==
    /\ IsFiniteSet(HeldDistricts)
    /\ \A name \in DOMAIN Aliases : Aliases[name] \in HeldDistricts
    /\ \A t \in DOMAIN Adverts :
          /\ Len(Adverts[t].chain) \in Nat
          /\ \A i \in 2..Len(Adverts[t].chain) :
                LET words == Adverts[t].chain[i].words
                IN  Len(words) \in Nat /\ DOMAIN words = 1..Len(words)

VARIABLES
    directory,  \* pincode_office: the files' rows, with the version they came in
    operator,   \* what each operator's load holds
    resolver,   \* what the resolver has read
    placed,     \* advert -> where it is, and on what evidence
    versions, replacements, passes

placing == <<directory, operator, resolver, placed, versions, replacements, passes>>

(***************************************************************************)
(* The directory.                                                          *)
(***************************************************************************)

\* readRecords: a row without a pincode, an office, a district or a state is
\* rejected and counted, never loaded.
ParseDirectory(file) ==
    {r \in Files[file] : Absent \notin {r.pincode, r.office, r.district, r.state}}

AtRest == [stage |-> "idle"]

\* The bytes are kept, the version opened, each in a statement of its own.
OpenDirectory(o) ==
    /\ operator[o].stage = "idle" /\ replacements < MaxReplacements
    /\ OneOperator => \A p \in Operators : operator[p].stage = "idle"
    /\ \E file \in DOMAIN Files :
          /\ ParseDirectory(file) # {}
          /\ operator' = [operator EXCEPT ![o] = [stage |-> "open", file |-> file,
                                                  version |-> versions + 1]]
    /\ versions' = versions + 1 /\ replacements' = replacements + 1
    /\ UNCHANGED <<directory, resolver, placed, passes>>

\* BEGIN; DELETE: the rows committed by now; whoever is replacing them already
\* is waited for.
Deleting == {p \in Operators : operator[p].stage = "deleted"}

DeleteOld(o) ==
    /\ operator[o].stage = "open"
    /\ operator' = [operator EXCEPT ![o] =
            [stage |-> "deleted", file |-> operator[o].file,
             version |-> operator[o].version, old |-> directory, behind |-> Deleting]]
    /\ UNCHANGED <<directory, resolver, placed, versions, replacements, passes>>

\* The batches, ON CONFLICT DO NOTHING; then COMMIT.
Inserted(o) ==
    LET kept == directory \ operator[o].old
    IN  kept \cup {[row |-> r, version |-> operator[o].version, file |-> operator[o].file] :
            r \in {q \in ParseDirectory(operator[o].file) :
                      \A k \in kept : Identity(k.row) # Identity(q)}}

CommitDirectory(o) ==
    /\ operator[o].stage = "deleted" /\ operator[o].behind \cap Deleting = {}
    /\ directory' = Inserted(o)
    /\ operator' = [operator EXCEPT ![o] = AtRest]
    /\ UNCHANGED <<resolver, placed, versions, replacements, passes>>

\* Any statement failing rolls all of them back.
FailDirectory(o) ==
    /\ operator[o].stage # "idle"
    /\ operator' = [operator EXCEPT ![o] = AtRest]
    /\ UNCHANGED <<directory, resolver, placed, versions, replacements, passes>>

(***************************************************************************)
(* The rules.  Each answers with the districts it would place the tender   *)
(* in: one, or none.                                                       *)
(***************************************************************************)

Known == HeldDistricts \cup DOMAIN Aliases

\* districtFromChain: a segment that is a district before a district's name in
\* an office's; the deepest first; the department never.
FromChain(advert) ==
    LET depths == 2..Len(advert.chain)
        whole == {i \in depths : advert.chain[i].key \in Known}
        within == {i \in depths : \E n \in DOMAIN advert.chain[i].words : advert.chain[i].words[n] \in Known}
        Deepest(found) == CHOOSE i \in found : \A j \in found : j <= i
        First(words) == words[CHOOSE n \in DOMAIN words : /\ words[n] \in Known
                                                          /\ \A m \in 1..(n - 1) : words[m] \notin Known]
    IN  CASE whole # {} -> {[name |-> advert.chain[Deepest(whole)].key, method |-> "chain_unit"]}
          [] whole = {} /\ within # {} ->
                {[name |-> First(advert.chain[Deepest(within)].words), method |-> "office_code"]}
          [] OTHER -> {}

Placement(district, method, file) == [district |-> district, method |-> method, file |-> file]

\* explicitly: as the ledger spells it, or by an approved alias of a district held.
Explicitly(advert) ==
    {Placement(IF n.name \in HeldDistricts THEN n.name ELSE Aliases[n.name], n.method, Absent) :
        n \in FromChain(advert)}

NamedByPieces(pieces) == {SpelledAs[p] : p \in {q \in pieces : q \in Exactly \cup Lengthy}} \cap HeldDistricts
NamedIn(pieces) == NamedByPieces(pieces) \cup ((UNION {WordsIn[p] : p \in pieces}) \cap HeldDistricts)

\* byLocation: one district from whole pieces, and no other anywhere in the text.
ByLocation(advert) ==
    IF Cardinality(NamedIn(advert.pieces)) = 1
    THEN {Placement(d, "location_district", Absent) : d \in NamedByPieces(advert.pieces)} ELSE {}

Only_Any(found) == found
Only(found) == IF Cardinality(found) = 1 THEN found ELSE {}

ByPincode(advert, index) ==
    {Placement(d, "pincode", index.file) :
        d \in Only({r.district : r \in {q \in index.rows : q.pincode = advert.pincode}}) \cap HeldDistricts}

ByPlace(advert, index) ==
    {Placement(d, "place_name", index.file) :
        d \in Only({r.district : r \in {q \in index.rows : q.office = advert.place}}) \cap HeldDistricts}

\* resolveDistrict: the first rule that answers.
ResolveDistrict(advert, index) ==
    LET rules == << Explicitly(advert), ByLocation(advert),
                    IF index.file = Absent THEN {} ELSE ByPincode(advert, index),
                    IF index.file = Absent THEN {} ELSE ByPlace(advert, index) >>
        answer == {n \in 1..4 : rules[n] # {}}
    IN  UNION {rules[n] : n \in {k \in answer : \A m \in answer : k <= m}}

(***************************************************************************)
(* A pass of the resolver over the state.                                  *)
(***************************************************************************)

Reads == [stage |-> "idle", names |-> {}, rows |-> {}, file |-> Absent]

\* The directory's spellings of the state, whatever load they are of.
ReadSpellings ==
    /\ resolver.stage = "idle" /\ passes < MaxPasses
    /\ resolver' = [Reads EXCEPT !.stage = "names",
                        !.names = {r.row.state : r \in directory} \cap Spellings]
    /\ passes' = passes + 1
    /\ UNCHANGED <<directory, operator, placed, versions, replacements>>

\* indexDirectory: the rows of the newest load under those spellings.
ReadRows ==
    /\ resolver.stage = "names"
    /\ LET newest == {r \in directory : \A q \in directory : q.version <= r.version}
           rows == {r \in newest : r.row.state \in resolver.names}
       IN  resolver' = [resolver EXCEPT !.stage = "rows", !.rows = {r.row : r \in rows},
                            !.file = IF rows = {} THEN Absent ELSE (CHOOSE r \in rows : TRUE).file]
    /\ UNCHANGED <<directory, operator, placed, versions, replacements, passes>>

\* Each unplaced tender in turn; a placement held is never replaced.
PlaceAll ==
    /\ resolver.stage = "rows"
    /\ placed' = [t \in DOMAIN Adverts |->
            LET answer == ResolveDistrict(Adverts[t], resolver)
            IN  IF placed[t].district # Absent \/ answer = {} THEN placed[t]
                ELSE CHOOSE a \in answer : TRUE]
    /\ resolver' = [resolver EXCEPT !.stage = "idle"]
    /\ UNCHANGED <<directory, operator, versions, replacements, passes>>

PlacingInit ==
    /\ directory = {} /\ versions = 0 /\ replacements = 0 /\ passes = 0
    /\ operator = [o \in Operators |-> AtRest]
    /\ resolver = Reads
    /\ placed = [t \in DOMAIN Adverts |-> Placement(Absent, Absent, Absent)]

PlacingNext ==
    \/ \E o \in Operators : OpenDirectory(o) \/ DeleteOld(o) \/ CommitDirectory(o) \/ FailDirectory(o)
    \/ ReadSpellings \/ ReadRows \/ PlaceAll

PlacingSpec == PlacingInit /\ [][PlacingNext]_placing

(***************************************************************************)
(* Properties.                                                             *)
(***************************************************************************)

\* Every office the file lists under the spellings of the state that the
\* resolver knew of.
Listed(file) == {r \in ParseDirectory(file) : r.state \in Spellings}

\* A tender is never placed on half a directory or on a word that another word
\* contradicts: what the post offices say of it is unanimous over the whole of
\* the file named as its evidence, whatever replaced or left that file since;
\* and a weaker rule never speaks where the portal names the district
\* (resolve.ts:12-32, pincode/load.ts:18-21).
PlacedOnWholeEvidence ==
    \A t \in DOMAIN Adverts :
        LET p == placed[t]
            advert == Adverts[t]
            chain == {advert.chain[i].key : i \in 2..Len(advert.chain)}
            Agree(rows) == rows # {} /\ \A r \in rows : r.district = p.district
        IN  p.district # Absent =>
              /\ p.district \in HeldDistricts
              /\ p.method = "pincode" => Agree({r \in Listed(p.file) : r.pincode = advert.pincode})
              /\ p.method = "place_name" => Agree({r \in Listed(p.file) : r.office = advert.place})
              /\ p.method = "location_district" => NamedIn(advert.pieces) = {p.district}
              /\ p.method # "chain_unit" => chain \cap Known = {}
              /\ p.method \in {"pincode", "place_name"} => Cardinality(NamedByPieces(advert.pieces)) # 1
                                                             \/ Cardinality(NamedIn(advert.pieces)) # 1

\* What a load leaves is one file, whole, or nothing (pincode/load.ts:18-21).
DirectoryIsOneFile ==
    directory # {} => \E f \in DOMAIN Files : {r.row : r \in directory} = ParseDirectory(f)

\* A tender is placed where its whole evidence says, and the directory it is
\* read from is whole: a wrong district is a false statement about where public
\* money goes (resolve.ts:18-25).
TendersArePlacedSoundly == PlacedOnWholeEvidence /\ DirectoryIsOneFile
=============================================================================
