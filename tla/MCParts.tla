------------------------------- MODULE MCParts -------------------------------
(***************************************************************************)
(* Programs that share no state, each checked on its own in one run: the   *)
(* copy of a report to the readers' database (Promotion), the pairing of   *)
(* its halves (FigureLinks), what the collectors ask a host for            *)
(* (BoundedFetch), the inbox of readers' reports (CorrectionIntake), what  *)
(* a reviewer at the desk is asked and answers (ReviewDesk), what is read  *)
(* from a page (CagReading, NoticeReading, PlaceNames), and where a tender *)
(* is placed (DistrictPlacing).  Which of them a behaviour is about is     *)
(* chosen in its first state; the others stay there.                       *)
(***************************************************************************)
EXTENDS Promotion, FigureLinks, BoundedFetch, CorrectionIntake, ReviewDesk, CagReading,
        NoticeReading, PlaceNames, DistrictPlacing

CONSTANTS a, b, sc, p1, p2, d1, d2, e1, e2, l1, c1, c2, x1, x2, x3, i1, i2, v1, n1,
          nagpur, u1, u2, al, o1, o2, f1, f2, wA, wB, mh, mH

VARIABLE part

\* Two figures of one identity, and one still to come that may cite either of them.
Alike == <<a, a>>
Cited == {<<b, a>>}

\* What the parser reads on the pages of either half: e2 has no amount.
Amounts == (d1 :> 5) @@ (d2 :> 6) @@ (e1 :> 5) @@ (e2 :> NoFigure)

\* Two pages of a host, and the patterns for both, for the second, and for it at
\* more length.
Covers == ("all" :> {"p", "q"}) @@ ("second" :> {"q"}) @@ ("precise" :> {"q"})
Long == ("all" :> 1) @@ ("second" :> 2) @@ ("precise" :> 3)

For(who) == [key |-> "agent", value |-> who]
No(pattern) == [key |-> "disallow", value |-> pattern]
Yes(pattern) == [key |-> "allow", value |-> pattern]

Policies ==
    { <<>>,
      <<For("us"), No("second")>>,
      <<For("us"), No("all"), Yes("precise")>>,
      <<For("other"), For("us"), No("second"), Yes("precise")>>,
      <<For("us"), No(NoPattern), For("other"), No("all")>>,
      <<For("us"), Yes("second"), No("second"), For("other"), Yes("precise")>> }

\* One collector at work, or two polite ones on one host, or none.
One(kind, robots) == [errand |-> (c1 :> kind) @@ (c2 :> "absent"),
                      page |-> (c1 :> "q") @@ (c2 :> "q"), file |-> robots]

Nobody == One("absent", <<>>)

Errands ==
    {One(kind, <<>>) : kind \in {"report", "export", "query"}}
      \cup {One("portal", robots) : robots \in {<<For("us"), No("second")>>,
                                                <<For("us"), No("all"), Yes("precise")>>}}
      \cup {One("polite", robots) : robots \in Policies}
      \cup {[errand |-> (c1 :> "polite") @@ (c2 :> "polite"),
             page |-> (c1 :> "p") @@ (c2 :> "q"), file |-> <<For("us"), No("second")>>]}
      \cup {Nobody}

Doubling == <<1, 2>>

NobodyCalls == \A c \in Callers : errand[c] = "absent"

\* What a reader's post may be: in order, or wrong in one way or more.
Good == [fromSite |-> TRUE, large |-> FALSE, internal |-> FALSE, readable |-> TRUE,
         problems |-> {}]

Bodies ==
    { Good,
      [Good EXCEPT !.fromSite = FALSE, !.large = TRUE],
      [Good EXCEPT !.large = TRUE],
      [Good EXCEPT !.internal = TRUE],
      [Good EXCEPT !.readable = FALSE],
      [Good EXCEPT !.problems = {"automated", "field"}],
      [Good EXCEPT !.problems = {"field"}] }

----------------------------------------------------------------------------
(* Six candidates on three pages of two reports: a figure its statement says, *)
(* one it says beside another's, one said as a limit, one nowhere loaded yet, *)
(* and a place named twice.                                                   *)

Says(paise) == [paise |-> paise, mark |-> "rupee", criterion |-> FALSE]
Limit(paise) == [paise |-> paise, mark |-> "rupee", criterion |-> TRUE]

Pages == << <<1, 1>>, <<1, 1>>, <<1, 1>>, <<1, 2>>, <<1, 2>>, <<2, 1>> >>
KindsRead == <<"money", "money", "money", "money", "place", "place">>
ValuesRead == <<5, 6, 7, 8, nagpur, nagpur>>
Statements ==
    << <<Says(5)>>, <<Says(6), Says(5)>>, <<Limit(7)>>, <<Says(8), Says(5)>>, <<>>, <<>> >>

Plainly == [mode |-> "single", kind |-> "any", document |-> 0, ids |-> {}, only |-> "all",
            limit |-> 0, decision |-> "verified", note |-> "why"]

CommandLines ==
    { [Plainly EXCEPT !.limit = 1],
      [Plainly EXCEPT !.mode = "batch", !.only = "confirmed"],
      [Plainly EXCEPT !.mode = "batch", !.only = "confirmed_in_context", !.document = 1],
      [Plainly EXCEPT !.mode = "batch", !.only = "ambiguous"],
      [Plainly EXCEPT !.mode = "bulk", !.only = "criterion", !.decision = "rejected"],
      [Plainly EXCEPT !.mode = "bulk", !.ids = {1, 2, 4}],
      [Plainly EXCEPT !.mode = "corrections", !.ids = {3}, !.decision = "corrected"],
      [Plainly EXCEPT !.mode = "places", !.kind = "place"] }

----------------------------------------------------------------------------
(* What a PDF's page is read as: pieces of text with what a sentence, a figure *)
(* and a unit are told by.                                                     *)

Item(str, eol) == [str |-> str, eol |-> eol]

TextItems ==
    { Item(<<"rupee", "digit">>, FALSE), Item(<<"rupee", "blank", "digit", "stop", "digit">>, TRUE),
      Item(<<"blank", "rupee">>, FALSE), Item(<<"digit">>, TRUE), Item(<<"blank", "crore">>, FALSE),
      Item(<<"control">>, FALSE), Item(<<"stop", "blank">>, FALSE), Item(<<"core">>, FALSE),
      Item(<<"word", "close", "crore">>, FALSE), Item(<<"caption">>, TRUE),
      Item(<<"tick", "digit">>, FALSE), Item(<<"heading", "blank">>, FALSE),
      Item(<<"blank", "blank", "per", "blank">>, FALSE), Item(<<"control", "over", "blank">>, FALSE),
      Item(<<"digit", "stop", "digit", "digit", "digit">>, FALSE) }

----------------------------------------------------------------------------
(* What a notice's page is printed of in each layout, and dates and hours in   *)
(* each script: of two readings, of one, and of none.                          *)

Sheets ==
    [form |-> { <<"form", "emd", "blank">>, <<"form", "total_fee", "blank", "star", "dash">>,
                <<"digit", "digit">>, <<"digit", "comma", "digit", "digit">>, <<"line">>,
                <<"comma", "digit", "digit">>, <<"comma", "digit", "digit", "digit">>,
                <<"point", "digit", "digit">> },
     dates |-> { <<"form", "financial">>, <<"blank">>, <<"opening">>, <<"line", "opening">>,
                 <<"publish">>, <<"blank", "when">> },
     letter |-> { <<"deposit">>, <<"fee", "blank">>, <<"colon", "inr">>, <<"digit", "comma", "digit", "digit">>, <<"digit">>, <<"comma", "digit", "digit", "digit">>,
                 <<"blank">>, <<"only">>, <<"gst">>, <<"line">> },
     schedule |-> { <<"last">>, <<"meeting", "colon">>, <<"date">>, <<"line">>, <<"word">> , <<"blank">>},
     reference |-> { <<"no", "msidc", "slash">>, <<"refno", "blank", "msidc">>, <<"slash">>, <<"segment">>, <<"year">>,
                     <<"slash", "year">>, <<"range">>, <<"blank">>, <<"call">>, <<"word">>, <<"digit">>, <<"line">> }]
Stamp(script, day, month, year, half, hour, minute) ==
    [script |-> script, day |-> day, month |-> month, year |-> year, part |-> half, hour |-> hour, minute |-> minute]
Inked ==
    {Stamp("letter", d, m, y, "none", 0, 0) : d \in {0, 1, 11, 12, 13, 28, 29, 30, 31, 32}, m \in 0..13, y \in {26, 1900, 2024, 2026}}
      \cup {Stamp("form", 29, 2, 2024, half, h, m) : half \in {"AM", "PM"}, h \in 0..13, m \in {0, 59, 60}}
      \cup {Stamp("letter", 29, 2, 2024, "at", h, m) : h \in {0, 12, 23, 24}, m \in {0, 60}}
      \cup {Stamp("schedule", 29, 2, 2024, half, h, m) : half \in {"morning", "afternoon", "evening", "night"}, h \in 0..13, m \in {0, 60}}

(* The dates of a listing's row, in words, in digits, with an hour after them, *)
(* and on days their month lacks.                                              *)
Cells ==
    {Stamp("cell", d, m, y, half, h, 0) : d \in {9, 31}, m \in {3, 9}, y \in {2023, 2024},
                                          half \in {"full", "short", "digits"}, h \in {0, 12}}
      \cup {Stamp("cell", d, 2, y, "full", 0, 0) : d \in {0, 28, 29, 30}, y \in {2023, 2024}}
      \cup {Stamp("cell", d, 9, 2024, "sept", 0, 0) : d \in {30, 31}}
LinkSets == { <<>>, <<[id |-> 1, pdf |-> TRUE, whole |-> TRUE], [id |-> 2, pdf |-> TRUE, whole |-> FALSE]>> }
ListingRows ==
    {[agency |-> of, published |-> one, closing |-> two, links |-> <<>>] :
        of \in {"mhada", "msidc"}, one \in Cells, two \in Cells}
      \cup {[agency |-> of, published |-> one, closing |-> one, links |-> hrefs] :
                of \in {"mhada", "msidc"}, one \in Cells, hrefs \in LinkSets}

----------------------------------------------------------------------------
(* The places of a state of which one's name begins with another's, one ends  *)
(* with another's, two talukas share theirs, and one is too short to be told  *)
(* from a word.                                                               *)

Place(id, name, level) == [id |-> id, name |-> name, level |-> level]

PlacesOfState ==
    { Place(1, <<"Mumbai">>, "district"), Place(2, <<"Mumbai", "Suburban">>, "district"),
      Place(3, <<"Ahilya", "District">>, "district"), Place(4, <<"Ahilya">>, "sub_district"),
      Place(5, <<"Karjat">>, "sub_district"), Place(6, <<"Karjat">>, "sub_district"),
      Place(7, <<"Pen">>, "sub_district"), Place(8, <<"Suburban">>, "sub_district") }

LettersIn ==
    [Mumbai |-> 6, Suburban |-> 8, Ahilya |-> 6, Karjat |-> 6, Pen |-> 3, District |-> 8,
     other |-> 5]

----------------------------------------------------------------------------
(* Two districts, one also known by an alias, and tenders that name one in    *)
(* their chain, in an office's name, in their location, in two places at      *)
(* once, misspelled, or not at all; and two editions of the post offices'     *)
(* directory, of which each has a pincode or an office in two districts.      *)

Unit(key, words) == [key |-> key, words |-> words]
Advert(chain, pieces, place, pincode) ==
    [chain |-> chain, pieces |-> pieces, place |-> place, pincode |-> pincode]

Advertised ==
    << Advert(<<Unit(u2, <<u2>>), Unit(Absent, <<Absent, al>>), Unit(u1, <<u1>>)>>, {}, Absent, 1),
       Advert(<<Unit(Absent, <<>>), Unit(Absent, <<u1>>), Unit(Absent, <<al, u2>>)>>, {"one"}, Absent, 2),
       Advert(<<Unit(u1, <<u1>>)>>, {"one", "town"}, Absent, 2),
       Advert(<<>>, {"one", "town two"}, Absent, 1),
       Advert(<<>>, {"wun"}, wB, 3),
       Advert(<<>>, {"town"}, wA, 2) >>

Approved == al :> u2
Loosely == ("one" :> u1) @@ ("wun" :> u1) @@ ("town" :> Absent) @@ ("town two" :> Absent)
Spelled == ("one" :> {u1}) @@ ("wun" :> {}) @@ ("town" :> {}) @@ ("town two" :> {u2})

Office(pincode, office, district, state) ==
    [pincode |-> pincode, office |-> office, district |-> district, state |-> state]
Editions ==
    (f1 :> {Office(1, wA, u1, mh), Office(2, wA, u1, mh), Office(2, wB, u2, mh),
            Office(3, wB, u2, mh), Office(9, wB, d1, mh), Office(3, Absent, u1, mh)})
    @@ (f2 :> {Office(1, wA, u1, mH), Office(1, wB, u2, mH), Office(2, wA, u2, mH),
               Office(3, wB, u2, mH), Office(2, wB, u1, d2), Office(Absent, wB, u1, mH)})

----------------------------------------------------------------------------
PartsInit ==
    /\ part \in {"promotion", "links", "fetch", "intake", "desk", "page", "notice", "names", "placing"}
    /\ Init
    /\ LinksInit
    /\ FetchInit
    /\ IntakeInit
    /\ DesksInit
    /\ PageInit
    /\ NoticeInit
    /\ NamesInit
    /\ PlacingInit
    /\ part # "intake" => configured
    /\ part # "links" => held = Figures
    /\ (part = "fetch") # NobodyCalls

PartsNext ==
    /\ UNCHANGED part
    /\ \/ /\ part = "promotion" /\ Next
          /\ UNCHANGED <<links, fetching, intake, desks, reading_page, noticing, named_reading, placing>>
       \/ /\ part = "links" /\ LinksNext
          /\ UNCHANGED <<vars, fetching, intake, desks, reading_page, noticing, named_reading, placing>>
       \/ /\ part = "fetch" /\ FetchNext
          /\ UNCHANGED <<vars, links, intake, desks, reading_page, noticing, named_reading, placing>>
       \/ /\ part = "intake" /\ IntakeNext
          /\ UNCHANGED <<vars, links, fetching, desks, reading_page, noticing, named_reading, placing>>
       \/ /\ part = "desk" /\ DesksNext
          /\ UNCHANGED <<vars, links, fetching, intake, reading_page, noticing, named_reading, placing>>
       \/ /\ part = "page" /\ PageNext
          /\ UNCHANGED <<vars, links, fetching, intake, desks, noticing, named_reading, placing>>
       \/ /\ part = "notice" /\ NoticeNext
          /\ UNCHANGED <<vars, links, fetching, intake, desks, reading_page, named_reading, placing>>
       \/ /\ part = "names" /\ NamesNext
          /\ UNCHANGED <<vars, links, fetching, intake, desks, reading_page, noticing, placing>>
       \/ /\ part = "placing" /\ PlacingNext
          /\ UNCHANGED <<vars, links, fetching, intake, desks, reading_page, noticing, named_reading>>

everything ==
    <<part, vars, links, fetching, intake, desks, reading_page, noticing, named_reading, placing>>

PartsSpec == PartsInit /\ [][PartsNext]_everything /\ WF_fetching(part = "fetch" /\ Collect)

\* The collectors alone.
FetchesInit == PartsInit /\ part = "fetch"
FetchesSpec == FetchesInit /\ [][PartsNext]_everything
=============================================================================
