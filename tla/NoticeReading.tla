--------------------------- MODULE NoticeReading ---------------------------
(***************************************************************************)
(* How a tender notice's page is read for its facts (notice-facts.ts of    *)
(* services/ingestion/src/maharashtra): the portal's printed form by its   *)
(* labels, the issuer's letter by the lines it usually has, MHADA's notice *)
(* by its schedule; and how the rows of the agencies' listings are read,   *)
(* which lead to the notices (mhada.ts, msidc.ts).  A mark stands for      *)
(* whatever of its class is on the page; white space may be one mark or    *)
(* several, where a page wraps.                                            *)
(***************************************************************************)
EXTENDS Integers, FiniteSets, Sequences

CONSTANTS
    Layouts,     \* for each layout, the strips of print its pages are made of
    MaxStrips,
    Stamps,      \* the dates and hours a page may print, by the script they are in
    Rows,        \* the rows a listing may have: its agency, its dates and its links
    Illegible    \* no value

Dates == [script : STRING, day : Nat, month : Nat, year : Nat, part : STRING, hour : Nat, minute : Nat]

ASSUME NoticesAssumption ==
    /\ MaxStrips \in Nat
    /\ \A layout \in DOMAIN Layouts : Layouts[layout] \subseteq Seq(STRING)
    /\ \A s \in Stamps :
          /\ s \in Dates /\ s.script \in {"form", "letter", "schedule"}
          /\ s.script = "form" => s.part \in {"AM", "PM"}
          /\ s.script = "schedule" => s.part \in {"none", "morning", "afternoon", "evening", "night"}
    /\ \A r \in Rows :
          /\ r.agency \in {"mhada", "msidc"} /\ {r.published, r.closing} \subseteq Dates
          /\ \A s \in {r.published, r.closing} : s.part = "sept" => s.month = 9

VARIABLES
    strips,   \* what is printed on the page so far, in how many strips, and its layout
    stamp,    \* a date printed on a page of its own
    row       \* a row of a listing

noticing == <<strips, stamp, row>>

(* The marks: form (the portal's name, on every page of its form), blank and  *)
(* line (white space), digit, comma, point; the form's labels emd,            *)
(* tender_fee, total_fee with its star and dash, publish, financial and       *)
(* opening ("Financial", "Bid Opening Date"), when (a date and hour); the     *)
(* letter's labels deposit, fee, last ("Last date of submission"), meeting,   *)
(* with colon, inr, only ("/-"), gst ("+ GST"), date, word, no, refno, msidc, *)
(* slash, segment, year, range, call.                                         *)
Space == {"blank", "line"}

Least(S) == CHOOSE n \in S : \A k \in S : n <= k
Greatest(S) == CHOOSE n \in S : \A k \in S : k <= n

Mark(page, i) == IF i \in DOMAIN page THEN page[i] ELSE "end"
Beyond(page, i, class) == Least({j \in i..(Len(page) + 1) : Mark(page, j) \notin class})

\* A text without its white space.
Unspaced(text) ==
    LET kept[n \in 0..Len(text)] ==
            IF n = 0 THEN <<>>
            ELSE IF text[n] \in Space THEN kept[n - 1] ELSE Append(kept[n - 1], text[n])
    IN  kept[Len(text)]

Spot(field, start, end, value) == [field |-> field, start |-> start, end |-> end, value |-> value]
Found(page, mark) == {p \in DOMAIN page : page[p] = mark}

(***************************************************************************)
(* Amounts.                                                                *)
(***************************************************************************)

\* AMOUNT: digits and commas, and up to two decimal places; the place after it.
AmountEnd(page, i) ==
    LET whole == Beyond(page, i, {"digit", "comma"})
    IN  IF Mark(page, whole) = "point" /\ Mark(page, whole + 1) = "digit"
        THEN IF Mark(page, whole + 2) = "digit" THEN whole + 3 ELSE whole + 2
        ELSE whole

Commas(figure) == {i \in 1..(Beyond(figure, 1, {"digit", "comma"}) - 1) : figure[i] = "comma"}

\* No comma, or one to three digits, then groups of so many, then three.
IsGrouped(figure, inner) ==
    LET commas == Commas(figure)
        last == Beyond(figure, 1, {"digit", "comma"}) - 4
    IN  commas # {} =>
            /\ Least(commas) \in 2..4 /\ Greatest(commas) = last
            /\ \A c \in commas : c = last \/ c + inner + 1 \in commas
            /\ \A c, d \in commas : c < d => c + inner < d

AmountIn(figure) ==
    [digits |-> Cardinality({i \in 1..(Beyond(figure, 1, {"digit", "comma"}) - 1) : figure[i] = "digit"}),
     places |-> Len(figure) - Least({Beyond(figure, 1, {"digit", "comma"}), Len(figure)})]

PrintedRupeesToPaise_Lenient(figure) == AmountIn(figure)

\* Commas fall where Indian or Western grouping puts them, or there is no value.
PrintedRupeesToPaise(figure) ==
    IF IsGrouped(figure, 2) \/ IsGrouped(figure, 3) THEN AmountIn(figure) ELSE Illegible

AmountAt(page, i) == PrintedRupeesToPaise(SubSeq(page, i, AmountEnd(page, i) - 1))

(***************************************************************************)
(* The portal's form (gepnicReadings).                                     *)
(***************************************************************************)

\* Where the figure of a labelled amount begins: after white space, or after
\* the total's star and dash.
FormFigure(page, p) ==
    LET q == Beyond(page, p + 1, Space)
        r == IF Mark(page, q) = "star" THEN Beyond(page, q + 1, Space) ELSE q
    IN  IF page[p] # "total_fee" THEN IF q > p + 1 THEN q ELSE 0
        ELSE IF Mark(page, r) = "dash" THEN Beyond(page, r + 1, Space) ELSE 0

FormAmounts(page) ==
    {Spot(page[p], FormFigure(page, p), AmountEnd(page, FormFigure(page, p)),
           AmountAt(page, FormFigure(page, p))) :
        p \in {x \in DOMAIN page : /\ page[x] \in {"emd", "tender_fee", "total_fee"}
                                   /\ Mark(page, FormFigure(page, x)) = "digit"}}

LooksBack_Never(page, p) == FALSE

\* (?<!Financial\s): one mark of white space is looked behind, whatever it is.
LooksBack(page, p) == Mark(page, p - 1) \in Space /\ Mark(page, p - 2) = "financial"

\* Where each label of a date ends; a label may wrap.
DateLabels(page) ==
    {[field |-> "publish", end |-> p + 1] : p \in Found(page, "publish")}
      \cup {[field |-> "bid_opening", end |-> p + 1] :
                p \in {x \in Found(page, "opening") : ~LooksBack(page, x)}}
      \cup {[field |-> "financial_bid_opening", end |-> Beyond(page, p + 1, Space) + 1] :
                p \in {x \in Found(page, "financial") :
                          LET q == Beyond(page, x + 1, Space)
                          IN  q > x + 1 /\ Mark(page, q) = "opening"}}

FormDates(page) ==
    LET At(l) == Beyond(page, l.end, Space)
    IN  {Spot(l.field, At(l), At(l) + 1, "when") :
            l \in {x \in DateLabels(page) : At(x) > x.end /\ Mark(page, At(x)) = "when"}}

(***************************************************************************)
(* The issuer's letter (letterIdentifiers, letterAmounts, letterDates).    *)
(***************************************************************************)

\* After "Earnest Money Deposit", up to the colon of its line, then the currency;
\* after the fee, a colon or none.
LetterFigure(page, p) ==
    LET colon == IF page[p] = "deposit"
                 THEN Least({j \in p..(Len(page) + 1) : Mark(page, j) \in {"colon", "line", "end"}})
                 ELSE Beyond(page, p + 1, Space)
        currency == IF Mark(page, colon) = "colon" THEN Beyond(page, colon + 1, Space)
                    ELSE IF page[p] = "fee" THEN colon ELSE 0
    IN  IF Mark(page, currency) = "inr" THEN Beyond(page, currency + 1, Space) ELSE 0

\* The fee as payable, or, with "+ GST" after it, as stated before tax.
FeeField(page, end) ==
    LET only == IF Mark(page, Beyond(page, end, Space)) = "only"
                THEN Beyond(page, end, Space) + 1 ELSE end
    IN  IF Mark(page, Beyond(page, only, Space)) = "gst" THEN "tender_fee_before_gst" ELSE "tender_fee"

\* These two patterns are compiled without their groups' positions, so where a
\* value sits is where its label begins.
LetterAmounts(page) ==
    {LET i == LetterFigure(page, p) IN
        Spot(IF page[p] = "deposit" THEN "emd" ELSE FeeField(page, AmountEnd(page, i)),
              p, AmountEnd(page, i), AmountAt(page, i)) :
        p \in {x \in DOMAIN page : /\ page[x] \in {"deposit", "fee"}
                                   /\ Mark(page, LetterFigure(page, x)) = "digit"}}

\* Where the date of a label is: "Last date" is followed by anything of its line
\* that is no digit, the other labels by a colon or nothing.
DateAfter(page, p) ==
    LET after == Beyond(page, p + 1, Space)
    IN  IF page[p] = "last"
        THEN Least({j \in p..(Len(page) + 1) : Mark(page, j) \in {"digit", "date", "line", "end"}})
        ELSE IF Mark(page, after) = "colon" THEN Beyond(page, after + 1, Space) ELSE after

LetterDates(page) ==
    {Spot(page[p], DateAfter(page, p), DateAfter(page, p) + 1, "date") :
        p \in {x \in DOMAIN page : /\ page[x] \in {"last", "meeting"}
                                   /\ Mark(page, DateAfter(page, x)) = "date"}}

\* What may stand between the issuer's name and a year of its reference.
Leads(page, from, y) ==
    LET between == Unspaced(SubSeq(page, from + 1, y - 1))
    IN  /\ \A i \in DOMAIN between : between[i] \in {"slash", "segment", "year"}
        /\ between # <<>> /\ between[1] = "slash" /\ between[Len(between)] = "slash"
        /\ \A i \in 2..Len(between) : between[i - 1] = "slash" \/ between[i] = "slash"

ReferenceEnd_AtTheYear(page, y) == y + 1

\* After a year, the years it runs to and a call; the longest the pattern allows.
ReferenceEnd(page, y) ==
    LET range == IF Mark(page, Beyond(page, y + 1, Space)) = "range" THEN Beyond(page, y + 1, Space) + 1
                 ELSE y + 1
        call == IF Mark(page, Beyond(page, range, Space)) = "call" THEN Beyond(page, range, Space) + 1
                ELSE range
        allowed == {e \in {y + 1, range, call} : Mark(page, e) \notin {"digit", "slash"}}
    IN  IF allowed = {} THEN 0 ELSE Greatest(allowed)

LetterReferences(page) ==
    LET Begins(p) == \/ page[p] = "refno"
                     \/ page[p] = "no" /\ Mark(page, p - 1) \in {"line", "end"}
        Years(m) == {y \in Found(page, "year") : y > m /\ Leads(page, m, y) /\ ReferenceEnd(page, y) > 0}
        Heads == {Beyond(page, p + 1, Space) : p \in {x \in DOMAIN page : Begins(x)}}
    IN  {LET y == Least(Years(m))
             text == SubSeq(page, m, ReferenceEnd(page, y) - 1)
         IN  Spot("issuer_reference", m, ReferenceEnd(page, y), Unspaced(text)) :
            m \in {x \in Heads : Mark(page, x) = "msidc" /\ Years(x) # {}}}

\* readingsOf: a page of the form is read as the form and as nothing else.
ReadingsOf(page) ==
    IF Found(page, "form") # {} THEN FormAmounts(page) \cup FormDates(page)
    ELSE LetterReferences(page) \cup LetterAmounts(page) \cup LetterDates(page)

(***************************************************************************)
(* Dates and hours (isoDate, twentyFourHour, letterDate, marathiDate).     *)
(***************************************************************************)

IsLeap(year) == year % 4 = 0 /\ (year % 100 # 0 \/ year % 400 = 0)
DaysIn(month, year) ==
    IF month \in {4, 6, 9, 11} THEN 30 ELSE IF month # 2 THEN 31 ELSE IF IsLeap(year) THEN 29 ELSE 28

\* A date the calendar has; a year before 100 is one of the last century's to Date.
OnCalendar(year, month, day) == month \in 1..12 /\ day \in 1..DaysIn(month, year)
IsoDate(year, month, day) ==
    IF year >= 100 /\ OnCalendar(year, month, day) THEN <<year, month, day>> ELSE Illegible

TwentyFourHour_Noon(hour, minute, half) ==
    IF hour \notin 1..12 \/ minute >= 60 THEN Illegible ELSE hour + (IF half = "PM" THEN 12 ELSE 0)

TwentyFourHour(hour, minute, half) ==
    IF hour \notin 1..12 \/ minute >= 60 THEN Illegible ELSE (hour % 12) + (IF half = "PM" THEN 12 ELSE 0)

\* PARTS_OF_DAY: the hours each part of the day can name.
MarathiHour(part, hour) ==
    IF hour \notin 1..12 THEN Illegible
    ELSE CASE part = "morning" -> hour % 12
           [] part = "afternoon" -> IF hour = 12 THEN 12 ELSE IF hour <= 6 THEN hour + 12 ELSE Illegible
           [] part = "evening" -> IF hour < 12 THEN hour + 12 ELSE Illegible
           [] part = "night" -> IF hour \in 7..11 THEN hour + 12 ELSE Illegible

\* Both orders form a date: read day-first, and marked for review.
IsAmbiguous(s) == s.day <= 12 /\ s.day # s.month

Dated(date, hour, ambiguous) == [date |-> date, hour |-> hour, ambiguous |-> ambiguous]

\* gepnicDateTime: the month by its name; a date without its hour is no date.
FormDateTime(s) ==
    LET date == IsoDate(s.year, s.month, s.day)
        hour == TwentyFourHour(s.hour, s.minute, s.part)
    IN  IF date = Illegible \/ hour = Illegible THEN Dated(Illegible, Illegible, FALSE)
        ELSE Dated(date, hour, FALSE)

\* letterDate: a date whose hour no clock shows is read without it.
LetterDate(s) ==
    LET date == IsoDate(s.year, s.month, s.day)
        timed == s.part # "none" /\ s.hour < 24 /\ s.minute < 60
    IN  Dated(date, IF date # Illegible /\ timed THEN s.hour ELSE Illegible, IsAmbiguous(s))

\* marathiDate: and so is one whose part of the day cannot name its hour.
MarathiDate(s) ==
    LET date == IsoDate(s.year, s.month, s.day)
        timed == s.part # "none" /\ s.minute < 60
    IN  Dated(date, IF date # Illegible /\ timed THEN MarathiHour(s.part, s.hour) ELSE Illegible,
              IsAmbiguous(s))

StampReading(s) ==
    CASE s.script = "form" -> FormDateTime(s)
      [] s.script = "letter" -> LetterDate(s)
      [] s.script = "schedule" -> MarathiDate(s)

(***************************************************************************)
(* The rows of the agencies' listings (mhada.ts, msidc.ts).                *)
(***************************************************************************)

\* What names a month to MSIDC: its name, its first three letters, or "Sept".
MonthOf(s) ==
    CASE s.part \in {"full", "short"} -> s.month [] s.part = "sept" -> 9 [] OTHER -> 0

\* isoDateOf: the day, the month by its name, the year, and nothing after them.
MhadaDate(s) ==
    IF s.part = "full" /\ s.hour = 0 /\ OnCalendar(s.year, s.month, s.day)
    THEN <<s.year, s.month, s.day>> ELSE Illegible

MsidcDate_Rolled(s) == IF MonthOf(s) = 0 THEN Illegible ELSE <<s.year, MonthOf(s), s.day>>

\* leadingDateOf: whatever follows the date; an hour is not read.
MsidcDate(s) ==
    IF OnCalendar(s.year, MonthOf(s), s.day) THEN <<s.year, MonthOf(s), s.day>> ELSE Illegible

\* ISO dates as strings are ordered as the days are.
IsBefore(one, other) ==
    \E i \in 1..3 : one[i] < other[i] /\ \A j \in 1..(i - 1) : one[j] = other[j]

\* MHADA's links to a PDF, wherever they resolve; MSIDC's only when written whole.
MhadaDocuments(links) == {links[i] : i \in {j \in DOMAIN links : links[j].pdf}}
MsidcDocuments(links) == {links[i] : i \in {j \in DOMAIN links : links[j].pdf /\ links[j].whole}}

RowOfMhada(r) ==
    [publishedOn |-> MhadaDate(r.published), closingOn |-> MhadaDate(r.closing),
     documents |-> MhadaDocuments(r.links), late |-> Illegible]

RowOfMsidc(r) ==
    LET publishedOn == MsidcDate(r.published)
        closingOn == MsidcDate(r.closing)
    IN  [publishedOn |-> publishedOn, closingOn |-> closingOn, documents |-> MsidcDocuments(r.links),
         late |-> IF Illegible \in {publishedOn, closingOn} THEN Illegible
                  ELSE IF IsBefore(closingOn, publishedOn) THEN "yes" ELSE "no"]

RowReading(r) == IF r.agency = "mhada" THEN RowOfMhada(r) ELSE RowOfMsidc(r)

(***************************************************************************)
(* A page is printed strip by strip in one layout, or a date on its own.   *)
(***************************************************************************)

NoticePage == strips.page

NoticeInit == strips = [layout |-> "none", count |-> 0, page |-> <<>>] /\ stamp = Illegible /\ row = Illegible

PrintStrip ==
    /\ stamp = Illegible /\ row = Illegible /\ strips.count < MaxStrips
    /\ \E layout \in DOMAIN Layouts :
        /\ strips.layout \in {"none", layout}
        /\ \E strip \in Layouts[layout] :
              strips' = [layout |-> layout, count |-> strips.count + 1, page |-> strips.page \o strip]
    /\ UNCHANGED <<stamp, row>>

PrintStamp ==
    /\ stamp = Illegible /\ row = Illegible /\ strips.count = 0
    /\ stamp' \in Stamps
    /\ UNCHANGED <<strips, row>>

PrintRow ==
    /\ stamp = Illegible /\ row = Illegible /\ strips.count = 0
    /\ row' \in Rows
    /\ UNCHANGED <<strips, stamp>>

NoticeNext == PrintStrip \/ PrintStamp \/ PrintRow
NoticeSpec == NoticeInit /\ [][NoticeNext]_noticing

(***************************************************************************)
(* Properties.                                                             *)
(***************************************************************************)

IsAmount(r) == r.field \in {"emd", "tender_fee", "tender_fee_before_gst", "total_fee"}

\* Two fields may share a date only where more than one mark of white space
\* stands in the longer label, or "Last date" runs on to another's of its line.
MayBeShared(page, start) ==
    \/ \E p \in Found(page, "financial") : Beyond(page, p + 1, Space) > p + 2 /\ p < start
    \/ \E p \in Found(page, "last") : p < start

\* A date printed once is one field's: a shorter label is not read inside a longer
\* (notice-facts.ts:220-236), except in the two places above.
OneDateOneField ==
    LET page == NoticePage
    IN  \A r \in FormDates(page) \cup LetterDates(page) : \A q \in FormDates(page) \cup LetterDates(page) :
            r.start = q.start => r.field = q.field \/ MayBeShared(page, r.start)

\* What the publisher typed, where the text layer has put white space into it.
Typed(page, i) ==
    Unspaced(SubSeq(page, i, Beyond(page, i, {"digit", "comma"} \cup Space) - 1))

\* A figure in Indian grouping that white space has cut after a comma is left
\* unread and never repaired to a smaller one (notice-facts.ts:102-120); one that
\* is not cut is read as it is printed, and has a value only if grouped.
DamagedIsUnread ==
    LET page == NoticePage
    IN  \A r \in {x \in ReadingsOf(page) : IsAmount(x)} :
            LET i == IF Mark(page, r.start) = "digit" THEN r.start ELSE LetterFigure(page, r.start)
                typed == Typed(page, i)
                cut == AmountEnd(page, i) < Beyond(page, i, {"digit", "comma"} \cup Space)
                       /\ Len(typed) > r.end - i
            IN  /\ (cut /\ (\E j \in i..(r.end - 1) : page[j] = "comma") /\ IsGrouped(typed, 2))
                      => r.value = Illegible
                /\ (~cut /\ r.value # Illegible)
                      => r.value.digits = Cardinality({j \in DOMAIN typed : typed[j] = "digit"})

\* A reference ends at its year, its range or its call, with nothing of what is
\* printed beside it; two calls of one tender are not read as one
\* (notice-facts.ts:346-357), save where a digit or a stroke follows the call.
ReferencesEndAtTheirYear ==
    LET page == NoticePage
    IN  \A r \in {x \in ReadingsOf(page) : x.field = "issuer_reference"} :
            LET next == Beyond(page, r.end, Space)
            IN  /\ r.value[Len(r.value)] \in {"year", "range", "call"}
                /\ (Mark(page, next) = "call" /\ r.value[Len(r.value)] # "call")
                      => Mark(page, next + 1) \in {"digit", "slash"}
                /\ Mark(page, next) = "slash" => next > r.end

\* The hour a part of the day can have on a clock of twenty-four.
HoursOf(part) ==
    CASE part \in {"AM", "morning"} -> 0..11 [] part = "PM" -> 12..23 [] part = "afternoon" -> 12..18
      [] part = "evening" -> 13..23 [] part = "night" -> 19..23

\* A date asserted without review is the only one its figures form, and an hour
\* is the printed one, in the part of the day the page names
\* (notice-facts.ts:95-137, 308-326, 440-488).
DatesAreCertain ==
    stamp # Illegible =>
        LET read == StampReading(stamp)
        IN  /\ (read.date # Illegible /\ ~read.ambiguous /\ stamp.script # "form")
                  => IsoDate(stamp.year, stamp.day, stamp.month) \in {Illegible, read.date}
            /\ (read.hour # Illegible /\ stamp.script # "letter")
                  => read.hour \in HoursOf(stamp.part) /\ read.hour % 12 = stamp.hour % 12

\* The days a listing's cell could mean, its month by whatever names it.
Meant(s) ==
    {d \in {<<s.year, m, s.day>> : m \in IF s.part = "digits" THEN {s.month, s.day} ELSE {s.month}} :
        OnCalendar(d[1], d[2], d[3])}
      \cup {d \in {<<s.year, s.day, s.month>>} : s.part = "digits" /\ OnCalendar(d[1], d[2], d[3])}

\* A listing's date is read only where it can mean one day, and is that day; a
\* deadline is called earlier than its publication, or not, only where no reading
\* of either cell would say otherwise (msidc.ts:16-21, 80-98; mhada.ts:82-96).
RowsAreReadAsPrinted ==
    row # Illegible =>
        LET read == RowReading(row)
        IN  /\ read.publishedOn # Illegible => Meant(row.published) = {read.publishedOn}
            /\ read.closingOn # Illegible => Meant(row.closing) = {read.closingOn}
            /\ read.late # Illegible =>
                  \A p \in Meant(row.published), c \in Meant(row.closing) :
                      read.late = IF IsBefore(c, p) THEN "yes" ELSE "no"

NoticesAreReadAsPrinted ==
    /\ OneDateOneField /\ DamagedIsUnread /\ ReferencesEndAtTheirYear
    /\ DatesAreCertain /\ RowsAreReadAsPrinted
=============================================================================
