----------------------------- MODULE CagReading -----------------------------
(***************************************************************************)
(* How an audit report's page becomes candidate facts: the text items      *)
(* pdf.js reports are joined and cleaned (cag/extract.ts), the text is     *)
(* split into sentences, and each figure is read at the scale its own      *)
(* words state, judged by the words about it and traced back to the items  *)
(* it was printed in (cag/facts.ts, cag/validation.ts).  A character       *)
(* stands for whatever of its class is on the page.                        *)
(***************************************************************************)
EXTENDS Naturals, Sequences, FiniteSets
LOCAL INSTANCE SequencesExt
LOCAL INSTANCE FiniteSetsExt

CONSTANTS
    Pieces,    \* text items pdf.js may report: [str, eol]
    MaxItems,
    Words,     \* words a capture may run over
    MaxWords, NoValue

ASSUME ItemsAreBounded == MaxItems \in Nat /\ MaxWords \in Nat

VARIABLES
    shown,    \* the items of the page so far
    capture   \* the words a party's name was captured with

reading_page == <<shown, capture>>

(* The classes: rupee a currency mark, tick a mark in its place, digit,       *)
(* blank, line (both white space), control (unstorable), stop, crore (a unit *)
(* the parser knows), core (a unit or script it cannot read), close (a       *)
(* bracket), caption (a unit with no amount), heading ("Amount in"), over    *)
(* ("more than"), per (a denominator), word.                                 *)
White == {"blank", "line"}

(***************************************************************************)
(* The page's text, and where its items are (extract.ts).  Offsets are     *)
(* from 0, ranges half-open, as in the code.                               *)
(***************************************************************************)

Ch(text, i) == IF i + 1 \in DOMAIN text THEN text[i + 1] ELSE "end"
Slice(text, from, to) == SubSeq(text, from + 1, to)

PageTextOf(raw) ==
    FoldLeft(LAMBDA page, item :
        [content |-> page.content \o item.str \o (IF item.eol THEN <<"line">> ELSE <<>>),
         items |-> Append(page.items, [seq |-> Len(page.items) + 1, charStart |-> Len(page.content),
                                       charEnd |-> Len(page.content) + Len(item.str)])],
        [content |-> <<>>, items |-> <<>>], raw)

IsStorable(c) == c # "control"
Leading(text) == Cardinality({i \in DOMAIN text : \A j \in 1..i : text[j] \in White})
Trailing(text) == Cardinality({i \in DOMAIN text : \A j \in i..Len(text) : text[j] \in White})

\* cleanWithItems: the stored text, and the items' offsets moved with it.
CleanWithItems_Untrimmed(page) ==
    LET kept == SelectSeq(page.content, IsStorable)
        at(i) == Len(SelectSeq(Slice(page.content, 0, i), IsStorable))
        content == Slice(kept, Leading(kept), Len(kept) - Trailing(kept))
        survivors(item) == {at(i) : i \in {j \in item.charStart..(item.charEnd - 1) :
            Ch(page.content, j) # "control" /\ at(j) < Len(content)}}
    IN  [content |-> content,
         items |-> {[seq |-> item.seq, charStart |-> Min(survivors(item)),
                     charEnd |-> Max(survivors(item)) + 1] :
                        item \in {x \in Range(page.items) : survivors(x) # {}}}]

CleanWithItems(page) ==
    LET kept == SelectSeq(page.content, IsStorable)
        start == Leading(kept)
        at(i) == Len(SelectSeq(Slice(page.content, 0, i), IsStorable)) - start
        content == Slice(kept, start, Len(kept) - Trailing(kept))
        survivors(item) == {at(i) : i \in {j \in item.charStart..(item.charEnd - 1) :
            /\ Ch(page.content, j) # "control"
            /\ Len(SelectSeq(Slice(page.content, 0, j), IsStorable)) >= start
            /\ at(j) < Len(content)}}
    IN  [content |-> content,
         items |-> {[seq |-> item.seq, charStart |-> Min(survivors(item)),
                     charEnd |-> Max(survivors(item)) + 1] :
                        item \in {x \in Range(page.items) : survivors(x) # {}}}]

\* boxAround: the items that share a character with the range.
BoxAround(items, charStart, charEnd) ==
    {i.seq : i \in {x \in items : x.charStart < charEnd /\ x.charEnd > charStart}}

(***************************************************************************)
(* Sentences, and where each character of one sits on the page.            *)
(***************************************************************************)

\* collapseWhitespace: a run of white space becomes its first character.
Surviving(text) ==
    SelectSeq([i \in 1..Len(text) |-> i - 1],
              LAMBDA i : ~(Ch(text, i) \in White /\ i > 0 /\ Ch(text, i - 1) \in White))

\* SENTENCE_BREAK: a stop and white space before a new sentence's first mark.
BreakAt(text, i) == text[i] = "stop" /\ Ch(text, i) \in White /\ Ch(text, i + 1) \in {"rupee", "tick"}

\* locatedSentencesOf: the pieces between the breaks, trimmed, with their offsets.
LocatedSentencesOf(text) ==
    LET source == Surviving(text)
        collapsed == [i \in DOMAIN source |-> Ch(text, source[i])]
        breaks == SetToSortSeq({i \in DOMAIN collapsed : BreakAt(collapsed, i)}, <)
        begins == <<1>> \o [i \in DOMAIN breaks |-> breaks[i] + 2]
        ends == [i \in DOMAIN breaks |-> breaks[i] - 1] \o <<Len(collapsed)>>
        Piece(i) == SubSeq(collapsed, begins[i], ends[i])
    IN  [i \in DOMAIN begins |->
            [text |-> Slice(Piece(i), Leading(Piece(i)), Len(Piece(i)) - Trailing(Piece(i))),
             source |-> SubSeq(source, begins[i] + Leading(Piece(i)), ends[i])]]

(***************************************************************************)
(* A figure in a text: its digits, its fraction, its unit.                 *)
(***************************************************************************)

\* The first place from i on that is not in the class.
Past(text, i, class) == Min({j \in i..Len(text) : Ch(text, j) \notin class})

FigureAt(text, i) ==
    LET first == Past(text, i + 1, White)
        whole == Past(text, first, {"digit"})
        fraction == IF Ch(text, whole) = "stop" /\ Ch(text, whole + 1) = "digit"
                    THEN Past(text, whole + 1, {"digit"}) ELSE whole
        gap == Past(text, fraction, White)
        unit == IF Ch(text, gap) = "crore" THEN "crore" ELSE "none"
    IN  [at |-> i, digits |-> whole - first, places |-> IF fraction = whole THEN 0 ELSE fraction - whole - 1,
         unit |-> unit, last |-> IF unit = "crore" THEN gap ELSE fraction - 1,
         end |-> IF unit = "crore" THEN gap + 1 ELSE gap]

\* AMOUNT_IN, or AMOUNT_WITH_SUBSTITUTED_MARK, matched over a text.
FiguresIn(text, mark) ==
    LET marks == {i \in 0..(Len(text) - 1) :
                    Ch(text, i) = mark /\ Ch(text, Past(text, i + 1, White)) = "digit"}
    IN  [n \in 1..Cardinality(marks) |-> FigureAt(text, SetToSortSeq(marks, <)[n])]

\* Decimal places from the unit down to paise; a finer fraction is refused.
AmountToPaise(figure, unitless) ==
    IF figure.unit = "none" /\ unitless = "refuse" THEN NoValue
    ELSE IF figure.places > (IF figure.unit = "crore" THEN 9 ELSE 2) THEN NoValue
    ELSE [digits |-> figure.digits, places |-> figure.places, unit |-> figure.unit]

\* A unit that cannot be read, a fraction split from its point, a unit outside
\* the bracket.
ScaleIsUnusable(text, from) ==
    \/ Ch(text, Past(text, from, White)) = "core"
    \/ /\ Ch(text, from) = "stop" /\ Ch(text, from + 1) \in White
       /\ LET tail == Past(text, from + 1, White)
          IN  Ch(text, tail) = "digit"
              /\ Ch(text, Past(text, Past(text, tail, {"digit"}), White)) = "crore"
    \/ LET close == Past(text, from, {"rupee", "tick", "digit", "blank", "line", "core", "crore",
                                      "caption", "heading", "over", "per", "word", "control"})
       IN  Ch(text, close) = "close" /\ Ch(text, Past(text, close + 1, White)) = "crore"

\* The word a text ends with, white space aside.
LastWord(text) == Ch(text, Len(text) - Trailing(text) - 1)

\* validate: a rate, with its denominator when its end is seen; a threshold.
Validate(text, figure) ==
    LET per == Past(text, figure.end, White)
        rest == Past(text, per + 1, White \cup {"stop"})
    IN  IF Ch(text, per) = "per"
        THEN IF Ch(text, rest) # "end" THEN "per unit" ELSE "rejected"
        ELSE IF LastWord(Slice(text, 0, figure.at)) = "over" THEN "rejected" ELSE "needs_review"

(***************************************************************************)
(* The candidates of a page (extractFacts).                                *)
(***************************************************************************)

PageDeclaresUnit(content) == "caption" \in Range(content)

PageLostItsCurrencyMark(content) ==
    Cardinality({i \in 0..Len(content) : Ch(content, i) = "tick" /\
        (Ch(content, i + 1) = "digit" \/ (Ch(content, i + 1) \in White /\ Ch(content, i + 2) = "digit"))}) >= 2

\* matchesIn: one sentence, one mark; the digits under a heading are no figure.
MatchesIn(sentence, mark, unitless, items) ==
    LET isFigure(f) == LastWord(Slice(sentence.text, 0, f.at)) # "heading"
        found == SelectSeq(FiguresIn(sentence.text, mark), isFigure)
    IN  [n \in DOMAIN found |->
            LET f == found[n]
            IN  [value |-> AmountToPaise(f,
                    IF f.unit = "none" /\ ScaleIsUnusable(sentence.text, f.end) THEN "refuse" ELSE unitless),
                 verdict |-> Validate(sentence.text, f),
                 box |-> BoxAround(items, sentence.source[f.at + 1], sentence.source[f.end] + 1)]]

ExtractFacts(raw, mark) ==
    LET page == CleanWithItems(PageTextOf(raw))
        unitless == IF PageDeclaresUnit(page.content) THEN "refuse" ELSE "rupees"
        In(sentence) == MatchesIn(sentence, mark, unitless, page.items)
    IN  IF mark = "tick" /\ ~PageLostItsCurrencyMark(page.content) THEN <<>>
        ELSE FlattenSeq([i \in DOMAIN LocatedSentencesOf(page.content) |->
                            In(LocatedSentencesOf(page.content)[i])])

(***************************************************************************)
(* A party's name (nameTokens, trimToName).                                *)
(***************************************************************************)

NameTokens(words) ==
    LET stops == {i \in DOMAIN words : words[i] \in {"and", "lower", "number"}}
    IN  IF stops = {} THEN words ELSE SubSeq(words, 1, Min(stops) - 1)

TrimToName_Initial(words) ==
    LET kept == NameTokens(words)
        ends == {i \in DOMAIN kept : kept[i] = "Name"}
    IN  IF ends = {} THEN <<>> ELSE SubSeq(kept, 1, Max(ends))

\* A trailing initial is a name cut in two: no name at all.
TrimToName(words) ==
    LET kept == NameTokens(words)
        ends == {i \in DOMAIN kept : kept[i] = "Name"}
    IN  IF Len(kept) > 1 /\ Last(kept) = "I" THEN <<>>
        ELSE IF ends = {} THEN <<>> ELSE SubSeq(kept, 1, Max(ends))

(***************************************************************************)
(* A page is shown item by item; a capture runs on word by word.           *)
(***************************************************************************)

PageInit == shown = <<>> /\ capture = <<>>

ShowItem == /\ Len(shown) < MaxItems /\ capture = <<>>
            /\ \E item \in Pieces : shown' = Append(shown, item)
            /\ UNCHANGED capture

CaptureWord == /\ Len(capture) < MaxWords /\ shown = <<>>
               /\ \E word \in Words : capture' = Append(capture, word)
               /\ UNCHANGED shown

PageNext == ShowItem \/ CaptureWord
PageSpec == PageInit /\ [][PageNext]_reading_page

(***************************************************************************)
(* Properties.                                                             *)
(***************************************************************************)

\* The page as it is printed: each visible character with the item it is in.
Ink(raw) ==
    SelectSeq(FlattenSeq([n \in DOMAIN raw |->
                  [i \in DOMAIN raw[n].str |-> [ch |-> raw[n].str[i], item |-> n]]
                  \o (IF raw[n].eol THEN <<[ch |-> "line", item |-> 0]>> ELSE <<>>)]),
              LAMBDA x : x.ch # "control")

\* What a reader of the whole page takes a printed figure for.
ReadOffPage(text, f, captioned) ==
    IF f.unit = "none" /\ (captioned \/ ScaleIsUnusable(text, f.end)) THEN NoValue
    ELSE AmountToPaise(f, "rupees")

\* Every figure printed under a rupee mark is a candidate, and no other: read at
\* the scale printed with it or not at all (facts.ts:92-330, ADR-030, ADR-046),
\* and boxed by the items it is printed in, no further than the white space
\* that follows it (facts.ts:56-61), whatever the cleaning dropped and wherever
\* the sentences were split.
FiguresAreAsPrinted ==
    LET ink == Ink(shown)
        text == [i \in DOMAIN ink |-> ink[i].ch]
        printed == SelectSeq(FiguresIn(text, "rupee"),
                             LAMBDA f : LastWord(Slice(text, 0, f.at)) # "heading")
        read == ExtractFacts(shown, "rupee")
        Under(from, to) == {ink[i + 1].item : i \in from..to} \ {0}
    IN  /\ Len(read) = Len(printed)
        /\ \A n \in DOMAIN read :
              /\ read[n].value = ReadOffPage(text, printed[n], "caption" \in Range(text))
              /\ Under(printed[n].at, printed[n].last) \subseteq read[n].box
              /\ read[n].box \subseteq Under(printed[n].at, Min({printed[n].last + 1, Len(ink) - 1}))

\* A mark in the place of a rupee mark is read as one only on a page that has
\* two of them, and then by the same rules (facts.ts:168-200, ADR-040).
MarksAreDecodedAlike ==
    LET ticks == ExtractFacts(shown, "tick")
        AsRupee(raw) == [n \in DOMAIN raw |-> [raw[n] EXCEPT !.str =
                [i \in DOMAIN raw[n].str |-> IF @[i] = "tick" THEN "rupee" ELSE @[i]]]]
    IN  ticks # <<>> => Range(ticks) \subseteq Range(ExtractFacts(AsRupee(shown), "rupee"))

\* A name is not cut to another party's (facts.ts:565-600): what is kept ends with
\* a word of the name, and what is printed next is no further part of it; except
\* for an initial with a joiner after it, which is dropped as if it were one.
NamesAreWhole ==
    LET name == TrimToName(capture)
    IN  name # <<>> =>
          /\ IsPrefix(name, capture) /\ Last(name) = "Name"
          /\ \A i \in (Len(name) + 1)..Len(capture) :
                capture[i] \in {"Name", "I"} =>
                    \/ \E j \in (Len(name) + 1)..(i - 1) : capture[j] \in {"and", "lower", "number"}
                    \/ capture[i] = "I" /\ \E j \in i..Len(capture) : capture[j] = "of"

PagesAreReadAsPrinted ==
    /\ shown # <<>> => FiguresAreAsPrinted /\ MarksAreDecodedAlike
    /\ NamesAreWhole
=============================================================================
