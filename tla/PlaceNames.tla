----------------------------- MODULE PlaceNames -----------------------------
(***************************************************************************)
(* The names an audit report is read for: the departments its sentences    *)
(* run into (cag/bodies.ts) and the districts and talukas of its state     *)
(* that its pages name (cag/places.ts).  A word stands for a word of the   *)
(* text; its case, and what is written between names, are left out.        *)
(***************************************************************************)
EXTENDS Integers, FiniteSets, Sequences

CONSTANTS
    RunWords,      \* the words of a run that ends in "Department"
    MaxRun, MaxRuns,
    StatePlaces,   \* the places of the state: [id, name, level]
    TextWords, Letters, MaxText, MaxSentences

ASSUME NamesAssumption ==
    /\ {MaxRun, MaxRuns, MaxText, MaxSentences} \subseteq Nat
    /\ Letters \in [DOMAIN Letters -> Nat]
    /\ IsFiniteSet(StatePlaces)
    /\ \A p \in StatePlaces :
          p.name \in Seq(DOMAIN Letters) /\ p.level \in {"district", "sub_district"}

VARIABLES
    runs,    \* the runs of the report so far, the last of them unfinished
    text     \* the sentences of the page so far, the last of them unfinished

named_reading == <<runs, text>>

(***************************************************************************)
(* Departments.                                                            *)
(***************************************************************************)

Joiners == {"and"}

\* startsAfresh: "restart" stands for titles, determiners and abbreviations.
StartsAfresh(word) == word \in {"restart", "general"}

\* Where the name starts: after the last word that cannot be part of it.
StartOf(run) ==
    LET start[i \in 0..Len(run)] ==
            IF i = 0 THEN 0
            ELSE IF run[i] = "general" /\ i = start[i - 1] + 1 THEN start[i - 1]
            ELSE IF StartsAfresh(run[i]) THEN i ELSE start[i - 1]
    IN  start[Len(run)]

DepartmentName_Untrimmed(run) ==
    LET rest == SubSeq(run, StartOf(run) + 1, Len(run))
    IN  IF \A i \in DOMAIN rest : rest[i] \in Joiners THEN <<>> ELSE rest

\* The name the run spells, <<>> if it spells none.
DepartmentName(run) ==
    LET rest == SubSeq(run, StartOf(run) + 1, Len(run))
        own == {i \in DOMAIN rest : rest[i] \notin Joiners}
        first == CHOOSE i \in own : \A j \in own : i <= j
        last == CHOOSE i \in own : \A j \in own : j <= i
        name == SubSeq(rest, first, last)
    IN  IF own = {} \/ name = <<"general">> THEN <<>> ELSE name

\* bodiesIn, run by run, and firstMentionOfEach over the report.
FirstMentionOfEach(report) ==
    LET kept[n \in 0..Len(report)] ==
            IF n = 0 THEN {}
            ELSE LET name == DepartmentName(report[n])
                 IN  IF name = <<>> \/ \E c \in kept[n - 1] : c.name = name THEN kept[n - 1]
                     ELSE kept[n - 1] \cup {[run |-> n, name |-> name]}
    IN  kept[Len(report)]

(***************************************************************************)
(* Places.                                                                 *)
(***************************************************************************)

BareName(name) ==
    IF Len(name) > 1 /\ name[Len(name)] = "District" THEN SubSeq(name, 1, Len(name) - 1) ELSE name

LettersOf(name) ==
    LET sum[i \in 0..Len(name)] == IF i = 0 THEN 0 ELSE sum[i - 1] + Letters[name[i]]
    IN  sum[Len(name)]

ShortestName == 4

\* gazetteerOf: what the pages are matched against, ambiguous talukas left out.
Gazetteer ==
    LET districts == {BareName(p.name) : p \in {q \in StatePlaces : q.level = "district"}}
        talukas == {q \in StatePlaces : q.level = "sub_district"}
    IN  {[name |-> n, level |-> "district"] : n \in districts}
          \cup {[name |-> n, level |-> "sub_district"] :
                  n \in {m \in {BareName(p.name) : p \in talukas} :
                            /\ Cardinality({p \in talukas : BareName(p.name) = m}) = 1
                            /\ m \notin districts
                            /\ LettersOf(m) >= ShortestName}}

\* Longest first, and a district before a taluka as long.
Standing(e) == 2 * LettersOf(e.name) + (IF e.level = "district" THEN 1 ELSE 0)
Foremost(entries) == CHOOSE e \in entries : \A f \in entries : Standing(f) <= Standing(e)

\* Where the name stands in the sentence: half-open ranges of words.
Occurrences(sentence, name) ==
    {[at |-> i, end |-> i + Len(name)] :
        i \in {j \in DOMAIN sentence : /\ j + Len(name) - 1 <= Len(sentence)
                                       /\ SubSeq(sentence, j, j + Len(name) - 1) = name}}

Overlap(m, n) == m.at < n.end /\ n.at < m.end

FirstUnclaimed_Any(sentence, name, claimed) ==
    LET open == Occurrences(sentence, name)
    IN  {m \in open : \A n \in open : m.at <= n.at}

\* firstUnclaimed: the first occurrence no longer name has claimed, if any.
FirstUnclaimed(sentence, name, claimed) ==
    LET open == {m \in Occurrences(sentence, name) : \A c \in claimed : ~Overlap(m, c)}
    IN  {m \in open : \A n \in open : m.at <= n.at}

\* One entry against one sentence: a place offered on the page already is
\* neither looked for again nor claimed.
TryEntry(reading, n, sentence, entry) ==
    LET match == IF \E c \in reading.out : c.place = entry THEN {}
                 ELSE FirstUnclaimed(sentence, entry.name, reading.claimed)
    IN  [left |-> reading.left \ {entry},
         claimed |-> reading.claimed \cup match,
         out |-> reading.out \cup {[sentence |-> n, place |-> entry, at |-> m.at, end |-> m.end] : m \in match}]

\* The entries against one sentence, in their order; and sentence by sentence.
PlacesOf(n, sentence, before) ==
    LET reading[i \in 0..Cardinality(Gazetteer)] ==
            IF i = 0 THEN [left |-> Gazetteer, claimed |-> {}, out |-> before]
            ELSE TryEntry(reading[i - 1], n, sentence, Foremost(reading[i - 1].left))
    IN  reading[Cardinality(Gazetteer)].out

PlacesIn(page) ==
    LET out[n \in 0..Len(page)] == IF n = 0 THEN {} ELSE PlacesOf(n, page[n], out[n - 1])
    IN  out[Len(page)]

(***************************************************************************)
(* A report's runs and a page's sentences are shown word by word.          *)
(***************************************************************************)

NamesInit == runs = <<>> /\ text = <<>>

\* The last of the runs (sentences) with one word more, or a new one.
Longer(texts, word, most, longest) ==
    (IF Len(texts) < most THEN {Append(texts, <<word>>)} ELSE {})
      \cup (IF texts # <<>> /\ Len(texts[Len(texts)]) < longest
            THEN {[texts EXCEPT ![Len(texts)] = Append(@, word)]} ELSE {})

RunOn == /\ text = <<>>
         /\ \E word \in RunWords : runs' \in Longer(runs, word, MaxRuns, MaxRun)
         /\ UNCHANGED text

ReadOn == /\ runs = <<>>
          /\ \E word \in TextWords : text' \in Longer(text, word, MaxSentences, MaxText)
          /\ UNCHANGED runs

NamesNext == RunOn \/ ReadOn
NamesSpec == NamesInit /\ [][NamesNext]_named_reading

(***************************************************************************)
(* Properties.                                                             *)
(***************************************************************************)

Stands(place, n) == Occurrences(text[n], place.name)

\* The places that bear a name, as the loader looks them up.
Bearing(place) == {p \in StatePlaces : p.level = place.level /\ BareName(p.name) = place.name}

\* Each department a report names is offered once in it, under its whole name: nothing
\* of the name is left outside it, and nothing outside the name is in it
\* (bodies.ts:136-170, 203-226).
DepartmentsAreWhole ==
    LET offered == FirstMentionOfEach(runs)
    IN  /\ \A c, d \in offered : c.name = d.name => c = d
        /\ \A n \in DOMAIN runs :
              DepartmentName(runs[n]) # <<>> =>
                  \E c \in offered : c.name = DepartmentName(runs[n]) /\ c.run <= n
        /\ \A c \in offered :
              LET name == c.name
                  run == runs[c.run]
              IN  /\ name[1] \notin Joiners /\ name[Len(name)] \notin Joiners
                  /\ \A i \in DOMAIN name :
                        name[i] # "restart" /\ (name[i] = "general" => i = 1 /\ Len(name) > 1)
                  /\ \E at \in DOMAIN run :
                        /\ at + Len(name) - 1 <= Len(run)
                        /\ SubSeq(run, at, at + Len(name) - 1) = name
                        /\ \A j \in (at + Len(name))..Len(run) : run[j] \in Joiners
                        /\ \A j \in 1..(at - 1) :
                              \/ run[j] \in Joiners
                              \/ StartsAfresh(run[j])
                              \/ \E k \in (j + 1)..(at - 1) : StartsAfresh(run[k])

\* A page offers each place once, and never two places for the same words; the
\* place is the only one of its name, and a place whose name stands on the page
\* apart from every longer name is among those offered (places.ts:66-150).
PlacesAreUnmistakable ==
    LET offered == PlacesIn(text)
    IN  /\ \A c, d \in offered :
              /\ c.place = d.place => c = d
              /\ c.sentence = d.sentence /\ Overlap(c, d) => c = d
        /\ \A c \in offered :
              /\ c.place.level = "sub_district" => Cardinality(Bearing(c.place)) = 1
              /\ \A p \in StatePlaces :
                    BareName(p.name) = c.place.name => p.level = c.place.level \/ c.place.level = "district"
        /\ \A e \in Gazetteer, n \in DOMAIN text :
              (\E m \in Stands(e, n) : \A f \in Gazetteer \ {e} : \A o \in Stands(f, n) : ~Overlap(m, o))
                => \E c \in offered : c.place = e

NamesAreRead == DepartmentsAreWhole /\ PlacesAreUnmistakable

\* "'Mumbai Suburban' is not also read as a shorter place inside it"
\* (places.ts:101-103): no place is read off words of a longer place's name.
NeverInsideALongerName ==
    \A c \in PlacesIn(text) :
        ~\E e \in Gazetteer : \E m \in Stands(e, c.sentence) :
              m.at <= c.at /\ c.end <= m.end /\ c.end - c.at < m.end - m.at
=============================================================================
