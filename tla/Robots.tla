-------------------------------- MODULE Robots --------------------------------
(***************************************************************************)
(* What a host's robots.txt lets the collectors fetch                      *)
(* (services/ingestion/src/net/robots.ts).  A file is a sequence of        *)
(* directives; which paths a pattern matches, and how long it is without   *)
(* its wildcards, is given.                                                *)
(***************************************************************************)
EXTENDS Integers, SequencesExt

CONSTANTS
    Agents,   \* what an agent line may name
    Ours,     \* those that name everyone, or begin our product token
    Matches,  \* the paths each pattern matches
    Length,   \* how specific it is
    Whole     \* the patterns "/" and "/*"

Patterns == DOMAIN Matches

ASSUME LengthAssumption == Length \in [Patterns -> Nat]

\* An allow or a disallow line with nothing after it.
NoPattern == ""

Directives ==
    [key : {"agent"}, value : Agents]
      \cup [key : {"allow", "disallow"}, value : Patterns \cup {NoPattern}]

\* Reading starts outside any group.
Unread == [agents |-> {}, inRules |-> FALSE, rules |-> <<>>]

Rule(d) == [allow |-> d.key = "allow", pattern |-> d.value]

\* Mutant of ReadDirective: an agent line never starts another group.
ReadDirective_OneGroup(read, d) ==
    IF d.key = "agent" THEN [read EXCEPT !.agents = @ \cup {d.value}]
    ELSE [read EXCEPT !.rules = IF d.value = NoPattern \/ read.agents \cap Ours = {}
                                THEN @ ELSE Append(@, Rule(d))]

\* Agent lines one after another share the rules that follow them.
ReadDirective(read, d) ==
    IF d.key = "agent"
    THEN [read EXCEPT !.agents = (IF read.inRules THEN {} ELSE @) \cup {d.value},
                      !.inRules = FALSE]
    ELSE [read EXCEPT !.inRules = TRUE,
                      !.rules = IF d.value = NoPattern \/ read.agents \cap Ours = {}
                                THEN @ ELSE Append(@, Rule(d))]

\* The lines of a file, one after another.
ReadLines(lines) ==
    LET read[n \in 0..Len(lines)] ==
          IF n = 0 THEN Unread ELSE ReadDirective(read[n - 1], lines[n])
    IN  read[Len(lines)]

\* What an answer to /robots.txt says: a policy that cannot be read refuses.
ReadRobots(status, lines) ==
    CASE status = "gone" -> [kind |-> "none", rules |-> <<>>]
      [] status = "ok"   -> [kind |-> "rules", rules |-> ReadLines(lines).rules]
      [] OTHER           -> [kind |-> "unreadable", rules |-> <<>>]

RefusesEverything(policy) ==
    \/ policy.kind = "unreadable"
    \/ \E r \in ToSet(policy.rules) : ~r.allow /\ r.pattern \in Whole

\* The longer rule wins; on a tie, Disallow.
Better(best, rule) ==
    IF \/ best = <<>>
       \/ Length[rule.pattern] > Length[best[1].pattern]
       \/ Length[rule.pattern] = Length[best[1].pattern] /\ ~rule.allow
    THEN <<rule>> ELSE best

BestRule(rules, path) ==
    LET best[n \in 0..Len(rules)] ==
          IF n = 0 THEN <<>>
          ELSE IF path \in Matches[rules[n].pattern] THEN Better(best[n - 1], rules[n])
          ELSE best[n - 1]
    IN  best[Len(rules)]

MayFetch(policy, path) ==
    LET best == BestRule(policy.rules, path)
    IN  ~RefusesEverything(policy) /\ (best = <<>> \/ best[1].allow)

-----------------------------------------------------------------------------
(* What the file says, without reading it line by line.                    *)

\* Line k names an agent line n is for: only one group lies between them.
SpeaksTo(file, n, k) ==
    /\ k < n
    /\ file[k].key = "agent"
    /\ \A i, j \in k..n : i < j /\ file[i].key # "agent" => file[j].key # "agent"

Binding(file) ==
    {file[n] : n \in {m \in DOMAIN file :
        /\ file[m].key # "agent"
        /\ file[m].value # NoPattern
        /\ \E k \in DOMAIN file : SpeaksTo(file, m, k) /\ file[k].value \in Ours}}

\* Nobody we must heed refuses the whole host, and whatever refuses the path is
\* outdone by an Allow more specific than every Disallow of it.
Permits(file, path) ==
    LET rules == Binding(file)
        on == {r \in rules : path \in Matches[r.value]}
        refusing == {r \in on : r.key = "disallow"}
    IN  /\ ~\E r \in rules : r.key = "disallow" /\ r.value \in Whole
        /\ \/ refusing = {}
           \/ \E q \in on \ refusing : \A r \in refusing : Length[q.value] > Length[r.value]
=============================================================================
