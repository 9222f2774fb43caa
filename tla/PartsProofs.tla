----------------------------- MODULE PartsProofs -----------------------------
(***************************************************************************)
(* What is proved of six parts of the system that work on their own: a     *)
(* report that was received is kept and decided on the record, the figures *)
(* of a bilingual report are joined where they are one, a fetch keeps to   *)
(* its time and to its host's robots.txt, a fact of a scan says no less of *)
(* its figures than the scan's words do, a tender is placed where the      *)
(* whole of its evidence says, and a report is read for its departments    *)
(* and places under their whole names.                                     *)
(***************************************************************************)
EXTENDS FigureLinks, BoundedFetch, CorrectionIntake, ScanFacts, DistrictPlacing, PlaceNames,
        SequenceTheorems, Inductions

------------------------------------------------------------------------------
(* The inbox of readers' reports (CorrectionIntake).                         *)

Report == [status : Final \cup {"none", "received", "reviewing"}, receivedAt : Nat,
           by : Reviewers \cup {NoNote}, at : Nat, note : Notes \cup {NoNote}]

Answers ==
    {"nothing", "forbidden", "too large", "rate limited", "bad request", "unavailable",
     "received, without a reference", "paused", "received", "error"}

PostState == [stage : {"unsent", "queued", "storing", "told"}, at : Instances \cup {NoNote},
              now : Nat, told : Answers]

IntakeTypeOK ==
    /\ clock \in Nat
    /\ configured \in BOOLEAN
    /\ post \in [Posts -> PostState]
    /\ inbox \in [Posts -> Report]
    /\ superseded \in [Posts -> Seq(Report)]
    /\ decisions \in Nat
    /\ made \subseteq [of : Posts, as : Report]

Storing == {p \in Posts : post[p].stage = "storing"}
Counting == {p \in Posts : Held(p) /\ inbox[p].receivedAt > clock - Hour}

\* One statement at a time on an instance's one connection.
OneAtATime ==
    /\ \A p \in Storing : post[p].at \in Instances
    /\ \A p, q \in Storing : post[p].at = post[q].at => p = q

\* What will have been received when everything under way is committed.
CeilingWillHold == Cardinality(Counting \cup Storing) <= Ceiling + Cardinality(Instances) - 1

SenderKnows(p) ==
    /\ post[p].stage = "queued" => post[p].at \in Instances
    /\ post[p].stage # "told" => post[p].told = "nothing" /\ ~Held(p)
    /\ post[p].told = "received" => Held(p)
    /\ Held(p) => post[p].told \in {"received", "error"}

\* Where each version of a report that is filed is.
FiledAt(d) == {n \in DOMAIN superseded[d.of] : superseded[d.of][n] = d.as}

\* A final decision is in the row or at one place among those it replaced.
DecisionIsHeld(d) ==
    /\ Held(d.of)
    /\ d.as.status \in Final
    /\ d.as.at \in 1..decisions
    /\ \/ inbox[d.of] = d.as /\ FiledAt(d) = {}
       \/ inbox[d.of] # d.as /\ \E n \in DOMAIN superseded[d.of] : FiledAt(d) = {n}

NothingIsAhead ==
    \A p \in Posts :
        /\ inbox[p].at <= decisions
        /\ \A n \in DOMAIN superseded[p] : superseded[p][n].at <= decisions

IntakeInv ==
    /\ IntakeTypeOK
    /\ OneAtATime
    /\ CeilingWillHold
    /\ \A p \in Posts : SenderKnows(p)
    /\ \A d \in made : DecisionIsHeld(d)
    /\ NothingIsAhead

\* The strengthened invariant of the inbox holds what the run checks: what the
\* sender was told, the ceiling and the trail.
LEMMA IntakeInvImplies == ASSUME IntakeInv PROVE InboxHolds
<1>1. CeilingNearlyHolds
  <2>1. PICK both, recent : both = Counting \cup Storing /\ recent = Counting
    OBVIOUS
  <2>2. IsFiniteSet(both) /\ recent \subseteq both
    BY <2>1, IntakeAssumption, FS_Subset DEF Counting, Storing
  <2>3. Cardinality(recent) <= Cardinality(both) /\ Cardinality(recent) \in Nat
        /\ Cardinality(both) \in Nat
    BY <2>2, FS_Subset, FS_CardinalityType
  <2>4. Recent = Cardinality(recent)
    BY <2>1 DEF Recent, Counting
  <2>5. PICK n \in Nat : n = Cardinality(Instances)
    BY IntakeAssumption, FS_CardinalityType
  <2>6. Cardinality(both) <= Ceiling + n - 1
    BY <2>1, <2>5 DEF IntakeInv, CeilingWillHold
  <2> QED
    BY <2>3, <2>4, <2>5, <2>6, IntakeAssumption DEF CeilingNearlyHolds
<1>2. ASSUME NEW d \in made
      PROVE  Cardinality(FiledAt(d)) + (IF inbox[d.of] = d.as THEN 1 ELSE 0) = 1
  <2>1. CASE inbox[d.of] = d.as /\ FiledAt(d) = {}
    BY <2>1, FS_EmptySet
  <2>2. CASE inbox[d.of] # d.as /\ \E n \in DOMAIN superseded[d.of] : FiledAt(d) = {n}
    <3>1. Cardinality(FiledAt(d)) = 1
      BY <2>2, FS_Singleton
    <3> QED
      BY <2>2, <3>1
  <2> QED
    BY <2>1, <2>2 DEF IntakeInv, DecisionIsHeld
<1>3. EveryReportIsKept
  BY <1>2 DEF EveryReportIsKept, FiledAt, IntakeInv, SenderKnows
<1> QED
  BY <1>1, <1>3 DEF InboxHolds

\* Nothing is sent, held or decided when the API starts.
LEMMA IntakeStarts == ASSUME IntakeInit PROVE IntakeInv
<1>1. NoReport \in Report /\ NoReport.at = 0
  BY DEF NoReport, Report
<1>2. IntakeTypeOK
  <2>1. [stage |-> "unsent", at |-> NoNote, now |-> 0, told |-> "nothing"] \in PostState
    BY DEF PostState, Answers
  <2> QED
    BY <1>1, <2>1 DEF IntakeInit, IntakeTypeOK
<1>3. Counting = {} /\ Storing = {}
  BY DEF IntakeInit, Counting, Storing, Held
<1>4. CeilingWillHold
  <2>1. Cardinality({}) = 0 /\ Counting \cup Storing = {}
    BY <1>3, FS_EmptySet
  <2>2. PICK n \in Nat : n = Cardinality(Instances) /\ n # 0
    BY IntakeAssumption, FS_CardinalityType, FS_EmptySet
  <2>3. 0 <= Ceiling + n - 1
    BY <2>2, IntakeAssumption
  <2> QED
    BY <2>1, <2>2, <2>3 DEF CeilingWillHold
<1>5. OneAtATime /\ NothingIsAhead
  BY <1>1, <1>3 DEF IntakeInit, OneAtATime, NothingIsAhead
<1>6. (\A p \in Posts : SenderKnows(p)) /\ (\A d \in made : DecisionIsHeld(d))
  BY DEF IntakeInit, SenderKnows, Held
<1> QED
  BY <1>2, <1>4, <1>5, <1>6 DEF IntakeInv

\* The reports and those under way stay or become fewer.
LEMMA CeilingStays ==
    ASSUME IntakeInv, NEW before, before = Counting \cup Storing,
           (Counting \cup Storing)' \subseteq before
    PROVE  CeilingWillHold'
<1>1. PICK after : after = (Counting \cup Storing)'
  OBVIOUS
<1>2. IsFiniteSet(before) /\ after \subseteq before
  BY <1>1, IntakeAssumption, FS_Subset DEF Counting, Storing
<1>3. Cardinality(after) <= Cardinality(before) /\ Cardinality(after) \in Nat
      /\ Cardinality(before) \in Nat
  BY <1>2, FS_Subset, FS_CardinalityType
<1>4. PICK n \in Nat : n = Cardinality(Instances)
  BY IntakeAssumption, FS_CardinalityType
<1>5. Cardinality(before) <= Ceiling + n - 1
  BY <1>4 DEF IntakeInv, CeilingWillHold
<1>6. Cardinality(after) <= Ceiling + n - 1
  BY <1>3, <1>4, <1>5, IntakeAssumption
<1> QED
  BY <1>1, <1>4, <1>6 DEF CeilingWillHold

\* When the hour moves on, reports leave the window and none enters it.
LEMMA AnHourPassesKeeps == ASSUME IntakeInv, AnHourPasses PROVE IntakeInv'
<1>1. clock' = clock + 1 /\ clock \in Nat
  BY DEF AnHourPasses, IntakeInv, IntakeTypeOK
<1>2. UNCHANGED <<configured, post, inbox, superseded, decisions, made>>
  BY DEF AnHourPasses
<1>3. PICK before, after : /\ before = Counting \cup Storing
                           /\ after = (Counting \cup Storing)'
  OBVIOUS
<1>4. \A p \in Posts : inbox[p].receivedAt \in Nat
  BY DEF IntakeInv, IntakeTypeOK, Report
<1>5. after \subseteq before
  BY <1>1, <1>2, <1>3, <1>4, IntakeAssumption DEF Counting, Storing, Held
<1>6. CeilingWillHold'
  BY <1>3, <1>5, CeilingStays
<1>7. IntakeTypeOK'
  BY <1>1, <1>2 DEF IntakeInv, IntakeTypeOK
<1>8. OneAtATime' /\ NothingIsAhead'
  BY <1>2 DEF IntakeInv, OneAtATime, Storing, NothingIsAhead
<1>9. \A p \in Posts : SenderKnows(p)'
  BY <1>2 DEF IntakeInv, SenderKnows, Held
<1>10. \A d \in made' : DecisionIsHeld(d)'
  BY <1>2 DEF IntakeInv, DecisionIsHeld, FiledAt, Held
<1> QED
  BY <1>6, <1>7, <1>8, <1>9, <1>10 DEF IntakeInv

\* A post moves that has stored nothing, and stores nothing now.
LEMMA PostMoves ==
    ASSUME IntakeInv, NEW p \in Posts, NEW now \in PostState,
           post' = [post EXCEPT ![p] = now],
           UNCHANGED <<clock, configured, inbox, superseded, decisions, made>>,
           post[p].stage # "told",
           now.told # "received",
           now.stage = "queued" => now.at \in Instances,
           now.stage # "told" => now.told = "nothing"
    PROVE  /\ IntakeTypeOK'
           /\ \A q \in Posts : SenderKnows(q)'
           /\ \A d \in made' : DecisionIsHeld(d)'
           /\ NothingIsAhead'
           /\ Counting' = Counting
           /\ \A q \in Posts : q # p => post'[q] = post[q]
           /\ post'[p] = now
<1>1. /\ post \in [Posts -> PostState]
      /\ \A q \in Posts : q # p => post'[q] = post[q]
      /\ post'[p] = now /\ post' \in [Posts -> PostState]
  BY DEF IntakeInv, IntakeTypeOK
<1>2. ~Held(p)
  BY DEF IntakeInv, SenderKnows
<1>3. \A q \in Posts : SenderKnows(q)'
  BY <1>1, <1>2 DEF IntakeInv, SenderKnows, Held
<1>4. IntakeTypeOK'
  BY <1>1 DEF IntakeInv, IntakeTypeOK
<1>5. Counting' = Counting /\ NothingIsAhead'
  BY DEF IntakeInv, NothingIsAhead, Held, Counting
<1>6. ASSUME NEW d \in made PROVE DecisionIsHeld(d)'
  BY DEF IntakeInv, DecisionIsHeld, FiledAt, Held
<1> QED
  BY <1>1, <1>3, <1>4, <1>5, <1>6

\* The same, of one that does not begin to store.
LEMMA PostStops ==
    ASSUME IntakeInv, NEW p \in Posts, NEW now \in PostState,
           post' = [post EXCEPT ![p] = now],
           UNCHANGED <<clock, configured, inbox, superseded, decisions, made>>,
           post[p].stage # "told",
           now.told # "received",
           now.stage = "queued" => now.at \in Instances,
           now.stage # "told" => now.told = "nothing",
           now.stage # "storing"
    PROVE  IntakeInv'
<1>1. /\ IntakeTypeOK'
      /\ \A q \in Posts : SenderKnows(q)'
      /\ \A d \in made' : DecisionIsHeld(d)'
      /\ NothingIsAhead'
      /\ Counting' = Counting
      /\ \A q \in Posts : q # p => post'[q] = post[q]
      /\ post'[p] = now
  BY PostMoves
<1>2. PICK before, after : /\ before = Counting \cup Storing
                           /\ after = (Counting \cup Storing)'
  OBVIOUS
<1>3. Storing' \subseteq Storing
  BY <1>1 DEF Storing
<1>4. after \subseteq before
  BY <1>1, <1>2, <1>3
<1>5. CeilingWillHold'
  BY <1>2, <1>4, CeilingStays
<1>6. OneAtATime'
  BY <1>1, <1>3 DEF IntakeInv, OneAtATime, Storing
<1> QED
  BY <1>1, <1>5, <1>6 DEF IntakeInv

\* A sender who is told something has heard just that, and the request is over.
LEMMA ToldIsTold ==
    ASSUME IntakeInv, NEW p \in Posts, NEW what \in Answers
    PROVE  /\ TellPost(p, what) \in PostState
           /\ TellPost(p, what).stage = "told" /\ TellPost(p, what).told = what
<1>1. PICK w \in PostState : w = post[p]
  BY DEF IntakeInv, IntakeTypeOK
<1>2. PICK k : k = [w EXCEPT !.stage = "told", !.at = NoNote, !.now = 0, !.told = what]
  OBVIOUS
<1>3. k \in PostState /\ k.stage = "told" /\ k.told = what
  BY <1>2 DEF PostState
<1> QED
  BY <1>1, <1>2, <1>3 DEF TellPost

\* A report that is refused at the door ends its request; another waits for its
\* instance (handleCorrectionRequest).
LEMMA ReceivePostKeeps ==
    ASSUME IntakeInv, NEW p \in Posts, NEW i \in Instances, NEW s \in Submissions,
           NEW verdict, ReceivePost(p, i, s, verdict)
    PROVE  IntakeInv'
<1>1. PICK w \in PostState : w = post[p] /\ w.stage = "unsent" /\ w.told = "nothing"
  BY DEF IntakeInv, IntakeTypeOK, SenderKnows, ReceivePost
<1>2. Refusal(s, verdict) \in Answers \cup {"none"} /\ Refusal(s, verdict) # "received"
  BY DEF Refusal, Answers
<1>3. PICK now \in PostState :
        /\ now = IF Refusal(s, verdict) = "none" THEN [w EXCEPT !.stage = "queued", !.at = i]
                 ELSE TellPost(p, Refusal(s, verdict))
        /\ now.stage # "storing" /\ now.told # "received"
        /\ now.stage = "queued" => now.at \in Instances
        /\ now.stage # "told" => now.told = "nothing"
  <2>1. CASE Refusal(s, verdict) = "none"
    <3>1. PICK k : k = [w EXCEPT !.stage = "queued", !.at = i]
      OBVIOUS
    <3>2. k \in PostState /\ k.stage = "queued" /\ k.at = i /\ k.told = "nothing"
      BY <1>1, <3>1 DEF PostState
    <3> QED
      BY <2>1, <3>1, <3>2
  <2>2. CASE Refusal(s, verdict) # "none"
    <3>1. PICK k : k = TellPost(p, Refusal(s, verdict))
      OBVIOUS
    <3>2. PICK what \in Answers : what = Refusal(s, verdict) /\ what # "received"
      BY <1>2, <2>2
    <3>3. TellPost(p, what) \in PostState /\ TellPost(p, what).stage = "told"
          /\ TellPost(p, what).told = what
      BY ToldIsTold
    <3>4. k \in PostState /\ k.stage = "told" /\ k.told # "received"
      BY <3>1, <3>2, <3>3
    <3> QED
      BY <2>2, <3>1, <3>4
  <2> QED
    BY <2>1, <2>2
<1>4. post' = [post EXCEPT ![p] = now]
  BY <1>1, <1>3 DEF ReceivePost
<1> QED
  BY <1>1, <1>3, <1>4, PostStops, ZenonT(60) DEF ReceivePost

\* A statement that fails stores nothing and tells the sender so.
LEMMA FailToStoreKeeps == ASSUME IntakeInv, NEW p \in Posts, FailToStore(p) PROVE IntakeInv'
<1>1. PICK now \in PostState : now = TellPost(p, "error") /\ now.stage = "told" /\ now.told = "error"
  <2>1. "error" \in Answers
    BY DEF Answers
  <2> QED
    BY <2>1, ToldIsTold
<1>2. post' = [post EXCEPT ![p] = now] /\ post[p].stage # "told"
  BY <1>1 DEF FailToStore
<1> QED
  BY <1>1, <1>2, PostStops DEF FailToStore

\* One set of those under way on different instances is no larger than the instances.
LEMMA AtMostInstances ==
    ASSUME NEW S, NEW f \in [S -> Instances], IsFiniteSet(S),
           \A p, q \in S : f[p] = f[q] => p = q
    PROVE  Cardinality(S) <= Cardinality(Instances)
<1>1. f \in Injection(S, Instances)
  BY DEF Injection, IsInjective
<1> QED
  BY <1>1, IntakeAssumption, FS_Injection

\* A report goes on to be stored only when the count it read is below the
\* ceiling, one at a time on an instance.
LEMMA CountReportsKeeps == ASSUME IntakeInv, NEW p \in Posts, CountReports(p) PROVE IntakeInv'
<1>1. PICK w \in PostState : w = post[p] /\ w.stage = "queued" /\ w.told = "nothing" /\ w.at \in Instances
  BY DEF IntakeInv, IntakeTypeOK, SenderKnows, CountReports
<1>2. UNCHANGED <<clock, configured, inbox, superseded, decisions, made>>
  BY DEF CountReports
<1>3. CASE IsPaused
  <2>1. PICK now \in PostState : now = TellPost(p, "paused") /\ now.stage = "told" /\ now.told = "paused"
    <3>1. "paused" \in Answers
      BY DEF Answers
    <3> QED
      BY <3>1, ToldIsTold
  <2>2. post' = [post EXCEPT ![p] = now]
    BY <1>3, <2>1 DEF CountReports
  <2> QED
    BY <1>1, <1>2, <2>1, <2>2, PostStops
<1>4. CASE ~IsPaused
  <2>1. PICK now \in PostState : /\ now = [w EXCEPT !.stage = "storing", !.now = clock]
                                 /\ now.stage = "storing" /\ now.at = w.at /\ now.told = "nothing"
    <3>1. PICK k : k = [w EXCEPT !.stage = "storing", !.now = clock]
      OBVIOUS
    <3>2. k \in PostState /\ k.stage = "storing" /\ k.at = w.at /\ k.told = "nothing"
      BY <1>1, <3>1 DEF PostState, IntakeInv, IntakeTypeOK
    <3> QED
      BY <3>1, <3>2
  <2>2. post' = [post EXCEPT ![p] = now]
    BY <1>1, <1>4, <2>1 DEF CountReports
  <2>3. /\ IntakeTypeOK'
        /\ \A q \in Posts : SenderKnows(q)'
        /\ \A d \in made' : DecisionIsHeld(d)'
        /\ NothingIsAhead'
        /\ Counting' = Counting
        /\ \A q \in Posts : q # p => post'[q] = post[q]
        /\ post'[p] = now
    BY <1>1, <1>2, <2>1, <2>2, PostMoves
  <2>4. PICK storing, recent : storing = Storing' /\ recent = Counting
    OBVIOUS
  <2>5. storing = Storing \cup {p}
    BY <2>1, <2>3, <2>4 DEF Storing
  <2>6. OneAtATime'
    <3>1. \A q \in Storing : post[q].at # w.at
      BY <1>1 DEF CountReports, Storing
    <3>2. p \notin Storing /\ \A q \in Storing : post'[q] = post[q]
      BY <1>1, <2>3 DEF Storing
    <3>3. \A q \in storing : post'[q].at = IF q = p THEN w.at ELSE post[q].at
      BY <2>1, <2>3, <2>5, <3>2
    <3>4. /\ \A q \in Storing : post[q].at \in Instances
          /\ \A q, t \in Storing : post[q].at = post[t].at => q = t
      BY DEF IntakeInv, OneAtATime
    <3>5. \A q \in storing : post'[q].at \in Instances
      BY <1>1, <2>5, <3>3, <3>4
    <3>6. \A q, t \in storing : post'[q].at = post'[t].at => q = t
      BY <2>5, <3>1, <3>2, <3>3, <3>4
    <3> QED
      BY <2>4, <3>5, <3>6 DEF OneAtATime
  <2>7. IsFiniteSet(storing) /\ IsFiniteSet(recent)
    BY <2>4, <2>5, IntakeAssumption, FS_Subset DEF Storing, Counting
  <2>8. Cardinality(storing) <= Cardinality(Instances)
    <3>1. PICK at : at = [q \in storing |-> post'[q].at]
      OBVIOUS
    <3>2. at \in [storing -> Instances] /\ \A q, r \in storing : at[q] = at[r] => q = r
      BY <2>4, <2>6, <3>1 DEF OneAtATime
    <3> QED
      BY <2>7, <3>2, AtMostInstances
  <2>9. Cardinality(recent) < Ceiling
    <3>1. Recent = Cardinality(recent)
      BY <2>4 DEF Recent, Counting
    <3>2. Cardinality(recent) \in Nat
      BY <2>7, FS_CardinalityType
    <3> QED
      BY <1>4, <3>1, <3>2, IntakeAssumption DEF IsPaused
  <2>10. Cardinality(recent \cup storing) <= Cardinality(recent) + Cardinality(storing)
    <3>1. /\ Cardinality(recent \cup storing) =
               Cardinality(recent) + Cardinality(storing) - Cardinality(recent \cap storing)
          /\ IsFiniteSet(recent \cap storing)
      BY <2>7, FS_Union, FS_Subset
    <3>2. /\ Cardinality(recent) \in Nat /\ Cardinality(storing) \in Nat
          /\ Cardinality(recent \cap storing) \in Nat
      BY <2>7, <3>1, FS_CardinalityType
    <3> QED
      BY <3>1, <3>2
  <2>11. Cardinality(recent \cup storing) <= Ceiling + Cardinality(Instances) - 1
    <3>1. /\ Cardinality(recent) \in Nat /\ Cardinality(storing) \in Nat
          /\ Cardinality(Instances) \in Nat
      BY <2>7, IntakeAssumption, FS_CardinalityType
    <3>2. IsFiniteSet(recent \cup storing)
      BY <2>7, FS_Union
    <3>3. Cardinality(recent \cup storing) \in Nat
      BY <3>2, FS_CardinalityType
    <3> QED
      BY <2>8, <2>9, <2>10, <3>1, <3>3, IntakeAssumption
  <2>12. CeilingWillHold'
    BY <2>3, <2>4, <2>11 DEF CeilingWillHold
  <2> QED
    BY <2>3, <2>6, <2>12 DEF IntakeInv
<1> QED
  BY <1>3, <1>4

\* A report that was under way is counted with those received, and nothing was
\* stored before it.
LEMMA StoreReportKeeps ==
    ASSUME IntakeInv, NEW p \in Posts, NEW arrives \in BOOLEAN, StoreReport(p, arrives)
    PROVE  IntakeInv'
<1>1. PICK w \in PostState : /\ w = post[p] /\ w.stage = "storing" /\ w.now \in Nat
                             /\ ~Held(p)
  BY DEF IntakeInv, IntakeTypeOK, SenderKnows, StoreReport, PostState
<1>2. UNCHANGED <<clock, configured, superseded, decisions, made>>
  BY DEF StoreReport
<1>3. PICK now \in PostState : /\ now = TellPost(p, IF arrives THEN "received" ELSE "error")
                               /\ now.stage = "told" /\ now.told \in {"received", "error"}
  <2>1. PICK what \in Answers : /\ what = IF arrives THEN "received" ELSE "error"
                                /\ what \in {"received", "error"}
    BY DEF Answers
  <2>2. TellPost(p, what) \in PostState /\ TellPost(p, what).stage = "told" /\ TellPost(p, what).told = what
    BY ToldIsTold
  <2> QED
    BY <2>1, <2>2
<1>4. /\ post' \in [Posts -> PostState] /\ post'[p] = now
      /\ \A q \in Posts : q # p => post'[q] = post[q]
  BY <1>3 DEF StoreReport, IntakeInv, IntakeTypeOK
<1>5. PICK r : r = [NoReport EXCEPT !.status = "received", !.receivedAt = w.now]
  OBVIOUS
<1>6. /\ r \in Report /\ r.at = 0 /\ r # NoReport
  BY <1>1, <1>5 DEF NoReport, Report
<1>7. /\ inbox' \in [Posts -> Report] /\ inbox'[p] = r
      /\ \A q \in Posts : q # p => inbox'[q] = inbox[q]
  BY <1>1, <1>5, <1>6 DEF StoreReport, IntakeInv, IntakeTypeOK
<1>8. IntakeTypeOK'
  BY <1>2, <1>4, <1>7 DEF IntakeInv, IntakeTypeOK
<1>9. \A q \in Posts : SenderKnows(q)'
  BY <1>3, <1>4, <1>6, <1>7 DEF IntakeInv, SenderKnows, Held
<1>10. OneAtATime'
  BY <1>3, <1>4 DEF IntakeInv, OneAtATime, Storing
<1>11. PICK before, after : /\ before = Counting \cup Storing
                            /\ after = (Counting \cup Storing)'
  OBVIOUS
<1>12. after \subseteq before
  BY <1>1, <1>2, <1>3, <1>4, <1>7, <1>11 DEF Counting, Storing, Held
<1>13. CeilingWillHold'
  BY <1>11, <1>12, CeilingStays
<1>14. \A d \in made : d.of # p /\ d.of \in Posts
  BY <1>1 DEF IntakeInv, DecisionIsHeld, IntakeTypeOK
<1>15. ASSUME NEW d \in made' PROVE DecisionIsHeld(d)'
  <2>1. DecisionIsHeld(d) /\ d.of # p /\ d.of \in Posts
    BY <1>2, <1>14 DEF IntakeInv
  <2>2. inbox'[d.of] = inbox[d.of] /\ superseded'[d.of] = superseded[d.of] /\ decisions' = decisions
    BY <1>2, <1>7, <2>1
  <2>3. FiledAt(d)' = FiledAt(d)
    BY <2>2 DEF FiledAt
  <2> QED
    BY <2>1, <2>2, <2>3 DEF DecisionIsHeld, Held
<1>16. NothingIsAhead'
  <2>1. decisions \in Nat
    BY DEF IntakeInv, IntakeTypeOK
  <2> QED
    BY <1>2, <1>6, <1>7, <2>1 DEF IntakeInv, NothingIsAhead
<1> QED
  BY <1>8, <1>9, <1>10, <1>13, <1>15, <1>16 DEF IntakeInv

\* A decision replaces what was decided before, which the trigger files
\* (migration 0042).
LEMMA DecideReportKeeps ==
    ASSUME IntakeInv, NEW r \in Reviewers, NEW p \in Posts,
           NEW choice \in Final \cup {"reviewing"}, NEW note \in Notes \cup {NoNote},
           DecideReport(r, p, choice, note)
    PROVE  IntakeInv'
<1> DEFINE final == choice \in Final
<1>1. PICK old \in Report : old = inbox[p] /\ Held(p) /\ old.at <= decisions /\ old.at \in Nat
  BY DEF IntakeInv, IntakeTypeOK, NothingIsAhead, DecideReport, Report
<1>2. decisions' = decisions + 1 /\ decisions \in Nat
  BY DEF DecideReport, IntakeInv, IntakeTypeOK
<1>3. PICK new : new = [old EXCEPT !.status = choice,
                                   !.by = IF final THEN r ELSE old.by,
                                   !.at = IF final THEN decisions + 1 ELSE old.at,
                                   !.note = IF note = NoNote THEN old.note ELSE note]
  OBVIOUS
<1>4. /\ new \in Report /\ new.status = choice /\ new.receivedAt = old.receivedAt
      /\ new.at = IF final THEN decisions + 1 ELSE old.at
  <2>1. PICK by, at, why : /\ by = IF final THEN r ELSE old.by
                           /\ at = IF final THEN decisions + 1 ELSE old.at
                           /\ why = IF note = NoNote THEN old.note ELSE note
    OBVIOUS
  <2>2. by \in Reviewers \cup {NoNote} /\ at \in Nat /\ why \in Notes \cup {NoNote}
    BY <1>1, <1>2, <2>1 DEF Report
  <2>3. new = [old EXCEPT !.status = choice, !.by = by, !.at = at, !.note = why]
    BY <1>3, <2>1
  <2>4. /\ new \in Report /\ new.status = choice /\ new.receivedAt = old.receivedAt
        /\ new.at = at
    BY <1>1, <2>2, <2>3 DEF Report
  <2> QED
    BY <2>1, <2>4
<1>5. new # NoReport
  BY <1>4, IntakeAssumption DEF NoReport
<1>6. /\ inbox' = [inbox EXCEPT ![p] = new]
      /\ superseded' = IF Supersedes(old, new) THEN [superseded EXCEPT ![p] = Append(superseded[p], old)]
                       ELSE superseded
      /\ made' = IF final THEN made \cup {[of |-> p, as |-> new]} ELSE made
      /\ UNCHANGED <<clock, configured, post>>
  BY <1>1, <1>3 DEF DecideReport
<1>7. /\ inbox' \in [Posts -> Report] /\ inbox'[p] = new
      /\ \A q \in Posts : q # p => inbox'[q] = inbox[q]
  BY <1>4, <1>6 DEF IntakeInv, IntakeTypeOK
<1>8. ~Supersedes(old, new) => new = old
  <2> SUFFICES ASSUME ~Supersedes(old, new) PROVE new = old
    OBVIOUS
  <2>1. /\ old.status = new.status /\ old.by = new.by /\ old.at = new.at /\ old.note = new.note
    BY DEF Supersedes
  <2>2. /\ old = [status |-> old.status, receivedAt |-> old.receivedAt, by |-> old.by,
                  at |-> old.at, note |-> old.note]
        /\ new = [status |-> new.status, receivedAt |-> new.receivedAt, by |-> new.by,
                  at |-> new.at, note |-> new.note]
    BY <1>1, <1>4 DEF Report
  <2> QED
    BY <1>4, <2>1, <2>2
<1>9. PICK trail \in Seq(Report) : trail = superseded[p]
  BY DEF IntakeInv, IntakeTypeOK
<1>10. PICK longer \in Seq(Report) :
          longer = IF Supersedes(old, new) THEN Append(trail, old) ELSE trail
  <2>1. Append(trail, old) \in Seq(Report)
    BY <1>1, <1>9
  <2> QED
    BY <1>9, <2>1
<1>11. /\ superseded' \in [Posts -> Seq(Report)]
       /\ superseded'[p] = longer
       /\ \A q \in Posts : q # p => superseded'[q] = superseded[q]
  <2>1. superseded \in [Posts -> Seq(Report)]
    BY DEF IntakeInv, IntakeTypeOK
  <2>2. superseded' = [superseded EXCEPT ![p] = longer]
    BY <1>6, <1>9, <1>10, <2>1
  <2> QED
    BY <2>1, <2>2
<1>20. \A t \in Seq(Report) : \A n \in DOMAIN t : t[n].at \in Nat
  <2>1. \A t \in Seq(Report) : \A n \in DOMAIN t : t[n] \in Report
    OBVIOUS
  <2> QED
    BY <2>1 DEF Report
<1>12. IntakeTypeOK'
  BY <1>2, <1>4, <1>6, <1>7, <1>11 DEF IntakeInv, IntakeTypeOK
<1>13. \A q \in Posts : (Held(q) <=> Held(q)') /\ inbox'[q].receivedAt = inbox[q].receivedAt
  BY <1>1, <1>4, <1>5, <1>7 DEF Held
<1>14. (\A q \in Posts : SenderKnows(q)') /\ OneAtATime'
  BY <1>6, <1>13 DEF IntakeInv, SenderKnows, OneAtATime, Storing
<1>15. CeilingWillHold'
  <2>1. PICK before, after : /\ before = Counting \cup Storing
                             /\ after = (Counting \cup Storing)'
    OBVIOUS
  <2>2. after \subseteq before
    BY <1>6, <1>13, <2>1 DEF Counting, Storing
  <2> QED
    BY <2>1, <2>2, CeilingStays
<1>16. NothingIsAhead'
  <2>1. new.at <= decisions + 1
    BY <1>1, <1>2, <1>4
  <2>2. \A n \in DOMAIN trail : trail[n].at <= decisions + 1
    <3>1. \A n \in DOMAIN trail : trail[n].at \in Nat /\ trail[n].at <= decisions
      BY <1>9, <1>20 DEF IntakeInv, NothingIsAhead
    <3> QED
      BY <1>2, <3>1
  <2>3. \A n \in DOMAIN longer : longer[n].at <= decisions + 1
    BY <1>1, <1>2, <1>9, <1>10, <1>11, <2>2
  <2>4. \A q \in Posts : q # p => /\ inbox'[q].at <= decisions + 1
                                  /\ \A n \in DOMAIN superseded'[q] : superseded'[q][n].at <= decisions + 1
    <3>1. \A q \in Posts : /\ inbox[q].at \in Nat /\ inbox[q].at <= decisions
                           /\ \A n \in DOMAIN superseded[q] :
                                superseded[q][n].at \in Nat /\ superseded[q][n].at <= decisions
      <4>1. \A q \in Posts : inbox[q].at \in Nat /\ superseded[q] \in Seq(Report)
        BY DEF IntakeInv, IntakeTypeOK, Report
      <4> QED
        BY <1>20, <4>1 DEF IntakeInv, NothingIsAhead
    <3>2. \A q \in Posts : inbox[q].at <= decisions + 1
      BY <1>2, <3>1
    <3>3. \A q \in Posts : \A n \in DOMAIN superseded[q] : superseded[q][n].at <= decisions + 1
      BY <1>2, <3>1
    <3> QED
      BY <1>7, <1>11, <3>2, <3>3
  <2> QED
    BY <1>2, <1>7, <1>10, <1>11, <2>1, <2>3, <2>4 DEF NothingIsAhead
<1>17. ASSUME NEW d \in made PROVE DecisionIsHeld(d)'
  <2>1. DecisionIsHeld(d) /\ d.of \in Posts /\ d.as \in Report
    BY DEF IntakeInv, IntakeTypeOK
  <2>2. Held(d.of)' /\ d.as.status \in Final /\ d.as.at \in 1..decisions'
    BY <1>2, <1>13, <2>1 DEF DecisionIsHeld
  <2>3. CASE d.of # p
    BY <1>7, <1>11, <2>1, <2>2, <2>3, ZenonT(60) DEF DecisionIsHeld, FiledAt
  <2>4. CASE d.of = p
    <3>1. PICK filed : filed = {n \in DOMAIN trail : trail[n] = d.as}
      OBVIOUS
    <3>2. PICK now : now = {n \in DOMAIN longer : longer[n] = d.as}
      OBVIOUS
    <3>3. FiledAt(d) = filed /\ FiledAt(d)' = now
      BY <1>9, <1>10, <1>11, <2>4, <3>1, <3>2 DEF FiledAt
    <3>4. (old = d.as /\ filed = {}) \/ (old # d.as /\ \E n \in DOMAIN trail : filed = {n})
      BY <1>1, <1>9, <2>1, <2>4, <3>3 DEF DecisionIsHeld
    <3>5. (new = d.as /\ now = {}) \/ (new # d.as /\ \E n \in DOMAIN longer : now = {n})
      <4>1. CASE ~Supersedes(old, new)
        BY <1>8, <1>10, <1>11, <3>1, <3>2, <3>4, <4>1
      <4>2. CASE Supersedes(old, new)
        <5>1. new # old
          BY <4>2 DEF Supersedes
        <5>2. /\ longer = Append(trail, old) /\ Len(trail) \in Nat
              /\ DOMAIN trail = 1..Len(trail) /\ DOMAIN longer = 1..(Len(trail) + 1)
              /\ longer[Len(trail) + 1] = old
              /\ \A n \in 1..Len(trail) : longer[n] = trail[n]
          BY <1>9, <1>10, <1>11, <4>2
        <5>3. CASE old = d.as /\ filed = {}
          <6>1. now = {Len(trail) + 1}
            BY <3>1, <3>2, <5>2, <5>3
          <6> QED
            BY <5>1, <5>2, <5>3, <6>1
        <5>4. CASE old # d.as /\ \E n \in DOMAIN trail : filed = {n}
          <6>1. now = filed
            BY <3>1, <3>2, <5>2, <5>4
          <6>2. new # d.as
            <7>1. CASE final
              BY <1>2, <1>4, <2>1, <7>1 DEF DecisionIsHeld
            <7>2. CASE ~final
              BY <1>4, <2>2, <7>2
            <7> QED
              BY <7>1, <7>2
          <6> QED
            BY <5>2, <5>4, <6>1, <6>2
        <5> QED
          BY <3>4, <5>3, <5>4
      <4> QED
        BY <4>1, <4>2
    <3> QED
      BY <1>7, <1>10, <1>11, <2>2, <2>4, <3>3, <3>5 DEF DecisionIsHeld
  <2> QED
    BY <2>3, <2>4
<1>18. ASSUME final, NEW d, d = [of |-> p, as |-> new] PROVE DecisionIsHeld(d)'
  <2>1. d.of = p /\ d.as = new /\ new.at = decisions + 1
    BY <1>4, <1>18
  <2>2. new.at # old.at /\ new # old
    BY <1>1, <1>2, <2>1
  <2>3. Supersedes(old, new)
    BY <1>8, <2>2
  <2>4. \A n \in DOMAIN trail : trail[n].at \in Nat /\ trail[n].at <= decisions
    BY <1>9, <1>20 DEF IntakeInv, NothingIsAhead
  <2>5. \A n \in DOMAIN trail : trail[n] # new
    BY <1>2, <2>1, <2>4
  <2>6. \A n \in DOMAIN longer : longer[n] # new
    BY <1>9, <1>10, <1>11, <2>2, <2>3, <2>5
  <2>7. FiledAt(d)' = {}
    BY <1>10, <1>11, <2>1, <2>6 DEF FiledAt
  <2>8. Held(d.of)' /\ inbox'[d.of] = d.as /\ d.as.status \in Final
    BY <1>1, <1>4, <1>7, <1>13, <1>18, <2>1
  <2>9. d.as.at \in 1..decisions'
    BY <1>2, <2>1
  <2> QED
    BY <2>7, <2>8, <2>9 DEF DecisionIsHeld
<1>19. \A d \in made' : DecisionIsHeld(d)'
  BY <1>6, <1>17, <1>18
<1> QED
  BY <1>12, <1>14, <1>15, <1>16, <1>19 DEF IntakeInv

\* Every step of the inbox keeps its invariant.
LEMMA IntakeSteps == ASSUME IntakeInv, [IntakeNext]_intake PROVE IntakeInv'
<1>1. CASE UNCHANGED intake
  BY <1>1 DEF intake, IntakeInv, IntakeTypeOK, OneAtATime, Storing, CeilingWillHold, Counting,
              SenderKnows, DecisionIsHeld, FiledAt, NothingIsAhead, Held
<1>2. CASE IntakeNext
  BY <1>2, AnHourPassesKeeps, ReceivePostKeeps, CountReportsKeeps, StoreReportKeeps,
     FailToStoreKeeps, DecideReportKeeps DEF IntakeNext
<1> QED
  BY <1>1, <1>2

\* Whatever the interleaving of instances and reviewers, a sender told
\* 'received' has a report on file and else only one told of an error may have,
\* the hour's ceiling is passed by fewer than there are instances, and each
\* decision made final stands or is filed once and unaltered: for every set of
\* posts and instances, every ceiling and every number of decisions.
THEOREM InboxLosesNothing == IntakeSpec => []InboxHolds
<1>1. IntakeInit => IntakeInv
  BY IntakeStarts
<1>2. IntakeInv /\ [IntakeNext]_intake => IntakeInv'
  BY IntakeSteps
<1>3. IntakeInv => InboxHolds
  BY IntakeInvImplies
<1> QED
  BY <1>1, <1>2, <1>3, PTL DEF IntakeSpec

------------------------------------------------------------------------------
(* The two halves of a bilingual report (FigureLinks).                       *)

Pairs == (Figures \ InLatin) \X InLatin

LinkerState == [pc : {"resting", "clear", "link"}, todo : SUBSET Pairs]

LinksTypeOK ==
    /\ held \subseteq Figures
    /\ value \in [Figures -> Values \cup {NoFigure}]
    /\ status \in [Figures -> {"unverified", "verified", "corrected", "rejected"}]
    /\ same \in [Figures -> Figures \cup {NoFigure}]
    /\ linker \in [Linkers -> LinkerState]
    /\ changes \in Nat
    /\ restated \in BOOLEAN

\* No figure is in two of these pairs.
Disjoint(pairs) ==
    \A x, y \in pairs : x[1] = y[1] \/ x[2] = y[2] => x = y

\* What is linked is on either side of a page, is there, and is in one link.
LinksAreSound ==
    /\ \A f \in Figures : same[f] # NoFigure =>
         f \in held \ InLatin /\ same[f] \in held \cap InLatin
    /\ \A f, g \in Figures : same[f] # NoFigure /\ same[f] = same[g] => f = g

OneAtLinks == \A l, m \in Linkers : linker[l].pc # "resting" /\ linker[m].pc # "resting" => l = m

\* What a linker still has to write meets nothing it has written.
TodoIsSound(l) ==
    /\ Disjoint(linker[l].todo)
    /\ linker[l].pc = "resting" => linker[l].todo = {}
    /\ linker[l].pc = "link" =>
         \A pair \in linker[l].todo : \A f \in Figures : same[f] # pair[2]

\* Until something is restated, what is to be written and what is written are the
\* pairs that there are.
WorkIsThose(l) ==
    ~restated =>
        /\ linker[l].pc # "resting" => linker[l].todo \subseteq PairFigures(Linkable)
        /\ linker[l].pc = "clear" => linker[l].todo = PairFigures(Linkable)
        /\ linker[l].pc = "link" =>
             /\ \A pair \in PairFigures(Linkable) :
                  pair \in linker[l].todo \/ same[pair[1]] = pair[2]
             /\ \A f \in Figures : same[f] # NoFigure =>
                  <<f, same[f]>> \in PairFigures(Linkable)

LinksInv ==
    /\ LinksTypeOK
    /\ LinksAreSound
    /\ OneAtLinks
    /\ \A l \in Linkers : TodoIsSound(l) /\ WorkIsThose(l)

\* Two figures are paired if they publish one value, are one of each half, and are
\* the only ones of theirs.
LEMMA PairsOf ==
    ASSUME NEW L \in SUBSET Figures, value \in [Figures -> Values \cup {NoFigure}],
           NEW d, NEW e
    PROVE  <<d, e>> \in PairFigures(L) <=>
             /\ d \in L \ InLatin /\ e \in L \cap InLatin
             /\ value[d] = value[e] /\ value[d] \in Values
             /\ \A f \in L : value[f] = value[d] => f \in {d, e}
<1>1. \A S : S \subseteq Figures /\ Cardinality(S) = 1 => \E x : S = {x}
  BY FigureLinksAssumption, FS_Subset, FS_Singleton
<1>2. \A x : Cardinality({x}) = 1 /\ (CHOOSE y \in {x} : TRUE) = x
  BY FS_Singleton
<1>3. ASSUME NEW v \in Values
      PROVE  Group(L, v).devanagari = {f \in L \ InLatin : value[f] = v}
             /\ Group(L, v).latin = {f \in L \cap InLatin : value[f] = v}
  BY DEF Group
<1>4. ASSUME <<d, e>> \in PairFigures(L)
      PROVE  /\ d \in L \ InLatin /\ e \in L \cap InLatin
             /\ value[d] = value[e] /\ value[d] \in Values
             /\ \A f \in L : value[f] = value[d] => f \in {d, e}
  <2>1. PICK v \in Values : /\ Cardinality(Group(L, v).devanagari) = 1
                            /\ Cardinality(Group(L, v).latin) = 1
                            /\ d = CHOOSE x \in Group(L, v).devanagari : TRUE
                            /\ e = CHOOSE x \in Group(L, v).latin : TRUE
    BY <1>4 DEF PairFigures
  <2>2. PICK D, E : D = Group(L, v).devanagari /\ E = Group(L, v).latin
    OBVIOUS
  <2>3. D \subseteq Figures /\ E \subseteq Figures
    BY <1>3, <2>2
  <2>4. PICK x : D = {x}
    BY <1>1, <2>1, <2>2, <2>3
  <2>5. PICK y : E = {y}
    BY <1>1, <2>1, <2>2, <2>3
  <2>6. d = x /\ e = y
    BY <1>2, <2>1, <2>2, <2>4, <2>5
  <2>7. /\ {f \in L \ InLatin : value[f] = v} = {d}
        /\ {f \in L \cap InLatin : value[f] = v} = {e}
    BY <1>3, <2>2, <2>4, <2>5, <2>6
  <2> QED
    BY <2>7
<1>5. ASSUME d \in L \ InLatin, e \in L \cap InLatin,
             value[d] = value[e], value[d] \in Values,
             \A f \in L : value[f] = value[d] => f \in {d, e}
      PROVE  <<d, e>> \in PairFigures(L)
  <2>1. PICK v \in Values : v = value[d]
    BY <1>5
  <2>2. PICK g : g = Group(L, v)
    OBVIOUS
  <2>3. g.devanagari = {d} /\ g.latin = {e}
    BY <1>3, <1>5, <2>1, <2>2
  <2>4. g \in {h \in {Group(L, u) : u \in Values} :
                  Cardinality(h.devanagari) = 1 /\ Cardinality(h.latin) = 1}
    BY <1>2, <2>2, <2>3
  <2>5. <<CHOOSE x \in g.devanagari : TRUE, CHOOSE x \in g.latin : TRUE>> = <<d, e>>
    BY <1>2, <2>3
  <2> QED
    BY <2>4, <2>5 DEF PairFigures
<1> QED
  BY <1>4, <1>5

\* The pairs of one reading share no figure, since each is alone with its value
\* in its half.
LEMMA PairsAreDisjoint ==
    ASSUME NEW L \in SUBSET Figures, value \in [Figures -> Values \cup {NoFigure}]
    PROVE  PairFigures(L) \subseteq Pairs /\ Disjoint(PairFigures(L))
<1>1. ASSUME NEW x \in PairFigures(L)
      PROVE  /\ x = <<x[1], x[2]>>
             /\ x[1] \in L \ InLatin /\ x[2] \in L \cap InLatin
             /\ value[x[1]] = value[x[2]]
             /\ \A f \in L : value[f] = value[x[1]] => f \in {x[1], x[2]}
  <2>1. PICK d, e : x = <<d, e>>
    BY DEF PairFigures
  <2>2. x[1] = d /\ x[2] = e
    BY <2>1
  <2> QED
    BY <2>1, <2>2, PairsOf
<1>2. PairFigures(L) \subseteq Pairs
  BY <1>1 DEF Pairs
<1>3. ASSUME NEW x \in PairFigures(L), NEW y \in PairFigures(L), x[1] = y[1] \/ x[2] = y[2]
      PROVE  x = y
  <2>1. value[x[1]] = value[y[1]]
    BY <1>1, <1>3
  <2>2. y[1] \in {x[1], x[2]} /\ y[2] \in {x[1], x[2]}
    BY <1>1, <2>1
  <2>3. y[1] = x[1] /\ y[2] = x[2]
    BY <1>1, <2>2
  <2> QED
    BY <1>1, <2>3
<1> QED
  BY <1>2, <1>3 DEF Disjoint

\* From the linker's invariant: no chain and no third figure, and when the
\* linker is done, just the pairs that there are.
LEMMA LinksInvImplies == ASSUME LinksInv PROVE FiguresAreCountedOnce
<1>1. PairsAreApart
  <2>1. ASSUME NEW f \in Citations PROVE same[f] \in held /\ same[f] \notin Citations
    BY DEF Citations, LinksInv, LinksAreSound, LinksTypeOK
  <2>2. ASSUME NEW f \in Citations, NEW g \in Citations, same[f] = same[g] PROVE f = g
    BY <2>2 DEF Citations, LinksInv, LinksAreSound, LinksTypeOK
  <2> QED
    BY <2>1, <2>2 DEF PairsAreApart
<1>2. PairsAreThose
  <2> SUFFICES ASSUME NEW l \in Linkers, linker[l].pc = "link", linker[l].todo = {}, ~restated,
                      NEW d \in held \ InLatin, NEW e \in held \cap InLatin
               PROVE  (same[d] = e) <=>
                        /\ value[d] = value[e] /\ value[d] # NoFigure
                        /\ {status[d], status[e]} \cap {"rejected"} = {}
                        /\ \A f \in held \ {d, e} : value[f] = value[d] => status[f] = "rejected"
    BY DEF PairsAreThose
  <2>1. /\ Linkable \in SUBSET Figures /\ value \in [Figures -> Values \cup {NoFigure}]
        /\ d \in Figures /\ e \in Figures /\ e # NoFigure
        /\ value[d] # NoFigure => value[d] \in Values
    BY FigureLinksAssumption DEF LinksInv, LinksTypeOK, Linkable
  <2>2. /\ \A pair \in PairFigures(Linkable) : same[pair[1]] = pair[2]
        /\ \A f \in Figures : same[f] # NoFigure => <<f, same[f]>> \in PairFigures(Linkable)
    BY DEF LinksInv, WorkIsThose
  <2>3. same[d] = e <=> <<d, e>> \in PairFigures(Linkable)
    <3>1. <<d, e>>[1] = d /\ <<d, e>>[2] = e
      OBVIOUS
    <3> QED
      BY <2>1, <2>2, <3>1
  <2>4. <<d, e>> \in PairFigures(Linkable) <=>
             /\ d \in Linkable \ InLatin /\ e \in Linkable \cap InLatin
             /\ value[d] = value[e] /\ value[d] \in Values
             /\ \A f \in Linkable : value[f] = value[d] => f \in {d, e}
    BY <2>1, PairsOf
  <2>5. ASSUME d \in Linkable \ InLatin /\ e \in Linkable \cap InLatin,
               value[d] = value[e], value[d] \in Values,
               \A f \in Linkable : value[f] = value[d] => f \in {d, e}
        PROVE  /\ value[d] # NoFigure
               /\ {status[d], status[e]} \cap {"rejected"} = {}
               /\ \A f \in held \ {d, e} : value[f] = value[d] => status[f] = "rejected"
    BY <2>5, FigureLinksAssumption DEF Linkable
  <2>6. ASSUME value[d] = value[e], value[d] # NoFigure,
               {status[d], status[e]} \cap {"rejected"} = {},
               \A f \in held \ {d, e} : value[f] = value[d] => status[f] = "rejected"
        PROVE  /\ d \in Linkable \ InLatin /\ e \in Linkable \cap InLatin
               /\ value[d] \in Values
               /\ \A f \in Linkable : value[f] = value[d] => f \in {d, e}
    BY <2>1, <2>6 DEF Linkable
  <2> QED
    BY <2>3, <2>4, <2>5, <2>6
<1> QED
  BY <1>1, <1>2 DEF FiguresAreCountedOnce

\* At first nothing is linked and nobody links.
LEMMA LinksStart == ASSUME LinksInit PROVE LinksInv
<1>1. Resting \in LinkerState /\ Resting.pc = "resting" /\ Resting.todo = {}
  BY DEF Resting, LinkerState
<1>2. LinksTypeOK
  BY <1>1, FigureLinksAssumption DEF LinksInit, LinksTypeOK
<1>3. LinksAreSound /\ OneAtLinks
  BY <1>1 DEF LinksInit, LinksAreSound, OneAtLinks
<1>4. \A l \in Linkers : TodoIsSound(l) /\ WorkIsThose(l)
  BY <1>1 DEF LinksInit, TodoIsSound, WorkIsThose, Disjoint
<1> QED
  BY <1>2, <1>3, <1>4 DEF LinksInv

\* What is restated undoes no link but of a figure that goes, and no linker notices.
LEMMA RestatedKeeps ==
    ASSUME LinksInv, Change, LinksTypeOK', LinksAreSound',
           \A f \in Figures : same'[f] = same[f] \/ same'[f] = NoFigure
    PROVE  LinksInv'
<1>1. restated' = TRUE /\ UNCHANGED linker
  BY DEF Change
<1>2. OneAtLinks'
  BY <1>1 DEF LinksInv, OneAtLinks
<1>3. ASSUME NEW l \in Linkers PROVE TodoIsSound(l)'
  <2>1. \A pair \in linker[l].todo : pair[2] \in Figures /\ pair[2] # NoFigure
    BY FigureLinksAssumption DEF LinksInv, LinksTypeOK, LinkerState, Pairs
  <2> QED
    BY <1>1, <2>1 DEF LinksInv, TodoIsSound, Disjoint
<1>4. \A l \in Linkers : WorkIsThose(l)'
  BY <1>1 DEF WorkIsThose
<1> QED
  BY <1>2, <1>3, <1>4 DEF LinksInv

\* What a reviewer or the parser changes leaves the linker alone.
LEMMA ChangeTypes == ASSUME LinksInv, Change PROVE
    /\ changes' \in Nat /\ restated' \in BOOLEAN /\ linker' \in [Linkers -> LinkerState]
  BY DEF Change, LinksInv, LinksTypeOK

\* A decision on a figure moves no link, and whoever links has read the figure
\* as it was.
LEMMA ReviewKeeps ==
    ASSUME LinksInv, NEW f \in Figures, NEW decision \in {"verified", "corrected", "rejected"},
           NEW v \in Values \cup {NoFigure}, Review(f, decision, v)
    PROVE  LinksInv'
<1>1. Change /\ UNCHANGED <<held, same>>
  BY DEF Review
<1>2. LinksTypeOK'
  BY <1>1, ChangeTypes DEF Review, LinksInv, LinksTypeOK
<1>3. LinksAreSound'
  BY <1>1 DEF LinksInv, LinksAreSound
<1> QED
  BY <1>1, <1>2, <1>3, RestatedKeeps

\* A figure the parser adds is linked to nothing.
LEMMA ParserAddsKeeps == ASSUME LinksInv, NEW f \in Figures, ParserAdds(f) PROVE LinksInv'
<1>1. Change /\ UNCHANGED same /\ held' = held \cup {f}
  BY DEF ParserAdds
<1>2. LinksTypeOK'
  BY <1>1, ChangeTypes, FigureLinksAssumption DEF ParserAdds, LinksInv, LinksTypeOK
<1>3. LinksAreSound'
  BY <1>1 DEF LinksInv, LinksAreSound
<1> QED
  BY <1>1, <1>2, <1>3, RestatedKeeps

\* A figure the parser retires takes its links with it, as the foreign key says
\* (ON DELETE SET NULL).
LEMMA ParserRetiresKeeps == ASSUME LinksInv, NEW f \in Figures, ParserRetires(f) PROVE LinksInv'
<1>1. /\ Change /\ held' = held \ {f} /\ UNCHANGED <<value, status>>
      /\ same' = [g \in Figures |-> IF g = f \/ same[g] = f THEN NoFigure ELSE same[g]]
  BY DEF ParserRetires
<1>2. \A g \in Figures : same'[g] = IF g = f \/ same[g] = f THEN NoFigure ELSE same[g]
  BY <1>1
<1>3. LinksTypeOK'
  BY <1>1, ChangeTypes DEF LinksInv, LinksTypeOK
<1>4. LinksAreSound'
  BY <1>1, <1>2 DEF LinksInv, LinksAreSound
<1> QED
  BY <1>1, <1>2, <1>3, <1>4, RestatedKeeps

\* The linker at work moves; the others rest.
LEMMA LinkerMoves ==
    ASSUME LinksInv, OneLinker, NEW l \in Linkers, NEW now \in LinkerState,
           linker' = [linker EXCEPT ![l] = now],
           UNCHANGED <<figures, changes>>,
           same' \in [Figures -> Figures \cup {NoFigure}],
           restated' \in BOOLEAN,
           \A m \in Linkers : m # l => linker[m].pc = "resting",
           LinksAreSound', TodoIsSound(l)', WorkIsThose(l)'
    PROVE  LinksInv'
<1>1. /\ linker' \in [Linkers -> LinkerState]
      /\ \A m \in Linkers : m # l => linker'[m] = linker[m]
  BY DEF LinksInv, LinksTypeOK
<1>2. LinksTypeOK'
  BY <1>1 DEF LinksInv, LinksTypeOK, figures
<1>3. OneAtLinks'
  BY <1>1 DEF OneAtLinks
<1>4. ASSUME NEW m \in Linkers, m # l PROVE TodoIsSound(m)' /\ WorkIsThose(m)'
  <2>1. linker'[m].pc = "resting" /\ linker'[m].todo = {}
    BY <1>1, <1>4 DEF LinksInv, TodoIsSound
  <2> QED
    BY <2>1 DEF TodoIsSound, WorkIsThose, Disjoint
<1> QED
  BY <1>2, <1>3, <1>4 DEF LinksInv

\* The pairs that there are depend on the figures and nothing else.
LEMMA SamePairs ==
    ASSUME UNCHANGED figures, NEW L, L = Linkable
    PROVE  Linkable' = L /\ PairFigures(Linkable)' = PairFigures(Linkable)
  BY DEF figures, Linkable, PairFigures, Group

\* A linker sets out to write the pairs that there are.
LEMMA ReadFiguresKeeps ==
    ASSUME LinksInv, OneLinker, NEW l \in Linkers, ReadFigures(l) PROVE LinksInv'
<1>1. PICK todo : todo = PairFigures(Linkable)
  OBVIOUS
<1>2. todo \subseteq Pairs /\ Disjoint(todo)
  <2>1. Linkable \in SUBSET Figures /\ value \in [Figures -> Values \cup {NoFigure}]
    BY DEF LinksInv, LinksTypeOK, Linkable
  <2> QED
    BY <1>1, <2>1, PairsAreDisjoint
<1>3. PICK now \in LinkerState : now = [pc |-> "clear", todo |-> todo]
                                 /\ now.pc = "clear" /\ now.todo = todo
  <2>1. PICK k : k = [pc |-> "clear", todo |-> todo]
    OBVIOUS
  <2>2. k \in LinkerState /\ k.pc = "clear" /\ k.todo = todo
    BY <1>2, <2>1 DEF LinkerState
  <2> QED
    BY <2>1, <2>2
<1>4. linker' = [linker EXCEPT ![l] = now] /\ UNCHANGED <<figures, same, changes>> /\ restated' = FALSE
  BY <1>1, <1>3 DEF ReadFigures
<1>5. linker'[l] = now
  BY <1>4 DEF LinksInv, LinksTypeOK
<1>6. PairFigures(Linkable)' = todo
  BY <1>1, <1>4, SamePairs
<1>7. TodoIsSound(l)' /\ WorkIsThose(l)'
  BY <1>2, <1>3, <1>5, <1>6 DEF TodoIsSound, WorkIsThose, Disjoint
<1>8. LinksAreSound'
  BY <1>4 DEF LinksInv, LinksAreSound, figures
<1>9. \A m \in Linkers : linker[m].pc = "resting"
  BY DEF ReadFigures
<1> QED
  BY <1>3, <1>4, <1>7, <1>8, <1>9, LinkerMoves DEF LinksInv, LinksTypeOK

\* Once every link is cleared, what is to be written meets nothing written.
LEMMA ClearLinksKeeps ==
    ASSUME LinksInv, OneLinker, NEW l \in Linkers, ClearLinks(l) PROVE LinksInv'
<1>1. PICK w \in LinkerState : w = linker[l] /\ w.pc = "clear" /\ w.todo \subseteq Pairs
  BY DEF LinksInv, LinksTypeOK, ClearLinks, LinkerState
<1>2. PICK now \in LinkerState : now = [w EXCEPT !.pc = "link"] /\ now.pc = "link" /\ now.todo = w.todo
  <2>1. PICK k : k = [w EXCEPT !.pc = "link"]
    OBVIOUS
  <2>2. k \in LinkerState /\ k.pc = "link" /\ k.todo = w.todo
    BY <1>1, <2>1 DEF LinkerState
  <2> QED
    BY <2>1, <2>2
<1>3. linker' = [linker EXCEPT ![l] = now] /\ UNCHANGED <<figures, changes, restated>>
  BY <1>1, <1>2 DEF ClearLinks
<1>4. /\ same' \in [Figures -> Figures \cup {NoFigure}]
      /\ \A f \in Figures : same'[f] = NoFigure
  BY DEF ClearLinks
<1>5. linker'[l] = now
  BY <1>3 DEF LinksInv, LinksTypeOK
<1>6. PairFigures(Linkable)' = PairFigures(Linkable)
  BY <1>3, SamePairs
<1>7. \A pair \in w.todo : pair[2] # NoFigure
  BY <1>1, FigureLinksAssumption DEF Pairs
<1>8. Disjoint(w.todo) /\ (~restated => w.todo = PairFigures(Linkable))
  BY <1>1 DEF LinksInv, TodoIsSound, WorkIsThose
<1>9. TodoIsSound(l)'
  BY <1>2, <1>4, <1>5, <1>7, <1>8 DEF TodoIsSound, Disjoint
<1>10. WorkIsThose(l)'
  BY <1>2, <1>3, <1>4, <1>5, <1>6, <1>8, ZenonT(60) DEF WorkIsThose
<1>11. LinksAreSound'
  BY <1>4 DEF LinksAreSound
<1>12. \A m \in Linkers : m # l => linker[m].pc = "resting"
  BY <1>1 DEF LinksInv, OneAtLinks
<1> QED
  BY <1>2, <1>3, <1>4, <1>9, <1>10, <1>11, <1>12, LinkerMoves DEF LinksInv, LinksTypeOK

\* One link more is written, on two figures that no link had.
LEMMA WriteLinkKeeps ==
    ASSUME LinksInv, OneLinker, NEW l \in Linkers, NEW pair \in linker[l].todo, WriteLink(l, pair)
    PROVE  LinksInv'
<1>1. PICK w \in LinkerState : /\ w = linker[l] /\ w.pc = "link" /\ w.todo \subseteq Pairs
                               /\ pair \in w.todo
  BY DEF LinksInv, LinksTypeOK, WriteLink, LinkerState
<1>2. PICK d \in Figures \ InLatin, e \in InLatin : pair = <<d, e>> /\ pair[1] = d /\ pair[2] = e
  BY <1>1 DEF Pairs
<1>3. PICK now \in LinkerState : /\ now = [w EXCEPT !.todo = w.todo \ {pair}]
                                 /\ now.pc = "link" /\ now.todo = w.todo \ {pair}
  <2>1. PICK k : k = [w EXCEPT !.todo = w.todo \ {pair}]
    OBVIOUS
  <2>2. k \in LinkerState /\ k.pc = "link" /\ k.todo = w.todo \ {pair}
    BY <1>1, <2>1 DEF LinkerState
  <2> QED
    BY <2>1, <2>2
<1>4. linker' = [linker EXCEPT ![l] = now] /\ UNCHANGED <<figures, changes, restated>>
  BY <1>1, <1>3 DEF WriteLink
<1>5. linker'[l] = now
  BY <1>4 DEF LinksInv, LinksTypeOK
<1>6. d \in held => e \in held
  BY <1>2 DEF WriteLink
<1>7. /\ same' \in [Figures -> Figures \cup {NoFigure}]
      /\ \A f \in Figures : same'[f] = IF f = d /\ d \in held THEN e ELSE same[f]
  BY <1>2, FigureLinksAssumption DEF WriteLink, LinksInv, LinksTypeOK
<1>8. e # NoFigure /\ e \in Figures
  BY FigureLinksAssumption
<1>9. Disjoint(w.todo) /\ \A p \in w.todo : \A f \in Figures : same[f] # p[2]
  BY <1>1 DEF LinksInv, TodoIsSound
<1>10. LinksAreSound'
  <2>1. \A f \in Figures : same'[f] # NoFigure =>
            f \in held \ InLatin /\ same'[f] \in held \cap InLatin
    BY <1>6, <1>7 DEF LinksInv, LinksAreSound
  <2>2. \A f \in Figures : same[f] # e
    BY <1>1, <1>2, <1>9
  <2>3. \A f, g \in Figures : same'[f] # NoFigure /\ same'[f] = same'[g] => f = g
    BY <1>7, <2>2 DEF LinksInv, LinksAreSound
  <2>4. held' = held
    BY <1>4 DEF figures
  <2> QED
    BY <2>1, <2>3, <2>4 DEF LinksAreSound
<1>11. \A p \in w.todo \ {pair} : p[1] # d /\ p[2] # e
  BY <1>1, <1>2, <1>9 DEF Disjoint
<1>12. TodoIsSound(l)'
  <2>1. Disjoint(now.todo)
    BY <1>3, <1>9 DEF Disjoint
  <2>2. \A p \in now.todo : \A f \in Figures : same'[f] # p[2]
    BY <1>3, <1>7, <1>9, <1>11
  <2> QED
    BY <1>3, <1>5, <2>1, <2>2 DEF TodoIsSound, Disjoint
<1>13. ASSUME ~restated PROVE WorkIsThose(l)'
  <2>1. PICK those : those = PairFigures(Linkable)
    OBVIOUS
  <2>2. PairFigures(Linkable)' = those
    BY <1>4, <2>1, SamePairs
  <2>3. /\ w.todo \subseteq those
        /\ \A p \in those : p \in w.todo \/ same[p[1]] = p[2]
        /\ \A f \in Figures : same[f] # NoFigure => <<f, same[f]>> \in those
    BY <1>1, <1>13, <2>1 DEF LinksInv, WorkIsThose
  <2>4. Linkable \in SUBSET Figures /\ value \in [Figures -> Values \cup {NoFigure}]
    BY DEF LinksInv, LinksTypeOK, Linkable
  <2>5. Disjoint(those) /\ those \subseteq Pairs
    BY <2>1, <2>4, PairsAreDisjoint
  <2>6. pair \in those /\ d \in held
    <3>1. <<d, e>> \in PairFigures(Linkable)
      BY <1>1, <1>2, <2>1, <2>3
    <3>2. d \in Linkable
      BY <2>4, <3>1, PairsOf
    <3> QED
      BY <1>2, <2>1, <3>1, <3>2 DEF Linkable
  <2>7. \A p \in those : p \in now.todo \/ same'[p[1]] = p[2]
    <3>1. same'[d] = e
      BY <1>7, <2>6
    <3>2. \A p \in those : p # pair => p[1] # d
      BY <1>2, <2>5, <2>6 DEF Disjoint
    <3>3. \A p \in those : p[1] \in Figures
      BY <2>5 DEF Pairs
    <3> QED
      BY <1>2, <1>3, <1>7, <2>3, <3>1, <3>2, <3>3
  <2>8. \A f \in Figures : same'[f] # NoFigure => <<f, same'[f]>> \in those
    BY <1>2, <1>7, <2>3, <2>6
  <2>9. now.todo \subseteq those
    BY <1>3, <2>3
  <2> QED
    BY <1>3, <1>5, <2>2, <2>7, <2>8, <2>9 DEF WorkIsThose
<1>14. WorkIsThose(l)'
  <2>1. CASE restated
    BY <1>4, <2>1 DEF WorkIsThose
  <2> QED
    BY <1>13, <2>1
<1>15. \A m \in Linkers : m # l => linker[m].pc = "resting"
  BY <1>1 DEF LinksInv, OneAtLinks
<1> QED
  BY <1>3, <1>4, <1>7, <1>10, <1>12, <1>14, <1>15, LinkerMoves DEF LinksInv, LinksTypeOK

\* A linker that ends, or dies between two links, leaves those written.
LEMMA LinkerRests ==
    ASSUME LinksInv, OneLinker, NEW l \in Linkers, linker[l].pc # "resting",
           linker' = [linker EXCEPT ![l] = Resting],
           UNCHANGED <<figures, same, changes, restated>>
    PROVE  LinksInv'
<1>1. PICK now \in LinkerState : now = Resting /\ now.pc = "resting" /\ now.todo = {}
  <2>1. Resting \in LinkerState /\ Resting.pc = "resting" /\ Resting.todo = {}
    BY DEF Resting, LinkerState
  <2> QED
    BY <2>1
<1>2. linker' = [linker EXCEPT ![l] = now] /\ linker'[l] = now
  BY <1>1 DEF LinksInv, LinksTypeOK
<1>3. TodoIsSound(l)' /\ WorkIsThose(l)'
  BY <1>1, <1>2 DEF TodoIsSound, WorkIsThose, Disjoint
<1>4. LinksAreSound'
  BY DEF LinksInv, LinksAreSound, figures
<1>5. \A m \in Linkers : m # l => linker[m].pc = "resting"
  BY DEF LinksInv, OneAtLinks
<1> QED
  BY <1>1, <1>2, <1>3, <1>4, <1>5, LinkerMoves DEF LinksInv, LinksTypeOK

\* Every step of the linker, the parser and the reviewers keeps the invariant.
LEMMA LinksSteps == ASSUME LinksInv, OneLinker, [LinksNext]_links PROVE LinksInv'
<1>1. CASE UNCHANGED links
  <2>1. UNCHANGED figures /\ UNCHANGED <<held, value, status, same, linker, changes, restated>>
    BY <1>1 DEF links, figures
  <2>2. PairFigures(Linkable)' = PairFigures(Linkable)
    BY <2>1, SamePairs
  <2>3. LinksTypeOK' /\ LinksAreSound' /\ OneAtLinks'
    BY <2>1 DEF LinksInv, LinksTypeOK, LinksAreSound, OneAtLinks
  <2>4. \A l \in Linkers : TodoIsSound(l)' /\ WorkIsThose(l)'
    BY <2>1, <2>2 DEF LinksInv, TodoIsSound, WorkIsThose
  <2> QED
    BY <2>3, <2>4 DEF LinksInv
<1>2. CASE \E f \in Figures :
             \/ \E decision \in {"verified", "corrected", "rejected"}, v \in Values \cup {NoFigure} :
                   Review(f, decision, v)
             \/ ParserAdds(f) \/ ParserRetires(f)
  BY <1>2, ReviewKeeps, ParserAddsKeeps, ParserRetiresKeeps
<1>3. ASSUME NEW l \in Linkers, Relink(l) PROVE LinksInv'
  <2>1. CASE ReadFigures(l) \/ ClearLinks(l) \/ \E pair \in linker[l].todo : WriteLink(l, pair)
    BY <2>1, ReadFiguresKeeps, ClearLinksKeeps, WriteLinkKeeps
  <2>2. CASE FinishLinking(l) \/ LinkerDies(l)
    BY <2>2, LinkerRests DEF FinishLinking, LinkerDies
  <2> QED
    BY <1>3, <2>1, <2>2 DEF Relink
<1> QED
  BY <1>1, <1>2, <1>3 DEF LinksNext

\* While the operator runs one linker at a time, the two halves of a report are
\* joined just where they state one figure, and a citation is never cited,
\* though every link is a transaction of its own, figures are corrected, added
\* and retired meanwhile and the linker may die anywhere: for any figures and
\* amounts.
THEOREM FiguresAreJoinedRightly ==
    ASSUME OneLinker
    PROVE  LinksSpec => []FiguresAreCountedOnce
<1>1. LinksInit => LinksInv
  BY LinksStart
<1>2. LinksInv /\ [LinksNext]_links => LinksInv'
  BY LinksSteps
<1>3. LinksInv => FiguresAreCountedOnce
  BY LinksInvImplies
<1> QED
  BY <1>1, <1>2, <1>3, PTL DEF LinksSpec

------------------------------------------------------------------------------
(* What is read of a robots.txt (Robots).                                     *)

RulesOf == [allow : BOOLEAN, pattern : Patterns]
ReadingsOf == [agents : SUBSET Agents, inRules : BOOLEAN, rules : Seq(RulesOf)]

LEMMA LinesAreRead ==
    ASSUME NEW lines \in Seq(Directives)
    PROVE  \E read \in [0..Len(lines) -> ReadingsOf] :
              /\ ReadLines(lines) = read[Len(lines)]
              /\ read[0] = Unread
              /\ \A n \in 1..Len(lines) : read[n] = ReadDirective(read[n - 1], lines[n])
<1> DEFINE N == Len(lines)
           Equation(g) == g = [n \in 0..N |-> IF n = 0 THEN Unread
                                              ELSE ReadDirective(g[n - 1], lines[n])]
           read == CHOOSE g : Equation(g)
<1>1. N \in Nat /\ \A n \in 1..N : lines[n] \in Directives
  OBVIOUS
<1>2. Unread \in ReadingsOf
  BY DEF Unread, ReadingsOf
<1>3. ASSUME NEW x \in ReadingsOf, NEW d \in Directives
      PROVE  ReadDirective(x, d) \in ReadingsOf
  <2>1. CASE d.key = "agent"
    <3>1. d.value \in Agents
      BY <2>1 DEF Directives
    <3> QED
      BY <2>1, <3>1 DEF ReadDirective, ReadingsOf
  <2>2. CASE d.key # "agent"
    <3>1. d.value # NoPattern => Rule(d) \in RulesOf
      BY <2>2 DEF Directives, Rule, RulesOf
    <3>2. x.rules \in Seq(RulesOf) /\ (d.value # NoPattern => Append(x.rules, Rule(d)) \in Seq(RulesOf))
      BY <3>1 DEF ReadingsOf
    <3> QED
      BY <2>2, <3>2 DEF ReadDirective, ReadingsOf
  <2> QED
    BY <2>1, <2>2
<1>4. \E g : Equation(g)
  <2> DEFINE step == [n \in 1..N |-> [x \in ReadingsOf |-> ReadDirective(x, lines[n])]]
  <2>1. step \in [1..N -> [ReadingsOf -> ReadingsOf]]
    BY <1>1, <1>3
  <2>2. PICK h : IsListOf(h, ReadingsOf, Unread, N, step)
    <3>1. N \in Nat /\ Unread \in ReadingsOf
      BY <1>1, <1>2
    <3> HIDE DEF step, N
    <3> QED
      BY <2>1, <3>1, StepsExist
  <2> HIDE DEF step
  <2>6. h \in [0..N -> ReadingsOf] /\ h[0] = Unread /\ \A n \in 1..N : h[n] = step[n][h[n - 1]]
    BY <2>2 DEF IsListOf
  <2>3. \A n \in 1..N : h[n] = ReadDirective(h[n - 1], lines[n])
    <3> SUFFICES ASSUME NEW n \in 1..N
                 PROVE  h[n] = ReadDirective(h[n - 1], lines[n])
      OBVIOUS
    <3>1. n - 1 \in 0..N /\ h[n - 1] \in ReadingsOf
      BY <1>1, <2>6
    <3>2. step[n] = [x \in ReadingsOf |-> ReadDirective(x, lines[n])]
      BY DEF step
    <3> QED
      BY <2>6, <3>1, <3>2
  <2>4. \A n \in 0..N : h[n] = IF n = 0 THEN Unread ELSE ReadDirective(h[n - 1], lines[n])
    BY <2>6, <2>3, <1>1
  <2>5. Equation(h)
    BY <2>4, <2>6
  <2> QED
    BY <2>5
<1>5. Equation(read)
  BY <1>4
<1>6. /\ DOMAIN read = 0..N /\ read[0] = Unread
      /\ \A n \in 1..N : read[n] = ReadDirective(read[n - 1], lines[n])
  <2> HIDE DEF read
  <2> QED
    BY <1>5, <1>1
<1>7. ReadLines(lines) = read[N]
  BY DEF ReadLines
<1>8. \A n \in 0..N : read[n] \in ReadingsOf
  <2> DEFINE G == {n \in 0..N : read[n] \in ReadingsOf}
  <2>1. 0 \in G
    BY <1>1, <1>2, <1>6
  <2>2. ASSUME NEW n \in 1..N, n - 1 \in G
        PROVE  n \in G
    <3>1. read[n - 1] \in ReadingsOf /\ lines[n] \in Directives /\ n \in 0..N
      BY <1>1, <2>2
    <3>2. read[n] = ReadDirective(read[n - 1], lines[n])
      BY <1>6
    <3> HIDE DEF read
    <3> QED
      BY <1>3, <3>1, <3>2
  <2>3. 0..N \subseteq G
    <3> HIDE DEF G, N
    <3> QED
      BY <1>1, <2>1, <2>2, StepByStep
  <2> QED
    BY <2>3
<1>9. read \in [0..N -> ReadingsOf]
  <2> HIDE DEF read
  <2>1. read = [n \in 0..N |-> read[n]]
    BY <1>5
  <2> QED
    BY <1>8, <2>1
<1> HIDE DEF read
<1> QED
  BY <1>6, <1>7, <1>9

\* The lines of the group that line n closes, of those up to it.
GroupAt(lines, n) ==
    {k \in 1..n : /\ lines[k].key = "agent"
                  /\ \A i, j \in k..n : i < j /\ lines[i].key # "agent" => lines[j].key # "agent"}

\* The lines that bind us among the first n.
BindingTo(lines, n) ==
    {m \in 1..n : /\ lines[m].key # "agent" /\ lines[m].value # NoPattern
                  /\ \E k \in 1..Len(lines) : SpeaksTo(lines, m, k) /\ lines[k].value \in Ours}

LEMMA GroupsEnd ==
    ASSUME NEW lines \in Seq(Directives), NEW n \in 1..Len(lines)
    PROVE  /\ lines[n].key # "agent" =>
                /\ GroupAt(lines, n) = GroupAt(lines, n - 1)
                /\ GroupAt(lines, n) = {k \in 1..Len(lines) : SpeaksTo(lines, n, k)}
           /\ lines[n].key = "agent" =>
                GroupAt(lines, n) = {n} \cup IF n > 1 /\ lines[n - 1].key # "agent" THEN {}
                                             ELSE GroupAt(lines, n - 1)
<1>0. Len(lines) \in Nat
  OBVIOUS
<1>1. ASSUME lines[n].key # "agent"
      PROVE  GroupAt(lines, n) = GroupAt(lines, n - 1)
  <2>1. ASSUME NEW k \in GroupAt(lines, n)
        PROVE  k \in GroupAt(lines, n - 1)
    <3>1. k \in 1..n /\ k # n
      BY <1>1 DEF GroupAt
    <3> QED
      BY <1>0, <3>1 DEF GroupAt
  <2>2. ASSUME NEW k \in GroupAt(lines, n - 1)
        PROVE  k \in GroupAt(lines, n)
    <3>1. k \in 1..(n - 1) /\ lines[k].key = "agent"
      BY DEF GroupAt
    <3>2. ASSUME NEW i \in k..n, NEW j \in k..n, i < j, lines[i].key # "agent"
          PROVE  lines[j].key # "agent"
      <4>1. CASE j = n
        BY <4>1, <1>1
      <4>2. CASE j # n
        <5>1. i \in k..(n - 1) /\ j \in k..(n - 1)
          BY <1>0, <3>1, <3>2, <4>2
        <5> QED
          BY <3>2, <5>1 DEF GroupAt
      <4> QED
        BY <4>1, <4>2
    <3> QED
      BY <1>0, <3>1, <3>2 DEF GroupAt
  <2> QED
    BY <2>1, <2>2
<1>2. ASSUME lines[n].key # "agent"
      PROVE  GroupAt(lines, n) = {k \in 1..Len(lines) : SpeaksTo(lines, n, k)}
  <2>1. \A k \in GroupAt(lines, n) : k < n /\ k \in 1..Len(lines)
    BY <1>0, <1>2 DEF GroupAt
  <2>2. \A k \in 1..Len(lines) : SpeaksTo(lines, n, k) => k \in 1..n
    BY <1>0 DEF SpeaksTo
  <2> QED
    BY <2>1, <2>2 DEF GroupAt, SpeaksTo
<1>3. ASSUME lines[n].key = "agent", n > 1, lines[n - 1].key # "agent"
      PROVE  GroupAt(lines, n) = {n}
  <2>1. ASSUME NEW k \in GroupAt(lines, n), k # n
        PROVE  FALSE
    <3>1. k \in 1..(n - 1) /\ n - 1 \in k..n /\ n \in k..n /\ n - 1 < n
      BY <1>0, <2>1 DEF GroupAt
    <3> QED
      BY <3>1, <1>3 DEF GroupAt
  <2>2. n \in GroupAt(lines, n)
    BY <1>0, <1>3 DEF GroupAt
  <2> QED
    BY <2>1, <2>2
<1>4. ASSUME lines[n].key = "agent", ~(n > 1 /\ lines[n - 1].key # "agent")
      PROVE  GroupAt(lines, n) = {n} \cup GroupAt(lines, n - 1)
  <2>1. n \in GroupAt(lines, n)
    BY <1>0, <1>4 DEF GroupAt
  <2>2. ASSUME NEW k \in GroupAt(lines, n), k # n
        PROVE  k \in GroupAt(lines, n - 1)
    BY <1>0, <2>2 DEF GroupAt
  <2>3. ASSUME NEW k \in GroupAt(lines, n - 1)
        PROVE  k \in GroupAt(lines, n)
    <3>1. k \in 1..(n - 1) /\ lines[k].key = "agent" /\ n > 1 /\ lines[n - 1].key = "agent"
      BY <1>0, <1>4 DEF GroupAt
    <3>2. ASSUME NEW i \in k..n, NEW j \in k..n, i < j, lines[i].key # "agent"
          PROVE  lines[j].key # "agent"
      <4>1. i \in k..(n - 1) /\ i # n - 1 /\ n - 1 \in k..(n - 1)
        BY <1>0, <3>1, <3>2
      <4>2. i < n - 1
        BY <4>1
      <4>3. lines[n - 1].key # "agent"
        BY <3>2, <4>1, <4>2 DEF GroupAt
      <4> QED
        BY <3>1, <4>3
    <3> QED
      BY <1>0, <3>1, <3>2 DEF GroupAt
  <2> QED
    BY <2>1, <2>2, <2>3
<1> QED
  BY <1>1, <1>2, <1>3, <1>4

\* What is known after n lines: whom the group is for, and the rules that bind.
LEMMA ReadSoFar ==
    ASSUME NEW lines \in Seq(Directives),
           NEW read \in [0..Len(lines) -> ReadingsOf], read[0] = Unread,
           \A n \in 1..Len(lines) : read[n] = ReadDirective(read[n - 1], lines[n])
    PROVE  \A n \in 0..Len(lines) :
              /\ read[n].agents = {lines[k].value : k \in GroupAt(lines, n)}
              /\ read[n].inRules <=> n > 0 /\ lines[n].key # "agent"
              /\ ToSet(read[n].rules) = {Rule(lines[m]) : m \in BindingTo(lines, n)}
<1> DEFINE N == Len(lines)
           Agrees(n) == /\ read[n].agents = {lines[k].value : k \in GroupAt(lines, n)}
                        /\ read[n].inRules <=> n > 0 /\ lines[n].key # "agent"
                        /\ ToSet(read[n].rules) = {Rule(lines[m]) : m \in BindingTo(lines, n)}
           G == {n \in 0..N : Agrees(n)}
<1>0. N \in Nat
  OBVIOUS
<1>1. 0 \in G
  <2>1. GroupAt(lines, 0) = {} /\ BindingTo(lines, 0) = {}
    BY DEF GroupAt, BindingTo
  <2>2. read[0].agents = {} /\ read[0].inRules = FALSE /\ ToSet(read[0].rules) = {}
    BY DEF Unread, ToSet
  <2> QED
    BY <1>0, <2>1, <2>2
<1>2. ASSUME NEW n \in 1..N, n - 1 \in G
      PROVE  n \in G
  <2>0. n - 1 \in 0..N /\ n \in 0..N /\ Agrees(n - 1) /\ lines[n] \in Directives
    BY <1>0, <1>2
  <2>1. PICK before \in ReadingsOf : before = read[n - 1]
    BY <2>0
  <2>2. PICK after : after = read[n]
    OBVIOUS
  <2>3. after = ReadDirective(before, lines[n])
    BY <2>1, <2>2
  <2>4. /\ before.agents \subseteq Agents /\ before.inRules \in BOOLEAN
        /\ before.rules \in Seq(RulesOf)
    BY <2>1 DEF ReadingsOf
  <2>5. before = [g \in {"agents", "inRules", "rules"} |-> before[g]]
    BY <2>1 DEF ReadingsOf
  <2>6. CASE lines[n].key = "agent"
    <3>1. /\ after.agents = (IF before.inRules THEN {} ELSE before.agents) \cup {lines[n].value}
          /\ after.inRules = FALSE /\ after.rules = before.rules
      BY <2>3, <2>5, <2>6 DEF ReadDirective
    <3>2. before.inRules <=> n > 1 /\ lines[n - 1].key # "agent"
      BY <1>0, <2>0, <2>1
    <3>3. GroupAt(lines, n) = {n} \cup IF before.inRules THEN {} ELSE GroupAt(lines, n - 1)
      BY <2>6, <3>2, GroupsEnd
    <3>4. before.agents = {lines[k].value : k \in GroupAt(lines, n - 1)}
      BY <2>0, <2>1
    <3>5. after.agents = {lines[k].value : k \in GroupAt(lines, n)}
      BY <3>1, <3>3, <3>4
    <3>6. BindingTo(lines, n) = BindingTo(lines, n - 1)
      BY <1>0, <2>6 DEF BindingTo
    <3>7. ToSet(after.rules) = {Rule(lines[m]) : m \in BindingTo(lines, n)}
      BY <2>0, <2>1, <3>1, <3>6
    <3> QED
      BY <2>0, <2>2, <2>6, <3>1, <3>5, <3>7
  <2>7. CASE lines[n].key # "agent"
    <3> DEFINE counts == lines[n].value # NoPattern /\ before.agents \cap Ours # {}
    <3>1. /\ after.agents = before.agents /\ after.inRules = TRUE
          /\ after.rules = IF counts THEN Append(before.rules, Rule(lines[n])) ELSE before.rules
      BY <2>3, <2>5, <2>7 DEF ReadDirective
    <3>2. /\ GroupAt(lines, n) = GroupAt(lines, n - 1)
          /\ GroupAt(lines, n) = {k \in 1..N : SpeaksTo(lines, n, k)}
      BY <2>7, GroupsEnd
    <3>3. before.agents = {lines[k].value : k \in GroupAt(lines, n - 1)}
      BY <2>0, <2>1
    <3>4. after.agents = {lines[k].value : k \in GroupAt(lines, n)}
      BY <3>1, <3>2, <3>3
    <3>5. counts <=> n \in BindingTo(lines, n)
      <4>1. before.agents = {lines[k].value : k \in {j \in 1..N : SpeaksTo(lines, n, j)}}
        BY <3>2, <3>3
      <4>2. before.agents \cap Ours # {} <=>
               \E k \in 1..N : SpeaksTo(lines, n, k) /\ lines[k].value \in Ours
        BY <4>1
      <4> QED
        BY <2>7, <4>2 DEF BindingTo
    <3>6. BindingTo(lines, n) = BindingTo(lines, n - 1) \cup IF counts THEN {n} ELSE {}
      <4>1. \A m \in 1..(n - 1) : m \in BindingTo(lines, n) <=> m \in BindingTo(lines, n - 1)
        BY <1>0 DEF BindingTo
      <4>2. BindingTo(lines, n) \subseteq 1..n /\ BindingTo(lines, n - 1) \subseteq 1..(n - 1)
        BY DEF BindingTo
      <4>3. 1..n = 1..(n - 1) \cup {n} /\ n \notin 1..(n - 1)
        BY <1>0
      <4> HIDE DEF counts
      <4> QED
        BY <3>5, <4>1, <4>2, <4>3
    <3>7. ToSet(after.rules) = ToSet(before.rules) \cup IF counts THEN {Rule(lines[n])} ELSE {}
      <4>1. CASE ~counts
        BY <3>1, <4>1
      <4>2. CASE counts
        <5>1. after.rules = Append(before.rules, Rule(lines[n]))
          BY <3>1, <4>2
        <5>2. /\ DOMAIN after.rules = DOMAIN before.rules \cup {Len(before.rules) + 1}
              /\ \A i \in DOMAIN before.rules : after.rules[i] = before.rules[i]
              /\ after.rules[Len(before.rules) + 1] = Rule(lines[n])
          BY <2>4, <5>1
        <5> QED
          BY <4>2, <5>2 DEF ToSet
      <4> QED
        BY <4>1, <4>2
    <3>8. ToSet(after.rules) = {Rule(lines[m]) : m \in BindingTo(lines, n)}
      <4>1. ToSet(before.rules) = {Rule(lines[m]) : m \in BindingTo(lines, n - 1)}
        BY <2>0, <2>1
      <4> HIDE DEF counts
      <4> QED
        BY <3>6, <3>7, <4>1
    <3>9. read[n].inRules <=> n > 0 /\ lines[n].key # "agent"
      <4>1. n > 0 /\ read[n].inRules = TRUE
        BY <1>0, <2>2, <3>1
      <4> QED
        BY <2>7, <4>1
    <3> HIDE DEF counts
    <3>10. Agrees(n)
      BY <2>2, <3>4, <3>8, <3>9
    <3> QED
      BY <2>0, <3>10
  <2> QED
    BY <2>6, <2>7
<1>3. 0..N \subseteq G
  <2> HIDE DEF G, N
  <2> QED
    BY <1>0, <1>1, <1>2, StepByStep
<1> QED
  BY <1>3

\* Reading line by line keeps the rules that bind, and no others.
LEMMA BindingIsRead ==
    ASSUME NEW lines \in Seq(Directives)
    PROVE  /\ ReadLines(lines).rules \in Seq(RulesOf)
           /\ ToSet(ReadLines(lines).rules) = {Rule(d) : d \in Binding(lines)}
<1>0. Len(lines) \in Nat /\ DOMAIN lines = 1..Len(lines) /\ Len(lines) \in 0..Len(lines)
  OBVIOUS
<1>1. PICK read \in [0..Len(lines) -> ReadingsOf] :
         /\ ReadLines(lines) = read[Len(lines)]
         /\ read[0] = Unread
         /\ \A n \in 1..Len(lines) : read[n] = ReadDirective(read[n - 1], lines[n])
  BY LinesAreRead
<1>2. ToSet(read[Len(lines)].rules) = {Rule(lines[m]) : m \in BindingTo(lines, Len(lines))}
  BY <1>0, <1>1, ReadSoFar
<1>3. Binding(lines) = {lines[m] : m \in BindingTo(lines, Len(lines))}
  BY <1>0 DEF Binding, BindingTo
<1>4. read[Len(lines)].rules \in Seq(RulesOf)
  BY <1>0, <1>1 DEF ReadingsOf
<1> QED
  BY <1>1, <1>2, <1>3, <1>4

BestsOf == {<<>>} \cup {<<r>> : r \in RulesOf}

\* One rule more, and whether it is the best yet.
BestWith(best, rule, path) ==
    IF path \in Matches[rule.pattern] THEN Better(best, rule) ELSE best

LEMMA BestIsFound ==
    ASSUME NEW rules \in Seq(RulesOf), NEW path
    PROVE  \E best \in [0..Len(rules) -> BestsOf] :
              /\ BestRule(rules, path) = best[Len(rules)]
              /\ best[0] = <<>>
              /\ \A n \in 1..Len(rules) : best[n] = BestWith(best[n - 1], rules[n], path)
<1> DEFINE N == Len(rules)
           Equation(g) == g = [n \in 0..N |->
                                 IF n = 0 THEN <<>>
                                 ELSE IF path \in Matches[rules[n].pattern]
                                      THEN Better(g[n - 1], rules[n])
                                 ELSE g[n - 1]]
           best == CHOOSE g : Equation(g)
<1>1. N \in Nat /\ \A n \in 1..N : rules[n] \in RulesOf
  OBVIOUS
<1>2. <<>> \in BestsOf
  BY DEF BestsOf
<1>3. ASSUME NEW b \in BestsOf, NEW r \in RulesOf
      PROVE  BestWith(b, r, path) \in BestsOf
  BY DEF BestWith, Better, BestsOf
<1>4. \E g : Equation(g)
  <2> DEFINE step == [n \in 1..N |-> [b \in BestsOf |-> BestWith(b, rules[n], path)]]
  <2>1. step \in [1..N -> [BestsOf -> BestsOf]]
    BY <1>1, <1>3
  <2>2. PICK h : IsListOf(h, BestsOf, <<>>, N, step)
    <3>1. N \in Nat /\ <<>> \in BestsOf
      BY <1>1, <1>2
    <3> HIDE DEF step, N
    <3> QED
      BY <2>1, <3>1, StepsExist
  <2>3. h \in [0..N -> BestsOf] /\ h[0] = <<>> /\ \A n \in 1..N : h[n] = step[n][h[n - 1]]
    BY <2>2 DEF IsListOf
  <2>4. \A n \in 1..N : h[n] = BestWith(h[n - 1], rules[n], path)
    <3> SUFFICES ASSUME NEW n \in 1..N
                 PROVE  h[n] = BestWith(h[n - 1], rules[n], path)
      OBVIOUS
    <3>1. n - 1 \in 0..N /\ h[n - 1] \in BestsOf
      BY <1>1, <2>3
    <3>2. step[n] = [b \in BestsOf |-> BestWith(b, rules[n], path)]
      OBVIOUS
    <3> HIDE DEF step
    <3> QED
      BY <2>3, <3>1, <3>2
  <2> HIDE DEF step
  <2>5. \A n \in 0..N : h[n] = IF n = 0 THEN <<>>
                               ELSE IF path \in Matches[rules[n].pattern]
                                    THEN Better(h[n - 1], rules[n])
                               ELSE h[n - 1]
    BY <1>1, <2>3, <2>4 DEF BestWith
  <2>6. Equation(h)
    BY <2>3, <2>5
  <2> QED
    BY <2>6
<1>5. Equation(best)
  BY <1>4
<1>6. /\ best[0] = <<>>
      /\ \A n \in 1..N : best[n] = BestWith(best[n - 1], rules[n], path)
  <2> HIDE DEF best
  <2>1. \A n \in 0..N : best[n] = IF n = 0 THEN <<>>
                                  ELSE IF path \in Matches[rules[n].pattern]
                                       THEN Better(best[n - 1], rules[n])
                                  ELSE best[n - 1]
    BY <1>5
  <2> QED
    BY <1>1, <2>1 DEF BestWith
<1>7. BestRule(rules, path) = best[N]
  BY DEF BestRule
<1>8. \A n \in 0..N : best[n] \in BestsOf
  <2> DEFINE G == {n \in 0..N : best[n] \in BestsOf}
  <2>1. 0 \in G
    BY <1>1, <1>2, <1>6
  <2>2. ASSUME NEW n \in 1..N, n - 1 \in G
        PROVE  n \in G
    <3>1. best[n - 1] \in BestsOf /\ rules[n] \in RulesOf /\ n \in 0..N
      BY <1>1, <2>2
    <3>2. best[n] = BestWith(best[n - 1], rules[n], path)
      BY <1>6
    <3> HIDE DEF best
    <3> QED
      BY <1>3, <3>1, <3>2
  <2>3. 0..N \subseteq G
    <3> HIDE DEF G, N
    <3> QED
      BY <1>1, <2>1, <2>2, StepByStep
  <2> QED
    BY <2>3
<1>9. best \in [0..N -> BestsOf]
  <2> HIDE DEF best
  <2>1. best = [n \in 0..N |-> best[n]]
    BY <1>5
  <2> QED
    BY <1>8, <2>1
<1> HIDE DEF best
<1> QED
  BY <1>6, <1>7, <1>9

\* The m-th rule is about the path, and of the first n none so specific says
\* otherwise than to refuse.
Prevails(rules, path, n, m) ==
    /\ path \in Matches[rules[m].pattern]
    /\ \A k \in 1..n : path \in Matches[rules[k].pattern] =>
          \/ Length[rules[k].pattern] < Length[rules[m].pattern]
          \/ /\ Length[rules[k].pattern] = Length[rules[m].pattern]
             /\ rules[m].allow => rules[k].allow

LEMMA BestPrevails ==
    ASSUME NEW rules \in Seq(RulesOf), NEW path
    PROVE  \/ /\ BestRule(rules, path) = <<>>
              /\ \A k \in 1..Len(rules) : path \notin Matches[rules[k].pattern]
           \/ \E m \in 1..Len(rules) : /\ BestRule(rules, path) = <<rules[m]>>
                                       /\ Prevails(rules, path, Len(rules), m)
<1>1. PICK best \in [0..Len(rules) -> BestsOf] :
         /\ BestRule(rules, path) = best[Len(rules)]
         /\ best[0] = <<>>
         /\ \A n \in 1..Len(rules) : best[n] = BestWith(best[n - 1], rules[n], path)
  BY BestIsFound
<1> DEFINE N == Len(rules)
           On(k) == path \in Matches[rules[k].pattern]
           None(n) == best[n] = <<>> /\ \A k \in 1..n : ~On(k)
           One(n) == \E m \in 1..n : best[n] = <<rules[m]>> /\ Prevails(rules, path, n, m)
           G == {n \in 0..N : None(n) \/ One(n)}
<1>2. N \in Nat /\ \A n \in 1..N : rules[n] \in RulesOf /\ Length[rules[n].pattern] \in Nat
  <2>1. N \in Nat /\ \A n \in 1..N : rules[n] \in RulesOf
    OBVIOUS
  <2>2. \A r \in RulesOf : Length[r.pattern] \in Nat
    BY LengthAssumption DEF RulesOf
  <2> QED
    BY <2>1, <2>2
<1>3. 0 \in G
  BY <1>1, <1>2
<1>4. ASSUME NEW n \in 1..N, n - 1 \in G
      PROVE  n \in G
  <2>0. /\ n \in 0..N /\ n - 1 \in 0..N /\ 1..n = 1..(n - 1) \cup {n}
        /\ rules[n] \in RulesOf /\ Length[rules[n].pattern] \in Nat
        /\ best[n] = BestWith(best[n - 1], rules[n], path)
    BY <1>1, <1>2
  <2>1. CASE ~On(n)
    <3>1. best[n] = best[n - 1]
      BY <2>0, <2>1 DEF BestWith
    <3>2. None(n - 1) => None(n)
      BY <2>0, <2>1, <3>1
    <3>3. ASSUME NEW m \in 1..(n - 1), best[n - 1] = <<rules[m]>>, Prevails(rules, path, n - 1, m)
          PROVE  One(n)
      <4>1. m \in 1..n /\ Prevails(rules, path, n, m)
        BY <2>0, <2>1, <3>3 DEF Prevails
      <4> QED
        BY <3>1, <3>3, <4>1
    <3> QED
      BY <1>4, <2>0, <3>2, <3>3
  <2>2. CASE On(n)
    <3>1. best[n] = Better(best[n - 1], rules[n])
      BY <2>0, <2>2 DEF BestWith
    <3>2. CASE None(n - 1)
      <4>1. best[n] = <<rules[n]>>
        BY <3>1, <3>2 DEF Better
      <4>2. Prevails(rules, path, n, n)
        BY <2>0, <2>2, <3>2 DEF Prevails
      <4> QED
        BY <2>0, <4>1, <4>2
    <3>3. ASSUME NEW m \in 1..(n - 1), best[n - 1] = <<rules[m]>>, Prevails(rules, path, n - 1, m)
          PROVE  One(n)
      <4>1. rules[m] \in RulesOf /\ Length[rules[m].pattern] \in Nat /\ m \in 1..n
        BY <1>2
      <4>2. best[n - 1] # <<>> /\ best[n - 1][1] = rules[m]
        BY <3>3
      <4> DEFINE better == \/ Length[rules[n].pattern] > Length[rules[m].pattern]
                           \/ Length[rules[n].pattern] = Length[rules[m].pattern] /\ ~rules[n].allow
      <4>3. CASE better
        <5>1. best[n] = <<rules[n]>>
          BY <3>1, <4>2, <4>3 DEF Better
        <5>2. Prevails(rules, path, n, n)
          <6> SUFFICES ASSUME NEW k \in 1..(n - 1), On(k)
                       PROVE  \/ Length[rules[k].pattern] < Length[rules[n].pattern]
                              \/ /\ Length[rules[k].pattern] = Length[rules[n].pattern]
                                 /\ rules[n].allow => rules[k].allow
            BY <2>0, <2>2 DEF Prevails
          <6>1. Length[rules[k].pattern] \in Nat
            BY <1>2
          <6>2. \/ Length[rules[k].pattern] < Length[rules[m].pattern]
                \/ /\ Length[rules[k].pattern] = Length[rules[m].pattern]
                   /\ rules[m].allow => rules[k].allow
            BY <3>3 DEF Prevails
          <6> QED
            BY <2>0, <4>1, <4>3, <6>1, <6>2
        <5> QED
          BY <2>0, <5>1, <5>2
      <4>4. CASE ~better
        <5>1. best[n] = <<rules[m]>>
          BY <3>1, <3>3, <4>2, <4>4 DEF Better
        <5>2. \/ Length[rules[n].pattern] < Length[rules[m].pattern]
              \/ Length[rules[n].pattern] = Length[rules[m].pattern] /\ rules[n].allow
          BY <2>0, <4>1, <4>4
        <5>3. Prevails(rules, path, n, m)
          BY <2>0, <3>3, <5>2 DEF Prevails
        <5> QED
          BY <4>1, <5>1, <5>3
      <4> QED
        BY <4>3, <4>4
    <3> QED
      BY <1>4, <2>0, <3>2, <3>3
  <2> QED
    BY <2>1, <2>2
<1>5. 0..N \subseteq G
  <2> HIDE DEF G, N
  <2> QED
    BY <1>2, <1>3, <1>4, StepByStep
<1>6. N \in G
  BY <1>2, <1>5
<1> QED
  BY <1>1, <1>6

\* A page may be fetched if the host has no robots.txt, or if it has one that
\* permits the page: what the collectors make of a host's directives
\* (net/robots.ts), which they read one by one and search for the longest rule
\* that fits, is what the file says, whatever its lines and however long.
THEOREM PolicyIsReadAsWritten ==
    ASSUME NEW lines \in Seq(Directives), NEW path, NEW answer
    PROVE  MayFetch(ReadRobots(answer, lines), path) <=>
              \/ answer = "gone"
              \/ answer = "ok" /\ Permits(lines, path)
<1>1. CASE answer \notin {"gone", "ok"}
  BY <1>1 DEF ReadRobots, MayFetch, RefusesEverything
<1>2. CASE answer = "gone"
  <2>1. PICK says : says = ReadRobots(answer, lines)
    OBVIOUS
  <2>2. says.kind = "none" /\ says.rules = <<>>
    BY <1>2, <2>1 DEF ReadRobots
  <2>3. ~RefusesEverything(says)
    BY <2>2 DEF RefusesEverything, ToSet
  <2>4. PICK rules \in Seq(RulesOf) : rules = <<>>
    <3>1. <<>> \in Seq(RulesOf)
      OBVIOUS
    <3> QED
      BY <3>1
  <2>5. 1..Len(rules) = {}
    BY <2>4
  <2>6. BestRule(rules, path) = <<>>
    BY <2>5, BestPrevails
  <2> QED
    BY <1>2, <2>1, <2>2, <2>3, <2>4, <2>6 DEF MayFetch
<1>3. CASE answer = "ok"
  <2>1. PICK rules \in Seq(RulesOf) : rules = ReadLines(lines).rules
    BY BindingIsRead
  <2>2. PICK says : says = ReadRobots(answer, lines)
    OBVIOUS
  <2>3. says.kind = "rules" /\ says.rules = rules
    BY <1>3, <2>1, <2>2 DEF ReadRobots
  <2>4. ToSet(rules) = {Rule(d) : d \in Binding(lines)}
    BY <2>1, BindingIsRead
  <2>5. PICK best : best = BestRule(rules, path)
    OBVIOUS
  <2>6. \A d \in Binding(lines) : /\ d.key \in {"allow", "disallow"} /\ d.value \in Patterns
                                  /\ Rule(d).allow = (d.key = "allow") /\ Rule(d).pattern = d.value
                                  /\ Length[d.value] \in Nat
    <3>1. \A d \in Directives : d.key # "agent" /\ d.value # NoPattern =>
             d.key \in {"allow", "disallow"} /\ d.value \in Patterns
      BY DEF Directives
    <3>2. \A d \in Binding(lines) : d \in Directives /\ d.key # "agent" /\ d.value # NoPattern
      BY DEF Binding
    <3> QED
      BY <3>1, <3>2, LengthAssumption DEF Rule
  <2>7. /\ \A k \in 1..Len(rules) : \E d \in Binding(lines) : rules[k] = Rule(d)
        /\ \A d \in Binding(lines) : \E k \in 1..Len(rules) : rules[k] = Rule(d)
    <3>1. ToSet(rules) = {rules[k] : k \in 1..Len(rules)}
      BY <2>1 DEF ToSet
    <3> QED
      BY <2>4, <3>1
  <2>8. RefusesEverything(says) <=> \E d \in Binding(lines) : d.key = "disallow" /\ d.value \in Whole
    <3>1. RefusesEverything(says) <=> \E r \in ToSet(rules) : ~r.allow /\ r.pattern \in Whole
      BY <2>3 DEF RefusesEverything
    <3> QED
      BY <2>4, <2>6, <3>1
  <2> DEFINE on == {d \in Binding(lines) : path \in Matches[d.value]}
             refusing == {d \in on : d.key = "disallow"}
             outdone == \E q \in on \ refusing : \A d \in refusing : Length[q.value] > Length[d.value]
  <2>9. best = <<>> \/ best[1].allow <=> refusing = {} \/ outdone
    <3>1. CASE best = <<>> /\ \A k \in 1..Len(rules) : path \notin Matches[rules[k].pattern]
      BY <2>6, <2>7, <3>1, SMTT(40)
    <3>2. ASSUME NEW m \in 1..Len(rules), best = <<rules[m]>>, Prevails(rules, path, Len(rules), m)
          PROVE  best = <<>> \/ best[1].allow <=> refusing = {} \/ outdone
      <4>1. best # <<>> /\ best[1] = rules[m]
        BY <3>2
      <4>2. PICK q \in Binding(lines) : rules[m] = Rule(q)
        BY <2>7
      <4>3. q \in on
        BY <2>6, <3>2, <4>2 DEF Prevails
      <4>4. \A d \in on : \/ Length[d.value] < Length[q.value]
                          \/ /\ Length[d.value] = Length[q.value]
                             /\ q.key = "allow" => d.key = "allow"
        <5> SUFFICES ASSUME NEW d \in on
                     PROVE  \/ Length[d.value] < Length[q.value]
                            \/ /\ Length[d.value] = Length[q.value]
                               /\ q.key = "allow" => d.key = "allow"
          OBVIOUS
        <5>1. PICK k \in 1..Len(rules) : rules[k] = Rule(d)
          BY <2>7
        <5> QED
          BY <2>6, <3>2, <4>2, <5>1, ZenonT(60) DEF Prevails
      <4>5. CASE q.key = "allow"
        <5>1. q \in on \ refusing /\ \A d \in refusing : Length[q.value] > Length[d.value]
          BY <2>6, <4>3, <4>4, <4>5
        <5> QED
          BY <2>6, <4>1, <4>2, <4>5, <5>1
      <4>6. CASE q.key = "disallow"
        <5>1. q \in refusing
          BY <4>3, <4>6
        <5>2. ~outdone
          BY <2>6, <4>4, <5>1
        <5> QED
          BY <2>6, <4>1, <4>2, <4>6, <5>1, <5>2
      <4> QED
        BY <2>6, <4>5, <4>6
    <3> HIDE DEF on, refusing, outdone
    <3> QED
      BY <2>5, <3>1, <3>2, BestPrevails
  <2>10. MayFetch(says, path) <=> ~RefusesEverything(says) /\ (best = <<>> \/ best[1].allow)
    BY <2>3, <2>5 DEF MayFetch
  <2>11. Permits(lines, path) <=>
            /\ ~\E d \in Binding(lines) : d.key = "disallow" /\ d.value \in Whole
            /\ refusing = {} \/ outdone
    BY DEF Permits
  <2> HIDE DEF on, refusing, outdone
  <2> QED
    BY <1>3, <2>2, <2>8, <2>9, <2>10, <2>11
<1> QED
  BY <1>1, <1>2, <1>3

------------------------------------------------------------------------------
(* What the collectors ask a host for (BoundedFetch).                        *)

Errands == {"polite", "portal", "report", "export", "query", "absent"}
Statuses == {"none", "ok", "html", "gone", "busy", "error"}
Urls == Paths \cup {Elsewhere, RobotsTxt}

FetchState ==
    [pc : {"off", "headers", "body", "pause", "done", "failed"}, url : Urls, at : Urls,
     hops : Nat, attempt : Nat, elapsed : Nat, silent : Nat, received : Nat, pause : Nat,
     age : Nat, status : Statuses]

CallerState ==
    [stage : {"ready", "policy", "queued", "asking", "got", "ended"}, step : {1, 2},
     asks : Nat, tries : Nat, rest : Nat]

FetchTypeOK ==
    /\ errand \in [Callers -> Errands]
    /\ page \in [Callers -> Paths]
    /\ \E scene \in Scenes : file = scene.file
    /\ policy = [state |-> policy.state, says |-> policy.says]
    /\ policy.state \in {"unasked", "asked", "known", "failed"}
    /\ queue \in Seq(Fetchers)
    /\ since \in Nat
    /\ fetch \in [Fetchers -> FetchState]
    /\ caller \in [Callers -> CallerState]

\* The longest pause, and the longest that an attempt and the pause after it take.
PauseMost == Larger(Backoff[Len(Backoff)], MaxRetryAfter)
Round == TotalTicks + PauseMost

\* A fetch in its attempt-th attempt has had attempt - 1 rounds behind it.
OnTime(w, n) ==
    /\ w.pc \in {"off", "done", "failed"} => w.age = 0
    /\ w.pc \in {"headers", "body"} =>
         /\ w.attempt \in 1..n
         /\ w.elapsed <= TotalTicks
         /\ w.age <= (w.attempt - 1) * Round + w.elapsed
    /\ w.pc = "pause" =>
         /\ w.attempt \in 1..n /\ w.attempt < n
         /\ w.pause <= PauseMost
         /\ w.age + w.pause <= w.attempt * Round

\* The robots.txt is the first thing the polite client asks for and what it knows
\* is what came of it.
PolicyIsRead ==
    /\ policy.state = "unasked" => queue = <<>> /\ fetch[RobotsTxt].pc = "off"
    /\ policy.state = "asked" => queue = <<RobotsTxt>>
    /\ policy.state = "failed" => queue = <<>>
    /\ policy.state \in {"known", "failed"} => fetch[RobotsTxt].pc = "done"
    /\ policy.state = "known" => policy.says = ReadRobots(fetch[RobotsTxt].status, file)

\* Then only those it permits are in the queue, each of them once.
QueueIsOrderly ==
    policy.state = "known" =>
        /\ \A n \in DOMAIN queue : /\ queue[n] \in Callers
                                   /\ errand[queue[n]] = "polite"
                                   /\ caller[queue[n]].stage = "queued"
        /\ \A m, n \in DOMAIN queue : queue[m] = queue[n] => m = n

MayAsk(c) == policy.state = "known" /\ MayFetch(policy.says, page[c])

\* Only the first in the queue has its page asked for.
AsksPolitely(c) ==
    LET stage == caller[c].stage
        pc == fetch[c].pc
    IN  IF errand[c] # "polite" THEN stage \notin {"policy", "queued"}
        ELSE /\ stage # "asking"
             /\ stage \in {"ready", "policy"} => pc = "off"
             /\ stage = "queued" => MayAsk(c) /\ (pc # "off" => queue # <<>> /\ c = Head(queue))
             /\ stage = "got" => MayAsk(c) /\ pc = "done"
             /\ stage = "ended" =>
                  \/ MayAsk(c) /\ pc = "done"
                  \/ /\ pc = "off" /\ ~MayAsk(c)
                     /\ policy.state \in {"known", "failed"}

FetchInv ==
    /\ FetchTypeOK
    /\ \A f \in Fetchers : OnTime(fetch[f], TriesOf(f))
    /\ PolicyIsRead
    /\ QueueIsOrderly
    /\ \A c \in Callers : AsksPolitely(c)

-----------------------------------------------------------------------------

\* The limits are numbers, and no pause is longer than the longest.
LEMMA Ticks ==
    /\ HeadersTicks \in Nat /\ IdleTicks \in Nat /\ TotalTicks \in Nat /\ MaxBytes \in Nat
    /\ Attempts \in Nat /\ Attempts > 0 /\ MaxRetryAfter \in Nat /\ Interval \in Nat
    /\ SlotPause \in Nat /\ PauseMost \in Nat /\ Round \in Nat
    /\ Backoff[Len(Backoff)] <= PauseMost /\ MaxRetryAfter <= PauseMost
    /\ \A n \in Nat \ {0} : BackoffAt(n) \in Nat /\ BackoffAt(n) <= PauseMost
<1>1. /\ HeadersTicks \in Nat /\ IdleTicks \in Nat /\ TotalTicks \in Nat /\ MaxBytes \in Nat
      /\ Attempts \in Nat /\ Attempts > 0 /\ MaxRetryAfter \in Nat /\ Interval \in Nat
      /\ SlotPause \in Nat
  BY FetchAssumption
<1>2. /\ Len(Backoff) \in Nat /\ Len(Backoff) > 0 /\ DOMAIN Backoff = 1..Len(Backoff)
      /\ \A n \in 1..Len(Backoff) : Backoff[n] \in Nat /\ Backoff[n] <= Backoff[Len(Backoff)]
  BY FetchAssumption, SMTT(40)
<1>3. PauseMost \in Nat /\ Backoff[Len(Backoff)] <= PauseMost /\ MaxRetryAfter <= PauseMost
  BY <1>1, <1>2 DEF PauseMost, Larger
<1>4. Round \in Nat
  BY <1>1, <1>3 DEF Round
<1>5. ASSUME NEW n \in Nat \ {0} PROVE BackoffAt(n) \in Nat /\ BackoffAt(n) <= PauseMost
  <2>1. PICK m \in 1..Len(Backoff) : m = IF n < Len(Backoff) THEN n ELSE Len(Backoff)
    <3>1. PICK l \in Nat : l = Len(Backoff) /\ l > 0
      BY <1>2
    <3>2. n \in Nat /\ n > 0
      OBVIOUS
    <3>3. \E m \in 1..l : m = IF n < l THEN n ELSE l
      BY <3>1, <3>2
    <3> QED
      BY <3>1, <3>3
  <2>2. BackoffAt(n) = Backoff[m]
    BY <2>1 DEF BackoffAt
  <2> QED
    BY <1>2, <1>3, <2>2
<1> QED
  BY <1>1, <1>3, <1>4, <1>5

\* Rounds add up.
LEMMA Rounds ==
    /\ \A n \in Nat : n * Round \in Nat /\ (n + 1) * Round = n * Round + Round
    /\ 0 * Round = 0
    /\ \A m, n \in Nat : m <= n => m * Round <= n * Round
<1> PICK k \in Nat : k = Round
  BY Ticks
<1>1. \A n \in Nat : n * k \in Nat /\ (n + 1) * k = n * k + k
  OBVIOUS
<1>2. 0 * k = 0
  OBVIOUS
<1>3. ASSUME NEW m \in Nat, NEW n \in Nat, m <= n PROVE m * k <= n * k
  <2>1. PICK d \in Nat : n = m + d
    BY <1>3
  <2>2. (m + d) * k = m * k + d * k /\ d * k \in Nat /\ m * k \in Nat
    OBVIOUS
  <2> QED
    BY <2>1, <2>2
<1> QED
  BY <1>1, <1>2, <1>3

\* Whoever asks makes at least one attempt.
LEMMA TriesOfIs == ASSUME NEW f PROVE TriesOf(f) \in Nat /\ TriesOf(f) > 0
  BY Ticks DEF TriesOf

\* Whose rounds are behind it is within the allowance of all its attempts.
LEMMA OnTimeEndsInTime ==
    ASSUME NEW w \in FetchState, NEW n \in Nat, n > 0, OnTime(w, n)
    PROVE  w.age <= n * TotalTicks + (n - 1) * PauseMost
<1>1. PICK T \in Nat, P \in Nat : T = TotalTicks /\ P = PauseMost /\ Round = T + P
  BY Ticks DEF Round
<1>2. PICK m \in Nat : n = m + 1
  <2>1. n - 1 \in Nat /\ n = (n - 1) + 1
    OBVIOUS
  <2> QED
    BY <2>1
<1>3. n * T + (n - 1) * P = m * (T + P) + T
  <2>1. n * T = m * T + T /\ (n - 1) * P = m * P /\ m * (T + P) = m * T + m * P
    BY <1>2
  <2>2. n * T \in Nat /\ m * T \in Nat /\ m * P \in Nat /\ m * (T + P) \in Nat
    OBVIOUS
  <2> QED
    BY <2>1, <2>2
<1>4. w.age \in Nat /\ w.attempt \in Nat /\ w.elapsed \in Nat /\ w.pause \in Nat
  BY DEF FetchState
<1>5. m * Round \in Nat
  BY Rounds
<1>6. CASE w.pc \in {"off", "done", "failed"}
  BY <1>1, <1>3, <1>4, <1>5, <1>6 DEF OnTime
<1>7. CASE w.pc \in {"headers", "body"}
  <2>1. w.attempt - 1 \in Nat /\ w.attempt - 1 <= m /\ w.elapsed <= T
        /\ w.age <= (w.attempt - 1) * Round + w.elapsed
    BY <1>1, <1>2, <1>4, <1>7 DEF OnTime
  <2>2. (w.attempt - 1) * Round <= m * Round /\ (w.attempt - 1) * Round \in Nat
    BY <2>1, Rounds
  <2>3. w.age <= m * Round + T
    BY <1>4, <1>5, <2>1, <2>2
  <2> QED
    BY <1>1, <1>3, <2>3
<1>8. CASE w.pc = "pause"
  <2>1. w.attempt <= m /\ w.age + w.pause <= w.attempt * Round
    BY <1>1, <1>2, <1>4, <1>8 DEF OnTime
  <2>2. w.attempt * Round <= m * Round /\ w.attempt * Round \in Nat
    BY <1>4, <2>1, Rounds
  <2>3. w.age <= m * Round + T
    BY <1>4, <1>5, <2>1, <2>2
  <2> QED
    BY <1>1, <1>3, <2>3
<1> QED
  BY <1>6, <1>7, <1>8 DEF FetchState

\* The strengthened invariant of the fetches holds what the run checks.
LEMMA FetchInvImplies == ASSUME FetchInv PROVE FetchesKeepWithin
<1>1. EndsInTime
  <2> SUFFICES ASSUME NEW f \in Fetchers PROVE fetch[f].age <= Allowance(f)
    BY DEF EndsInTime
  <2>1. PICK w \in FetchState, n \in Nat : w = fetch[f] /\ n = TriesOf(f) /\ n > 0 /\ OnTime(w, n)
    BY TriesOfIs DEF FetchInv, FetchTypeOK
  <2>2. w.age <= n * TotalTicks + (n - 1) * PauseMost
    BY <2>1, OnTimeEndsInTime
  <2> QED
    BY <2>1, <2>2 DEF Allowance, PauseMost
<1>2. ASSUME NEW c \in Callers, policy.state = "known"
      PROVE  MayFetch(policy.says, page[c]) <=> SaysYes(page[c])
  <2>1. PICK answer \in Statuses : answer = fetch[RobotsTxt].status
    BY DEF FetchInv, FetchTypeOK, FetchState, Fetchers
  <2>2. PICK scene \in Scenes : file = scene.file
    BY DEF FetchInv, FetchTypeOK
  <2>3. page[c] \in Paths
    BY DEF FetchInv, FetchTypeOK
  <2>4. policy.says = ReadRobots(answer, scene.file)
    BY <1>2, <2>1, <2>2 DEF FetchInv, PolicyIsRead
  <2> QED
    <3>1. file \in Seq(Directives)
      BY <2>2, FetchAssumption
    <3> QED
      BY <2>1, <2>2, <2>4, <3>1, PolicyIsReadAsWritten DEF SaysYes
<1>3. ASSUME NEW c \in Callers, errand[c] = "polite"
      PROVE  /\ fetch[c].pc # "off" => policy.state = "known" /\ SaysYes(page[c])
             /\ caller[c].stage = "ended" /\ fetch[c].pc = "off" =>
                   policy.state = "failed" \/ ~SaysYes(page[c])
  <2>1. AsksPolitely(c)
    BY DEF FetchInv
  <2>2. caller[c].stage \in {"ready", "policy", "queued", "asking", "got", "ended"}
    BY DEF FetchInv, FetchTypeOK, CallerState
  <2>3. fetch[c].pc # "off" => MayAsk(c)
    BY <1>3, <2>1, <2>2 DEF AsksPolitely
  <2>4. caller[c].stage = "ended" /\ fetch[c].pc = "off" =>
           ~MayAsk(c) /\ policy.state \in {"known", "failed"}
    BY <1>3, <2>1 DEF AsksPolitely
  <2> QED
    BY <1>2, <2>3, <2>4 DEF MayAsk
<1>4. ASSUME NEW f \in Fetchers, NEW g \in Fetchers, Polite(f), Polite(g),
             fetch[f].pc \notin {"off", "done", "failed"},
             fetch[g].pc \notin {"off", "done", "failed"}
      PROVE  f = g
  <2>1. ASSUME NEW h \in Fetchers, Polite(h), fetch[h].pc \notin {"off", "done", "failed"}
        PROVE  h = Head(queue)
    <3>1. CASE h = RobotsTxt
      <4>1. policy.state = "asked"
        BY <2>1, <3>1 DEF FetchInv, FetchTypeOK, PolicyIsRead
      <4>2. queue = <<RobotsTxt>>
        BY <4>1 DEF FetchInv, PolicyIsRead
      <4> QED
        BY <3>1, <4>2
    <3>2. CASE h # RobotsTxt
      <4>1. h \in Callers /\ errand[h] = "polite"
        BY <2>1, <3>2 DEF Fetchers, Polite
      <4>2. AsksPolitely(h) /\ caller[h].stage \in {"ready", "policy", "queued", "asking", "got", "ended"}
        BY <4>1 DEF FetchInv, FetchTypeOK, CallerState
      <4> QED
        BY <2>1, <4>1, <4>2 DEF AsksPolitely
    <3> QED
      BY <3>1, <3>2
  <2> QED
    BY <1>4, <2>1
<1> QED
  BY <1>1, <1>3, <1>4 DEF FetchesKeepWithin, HostIsHeeded

\* At first nobody has asked for anything.
LEMMA FetchStart == ASSUME FetchInit PROVE FetchInv
<1>1. PICK scene \in Scenes : errand = scene.errand /\ page = scene.page /\ file = scene.file
  BY DEF FetchInit
<1>2. errand \in [Callers -> Errands] /\ page \in [Callers -> Paths]
  BY <1>1, FetchAssumption DEF Errands
<1>3. Off \in FetchState /\ Off.pc = "off" /\ Off.age = 0
  <2>1. Elsewhere \in Urls
    BY DEF Urls
  <2> QED
    BY <2>1 DEF Off, FetchState, Statuses
<1>4. /\ policy.state = "unasked" /\ policy = [state |-> policy.state, says |-> policy.says]
  BY DEF FetchInit, Unasked
<1>5. fetch \in [Fetchers -> FetchState] /\ \A f \in Fetchers : fetch[f] = Off
  BY <1>3 DEF FetchInit
<1>6. /\ caller \in [Callers -> CallerState]
      /\ \A c \in Callers : caller[c].stage = IF errand[c] = "absent" THEN "ended" ELSE "ready"
  <2>1. \A g \in {"ready", "ended"} :
          /\ [stage |-> g, step |-> 1, asks |-> 1, tries |-> 1, rest |-> 0] \in CallerState
          /\ [stage |-> g, step |-> 1, asks |-> 1, tries |-> 1, rest |-> 0].stage = g
    BY DEF CallerState
  <2>2. \A c \in Callers : (IF errand[c] = "absent" THEN "ended" ELSE "ready") \in {"ready", "ended"}
    OBVIOUS
  <2>3. caller = [c \in Callers |-> [stage |-> IF errand[c] = "absent" THEN "ended" ELSE "ready",
                                    step |-> 1, asks |-> 1, tries |-> 1, rest |-> 0]]
    BY DEF FetchInit
  <2> QED
    BY <2>1, <2>2, <2>3
<1>7. FetchTypeOK
  <2>1. queue \in Seq(Fetchers) /\ since \in Nat
    BY Ticks DEF FetchInit
  <2> QED
    BY <1>1, <1>2, <1>4, <1>5, <1>6, <2>1 DEF FetchTypeOK
<1>8. \A f \in Fetchers : OnTime(fetch[f], TriesOf(f))
  BY <1>3, <1>5 DEF OnTime
<1>9. PolicyIsRead /\ QueueIsOrderly
  <2>1. queue = <<>> /\ RobotsTxt \in Fetchers
    BY DEF FetchInit, Fetchers
  <2> QED
    BY <1>3, <1>4, <1>5, <2>1 DEF PolicyIsRead, QueueIsOrderly
<1>10. \A c \in Callers : AsksPolitely(c)
  BY <1>3, <1>4, <1>5, <1>6 DEF AsksPolitely, Fetchers
<1> QED
  BY <1>7, <1>8, <1>9, <1>10 DEF FetchInv


\* The robots.txt is one more thing to fetch, and no collector.
LEMMA FetchersAre == /\ RobotsTxt \in Fetchers /\ RobotsTxt \notin Callers
                     /\ \A c \in Callers : c \in Fetchers /\ c # RobotsTxt
                     /\ \A f \in Fetchers : f # RobotsTxt => f \in Callers
  BY FetchAssumption DEF Fetchers, RobotsTxt

\* A fetch that is under way goes on, or is over: its place in the queue is the same.
LEMMA FetchMoves ==
    ASSUME FetchInv, NEW f \in Fetchers, NEW now \in FetchState,
           fetch' = [fetch EXCEPT ![f] = now], UNCHANGED Others,
           OnTime(now, TriesOf(f)), fetch[f].pc \notin {"off", "done"}, now.pc # "off"
    PROVE  FetchInv'
<1>1. /\ fetch' \in [Fetchers -> FetchState] /\ fetch'[f] = now
      /\ \A g \in Fetchers : g # f => fetch'[g] = fetch[g]
  BY DEF FetchInv, FetchTypeOK
<1>2. UNCHANGED <<errand, page, file, policy, queue, since, caller>>
  BY DEF Others
<1>3. FetchTypeOK'
  BY <1>1, <1>2 DEF FetchInv, FetchTypeOK
<1>4. \A g : TriesOf(g)' = TriesOf(g)
  BY <1>2 DEF TriesOf, StepOf
<1>5. \A g \in Fetchers : OnTime(fetch[g], TriesOf(g))'
  <2>1. ASSUME NEW g \in Fetchers PROVE OnTime(fetch'[g], TriesOf(g))
    BY <1>1 DEF FetchInv
  <2> QED
    BY <1>4, <2>1 DEF OnTime
<1>6. f = RobotsTxt => policy.state = "asked"
  BY DEF FetchInv, FetchTypeOK, PolicyIsRead
<1>7. PolicyIsRead'
  <2>1. CASE f = RobotsTxt
    <3>1. policy.state = "asked" /\ queue = <<RobotsTxt>>
      BY <1>6, <2>1 DEF FetchInv, PolicyIsRead
    <3> QED
      BY <1>2, <3>1 DEF PolicyIsRead
  <2>2. CASE f # RobotsTxt
    <3>1. fetch'[RobotsTxt] = fetch[RobotsTxt]
      BY <1>1, <2>2, FetchersAre
    <3> QED
      BY <1>2, <3>1 DEF FetchInv, PolicyIsRead
  <2> QED
    BY <2>1, <2>2
<1>8. QueueIsOrderly'
  BY <1>2 DEF FetchInv, QueueIsOrderly
<1>9. ASSUME NEW c \in Callers PROVE AsksPolitely(c)'
  <2>1. AsksPolitely(c) /\ caller[c].stage \in {"ready", "policy", "queued", "asking", "got", "ended"}
    BY DEF FetchInv, FetchTypeOK, CallerState
  <2>2. MayAsk(c)' = MayAsk(c)
    BY <1>2 DEF MayAsk
  <2>3. CASE c # f
    <3>1. fetch'[c] = fetch[c]
      BY <1>1, <2>3, FetchersAre
    <3> QED
      BY <1>2, <2>1, <2>2, <3>1 DEF AsksPolitely
  <2>4. CASE c = f
    <3>1. errand[c] = "polite" => caller[c].stage = "queued"
      BY <2>1, <2>4 DEF AsksPolitely
    <3> QED
      BY <1>2, <2>1, <2>2, <3>1 DEF AsksPolitely
  <2> QED
    BY <2>3, <2>4
<1> QED
  BY <1>3, <1>5, <1>7, <1>8, <1>9 DEF FetchInv

\* A fetch that ends, well or not, keeps its caller's place.
LEMMA FetchOver ==
    ASSUME FetchInv, NEW f \in Fetchers, NEW end \in {"done", "failed"}, NEW answer \in Statuses,
           fetch' = Over(f, end, answer), UNCHANGED Others, fetch[f].pc \notin {"off", "done"}
    PROVE  FetchInv'
<1>1. PICK w \in FetchState : w = fetch[f]
  BY DEF FetchInv, FetchTypeOK
<1>2. PICK now : now = [Off EXCEPT !.pc = end, !.url = w.url, !.at = w.at, !.status = answer,
                                   !.received = Smaller(w.received, 1)]
  OBVIOUS
<1>3. now \in FetchState /\ now.pc = end /\ now.age = 0
  <2>1. Smaller(w.received, 1) \in Nat /\ w.url \in Urls /\ w.at \in Urls
    BY DEF FetchState, Smaller
  <2>2. now = [pc |-> end, url |-> w.url, at |-> w.at, hops |-> 0, attempt |-> 0, elapsed |-> 0,
               silent |-> 0, received |-> Smaller(w.received, 1), pause |-> 0, age |-> 0,
               status |-> answer]
    BY <1>2 DEF Off
  <2> QED
    BY <2>1, <2>2 DEF FetchState
<1>4. fetch' = [fetch EXCEPT ![f] = now]
  BY <1>1, <1>2 DEF Over
<1>5. OnTime(now, TriesOf(f))
  BY <1>3 DEF OnTime
<1> QED
  BY <1>3, <1>4, <1>5, FetchMoves

\* So does one that fails.
LEMMA FetchFails ==
    ASSUME FetchInv, NEW f \in Fetchers, fetch' = Fails(f), UNCHANGED Others,
           fetch[f].pc \notin {"off", "done"}
    PROVE  FetchInv'
  BY FetchOver DEF Fails, Statuses

\* A failure that may pass is followed by a pause of at most the longest, if an
\* attempt is left (retryDelay in fetch-with-limits.ts).
LEMMA FetchPauses ==
    ASSUME FetchInv, NEW f \in Fetchers, NEW wait \in Nat, wait <= PauseMost,
           Waiting(f), fetch' = MayPass(f, wait), UNCHANGED Others
    PROVE  FetchInv'
<1>1. PICK w \in FetchState, n \in Nat : w = fetch[f] /\ n = TriesOf(f) /\ n > 0 /\ OnTime(w, n)
  BY TriesOfIs DEF FetchInv, FetchTypeOK
<1>2. w.pc \in {"headers", "body"}
  BY <1>1 DEF Waiting
<1>3. CASE w.attempt >= n
  BY <1>1, <1>2, <1>3, FetchFails DEF MayPass
<1>4. CASE ~(w.attempt >= n)
  <2>1. PICK now : now = [w EXCEPT !.pc = "pause", !.pause = wait]
    OBVIOUS
  <2>2. /\ now \in FetchState /\ now.pc = "pause" /\ now.pause = wait /\ now.attempt = w.attempt
        /\ now.age = w.age
    BY <2>1 DEF FetchState
  <2>3. fetch' = [fetch EXCEPT ![f] = now]
    <3>1. fetch \in [Fetchers -> FetchState]
      BY DEF FetchInv, FetchTypeOK
    <3>2. fetch' = [fetch EXCEPT ![f].pc = "pause", ![f].pause = wait]
      BY <1>1, <1>4 DEF MayPass
    <3> QED
      BY <1>1, <2>1, <3>1, <3>2
  <2>4. w.attempt \in Nat /\ w.age \in Nat /\ w.elapsed \in Nat
    BY DEF FetchState
  <2>5. w.attempt \in 1..n /\ w.elapsed <= TotalTicks /\ w.age <= (w.attempt - 1) * Round + w.elapsed
    BY <1>1, <1>2 DEF OnTime
  <2>6. PICK m \in Nat : w.attempt = m + 1 /\ w.attempt - 1 = m
    <3>1. w.attempt - 1 \in Nat /\ w.attempt = (w.attempt - 1) + 1
      BY <2>4, <2>5
    <3> QED
      BY <3>1
  <2>7. /\ m * Round \in Nat /\ (m + 1) * Round = m * Round + Round
        /\ TotalTicks \in Nat /\ PauseMost \in Nat
    BY Rounds, Ticks
  <2>8. w.age <= m * Round + w.elapsed /\ (m + 1) * Round = m * Round + (TotalTicks + PauseMost)
    BY <2>5, <2>6, <2>7 DEF Round
  <2>9. w.age + wait <= w.attempt * Round
    <3>1. PICK far \in Nat, next \in Nat : far = m * Round /\ next = (m + 1) * Round
      <4>1. m + 1 \in Nat
        OBVIOUS
      <4> QED
        BY <4>1, Rounds
    <3>2. w.age + wait <= next
      BY <2>4, <2>5, <2>7, <2>8, <3>1
    <3> QED
      BY <2>6, <3>1, <3>2
  <2>10. OnTime(now, n)
    BY <1>4, <2>2, <2>4, <2>5, <2>9 DEF OnTime
  <2> QED
    BY <1>1, <1>2, <2>2, <2>3, <2>10, FetchMoves
<1> QED
  BY <1>3, <1>4

\* The pauses that the client makes of itself are among those.
LEMMA FetchBacksOff ==
    ASSUME FetchInv, NEW f \in Fetchers, Waiting(f), fetch' = BackedOff(f), UNCHANGED Others
    PROVE  FetchInv'
<1>1. fetch[f].attempt \in Nat \ {0}
  BY DEF FetchInv, FetchTypeOK, FetchState, OnTime, Waiting
<1>2. BackoffAt(fetch[f].attempt) \in Nat /\ BackoffAt(fetch[f].attempt) <= PauseMost
  BY <1>1, Ticks
<1> QED
  BY <1>2, FetchPauses DEF BackedOff

\* The attempt goes on, and its time with it.
LEMMA FetchGoesOn ==
    ASSUME FetchInv, NEW f \in Fetchers, Waiting(f), NEW now \in FetchState,
           fetch' = [fetch EXCEPT ![f] = now], UNCHANGED Others,
           now.pc \in {"headers", "body"}, now.attempt = fetch[f].attempt,
           now.elapsed = fetch[f].elapsed, now.age = fetch[f].age
    PROVE  FetchInv'
<1>1. PICK w \in FetchState, n \in Nat : w = fetch[f] /\ n = TriesOf(f) /\ OnTime(w, n)
  BY TriesOfIs DEF FetchInv, FetchTypeOK
<1>2. w.pc \in {"headers", "body"}
  BY <1>1 DEF Waiting
<1>3. OnTime(now, n)
  BY <1>1, <1>2 DEF OnTime
<1> QED
  BY <1>1, <1>2, <1>3, FetchMoves

\* Whatever the host does, the fetch is on time.
LEMMA HostKeeps == ASSUME FetchInv, NEW f \in Fetchers, Host(f) PROVE FetchInv'
<1>0. fetch \in [Fetchers -> FetchState]
  BY DEF FetchInv, FetchTypeOK
<1>1. PICK w \in FetchState : w = fetch[f]
  BY <1>0
<1>2. ASSUME NEW answer \in {"ok", "html", "gone", "busy", "error"}, NEW declared,
             Answer(f, answer, declared)
      PROVE  FetchInv'
  <2>1. CASE Accepts(f, answer) /\ declared <= MaxBytes
    <3>1. PICK now : now = [w EXCEPT !.pc = "body", !.status = answer, !.silent = 0]
      OBVIOUS
    <3>2. now \in FetchState /\ now.pc = "body" /\ now.attempt = w.attempt
          /\ now.elapsed = w.elapsed /\ now.age = w.age
      BY <3>1 DEF FetchState, Statuses
    <3>3. fetch' = [fetch EXCEPT ![f] = now]
      BY <1>0, <1>1, <1>2, <2>1, <3>1 DEF Answer
    <3> QED
      BY <1>1, <1>2, <3>2, <3>3, FetchGoesOn DEF Answer, Waiting
  <2>2. CASE ~(Accepts(f, answer) /\ declared <= MaxBytes)
    BY <1>2, <2>2, FetchOver DEF Answer, Statuses
  <2> QED
    BY <2>1, <2>2
<1>3. ASSUME NEW after \in RetryAfter, Busy(f, after) PROVE FetchInv'
  <2>1. PICK wait : wait = Smaller(Larger(after, BackoffAt(fetch[f].attempt)), MaxRetryAfter)
    OBVIOUS
  <2>2. fetch[f].attempt \in Nat \ {0}
    BY <1>3, SMTT(40) DEF FetchInv, FetchTypeOK, FetchState, OnTime, Busy
  <2>3. after \in Nat /\ BackoffAt(fetch[f].attempt) \in Nat
    BY <2>2, Ticks, FetchAssumption
  <2>4. wait \in Nat /\ wait <= PauseMost
    BY <2>1, <2>3, Ticks DEF Smaller, Larger
  <2> QED
    BY <1>3, <2>1, <2>4, FetchPauses DEF Busy, Waiting
<1>4. ASSUME NEW to \in Paths \cup {Elsewhere}, Redirect(f, to) PROVE FetchInv'
  <2>1. CASE fetch[f].hops >= MaxRedirects \/ to = Elsewhere
    BY <1>4, <2>1, FetchFails DEF Redirect
  <2>2. CASE ~(fetch[f].hops >= MaxRedirects \/ to = Elsewhere)
    <3>1. PICK now : now = [w EXCEPT !.at = to, !.hops = w.hops + 1, !.silent = 0]
      OBVIOUS
    <3>4. w.hops + 1 \in Nat /\ to \in Urls
      BY DEF FetchState, Urls
    <3>2. now \in FetchState /\ now.pc = w.pc /\ now.attempt = w.attempt
          /\ now.elapsed = w.elapsed /\ now.age = w.age
      BY <3>1, <3>4 DEF FetchState
    <3>3. fetch' = [fetch EXCEPT ![f] = now]
      BY <1>0, <1>1, <1>4, <2>2, <3>1 DEF Redirect
    <3> QED
      BY <1>1, <1>4, <3>2, <3>3, FetchGoesOn DEF Redirect, Waiting
  <2> QED
    BY <2>1, <2>2
<1>5. ASSUME Chunk(f) PROVE FetchInv'
  <2>1. CASE fetch[f].received = MaxBytes
    BY <1>5, <2>1, FetchFails DEF Chunk
  <2>2. CASE fetch[f].received # MaxBytes
    <3>1. PICK now : now = [w EXCEPT !.received = w.received + 1, !.silent = 0]
      OBVIOUS
    <3>4. w.received + 1 \in Nat
      BY DEF FetchState
    <3>2. now \in FetchState /\ now.pc = w.pc /\ now.attempt = w.attempt
          /\ now.elapsed = w.elapsed /\ now.age = w.age
      BY <3>1, <3>4 DEF FetchState
    <3>3. fetch' = [fetch EXCEPT ![f] = now]
      BY <1>0, <1>1, <1>5, <2>2, <3>1 DEF Chunk
    <3>5. Waiting(f) /\ w.pc = "body" /\ UNCHANGED Others
      BY <1>1, <1>5 DEF Chunk, Waiting
    <3> QED
      BY <1>1, <3>2, <3>3, <3>5, FetchGoesOn
  <2> QED
    BY <2>1, <2>2
<1>6. ASSUME EndBody(f) PROVE FetchInv'
  <2>1. fetch[f].status \in Statuses
    BY <1>0 DEF FetchState
  <2> QED
    BY <1>6, <2>1, FetchOver DEF EndBody
<1>7. ASSUME Drop(f) PROVE FetchInv'
  <2>1. Waiting(f) /\ fetch' = BackedOff(f) /\ UNCHANGED Others
    BY <1>7 DEF Drop
  <2> QED
    BY <2>1, FetchBacksOff
<1> QED
  BY <1>2, <1>3, <1>4, <1>5, <1>6, <1>7 DEF Host

\* A timer that is due ends the attempt or the fetch.
LEMMA TimeOutKeeps == ASSUME FetchInv, NEW f \in Fetchers, TimeOut(f) PROVE FetchInv'
<1>1. UNCHANGED Others /\ Waiting(f)
  BY DEF TimeOut, HeadersDue, IdleDue, TotalDue, Waiting
<1>2. fetch' = BackedOff(f) \/ fetch' = Fails(f)
  BY DEF TimeOut
<1>3. fetch[f].pc \notin {"off", "done"}
  BY <1>1 DEF Waiting
<1> QED
  BY <1>1, <1>2, <1>3, FetchBacksOff, FetchFails

\* What an attempt begins with.
Begun(w, url, n) ==
    [w EXCEPT !.pc = "headers", !.url = url, !.at = url, !.hops = 0, !.attempt = n,
              !.elapsed = 0, !.silent = 0, !.received = 0, !.pause = 0, !.status = "none"]

\* What an attempt begins with: its own time is nought, the fetch's goes on.
LEMMA AttemptIs ==
    ASSUME NEW w \in FetchState, NEW url \in Urls, NEW n \in Nat
    PROVE  /\ Begun(w, url, n) \in FetchState
           /\ Begun(w, url, n).pc = "headers" /\ Begun(w, url, n).attempt = n
           /\ Begun(w, url, n).elapsed = 0 /\ Begun(w, url, n).age = w.age
<1>1. Begun(w, url, n) =
        [pc |-> "headers", url |-> url, at |-> url, hops |-> 0, attempt |-> n,
         elapsed |-> 0, silent |-> 0, received |-> 0, pause |-> 0, age |-> w.age, status |-> "none"]
  <2>1. PICK now : now = [w EXCEPT !.pc = "headers", !.url = url, !.at = url, !.hops = 0,
                         !.attempt = n, !.elapsed = 0, !.silent = 0, !.received = 0, !.pause = 0,
                         !.status = "none"]
    OBVIOUS
  <2>2. now = [pc |-> "headers", url |-> url, at |-> url, hops |-> 0, attempt |-> n,
               elapsed |-> 0, silent |-> 0, received |-> 0, pause |-> 0, age |-> w.age,
               status |-> "none"]
    BY <2>1 DEF FetchState
  <2> QED
    BY <2>1, <2>2 DEF Begun
<1>2. w.age \in Nat /\ "none" \in Statuses
  BY DEF FetchState, Statuses
<1>3. PICK k : k = [pc |-> "headers", url |-> url, at |-> url, hops |-> 0, attempt |-> n,
                  elapsed |-> 0, silent |-> 0, received |-> 0, pause |-> 0, age |-> w.age,
                  status |-> "none"]
  OBVIOUS
<1>4. k \in FetchState
  BY <1>2, <1>3 DEF FetchState
<1> QED
  BY <1>1, <1>3, <1>4

\* The next attempt begins when the pause is over, one round later.
LEMMA TryAgainKeeps == ASSUME FetchInv, NEW f \in Fetchers, TryAgain(f) PROVE FetchInv'
<1>1. PICK w \in FetchState, n \in Nat : w = fetch[f] /\ n = TriesOf(f) /\ OnTime(w, n)
  BY TriesOfIs DEF FetchInv, FetchTypeOK
<1>2. w.pc = "pause" /\ w.pause = 0 /\ UNCHANGED Others
  BY <1>1 DEF TryAgain
<1>3. w.attempt \in Nat /\ w.age \in Nat /\ w.url \in Urls
  BY DEF FetchState
<1>4. w.attempt < n /\ w.age <= w.attempt * Round
  <2>1. w.attempt < n /\ w.age + w.pause <= w.attempt * Round
    BY <1>1, <1>2 DEF OnTime
  <2>2. w.age + w.pause = w.age
    BY <1>2, <1>3
  <2> QED
    BY <2>1, <2>2
<1>5. PICK now \in FetchState : /\ fetch' = [fetch EXCEPT ![f] = now]
                                /\ now.pc = "headers" /\ now.attempt = w.attempt + 1
                                /\ now.elapsed = 0 /\ now.age = w.age
  <2>1. w.attempt + 1 \in Nat
    BY <1>3
  <2>2. fetch' = [fetch EXCEPT ![f] = Begun(w, w.url, w.attempt + 1)]
    BY <1>1 DEF TryAgain, Attempt, Begun
  <2> QED
    BY <1>3, <2>1, <2>2, AttemptIs
<1>6. OnTime(now, n)
  <2>3. \A a \in Nat : a < n => (a + 1) - 1 = a /\ a + 1 \in 1..n
    OBVIOUS
  <2>1. (w.attempt + 1) - 1 = w.attempt /\ w.attempt + 1 \in 1..n /\ w.attempt * Round \in Nat
    BY <1>3, <1>4, <2>3, Rounds
  <2>2. now.age <= (now.attempt - 1) * Round + now.elapsed
    BY <1>3, <1>4, <1>5, <2>1
  <2> QED
    BY <1>5, <2>1, <2>2, Ticks DEF OnTime
<1> QED
  BY <1>1, <1>2, <1>5, <1>6, FetchMoves


-----------------------------------------------------------------------------

\* A collector of another kind goes about its own requests.
LEMMA OthersKeep ==
    ASSUME FetchInv, NEW c \in Callers, errand[c] # "polite",
           NEW now \in FetchState, NEW next \in CallerState,
           fetch' = [fetch EXCEPT ![c] = now], caller' = [caller EXCEPT ![c] = next],
           UNCHANGED <<errand, page, file, policy, queue, since>>,
           next.stage \notin {"policy", "queued"},
           \A n \in Nat \ {0} : OnTime(now, n)
    PROVE  FetchInv'
<1>1. /\ fetch' \in [Fetchers -> FetchState] /\ fetch'[c] = now
      /\ \A g \in Fetchers : g # c => fetch'[g] = fetch[g]
      /\ caller' \in [Callers -> CallerState] /\ caller'[c] = next
      /\ \A d \in Callers : d # c => caller'[d] = caller[d]
  BY FetchersAre DEF FetchInv, FetchTypeOK
<1>2. FetchTypeOK'
  BY <1>1 DEF FetchInv, FetchTypeOK
<1>3. ASSUME NEW f \in Fetchers PROVE OnTime(fetch[f], TriesOf(f))'
  <2>1. CASE f = c
    <3>1. TriesOf(f)' \in Nat \ {0}
      BY Ticks DEF TriesOf
    <3>2. PICK n \in Nat \ {0} : n = TriesOf(f)'
      BY <3>1
    <3>3. OnTime(now, n)
      BY <3>2
    <3> QED
      BY <1>1, <2>1, <3>2, <3>3 DEF OnTime
  <2>2. CASE f # c
    <3>1. TriesOf(f)' = TriesOf(f)
      BY <1>1, <2>2 DEF TriesOf, StepOf
    <3>2. OnTime(fetch[f], TriesOf(f))
      BY DEF FetchInv
    <3> QED
      BY <1>1, <2>2, <3>1, <3>2 DEF OnTime
  <2> QED
    BY <2>1, <2>2
<1>4. fetch'[RobotsTxt] = fetch[RobotsTxt]
  BY <1>1, FetchersAre
<1>5. PolicyIsRead'
  BY <1>4 DEF FetchInv, PolicyIsRead
<1>6. QueueIsOrderly'
  BY <1>1 DEF FetchInv, QueueIsOrderly
<1>7. ASSUME NEW d \in Callers PROVE AsksPolitely(d)'
  <2>1. MayAsk(d)' = MayAsk(d) /\ AsksPolitely(d)
    BY DEF MayAsk, FetchInv
  <2>2. CASE d = c
    BY <1>1, <2>2 DEF AsksPolitely
  <2>3. CASE d # c
    <3>1. fetch'[d] = fetch[d] /\ caller'[d] = caller[d]
      BY <1>1, <2>3, FetchersAre
    <3> QED
      BY <2>1, <3>1 DEF AsksPolitely
  <2> QED
    BY <2>2, <2>3
<1> QED
  BY <1>2, <1>3, <1>5, <1>6, <1>7 DEF FetchInv

\* A fetch begins with its first attempt and no time spent.
LEMMA OpenedIs ==
    ASSUME FetchInv, NEW f \in Fetchers, NEW url \in Urls
    PROVE  \E now \in FetchState : /\ Opened(f, url) = [fetch EXCEPT ![f] = now]
                                   /\ now.pc = "headers"
                                   /\ \A n \in Nat \ {0} : OnTime(now, n)
<1>1. PICK w \in FetchState : w = fetch[f]
  BY DEF FetchInv, FetchTypeOK
<1>2. PICK first \in FetchState :
        /\ first = Begun(w, url, 1)
        /\ first.pc = "headers" /\ first.attempt = 1 /\ first.elapsed = 0
  BY AttemptIs
<1>4. PICK now : now = [first EXCEPT !.age = 0]
  OBVIOUS
<1>5. /\ now \in FetchState /\ now.pc = "headers" /\ now.attempt = 1 /\ now.elapsed = 0
      /\ now.age = 0
  BY <1>2, <1>4 DEF FetchState
<1>6. ASSUME NEW m \in Nat \ {0} PROVE OnTime(now, m)
  <2>1. 1 \in 1..m /\ 1 - 1 = 0
    OBVIOUS
  <2>2. (1 - 1) * Round = 0
    BY <2>1, Rounds
  <2> QED
    BY <1>5, <2>1, <2>2, Ticks DEF OnTime
<1>7. Opened(f, url) = [fetch EXCEPT ![f] = now]
  BY <1>1, <1>2, <1>4 DEF Opened, Attempt, Begun
<1> QED
  BY <1>5, <1>6, <1>7

\* A collector that is not polite asks when it likes.
LEMMA BeginKeeps == ASSUME FetchInv, NEW c \in Callers, Begin(c) PROVE FetchInv'
<1>1. page[c] \in Urls /\ c \in Fetchers /\ c # RobotsTxt /\ errand[c] # "polite"
  BY FetchersAre DEF FetchInv, FetchTypeOK, Urls, Begin, Polite
<1>2. PICK now \in FetchState : /\ fetch' = [fetch EXCEPT ![c] = now]
                                /\ \A n \in Nat \ {0} : OnTime(now, n)
  BY <1>1, OpenedIs DEF Begin
<1>3. PICK next \in CallerState : /\ caller' = [caller EXCEPT ![c] = next]
                                  /\ next.stage = "asking"
  <2>1. PICK k \in CallerState : k = caller[c]
    BY DEF FetchInv, FetchTypeOK
  <2>2. PICK g : g = [k EXCEPT !.stage = "asking"]
    OBVIOUS
  <2>3. g \in CallerState /\ g.stage = "asking"
    BY <2>2 DEF CallerState
  <2>4. caller' = [caller EXCEPT ![c] = g]
    BY <2>1, <2>2 DEF Begin, FetchInv, FetchTypeOK
  <2> QED
    BY <2>3, <2>4
<1> QED
  BY <1>1, <1>2, <1>3, OthersKeep DEF Begin

\* No fetch is on time.
LEMMA OffIs == Off \in FetchState /\ Off.pc = "off" /\ \A n \in Nat \ {0} : OnTime(Off, n)
<1>1. Elsewhere \in Urls
  BY DEF Urls
<1>2. Off \in FetchState
  BY <1>1 DEF Off, FetchState, Statuses
<1>3. Off.pc = "off" /\ Off.age = 0
  BY DEF Off
<1> QED
  BY <1>2, <1>3 DEF OnTime

\* Whose fetch is over goes on to something else, or stops.
LEMMA MovesKeeps ==
    ASSUME FetchInv, NEW c \in Callers, caller[c].stage = "asking", NEW next \in CallerState,
           next.stage = "ready", Moves(c, next),
           UNCHANGED <<errand, page, file, policy, queue, since>>
    PROVE  FetchInv'
<1>1. errand[c] # "polite"
  BY DEF FetchInv, AsksPolitely
<1> QED
  BY <1>1, OffIs, OthersKeep DEF Moves

\* A collector that has its answer, or its failure, asks no more.
LEMMA StopsKeeps ==
    ASSUME FetchInv, NEW c \in Callers, caller[c].stage = "asking", IsOver(c),
           NEW end \in {"got", "ended"}, Stops(c, end),
           UNCHANGED <<errand, page, file, policy, queue, since>>
    PROVE  FetchInv'
<1>1. errand[c] # "polite"
  BY DEF FetchInv, AsksPolitely
<1>2. PICK w \in FetchState : w = fetch[c] /\ w.pc \in {"done", "failed"}
  BY FetchersAre DEF FetchInv, FetchTypeOK, IsOver
<1>3. fetch' = [fetch EXCEPT ![c] = w]
  BY <1>2, FetchersAre DEF Stops, FetchInv, FetchTypeOK
<1>4. \A n \in Nat \ {0} : OnTime(w, n)
  <2>1. OnTime(w, TriesOf(c))
    BY <1>2, FetchersAre DEF FetchInv
  <2> QED
    BY <1>2, <2>1 DEF OnTime
<1>5. PICK k \in CallerState : k = caller[c]
  BY DEF FetchInv, FetchTypeOK
<1>6. PICK next : next = [k EXCEPT !.stage = end]
  OBVIOUS
<1>7. next \in CallerState /\ next.stage = end
  BY <1>6 DEF CallerState
<1>8. caller' = [caller EXCEPT ![c] = next]
  BY <1>5, <1>6 DEF Stops, FetchInv, FetchTypeOK
<1> QED
  BY <1>1, <1>3, <1>4, <1>7, <1>8, OthersKeep

\* The portal's, the report's and the export's next request comes after the one
\* before.
LEMMA ProceedKeeps == ASSUME FetchInv, NEW c \in Callers, Proceed(c) PROVE FetchInv'
<1>1. PICK k \in CallerState : k = caller[c]
  BY DEF FetchInv, FetchTypeOK
<1>2. PICK next : next = [k EXCEPT !.stage = "ready", !.step = 2]
  OBVIOUS
<1>3. next \in CallerState /\ next.stage = "ready"
  BY <1>2 DEF CallerState
<1>4. Stops(c, "ended") \/ Stops(c, "got") \/ Moves(c, next)
  BY <1>1, <1>2 DEF Proceed
<1> QED
  BY <1>3, <1>4, MovesKeeps, StopsKeeps DEF Proceed

\* The map query waits for a slot, or goes ahead.
LEMMA ReadSlotsKeeps ==
    ASSUME FetchInv, NEW c \in Callers, NEW wait \in {0, SlotPause}, ReadSlots(c, wait)
    PROVE  FetchInv'
<1>1. PICK k \in CallerState : k = caller[c]
  BY DEF FetchInv, FetchTypeOK
<1>2. PICK step \in {1, 2} :
          step = IF wait = 0 \/ k.step = 2 \/ caller[c].asks = SlotTries THEN 2 ELSE 1
  OBVIOUS
<1>3. PICK next : next = [k EXCEPT !.stage = "ready", !.rest = wait, !.asks = k.asks + 1,
                                   !.step = step]
  OBVIOUS
<1>4. wait \in Nat /\ k.asks + 1 \in Nat
  BY Ticks DEF CallerState
<1>5. next \in CallerState /\ next.stage = "ready"
  BY <1>3, <1>4 DEF CallerState
<1>6. Moves(c, next)
  BY <1>1, <1>2, <1>3 DEF ReadSlots
<1> QED
  BY <1>5, <1>6, MovesKeeps DEF ReadSlots

\* A query that is declined begins again at its slot.
LEMMA ReadQueryKeeps == ASSUME FetchInv, NEW c \in Callers, ReadQuery(c) PROVE FetchInv'
<1>1. PICK k \in CallerState : k = caller[c]
  BY DEF FetchInv, FetchTypeOK
<1>2. PICK next : next = [stage |-> "ready", step |-> 1, asks |-> 1, tries |-> k.tries + 1,
                          rest |-> SlotPause]
  OBVIOUS
<1>3. SlotPause \in Nat /\ k.tries + 1 \in Nat
  BY Ticks DEF CallerState
<1>4. next \in CallerState /\ next.stage = "ready"
  BY <1>2, <1>3 DEF CallerState
<1>5. Stops(c, "ended") \/ Stops(c, "got") \/ Moves(c, next)
  BY <1>1, <1>2 DEF ReadQuery
<1> QED
  BY <1>4, <1>5, MovesKeeps, StopsKeeps DEF ReadQuery


-----------------------------------------------------------------------------

\* The first of the polite client's callers sends for the policy; the others
\* wait.
LEMMA AskPolicyKeeps == ASSUME FetchInv, NEW c \in Callers, AskPolicy(c) PROVE FetchInv'
<1>1. /\ c \in Fetchers /\ c # RobotsTxt /\ errand[c] = "polite" /\ caller[c].stage = "ready"
      /\ fetch[c].pc = "off"
  BY FetchersAre DEF AskPolicy, Polite, FetchInv, AsksPolitely
<1>2. PICK next \in CallerState : /\ caller' = [caller EXCEPT ![c] = next]
                                  /\ next.stage = "policy" /\ next.step = caller[c].step
  <2>1. PICK k \in CallerState : k = caller[c]
    BY DEF FetchInv, FetchTypeOK
  <2>2. PICK g : g = [k EXCEPT !.stage = "policy"]
    OBVIOUS
  <2>3. g \in CallerState /\ g.stage = "policy" /\ g.step = k.step
    BY <2>2 DEF CallerState
  <2>4. caller' = [caller EXCEPT ![c] = g]
    BY <2>1, <2>2 DEF AskPolicy, FetchInv, FetchTypeOK
  <2> QED
    BY <2>1, <2>3, <2>4
<1>3. /\ caller' \in [Callers -> CallerState] /\ caller'[c] = next
      /\ \A d \in Callers : d # c => caller'[d] = caller[d]
  BY <1>2 DEF FetchInv, FetchTypeOK
<1>4. UNCHANGED <<errand, page, file, since, fetch>>
  BY DEF AskPolicy
<1>5. \/ /\ policy.state = "unasked" /\ queue = <<>> /\ fetch[RobotsTxt].pc = "off"
         /\ policy'.state = "asked" /\ policy' = [state |-> policy'.state, says |-> policy'.says]
         /\ queue' = <<RobotsTxt>>
      \/ UNCHANGED <<policy, queue>>
  <2>1. CASE policy.state = "unasked"
    <3>1. PICK says : policy = [state |-> policy.state, says |-> says]
      BY DEF FetchInv, FetchTypeOK
    <3>2. policy' = [state |-> "asked", says |-> says]
      <4>1. policy' = [policy EXCEPT !.state = "asked"]
        BY <2>1 DEF AskPolicy
      <4> QED
        BY <3>1, <4>1
    <3>3. queue = <<>> /\ fetch[RobotsTxt].pc = "off"
      BY <2>1 DEF FetchInv, PolicyIsRead
    <3>4. queue' = <<RobotsTxt>>
      BY <2>1, <3>3 DEF AskPolicy
    <3> QED
      BY <2>1, <3>2, <3>3, <3>4
  <2>2. CASE policy.state # "unasked"
    BY <2>2 DEF AskPolicy
  <2> QED
    BY <2>1, <2>2
<1>6. FetchTypeOK'
  <2>1. queue' \in Seq(Fetchers)
    <3>1. <<RobotsTxt>> \in Seq(Fetchers)
      BY FetchersAre
    <3> QED
      BY <1>5, <3>1 DEF FetchInv, FetchTypeOK
  <2> QED
    BY <1>3, <1>4, <1>5, <2>1 DEF FetchInv, FetchTypeOK
<1>7. ASSUME NEW f \in Fetchers PROVE OnTime(fetch[f], TriesOf(f))'
  <2>1. TriesOf(f)' = TriesOf(f)
    BY <1>2, <1>3, <1>4 DEF TriesOf, StepOf
  <2>2. OnTime(fetch[f], TriesOf(f))
    BY DEF FetchInv
  <2> QED
    BY <1>4, <2>1, <2>2 DEF OnTime
<1>8. PolicyIsRead'
  BY <1>4, <1>5 DEF FetchInv, PolicyIsRead
<1>9. QueueIsOrderly'
  <2>1. CASE UNCHANGED <<policy, queue>>
    BY <1>1, <1>3, <1>4, <2>1 DEF FetchInv, QueueIsOrderly
  <2>2. CASE policy'.state = "asked"
    BY <2>2 DEF QueueIsOrderly
  <2> QED
    BY <1>5, <2>1, <2>2
<1>10. ASSUME NEW d \in Callers PROVE AsksPolitely(d)'
  <2>0. AsksPolitely(d)
    BY DEF FetchInv
  <2>1. CASE d = c
    BY <1>1, <1>2, <1>3, <1>4, <2>1 DEF AsksPolitely
  <2>2. CASE d # c
    <3>1. CASE UNCHANGED <<policy, queue>>
      <4>1. MayAsk(d)' = MayAsk(d)
        BY <1>4, <3>1 DEF MayAsk
      <4> QED
        BY <1>3, <1>4, <2>0, <2>2, <3>1, <4>1 DEF AsksPolitely
    <3>2. CASE policy.state = "unasked"
      <4>1. ~MayAsk(d)
        BY <3>2 DEF MayAsk
      <4>2. errand[d] = "polite" => caller[d].stage \notin {"queued", "got", "ended"}
        BY <2>0, <3>2, <4>1 DEF AsksPolitely
      <4> QED
        BY <1>3, <1>4, <2>0, <2>2, <4>2 DEF AsksPolitely
    <3> QED
      BY <1>5, <3>1, <3>2
  <2> QED
    BY <2>1, <2>2
<1> QED
  BY <1>6, <1>7, <1>8, <1>9, <1>10 DEF FetchInv

\* Whom the policy permits joins the queue at its end; whom it does not has
\* asked for nothing.
LEMMA HearPolicyKeeps == ASSUME FetchInv, NEW c \in Callers, HearPolicy(c) PROVE FetchInv'
<1>1. /\ c \in Fetchers /\ c # RobotsTxt /\ errand[c] = "polite" /\ caller[c].stage = "policy"
      /\ fetch[c].pc = "off" /\ policy.state \in {"known", "failed"}
  BY FetchersAre DEF HearPolicy, FetchInv, AsksPolitely
<1>2. PICK stage \in {"queued", "ended"} :
        /\ stage = IF MayAsk(c) THEN "queued" ELSE "ended"
        /\ caller' = [caller EXCEPT ![c].stage = stage]
        /\ queue' = IF MayAsk(c) THEN Append(queue, c) ELSE queue
  BY DEF HearPolicy, MayAsk
<1>3. PICK next \in CallerState : /\ caller' = [caller EXCEPT ![c] = next]
                                  /\ next.stage = stage /\ next.step = caller[c].step
  <2>1. PICK k \in CallerState : k = caller[c]
    BY DEF FetchInv, FetchTypeOK
  <2>2. PICK g : g = [k EXCEPT !.stage = stage]
    OBVIOUS
  <2>3. g \in CallerState /\ g.stage = stage /\ g.step = k.step
    BY <2>2 DEF CallerState
  <2>4. caller' = [caller EXCEPT ![c] = g]
    BY <1>2, <2>1, <2>2 DEF FetchInv, FetchTypeOK
  <2> QED
    BY <2>1, <2>3, <2>4
<1>4. /\ caller' \in [Callers -> CallerState] /\ caller'[c] = next
      /\ \A d \in Callers : d # c => caller'[d] = caller[d]
  BY <1>3 DEF FetchInv, FetchTypeOK
<1>5. UNCHANGED <<errand, page, file, policy, since, fetch>>
  BY DEF HearPolicy
<1>6. PICK line \in Seq(Fetchers), longer \in Seq(Fetchers) :
        /\ line = queue /\ longer = queue'
        /\ longer = IF MayAsk(c) THEN Append(line, c) ELSE line
  <2>1. queue \in Seq(Fetchers) /\ Append(queue, c) \in Seq(Fetchers)
    BY <1>1 DEF FetchInv, FetchTypeOK
  <2> QED
    BY <1>2, <2>1
<1>7. FetchTypeOK'
  BY <1>4, <1>5, <1>6 DEF FetchInv, FetchTypeOK
<1>8. ASSUME NEW f \in Fetchers PROVE OnTime(fetch[f], TriesOf(f))'
  <2>1. TriesOf(f)' = TriesOf(f)
    BY <1>3, <1>4, <1>5 DEF TriesOf, StepOf
  <2>2. OnTime(fetch[f], TriesOf(f))
    BY DEF FetchInv
  <2> QED
    BY <1>5, <2>1, <2>2 DEF OnTime
<1>9. MayAsk(c) => policy.state = "known"
  BY DEF MayAsk
<1>10. PolicyIsRead'
  BY <1>1, <1>5, <1>6, <1>9 DEF FetchInv, PolicyIsRead
<1>11. ASSUME policy.state = "known" PROVE QueueIsOrderly'
  <2>1. /\ \A n \in DOMAIN line : /\ line[n] \in Callers
                                  /\ errand[line[n]] = "polite"
                                  /\ caller[line[n]].stage = "queued"
        /\ \A m, n \in DOMAIN line : line[m] = line[n] => m = n
    BY <1>6, <1>11 DEF FetchInv, QueueIsOrderly
  <2>2. \A n \in DOMAIN line : line[n] # c
    BY <1>1, <2>1
  <2>3. CASE MayAsk(c)
    <3>1. /\ longer = Append(line, c) /\ Len(line) \in Nat
          /\ DOMAIN line = 1..Len(line) /\ DOMAIN longer = 1..(Len(line) + 1)
          /\ longer[Len(line) + 1] = c
          /\ \A n \in 1..Len(line) : longer[n] = line[n]
      BY <1>6, <2>3
    <3>2. \A n \in 1..Len(line) : caller'[line[n]] = caller[line[n]]
      BY <1>4, <2>1, <2>2, <3>1
    <3>3. caller'[c].stage = "queued"
      BY <1>2, <1>3, <1>4, <2>3
    <3>4. \A n \in 1..(Len(line) + 1) : n \in 1..Len(line) \/ n = Len(line) + 1
      BY <3>1
    <3>5. \A n \in DOMAIN longer : /\ longer[n] \in Callers
                                   /\ errand[longer[n]] = "polite"
                                   /\ caller'[longer[n]].stage = "queued"
      BY <1>1, <2>1, <3>1, <3>2, <3>3, <3>4
    <3>6. \A m, n \in DOMAIN longer : longer[m] = longer[n] => m = n
      BY <2>1, <2>2, <3>1, <3>4
    <3> QED
      BY <1>5, <1>6, <3>5, <3>6 DEF QueueIsOrderly
  <2>4. CASE ~MayAsk(c)
    <3>1. \A n \in DOMAIN line : caller'[line[n]] = caller[line[n]]
      BY <1>4, <2>1, <2>2
    <3> QED
      BY <1>5, <1>6, <2>1, <2>4, <3>1 DEF QueueIsOrderly
  <2> QED
    BY <2>3, <2>4
<1>12. QueueIsOrderly'
  <2>1. CASE policy.state # "known"
    BY <1>5, <2>1 DEF QueueIsOrderly
  <2> QED
    BY <1>11, <2>1
<1>13. ASSUME NEW d \in Callers PROVE AsksPolitely(d)'
  <2>0. AsksPolitely(d) /\ MayAsk(d)' = MayAsk(d)
    BY <1>5 DEF FetchInv, MayAsk
  <2>1. CASE d = c
    BY <1>1, <1>2, <1>3, <1>4, <1>5, <2>0, <2>1 DEF AsksPolitely
  <2>2. CASE d # c
    <3>1. line # <<>> => longer # <<>> /\ Head(longer) = Head(line)
      BY <1>6
    <3> QED
      BY <1>4, <1>5, <1>6, <2>0, <2>2, <3>1 DEF AsksPolitely
  <2> QED
    BY <2>1, <2>2
<1> QED
  BY <1>7, <1>8, <1>10, <1>12, <1>13 DEF FetchInv


\* The first in the queue, and no other, has its request sent.
LEMMA SendNextKeeps == ASSUME FetchInv, SendNext PROVE FetchInv'
<1>1. PICK first \in Fetchers, url \in Urls :
        /\ first = Head(queue) /\ queue # <<>> /\ fetch[first].pc = "off"
        /\ fetch' = Opened(first, url)
  <2>1. queue \in Seq(Fetchers) /\ queue # <<>>
    BY DEF FetchInv, FetchTypeOK, SendNext
  <2>2. PICK first \in Fetchers : first = Head(queue)
    BY <2>1
  <2>3. (IF first = RobotsTxt THEN RobotsTxt ELSE page[first]) \in Urls
    BY FetchersAre DEF Urls, FetchInv, FetchTypeOK
  <2> QED
    BY <2>1, <2>2, <2>3 DEF SendNext
<1>2. UNCHANGED <<errand, page, file, policy, queue, since, caller>>
  BY DEF SendNext, Others
<1>3. PICK now \in FetchState : /\ fetch' = [fetch EXCEPT ![first] = now]
                                /\ now.pc = "headers"
                                /\ \A n \in Nat \ {0} : OnTime(now, n)
  BY <1>1, OpenedIs
<1>4. /\ fetch' \in [Fetchers -> FetchState] /\ fetch'[first] = now
      /\ \A g \in Fetchers : g # first => fetch'[g] = fetch[g]
  BY <1>3 DEF FetchInv, FetchTypeOK
<1>5. FetchTypeOK'
  BY <1>2, <1>4 DEF FetchInv, FetchTypeOK
<1>6. ASSUME NEW f \in Fetchers PROVE OnTime(fetch[f], TriesOf(f))'
  <2>1. PICK n \in Nat \ {0} : n = TriesOf(f) /\ OnTime(fetch[f], n)
    BY TriesOfIs DEF FetchInv
  <2>2. TriesOf(f)' = n
    BY <1>2, <2>1 DEF TriesOf, StepOf
  <2>3. OnTime(fetch'[f], n)
    BY <1>3, <1>4, <2>1
  <2> QED
    BY <2>2, <2>3 DEF OnTime
<1>7. \/ policy.state = "asked" /\ first = RobotsTxt
      \/ /\ policy.state = "known" /\ first \in Callers /\ first # RobotsTxt
         /\ errand[first] = "polite" /\ caller[first].stage = "queued"
  <2>1. policy.state \in {"asked", "known"}
    BY <1>1 DEF FetchInv, FetchTypeOK, PolicyIsRead
  <2>2. CASE policy.state = "asked"
    BY <1>1, <2>2 DEF FetchInv, PolicyIsRead
  <2>3. CASE policy.state = "known"
    <3>1. 1 \in DOMAIN queue /\ queue[1] = first
      BY <1>1 DEF FetchInv, FetchTypeOK
    <3>2. first \in Callers /\ errand[first] = "polite" /\ caller[first].stage = "queued"
      BY <2>3, <3>1 DEF FetchInv, QueueIsOrderly
    <3> QED
      BY <2>3, <3>2, FetchersAre
  <2> QED
    BY <2>1, <2>2, <2>3
<1>8. PolicyIsRead'
  <2>1. CASE policy.state = "asked"
    BY <1>2, <2>1 DEF FetchInv, PolicyIsRead
  <2>2. CASE policy.state = "known" /\ first # RobotsTxt
    BY <1>2, <1>4, <2>2, FetchersAre DEF FetchInv, PolicyIsRead
  <2> QED
    BY <1>7, <2>1, <2>2
<1>9. QueueIsOrderly'
  BY <1>2 DEF FetchInv, QueueIsOrderly
<1>10. ASSUME NEW c \in Callers PROVE AsksPolitely(c)'
  <2>1. AsksPolitely(c) /\ MayAsk(c)' = MayAsk(c)
    BY <1>2 DEF FetchInv, MayAsk
  <2>2. CASE c # first
    BY <1>2, <1>4, <2>1, <2>2, FetchersAre DEF AsksPolitely
  <2>3. CASE c = first
    BY <1>1, <1>2, <1>7, <2>1, <2>3, FetchersAre DEF AsksPolitely
  <2> QED
    BY <2>2, <2>3
<1> QED
  BY <1>5, <1>6, <1>8, <1>9, <1>10 DEF FetchInv

\* What is known of the host from now on is what came of the robots.txt.
LEMMA SettlePolicyKeeps == ASSUME FetchInv, SettlePolicy PROVE FetchInv'
<1>1. /\ policy.state = "asked" /\ queue = <<RobotsTxt>> /\ queue' = <<>>
      /\ UNCHANGED <<errand, page, file, caller>> /\ since' = 0
  <2>1. policy.state = "asked" /\ queue = <<RobotsTxt>> /\ queue' = Tail(queue)
    BY DEF SettlePolicy, FetchInv, PolicyIsRead
  <2>2. PICK line \in Seq({RobotsTxt}) : line = <<RobotsTxt>> /\ Len(line) = 1 /\ line # <<>>
    <3>1. <<RobotsTxt>> \in Seq({RobotsTxt}) /\ Len(<<RobotsTxt>>) = 1
      OBVIOUS
    <3>2. <<RobotsTxt>> # <<>>
      BY <3>1, EmptySeq
    <3> QED
      BY <3>1, <3>2
  <2>3. Tail(line) \in Seq({RobotsTxt}) /\ Len(Tail(line)) = 0
    BY <2>2, HeadTailProperties
  <2>4. Tail(line) = <<>>
    BY <2>3, EmptySeq
  <2> QED
    BY <2>1, <2>2, <2>4 DEF SettlePolicy
<1>2. PICK answer \in Statuses : answer = fetch[RobotsTxt].status
  BY FetchersAre DEF FetchInv, FetchTypeOK, FetchState
<1>3. PICK now \in FetchState : /\ fetch' = [fetch EXCEPT ![RobotsTxt] = now]
                                /\ now.pc = "done" /\ now.age = 0 /\ now.status = answer
  <2>1. PICK k : k = [Off EXCEPT !.pc = "done", !.status = answer]
    OBVIOUS
  <2>2. k = [pc |-> "done", url |-> Elsewhere, at |-> Elsewhere, hops |-> 0, attempt |-> 0,
             elapsed |-> 0, silent |-> 0, received |-> 0, pause |-> 0, age |-> 0, status |-> answer]
    BY <2>1 DEF Off
  <2>3. Elsewhere \in Urls
    BY DEF Urls
  <2>4. k \in FetchState
    BY <2>2, <2>3 DEF FetchState
  <2>5. fetch' = [fetch EXCEPT ![RobotsTxt] = k]
    BY <1>2, <2>1 DEF SettlePolicy
  <2> QED
    BY <2>2, <2>4, <2>5
<1>4. /\ fetch' \in [Fetchers -> FetchState] /\ fetch'[RobotsTxt] = now
      /\ \A g \in Fetchers : g # RobotsTxt => fetch'[g] = fetch[g]
  BY <1>3, FetchersAre DEF FetchInv, FetchTypeOK
<1>5. /\ policy'.state \in {"known", "failed"}
      /\ policy' = [state |-> policy'.state, says |-> policy'.says]
      /\ policy'.state = "known" => policy'.says = ReadRobots(answer, file)
  <2>1. CASE fetch[RobotsTxt].pc = "failed"
    <3>1. PICK says : policy = [state |-> policy.state, says |-> says]
      BY DEF FetchInv, FetchTypeOK
    <3>2. policy' = [policy EXCEPT !.state = "failed"]
      BY <2>1 DEF SettlePolicy
    <3>3. policy' = [state |-> "failed", says |-> says]
      BY <3>1, <3>2
    <3> QED
      BY <3>3
  <2>2. CASE fetch[RobotsTxt].pc # "failed"
    <3>1. policy' = [state |-> "known", says |-> ReadRobots(answer, file)]
      BY <1>2, <2>2 DEF SettlePolicy
    <3> QED
      BY <3>1
  <2> QED
    BY <2>1, <2>2
<1>6. FetchTypeOK'
  <2>1. queue' \in Seq(Fetchers)
    BY <1>1
  <2> QED
    BY <1>1, <1>4, <1>5, <2>1 DEF FetchInv, FetchTypeOK
<1>7. ASSUME NEW f \in Fetchers PROVE OnTime(fetch[f], TriesOf(f))'
  <2>1. PICK n : n = TriesOf(f) /\ OnTime(fetch[f], n)
    BY DEF FetchInv
  <2>2. TriesOf(f)' = n
    BY <1>1, <2>1 DEF TriesOf, StepOf
  <2>3. OnTime(fetch'[f], n)
    BY <1>3, <1>4, <2>1 DEF OnTime
  <2> QED
    BY <2>2, <2>3 DEF OnTime
<1>8. PolicyIsRead'
  BY <1>1, <1>3, <1>4, <1>5 DEF PolicyIsRead
<1>9. QueueIsOrderly'
  BY <1>1 DEF QueueIsOrderly
<1>10. ASSUME NEW c \in Callers PROVE AsksPolitely(c)'
  <2>1. AsksPolitely(c) /\ ~MayAsk(c) /\ fetch'[c] = fetch[c]
    BY <1>1, <1>4, FetchersAre DEF FetchInv, MayAsk
  <2>2. errand[c] = "polite" => caller[c].stage \notin {"queued", "got", "ended"}
    BY <1>1, <2>1 DEF AsksPolitely
  <2> QED
    BY <1>1, <2>1, <2>2 DEF AsksPolitely
<1> QED
  BY <1>6, <1>7, <1>8, <1>9, <1>10 DEF FetchInv

\* The first in the queue leaves it with its answer; the others have not been
\* sent for.
LEMMA HandOutKeeps == ASSUME FetchInv, NEW c \in Callers, HandOut(c) PROVE FetchInv'
<1>1. /\ c \in Fetchers /\ c # RobotsTxt /\ errand[c] = "polite" /\ MayAsk(c)
      /\ queue # <<>> /\ c = Head(queue) /\ policy.state = "known"
  <2>1. caller[c].stage = "queued" /\ fetch[c].pc # "off" /\ AsksPolitely(c)
    BY DEF HandOut, IsOver, FetchInv
  <2> QED
    BY <2>1, FetchersAre DEF AsksPolitely, MayAsk
<1>2. PICK w \in FetchState : w = fetch[c]
  BY <1>1 DEF FetchInv, FetchTypeOK
<1>3. PICK now \in FetchState : /\ fetch' = [fetch EXCEPT ![c] = now]
                                /\ now.pc = "done" /\ now.age = 0
  <2>1. PICK k : k = [Off EXCEPT !.pc = "done", !.at = w.at]
    OBVIOUS
  <2>2. k = [pc |-> "done", url |-> Elsewhere, at |-> w.at, hops |-> 0, attempt |-> 0,
             elapsed |-> 0, silent |-> 0, received |-> 0, pause |-> 0, age |-> 0, status |-> "none"]
    BY <2>1 DEF Off
  <2>3. Elsewhere \in Urls /\ w.at \in Urls /\ "none" \in Statuses
    BY DEF Urls, FetchState, Statuses
  <2>4. k \in FetchState
    BY <2>2, <2>3 DEF FetchState
  <2>5. fetch' = [fetch EXCEPT ![c] = k]
    BY <1>2, <2>1 DEF HandOut
  <2> QED
    BY <2>2, <2>4, <2>5
<1>4. PICK next \in CallerState : /\ caller' = [caller EXCEPT ![c] = next]
                                  /\ next.stage \in {"got", "ended"}
  <2>1. PICK k \in CallerState : k = caller[c]
    BY DEF FetchInv, FetchTypeOK
  <2>2. PICK end \in {"got", "ended"} : caller' = [caller EXCEPT ![c].stage = end]
    BY DEF HandOut
  <2>3. PICK g : g = [k EXCEPT !.stage = end]
    OBVIOUS
  <2>4. g \in CallerState /\ g.stage = end
    BY <2>3 DEF CallerState
  <2>5. caller' = [caller EXCEPT ![c] = g]
    BY <2>1, <2>2, <2>3 DEF FetchInv, FetchTypeOK
  <2> QED
    BY <2>2, <2>4, <2>5
<1>5. /\ fetch' \in [Fetchers -> FetchState] /\ fetch'[c] = now
      /\ \A g \in Fetchers : g # c => fetch'[g] = fetch[g]
      /\ caller' \in [Callers -> CallerState] /\ caller'[c] = next
      /\ \A d \in Callers : d # c => caller'[d] = caller[d]
  BY <1>1, <1>3, <1>4 DEF FetchInv, FetchTypeOK
<1>6. UNCHANGED <<errand, page, file, policy>> /\ since' = 0
  BY DEF HandOut
<1>7. PICK line \in Seq(Fetchers), left \in Seq(Fetchers) :
        /\ line = queue /\ left = queue'
        /\ Len(line) \in Nat /\ Len(line) > 0 /\ line[1] = c
        /\ DOMAIN line = 1..Len(line) /\ DOMAIN left = 1..(Len(line) - 1)
        /\ \A n \in 1..(Len(line) - 1) : left[n] = line[n + 1]
  <2>1. PICK line \in Seq(Fetchers) : line = queue /\ line # <<>>
    BY <1>1 DEF FetchInv, FetchTypeOK
  <2>2. PICK left \in Seq(Fetchers) : left = Tail(line)
    BY <2>1, HeadTailProperties
  <2>3. /\ Len(line) \in Nat /\ Len(line) > 0 /\ line[1] = c
        /\ DOMAIN line = 1..Len(line) /\ DOMAIN left = 1..(Len(line) - 1)
        /\ \A n \in 1..(Len(line) - 1) : left[n] = line[n + 1]
    BY <1>1, <2>1, <2>2
  <2>4. left = queue'
    BY <2>1, <2>2 DEF HandOut
  <2> QED
    BY <2>1, <2>3, <2>4
<1>8. FetchTypeOK'
  BY <1>5, <1>6, <1>7 DEF FetchInv, FetchTypeOK
<1>9. ASSUME NEW f \in Fetchers PROVE OnTime(fetch[f], TriesOf(f))'
  <2>1. CASE f = c
    BY <1>3, <1>5, <2>1 DEF OnTime
  <2>2. CASE f # c
    <3>1. TriesOf(f)' = TriesOf(f)
      BY <1>5, <1>6, <2>2 DEF TriesOf, StepOf
    <3>2. OnTime(fetch[f], TriesOf(f))
      BY DEF FetchInv
    <3> QED
      BY <1>5, <2>2, <3>1, <3>2 DEF OnTime
  <2> QED
    BY <2>1, <2>2
<1>10. PolicyIsRead'
  <2>1. fetch'[RobotsTxt] = fetch[RobotsTxt]
    BY <1>1, <1>5, FetchersAre
  <2> QED
    BY <1>1, <1>6, <2>1 DEF FetchInv, PolicyIsRead
<1>11. QueueIsOrderly'
  <2>1. /\ \A n \in DOMAIN line : /\ line[n] \in Callers
                                  /\ errand[line[n]] = "polite"
                                  /\ caller[line[n]].stage = "queued"
        /\ \A m, n \in DOMAIN line : line[m] = line[n] => m = n
    BY <1>1, <1>7 DEF FetchInv, QueueIsOrderly
  <2>2. \A n \in DOMAIN left : n \in Nat /\ n + 1 \in DOMAIN line /\ n + 1 # 1 /\ 1 \in DOMAIN line
                               /\ left[n] = line[n + 1]
    BY <1>7
  <2>3. \A n \in DOMAIN left : left[n] # c
    BY <1>7, <2>1, <2>2
  <2>4. \A n \in DOMAIN left : /\ left[n] \in Callers
                               /\ errand[left[n]] = "polite"
                               /\ caller'[left[n]].stage = "queued"
    BY <1>5, <2>1, <2>2, <2>3
  <2>5. \A m, n \in DOMAIN left : left[m] = left[n] => m = n
    BY <2>1, <2>2
  <2> QED
    BY <1>6, <1>7, <2>4, <2>5 DEF QueueIsOrderly
<1>12. ASSUME NEW d \in Callers PROVE AsksPolitely(d)'
  <2>0. AsksPolitely(d) /\ MayAsk(d)' = MayAsk(d)
    BY <1>6 DEF FetchInv, MayAsk
  <2>1. CASE d = c
    BY <1>1, <1>3, <1>4, <1>5, <1>6, <2>0, <2>1 DEF AsksPolitely
  <2>2. CASE d # c
    <3>1. errand[d] = "polite" /\ caller[d].stage = "queued" => fetch[d].pc = "off"
      BY <1>1, <2>0, <2>2 DEF AsksPolitely
    <3>2. fetch'[d] = fetch[d] /\ caller'[d] = caller[d]
      BY <1>5, <2>2, FetchersAre
    <3> QED
      BY <1>6, <2>0, <3>1, <3>2 DEF AsksPolitely
  <2> QED
    BY <2>1, <2>2
<1> QED
  BY <1>8, <1>9, <1>10, <1>11, <1>12 DEF FetchInv

-----------------------------------------------------------------------------

\* Time passes for every fetch, and not over a timer that is due.
LEMMA FetchAges ==
    ASSUME FetchInv, Tick, NEW f \in Fetchers
    PROVE  /\ fetch'[f] \in FetchState /\ OnTime(fetch'[f], TriesOf(f))
           /\ fetch'[f].pc = fetch[f].pc /\ fetch'[f].status = fetch[f].status
<1>1. PICK w \in FetchState, n \in Nat : w = fetch[f] /\ n = TriesOf(f) /\ OnTime(w, n)
  BY TriesOfIs DEF FetchInv, FetchTypeOK
<1>2. w.elapsed \in Nat /\ w.silent \in Nat /\ w.age \in Nat /\ w.pause \in Nat /\ w.attempt \in Nat
  BY DEF FetchState
<1>3. fetch'[f] = IF Waiting(f) THEN [w EXCEPT !.elapsed = w.elapsed + 1, !.silent = w.silent + 1,
                                               !.age = w.age + 1]
                  ELSE IF w.pc = "pause" THEN [w EXCEPT !.pause = w.pause - 1, !.age = w.age + 1]
                  ELSE w
  BY <1>1 DEF Tick
<1>4. ~IsDue(f)
  BY DEF Tick
<1>5. w.attempt * Round \in Nat
  BY <1>2, Rounds
<1>6. CASE Waiting(f)
  <2>1. PICK now : now = [w EXCEPT !.elapsed = w.elapsed + 1, !.silent = w.silent + 1,
                                   !.age = w.age + 1]
    OBVIOUS
  <2>2. w.elapsed + 1 \in Nat /\ w.silent + 1 \in Nat /\ w.age + 1 \in Nat
    BY <1>2
  <2>3. /\ now \in FetchState /\ now.pc = w.pc /\ now.status = w.status
        /\ now.attempt = w.attempt /\ now.elapsed = w.elapsed + 1 /\ now.age = w.age + 1
    BY <2>1, <2>2 DEF FetchState
  <2>4. w.pc \in {"headers", "body"} /\ w.elapsed # TotalTicks
    BY <1>1, <1>4, <1>6 DEF Waiting, IsDue, TotalDue
  <2>5. w.attempt \in 1..n /\ w.elapsed <= TotalTicks /\ w.age <= (w.attempt - 1) * Round + w.elapsed
    BY <1>1, <2>4 DEF OnTime
  <2>6. PICK before \in Nat : before = (w.attempt - 1) * Round
    <3>1. w.attempt - 1 \in Nat
      BY <1>2, <2>5
    <3> QED
      BY <3>1, Rounds
  <2>7. w.elapsed + 1 <= TotalTicks /\ w.age + 1 <= before + (w.elapsed + 1)
    <3>1. PICK all \in Nat, spent \in Nat, age \in Nat :
            all = TotalTicks /\ spent = w.elapsed /\ age = w.age
      BY <1>2, Ticks
    <3>2. spent # all /\ spent <= all /\ age <= before + spent
      BY <2>4, <2>5, <2>6, <3>1
    <3>3. spent + 1 <= all /\ age + 1 <= before + (spent + 1)
      BY <3>2
    <3> QED
      BY <3>1, <3>3
  <2>8. OnTime(now, n)
    BY <2>3, <2>4, <2>5, <2>6, <2>7 DEF OnTime
  <2> QED
    BY <1>1, <1>3, <1>6, <2>1, <2>3, <2>8
<1>7. CASE w.pc = "pause"
  <2>1. PICK now : now = [w EXCEPT !.pause = w.pause - 1, !.age = w.age + 1]
    OBVIOUS
  <2>4. w.pause # 0 /\ ~Waiting(f)
    BY <1>1, <1>4, <1>7 DEF IsDue, Waiting
  <2>2. w.pause - 1 \in Nat /\ w.age + 1 \in Nat
    BY <1>2, <2>4
  <2>3. /\ now \in FetchState /\ now.pc = w.pc /\ now.status = w.status
        /\ now.attempt = w.attempt /\ now.pause = w.pause - 1 /\ now.age = w.age + 1
    BY <2>1, <2>2 DEF FetchState
  <2>5. w.attempt \in 1..n /\ w.attempt < n /\ w.pause <= PauseMost
        /\ w.age + w.pause <= w.attempt * Round
    BY <1>1, <1>7 DEF OnTime
  <2>6. PICK rounds \in Nat : rounds = w.attempt * Round
    BY <1>5
  <2>7. w.pause - 1 <= PauseMost /\ (w.age + 1) + (w.pause - 1) <= rounds
    <3>1. PICK most \in Nat, left \in Nat, age \in Nat :
            most = PauseMost /\ left = w.pause /\ age = w.age
      BY <1>2, Ticks
    <3>2. left # 0 /\ left <= most /\ age + left <= rounds
      BY <2>4, <2>5, <2>6, <3>1
    <3>3. left - 1 <= most /\ (age + 1) + (left - 1) <= rounds
      BY <3>2
    <3> QED
      BY <3>1, <3>3
  <2>8. OnTime(now, n)
    BY <1>7, <2>3, <2>5, <2>6, <2>7 DEF OnTime
  <2> QED
    BY <1>1, <1>3, <1>7, <2>1, <2>3, <2>4, <2>8
<1>8. CASE ~Waiting(f) /\ w.pc # "pause"
  BY <1>1, <1>3, <1>8
<1> QED
  BY <1>6, <1>7, <1>8

\* Time moves no collector but its rest.
LEMMA CallerRests ==
    ASSUME FetchInv, Tick, NEW c \in Callers
    PROVE  /\ caller'[c] \in CallerState
           /\ caller'[c].stage = caller[c].stage /\ caller'[c].step = caller[c].step
<1>1. PICK k \in CallerState : k = caller[c]
  BY DEF FetchInv, FetchTypeOK
<1>2. PICK rest \in Nat : rest = Larger(k.rest - 1, 0)
  <2>1. k.rest \in Nat
    BY DEF CallerState
  <2>2. Larger(k.rest - 1, 0) \in Nat
    BY <2>1 DEF Larger
  <2> QED
    BY <2>2
<1>3. PICK now : now = [k EXCEPT !.rest = rest]
  OBVIOUS
<1>4. now \in CallerState /\ now.stage = k.stage /\ now.step = k.step
  BY <1>3 DEF CallerState
<1>5. caller'[c] = now
  BY <1>1, <1>2, <1>3 DEF Tick
<1> QED
  BY <1>1, <1>4, <1>5

\* The tick keeps the invariant: no timer that is due is passed over.
LEMMA TickKeeps == ASSUME FetchInv, Tick PROVE FetchInv'
<1>1. UNCHANGED <<errand, page, file, policy, queue>> /\ since' \in Nat
  <2>1. since \in Nat /\ since' = Smaller(since + 1, Interval)
    BY DEF FetchInv, FetchTypeOK, Tick
  <2>2. since' \in Nat
    BY <2>1, Ticks DEF Smaller
  <2> QED
    BY <2>2 DEF Tick
<1>2. fetch' \in [Fetchers -> FetchState]
  <2>1. DOMAIN fetch' = Fetchers /\ fetch' = [f \in Fetchers |-> fetch'[f]]
    BY DEF Tick
  <2> QED
    BY <2>1, FetchAges
<1>3. caller' \in [Callers -> CallerState]
  <2>1. caller' = [c \in Callers |-> caller'[c]]
    BY DEF Tick
  <2> QED
    BY <2>1, CallerRests
<1>4. FetchTypeOK'
  BY <1>1, <1>2, <1>3 DEF FetchInv, FetchTypeOK
<1>5. ASSUME NEW f \in Fetchers PROVE OnTime(fetch[f], TriesOf(f))'
  <2>1. TriesOf(f)' = TriesOf(f)
    BY <1>1, CallerRests DEF TriesOf, StepOf
  <2>2. OnTime(fetch'[f], TriesOf(f))
    BY FetchAges
  <2> QED
    BY <2>1, <2>2 DEF OnTime
<1>6. PolicyIsRead'
  <2>1. /\ fetch'[RobotsTxt].pc = fetch[RobotsTxt].pc
        /\ fetch'[RobotsTxt].status = fetch[RobotsTxt].status
    BY FetchersAre, FetchAges
  <2> QED
    BY <1>1, <2>1 DEF FetchInv, PolicyIsRead
<1>7. QueueIsOrderly'
  BY <1>1, CallerRests DEF FetchInv, QueueIsOrderly
<1>8. ASSUME NEW c \in Callers PROVE AsksPolitely(c)'
  <2>1. AsksPolitely(c) /\ MayAsk(c)' = MayAsk(c)
    BY <1>1 DEF FetchInv, MayAsk
  <2>2. fetch'[c].pc = fetch[c].pc /\ caller'[c].stage = caller[c].stage
    BY FetchersAre, FetchAges, CallerRests
  <2> QED
    BY <1>1, <2>1, <2>2 DEF AsksPolitely
<1> QED
  BY <1>4, <1>5, <1>6, <1>7, <1>8 DEF FetchInv

\* Every step of the host, the clock and the collectors keeps the invariant.
LEMMA FetchSteps == ASSUME FetchInv, [FetchNext]_fetching PROVE FetchInv'
<1>1. CASE UNCHANGED fetching
  <2>1. UNCHANGED <<errand, page, file, policy, queue, since, fetch, caller>>
    BY <1>1 DEF fetching
  <2>2. FetchTypeOK' /\ PolicyIsRead' /\ QueueIsOrderly'
    BY <2>1 DEF FetchInv, FetchTypeOK, PolicyIsRead, QueueIsOrderly
  <2>3. \A f \in Fetchers : OnTime(fetch[f], TriesOf(f))'
    BY <2>1 DEF FetchInv, OnTime, TriesOf, StepOf
  <2>4. \A c \in Callers : AsksPolitely(c)'
    BY <2>1 DEF FetchInv, AsksPolitely, MayAsk
  <2> QED
    BY <2>2, <2>3, <2>4 DEF FetchInv
<1>2. CASE \E f \in Fetchers : Host(f) \/ TimeOut(f) \/ TryAgain(f)
  BY <1>2, HostKeeps, TimeOutKeeps, TryAgainKeeps
<1>3. CASE SendNext \/ SettlePolicy \/ Tick
  BY <1>3, SendNextKeeps, SettlePolicyKeeps, TickKeeps
<1>4. ASSUME NEW c \in Callers,
             \/ AskPolicy(c) \/ HearPolicy(c) \/ HandOut(c)
             \/ Begin(c) \/ Proceed(c) \/ ReadQuery(c)
             \/ \E wait \in {0, SlotPause} : ReadSlots(c, wait)
      PROVE  FetchInv'
  BY <1>4, AskPolicyKeeps, HearPolicyKeeps, HandOutKeeps, BeginKeeps, ProceedKeeps, ReadQueryKeeps,
     ReadSlotsKeeps
<1> QED
  BY <1>1, <1>2, <1>3, <1>4 DEF FetchNext, Collect

\* Whatever a host answers, however often it asks to be tried later and
\* whenever it falls silent, a fetch is over within the time of its attempts
\* and pauses, an agency's page is asked for only when its host's robots.txt
\* was read and permits it, and no host is asked two polite things at once: for
\* all limits, callers, pages and robots.txt (PolicyIsReadAsWritten).
THEOREM FetchesAreBounded == FetchSpec => []FetchesKeepWithin
<1>1. FetchInit => FetchInv
  BY FetchStart
<1>2. FetchInv /\ [FetchNext]_fetching => FetchInv'
  BY FetchSteps
<1>3. FetchInv => FetchesKeepWithin
  BY FetchInvImplies
<1> QED
  BY <1>1, <1>2, <1>3, PTL DEF FetchSpec

------------------------------------------------------------------------------
(* The facts of scans (ScanFacts).                                            *)

\* The least of a set of numbers, and the greatest of a finite one.
LEMMA EndsOf ==
    ASSUME NEW S, S \subseteq Nat, S # {}
    PROVE  /\ Min(S) \in S /\ \A k \in S : Min(S) <= k
           /\ IsFiniteSet(S) => Max(S) \in S /\ \A k \in S : k <= Max(S)
<1>1. Min(S) \in S /\ \A k \in S : Min(S) <= k
  BY LeastOf DEF Min
<1>2. ASSUME IsFiniteSet(S)
      PROVE  Max(S) \in S /\ \A k \in S : k <= Max(S)
  <2>1. PICK n \in S : \A k \in S : k <= n
    BY <1>2, GreatestOf
  <2>2. \A k \in S : k \in Nat /\ (n >= k <=> k <= n)
    OBVIOUS
  <2> QED
    BY <2>1, <2>2 DEF Max
<1> QED
  BY <1>1, <1>2

\* More numbers have no greater least one, and no lesser greatest.
LEMMA MoreReachFurther ==
    ASSUME NEW B, B \subseteq Nat, NEW A, A \subseteq B, A # {}
    PROVE  /\ Min(A) \in Nat /\ Min(B) \in Nat /\ Min(B) <= Min(A)
           /\ IsFiniteSet(B) => Max(A) \in Nat /\ Max(B) \in Nat /\ Max(A) <= Max(B)
<1>1. Min(A) \in A /\ Min(B) \in B /\ \A k \in B : Min(B) <= k
  BY EndsOf
<1>2. ASSUME IsFiniteSet(B)
      PROVE  Max(A) \in A /\ Max(B) \in B /\ \A k \in B : k <= Max(B)
  BY <1>2, EndsOf, FS_Subset
<1> QED
  BY <1>1, <1>2

-----------------------------------------------------------------------------
(* The words of a reading.                                                   *)

Printing == [x0 : Nat, x1 : Nat, y0 : Nat, y1 : Nat, sure : Nat]
WordCounts(r) == 0..Len(Ink[r])

\* The words of a fact's figures among the first n, and all of the first n.
OwnWords(r, f, n) == {Ink[r][i] : i \in Printed[r][f] \cap 1..n}
AllWords(r, n) == {Ink[r][i] : i \in 1..n}

LEMMA WordsAreFew ==
    ASSUME NEW r \in ScanReadings, NEW f, NEW m \in WordCounts(r), NEW n \in 0..m
    PROVE  /\ AllWords(r, m) \subseteq Printing /\ IsFiniteSet(AllWords(r, m))
           /\ OwnWords(r, f, m) \subseteq AllWords(r, m) /\ IsFiniteSet(OwnWords(r, f, m))
           /\ AllWords(r, n) \subseteq AllWords(r, m)
           /\ OwnWords(r, f, n) \subseteq OwnWords(r, f, m)
<1>1. Ink[r] \in Seq(Printing)
  BY ScansAreBounded DEF Printing
<1>2. \A i \in 1..m : i \in 1..Len(Ink[r]) /\ Ink[r][i] \in Printing
  BY <1>1 DEF WordCounts
<1>3. AllWords(r, m) \subseteq Printing
  BY <1>2 DEF AllWords
<1>4. IsFiniteSet(AllWords(r, m))
  <2> DEFINE Word == [i \in 1..m |-> Ink[r][i]]
  <2>1. m \in Nat /\ IsFiniteSet(1..m)
    BY FS_Interval, <1>1 DEF WordCounts
  <2>2. Word \in Surjection(1..m, AllWords(r, m))
    BY DEF Surjection, AllWords
  <2> HIDE DEF Word
  <2> QED
    BY <2>1, <2>2, FS_Surjection
<1>5. OwnWords(r, f, m) \subseteq AllWords(r, m)
  BY DEF OwnWords, AllWords
<1>6. 1..n \subseteq 1..m
  BY <1>1 DEF WordCounts
<1> QED
  BY <1>3, <1>4, <1>5, <1>6, FS_Subset DEF OwnWords, AllWords

\* The box around some words lies in the box around more of them.
LEMMA BoxesGrow ==
    ASSUME NEW V, V \subseteq Printing, IsFiniteSet(V), NEW W, W \subseteq V, W # {}
    PROVE  /\ Union(W) \in Boxes /\ Union(V) \in Boxes
           /\ Within(Union(W), Union(V))
<1> DEFINE Left(S)  == {w.x0 : w \in S}
           Right(S) == {w.x1 : w \in S}
           Head0(S)  == {w.y0 : w \in S}
           Foot(S)  == {w.y1 : w \in S}
<1>1. \A w \in V : w.x0 \in Nat /\ w.x1 \in Nat /\ w.y0 \in Nat /\ w.y1 \in Nat
  BY DEF Printing
<1>2. IsFiniteSet(Right(V)) /\ IsFiniteSet(Foot(V))
  <2>1. [w \in V |-> w.x1] \in Surjection(V, Right(V))
    BY DEF Surjection
  <2>2. [w \in V |-> w.y1] \in Surjection(V, Foot(V))
    BY DEF Surjection
  <2> QED
    BY <2>1, <2>2, FS_Surjection
<1>3. /\ Left(V) \subseteq Nat /\ Left(W) \subseteq Left(V) /\ Left(W) # {}
      /\ Right(V) \subseteq Nat /\ Right(W) \subseteq Right(V) /\ Right(W) # {}
      /\ Head0(V) \subseteq Nat /\ Head0(W) \subseteq Head0(V) /\ Head0(W) # {}
      /\ Foot(V) \subseteq Nat /\ Foot(W) \subseteq Foot(V) /\ Foot(W) # {}
  BY <1>1
<1> HIDE DEF Left, Right, Head0, Foot
<1>4. /\ Min(Left(W)) \in Nat /\ Min(Left(V)) \in Nat /\ Min(Left(V)) <= Min(Left(W))
      /\ Max(Right(W)) \in Nat /\ Max(Right(V)) \in Nat /\ Max(Right(W)) <= Max(Right(V))
  BY <1>2, <1>3, MoreReachFurther
<1>5. /\ Min(Head0(W)) \in Nat /\ Min(Head0(V)) \in Nat /\ Min(Head0(V)) <= Min(Head0(W))
      /\ Max(Foot(W)) \in Nat /\ Max(Foot(V)) \in Nat /\ Max(Foot(W)) <= Max(Foot(V))
  BY <1>2, <1>3, MoreReachFurther
<1>6. \A S : Union(S) = [x0 |-> Min(Left(S)), x1 |-> Max(Right(S)),
                         y0 |-> Min(Head0(S)), y1 |-> Max(Foot(S))]
  BY DEF Union, Left, Right, Head0, Foot
<1> QED
  BY <1>4, <1>5, <1>6 DEF Within, Boxes

\* What some of a reading's words say of a figure is no less than what all of
\* them say, and stands in no other place.
LEMMA MoreWordsAreNoSurer ==
    ASSUME NEW r \in ScanReadings, NEW f, NEW m \in WordCounts(r), NEW n \in 0..m
    PROVE  /\ Weakest(r, f, n) # Unmeasured =>
                /\ Weakest(r, f, n) \in Nat /\ Weakest(r, f, m) \in Nat
                /\ Weakest(r, f, n) >= Weakest(r, f, m)
           /\ BoxOf(r, f, n) # Unmeasured => Within(BoxOf(r, f, n), BoxOf(r, f, m))
<1> DEFINE Own == OwnWords(r, f, n)
           More == OwnWords(r, f, m)
<1>1. /\ AllWords(r, m) \subseteq Printing /\ IsFiniteSet(AllWords(r, m))
      /\ More \subseteq AllWords(r, m) /\ IsFiniteSet(More)
      /\ AllWords(r, n) \subseteq AllWords(r, m) /\ Own \subseteq More
  BY WordsAreFew
<1>2. Own # {} => /\ Union(Own) \in Boxes /\ Union(More) \in Boxes
                  /\ Within(Union(Own), Union(More))
  BY <1>1, BoxesGrow
<1>3. /\ BoxOf(r, f, n) = IF Own = {} THEN Unmeasured ELSE Union(Own)
      /\ BoxOf(r, f, m) = IF More = {} THEN Unmeasured ELSE Union(More)
  BY DEF BoxOf, OwnWords
<1>4. /\ WordsUnder(r, f, n) = IF parser = "notice" \/ Own = {} THEN Own
            ELSE {w \in AllWords(r, n) : Overlaps(w, Union(Own))}
      /\ WordsUnder(r, f, m) = IF parser = "notice" \/ More = {} THEN More
            ELSE {w \in AllWords(r, m) : Overlaps(w, Union(More))}
  BY DEF WordsUnder, OwnWords, AllWords
<1>5. WordsUnder(r, f, n) \subseteq WordsUnder(r, f, m) /\ WordsUnder(r, f, m) \subseteq Printing
  <2>1. CASE parser = "notice" \/ Own = {}
    BY <2>1, <1>1, <1>4
  <2>2. CASE parser # "notice" /\ Own # {}
    <3>1. \A w \in Printing : Overlaps(w, Union(Own)) => Overlaps(w, Union(More))
      <4> SUFFICES ASSUME NEW w \in Printing, NEW less \in Boxes, NEW more \in Boxes,
                          Within(less, more), Overlaps(w, less)
                   PROVE  Overlaps(w, more)
        BY <1>2, <2>2
      <4> QED
        BY DEF Overlaps, Within, Boxes, Printing
    <3> QED
      BY <3>1, <2>2, <1>1, <1>4
  <2> QED
    BY <2>1, <2>2
<1>6. ASSUME Weakest(r, f, n) # Unmeasured
      PROVE  /\ Weakest(r, f, n) \in Nat /\ Weakest(r, f, m) \in Nat
             /\ Weakest(r, f, n) >= Weakest(r, f, m)
  <2> DEFINE Sure(S) == {w.sure : w \in S}
  <2>1. WordsUnder(r, f, n) # {} /\ WordsUnder(r, f, m) # {}
    BY <1>5, <1>6 DEF Weakest
  <2>2. /\ Sure(WordsUnder(r, f, m)) \subseteq Nat
        /\ Sure(WordsUnder(r, f, n)) \subseteq Sure(WordsUnder(r, f, m))
        /\ Sure(WordsUnder(r, f, n)) # {}
    BY <1>5, <2>1 DEF Printing
  <2>3. /\ Weakest(r, f, n) = Min(Sure(WordsUnder(r, f, n)))
        /\ Weakest(r, f, m) = Min(Sure(WordsUnder(r, f, m)))
    BY <2>1 DEF Weakest
  <2> HIDE DEF Sure
  <2> QED
    BY <2>2, <2>3, MoreReachFurther
<1> QED
  BY <1>1, <1>2, <1>3, <1>6

-----------------------------------------------------------------------------
(* The run that reads the facts.                                             *)

\* A finite set can be gone through one by one.
LEMMA EachIsListed ==
    ASSUME NEW S, IsFiniteSet(S)
    PROVE  SetToSeq(S) \in Seq(S) /\ ToSet(SetToSeq(S)) = S
<1> DEFINE n == Cardinality(S)
<1>1. n \in Nat /\ ExistsBijection(1..n, S) /\ IsFiniteSet(1..n) /\ Cardinality(1..n) = n
  BY FS_CardinalityType, FS_Interval
<1>2. PICK b \in Bijection(1..n, S) : TRUE
  BY <1>1 DEF ExistsBijection
<1>3. b \in [1..n -> S] /\ \A i, j \in 1..n : b[i] = b[j] => i = j
  BY <1>2 DEF Bijection, Injection, IsInjective
<1>4. \E q \in [1..n -> S] : IsInjective(q)
  BY <1>3 DEF IsInjective
<1>5. SetToSeq(S) \in [1..n -> S] /\ IsInjective(SetToSeq(S))
  BY <1>4 DEF SetToSeq
<1> DEFINE q == SetToSeq(S)
<1>6. q \in Injection(1..n, S)
  BY <1>5 DEF IsInjective, Injection
<1>7. q \in Surjection(1..n, S)
  BY <1>1, <1>6, FS_Injection
<1>8. ToSet(q) = S
  BY <1>5, <1>7 DEF Surjection, ToSet
<1> QED
  BY <1>1, <1>5, <1>8

LEMMA FactsAreFew ==
    ASSUME NEW ink, DOMAIN ink \subseteq ScanReadings
    PROVE  IsFiniteSet(Produced(ink))
<1>1. IsFiniteSet({FactsOf(r) : r \in DOMAIN ink})
  <2>1. [r \in DOMAIN ink |-> FactsOf(r)] \in Surjection(DOMAIN ink, {FactsOf(r) : r \in DOMAIN ink})
    BY DEF Surjection
  <2>2. IsFiniteSet(DOMAIN ink)
    BY FactsAreOfOneReading, FS_Subset
  <2> QED
    BY <2>1, <2>2, FS_Surjection
<1>2. \A S \in {FactsOf(r) : r \in DOMAIN ink} : IsFiniteSet(S)
  BY FactsAreOfOneReading
<1>3. IsFiniteSet(UNION {FactsOf(r) : r \in DOMAIN ink})
  BY <1>1, <1>2, FS_UNION
<1> QED
  BY <1>3, FactsAreOfOneReading, FS_Union DEF Produced

RowFields == {"scan", "box", "legible", "scaled", "status"}
RunFields == {"pc", "runs", "ink", "held", "todo"}

\* A row of a scan says of its figures what some of the reading's words said.
RowIsMeasured(f, x) ==
    x.scan # Unmeasured =>
        LET r == x.scan
        IN  /\ r \in ScanReadings /\ f \in FactsOf(r)
            /\ \E n \in WordCounts(r) : x.legible = Weakest(r, f, n)
            /\ \E n \in WordCounts(r) : x.scaled = Weakest(r, f, n)
            /\ \E n \in WordCounts(r) : x.box = BoxOf(r, f, n)

InkIsThere(ink) ==
    /\ DOMAIN ink \subseteq ScanReadings
    /\ \A r \in DOMAIN ink : ink[r] \in WordCounts(r)

\* The row of a fact says what the run read.
Landed(f) == f \in DOMAIN fact /\ fact[f].legible = Candidate(f, facts.ink).legible

\* While a run loads: each fact it is past has landed, and of the rest it
\* remembers what the rows say.
LoadIsOnTrack ==
    /\ facts.todo \in Seq(Produced(facts.ink))
    /\ DOMAIN facts.held \subseteq DOMAIN fact
    /\ \A f \in DOMAIN facts.held :
          fact[f].legible = facts.held[f].legible \/ (f \in Produced(facts.ink) /\ Landed(f))
    /\ \A f \in Produced(facts.ink) : f \in ToSet(facts.todo) \/ Landed(f)

ScansInv ==
    /\ InkIsThere(inked)
    /\ filing \in DOMAIN inked \cup {Unmeasured}
    /\ fact = [f \in DOMAIN fact |-> fact[f]]
    /\ \A f \in DOMAIN fact : fact[f] = [g \in RowFields |-> fact[f][g]]
    /\ \A f \in DOMAIN fact : RowIsMeasured(f, fact[f])
    /\ facts = [g \in RunFields |-> facts[g]]
    /\ InkIsThere(facts.ink) /\ DOMAIN facts.ink \subseteq DOMAIN inked
    /\ facts.pc = "load" => LoadIsOnTrack
    /\ facts.pc = "done" => (\A f \in Produced(facts.ink) : Landed(f)) /\ DecidedFactsStay

\* What a run reads of a scan's fact.
LEMMA CandidateOfScan ==
    ASSUME NEW ink, InkIsThere(ink), NEW r \in DOMAIN ink, NEW f \in FactsOf(r)
    PROVE  Candidate(f, ink) = ScanFact(r, f, ink[r])
<1>1. f \notin TypedFacts
  BY FactsAreOfOneReading DEF InkIsThere
<1>2. \A x \in DOMAIN ink : f \in FactsOf(x) => x = r
  BY FactsAreOfOneReading DEF InkIsThere
<1>3. (CHOOSE x \in DOMAIN ink : f \in FactsOf(x)) = r
  BY <1>2
<1> QED
  BY <1>1, <1>3 DEF Candidate

LEMMA CandidateIsMeasured ==
    ASSUME NEW ink, InkIsThere(ink), NEW f \in Produced(ink)
    PROVE  LET c == Candidate(f, ink)
           IN  /\ c = [g \in RowFields |-> c[g]]
               /\ RowIsMeasured(f, c)
               /\ \A x : RowIsMeasured(f, x) /\ x.scan # Unmeasured =>
                     /\ \E n \in WordCounts(x.scan) : c.legible = Weakest(x.scan, f, n)
                     /\ \E n \in WordCounts(x.scan) : c.box = BoxOf(x.scan, f, n)
<1>1. CASE f \in TypedFacts
  <2>1. Candidate(f, ink) = TypedFact
    BY <1>1 DEF Candidate
  <2>2. \A x : RowIsMeasured(f, x) => x.scan = Unmeasured
    BY <1>1, FactsAreOfOneReading DEF RowIsMeasured
  <2>3. /\ TypedFact = [g \in RowFields |-> TypedFact[g]]
        /\ TypedFact.scan = Unmeasured
    BY DEF TypedFact, RowFields
  <2> QED
    BY <2>1, <2>2, <2>3 DEF RowIsMeasured
<1>2. CASE f \notin TypedFacts
  <2>1. PICK r \in DOMAIN ink : f \in FactsOf(r)
    BY <1>2 DEF Produced
  <2>2. Candidate(f, ink) = ScanFact(r, f, ink[r])
    BY <2>1, CandidateOfScan
  <2>3. r \in ScanReadings /\ ink[r] \in WordCounts(r)
    BY DEF InkIsThere
  <2>4. \A x : RowIsMeasured(f, x) /\ x.scan # Unmeasured => x.scan = r
    BY <2>1, <2>3, FactsAreOfOneReading DEF RowIsMeasured
  <2> DEFINE c == ScanFact(r, f, ink[r])
  <2>5. /\ c = [g \in RowFields |-> c[g]]
        /\ c.scan = r /\ c.legible = Weakest(r, f, ink[r]) /\ c.scaled = Weakest(r, f, ink[r])
        /\ c.box = BoxOf(r, f, ink[r])
    BY DEF ScanFact, RowFields
  <2> HIDE DEF c
  <2>6. RowIsMeasured(f, c)
    BY <2>1, <2>3, <2>5 DEF RowIsMeasured
  <2> QED
    BY <2>2, <2>3, <2>4, <2>5, <2>6 DEF c
<1> QED
  BY <1>1, <1>2

LEMMA ScansStart == ScansInit => ScansInv
<1> SUFFICES ASSUME ScansInit
             PROVE  ScansInv
  OBVIOUS
<1>1. /\ inked = <<>> /\ filing = Unmeasured
      /\ fact = [f \in OldFacts |-> TypedFact] /\ facts = NoRun
  BY DEF ScansInit
<1>2. DOMAIN inked = {} /\ DOMAIN facts.ink = {} /\ facts.pc = "none"
  BY <1>1 DEF NoRun
<1>3. TypedFact = [g \in RowFields |-> TypedFact[g]] /\ TypedFact.scan = Unmeasured
  BY DEF TypedFact, RowFields
<1>4. NoRun = [g \in RunFields |-> NoRun[g]]
  BY DEF NoRun, RunFields
<1>5. DOMAIN fact = OldFacts /\ \A f \in DOMAIN fact : fact[f] = TypedFact
  BY <1>1
<1>6. \A f \in DOMAIN fact : RowIsMeasured(f, fact[f])
  BY <1>3, <1>5 DEF RowIsMeasured
<1> QED
  BY <1>1, <1>2, <1>3, <1>4, <1>5, <1>6 DEF ScansInv, InkIsThere

\* Nothing changes whose document it is, so nothing changes what words say.
LEMMA WordsSayTheSame ==
    ASSUME parser' = parser
    PROVE  /\ \A r, f, n : Weakest(r, f, n)' = Weakest(r, f, n)
           /\ \A f, ink : Candidate(f, ink)' = Candidate(f, ink)
           /\ \A f, x : RowIsMeasured(f, x)' = RowIsMeasured(f, x)
<1>1. ASSUME NEW r, NEW f, NEW n
      PROVE  Weakest(r, f, n)' = Weakest(r, f, n)
  BY DEF Weakest, WordsUnder
<1>2. ASSUME NEW r, NEW f, NEW n
      PROVE  ScanFact(r, f, n)' = ScanFact(r, f, n)
  BY <1>1 DEF ScanFact
<1>3. ASSUME NEW f, NEW ink
      PROVE  Candidate(f, ink)' = Candidate(f, ink)
  BY <1>2 DEF Candidate
<1>4. ASSUME NEW f, NEW x
      PROVE  RowIsMeasured(f, x)' = RowIsMeasured(f, x)
  BY <1>1 DEF RowIsMeasured
<1> QED
  BY <1>1, <1>3, <1>4

\* Filing words disturbs nothing that was read of those before.
LEMMA FilingStands ==
    ASSUME ScansInv, UNCHANGED <<parser, fact, facts>>,
           InkIsThere(inked'), filing' \in DOMAIN inked' \cup {Unmeasured},
           DOMAIN inked \subseteq DOMAIN inked'
    PROVE  ScansInv'
<1>1. parser' = parser /\ fact' = fact /\ facts' = facts
  OBVIOUS
<1>2. /\ \A f : Landed(f)' = Landed(f)
      /\ DecidedFactsStay' = DecidedFactsStay
  BY <1>1, WordsSayTheSame DEF Landed, DecidedFactsStay
<1>3. LoadIsOnTrack' = LoadIsOnTrack
  BY <1>1, <1>2 DEF LoadIsOnTrack
<1>4. (\A f \in DOMAIN fact : RowIsMeasured(f, fact[f]))'
  BY <1>1, WordsSayTheSame DEF ScansInv
<1>5. /\ fact' = [f \in DOMAIN fact' |-> fact'[f]]
      /\ \A f \in DOMAIN fact' : fact'[f] = [g \in RowFields |-> fact'[f][g]]
      /\ facts' = [g \in RunFields |-> facts'[g]]
      /\ InkIsThere(facts'.ink) /\ DOMAIN facts'.ink \subseteq DOMAIN inked'
  BY <1>1 DEF ScansInv
<1>6. /\ facts'.pc = "load" => LoadIsOnTrack'
      /\ facts'.pc = "done" => (\A f \in Produced(facts.ink) : Landed(f))' /\ DecidedFactsStay'
  BY <1>1, <1>2, <1>3 DEF ScansInv
<1> QED
  BY <1>4, <1>5, <1>6 DEF ScansInv

LEMMA FilingSteps ==
    ASSUME ScansInv, (\E r \in ScanReadings : InsertScan(r)) \/ InsertWord \/ LoseFiling
    PROVE  ScansInv'
<1>0. \A r \in ScanReadings : Len(Ink[r]) \in Nat /\ (Ink[r] # <<>> => Len(Ink[r]) > 0)
  BY ScansAreBounded
<1>1. ASSUME NEW r \in ScanReadings, InsertScan(r)
      PROVE  ScansInv'
  <2>1. /\ DOMAIN inked' = DOMAIN inked \cup {r}
        /\ \A s \in DOMAIN inked' : inked'[s] = IF s = r THEN 0 ELSE inked[s]
        /\ filing' \in {r, Unmeasured} /\ UNCHANGED <<parser, fact, facts>>
    BY <1>1 DEF InsertScan, Started
  <2>2. InkIsThere(inked')
    BY <2>1, <1>0 DEF ScansInv, InkIsThere, WordCounts
  <2> QED
    BY <2>1, <2>2, FilingStands
<1>2. CASE InsertWord
  <2>1. filing \in DOMAIN inked /\ filing \in ScanReadings
        /\ inked[filing] < Len(Ink[filing]) /\ UNCHANGED <<parser, fact, facts>>
    BY <1>2 DEF InsertWord, ScansInv, InkIsThere
  <2>2. /\ inked' = [inked EXCEPT ![filing] = @ + 1]
        /\ filing' \in {filing, Unmeasured}
    BY <1>2 DEF InsertWord
  <2>3. /\ DOMAIN inked' = DOMAIN inked
        /\ \A s \in DOMAIN inked' : inked'[s] = IF s = filing THEN inked[s] + 1 ELSE inked[s]
    BY <2>2
  <2>4. InkIsThere(inked')
    BY <2>1, <2>3, <1>0 DEF ScansInv, InkIsThere, WordCounts
  <2> QED
    BY <2>1, <2>2, <2>3, <2>4, FilingStands
<1>3. CASE LoseFiling
  <2>1. inked' = inked /\ filing' = Unmeasured /\ UNCHANGED <<parser, fact, facts>>
    BY <1>3 DEF LoseFiling
  <2> QED
    BY <2>1, FilingStands DEF ScansInv
<1> QED
  BY <1>1, <1>2, <1>3

\* What a step of a run, or of a reviewer, has to show.
LEMMA RowsStand ==
    ASSUME ScansInv, UNCHANGED <<parser, inked, filing>>,
           fact' = [f \in DOMAIN fact' |-> fact'[f]],
           \A f \in DOMAIN fact' : /\ fact'[f] = [g \in RowFields |-> fact'[f][g]]
                                   /\ RowIsMeasured(f, fact'[f]),
           facts' = [g \in RunFields |-> facts'[g]],
           InkIsThere(facts'.ink), DOMAIN facts'.ink \subseteq DOMAIN inked,
           facts'.pc = "load" => LoadIsOnTrack',
           facts'.pc = "done" => (\A f \in Produced(facts.ink) : Landed(f))' /\ DecidedFactsStay'
    PROVE  ScansInv'
<1>1. (\A f \in DOMAIN fact : RowIsMeasured(f, fact[f]))'
  BY WordsSayTheSame
<1>2. InkIsThere(inked') /\ filing' \in DOMAIN inked' \cup {Unmeasured}
      /\ DOMAIN facts'.ink \subseteq DOMAIN inked'
  BY DEF ScansInv
<1> QED
  BY <1>1, <1>2 DEF ScansInv

LEMMA ReadingSteps ==
    ASSUME ScansInv, ReadScans \/ ReadScanWords
    PROVE  ScansInv'
<1>0. \A r \in ScanReadings : Len(Ink[r]) \in Nat
  BY ScansAreBounded
<1>1. facts = [g \in RunFields |-> facts[g]] /\ InkIsThere(inked) /\ InkIsThere(facts.ink)
      /\ DOMAIN facts.ink \subseteq DOMAIN inked
  BY DEF ScansInv
<1>2. /\ facts' = [g \in RunFields |-> facts'[g]]
      /\ facts'.pc \in {"words", "held"}
      /\ InkIsThere(facts'.ink) /\ DOMAIN facts'.ink \subseteq DOMAIN inked
      /\ UNCHANGED <<parser, inked, filing, fact>>
  <2>1. CASE ReadScans
    <3>1. facts' = [NoRun EXCEPT !.pc = "words", !.runs = facts.runs + 1,
                                 !.ink = [r \in DOMAIN inked |-> 0]]
          /\ UNCHANGED <<parser, inked, filing, fact>>
      BY <2>1 DEF ReadScans, Started
    <3>2. /\ facts' = [g \in RunFields |-> facts'[g]]
          /\ facts'.pc = "words" /\ facts'.ink = [r \in DOMAIN inked |-> 0]
      BY <3>1 DEF NoRun, RunFields
    <3>3. DOMAIN facts'.ink = DOMAIN inked /\ \A r \in DOMAIN inked : facts'.ink[r] = 0
      BY <3>2
    <3>4. InkIsThere(facts'.ink)
      BY <3>3, <1>0, <1>1 DEF InkIsThere, WordCounts
    <3> QED
      BY <3>1, <3>2, <3>3, <3>4
  <2>2. CASE ReadScanWords
    <3>1. facts' = [facts EXCEPT !.pc = "held", !.ink = [r \in DOMAIN facts.ink |-> inked[r]]]
          /\ UNCHANGED <<parser, inked, filing, fact>>
      BY <2>2 DEF ReadScanWords, WordsOf
    <3>2. /\ facts' = [g \in RunFields |-> facts'[g]]
          /\ facts'.pc = "held" /\ facts'.ink = [r \in DOMAIN facts.ink |-> inked[r]]
      BY <3>1, <1>1 DEF RunFields
    <3> QED
      BY <3>1, <3>2, <1>1 DEF InkIsThere
  <2> QED
    BY <2>1, <2>2
<1>3. /\ fact' = [f \in DOMAIN fact' |-> fact'[f]]
      /\ \A f \in DOMAIN fact' : /\ fact'[f] = [g \in RowFields |-> fact'[f][g]]
                                 /\ RowIsMeasured(f, fact'[f])
  BY <1>2 DEF ScansInv
<1> QED
  BY <1>2, <1>3, RowsStand

LEMMA HeldStep ==
    ASSUME ScansInv, ReadHeldFacts
    PROVE  ScansInv'
<1>1. facts = [g \in RunFields |-> facts[g]] /\ InkIsThere(facts.ink)
      /\ DOMAIN facts.ink \subseteq DOMAIN inked
  BY DEF ScansInv
<1>2. facts' = [facts EXCEPT !.pc = "load", !.held = fact,
                             !.todo = SetToSeq(Produced(facts.ink))]
      /\ UNCHANGED <<parser, inked, filing, fact>>
  BY DEF ReadHeldFacts
<1>3. /\ facts' = [g \in RunFields |-> facts'[g]]
      /\ facts'.pc = "load" /\ facts'.ink = facts.ink /\ facts'.held = fact
      /\ facts'.todo = SetToSeq(Produced(facts.ink))
  BY <1>1, <1>2 DEF RunFields
<1>4. /\ facts'.todo \in Seq(Produced(facts.ink))
      /\ ToSet(facts'.todo) = Produced(facts.ink)
  BY <1>1, <1>3, FactsAreFew, EachIsListed DEF InkIsThere
<1>5. LoadIsOnTrack'
  BY <1>2, <1>3, <1>4 DEF LoadIsOnTrack
<1>6. /\ fact' = [f \in DOMAIN fact' |-> fact'[f]]
      /\ \A f \in DOMAIN fact' : /\ fact'[f] = [g \in RowFields |-> fact'[f][g]]
                                 /\ RowIsMeasured(f, fact'[f])
  BY <1>2 DEF ScansInv
<1> QED
  BY <1>1, <1>2, <1>3, <1>5, <1>6, RowsStand

LEMMA LoadStep ==
    ASSUME ScansInv, LoadFact
    PROVE  ScansInv'
<1>1. /\ facts = [g \in RunFields |-> facts[g]] /\ InkIsThere(facts.ink)
      /\ DOMAIN facts.ink \subseteq DOMAIN inked
      /\ fact = [f \in DOMAIN fact |-> fact[f]]
      /\ \A f \in DOMAIN fact : fact[f] = [g \in RowFields |-> fact[f][g]]
      /\ \A f \in DOMAIN fact : RowIsMeasured(f, fact[f])
      /\ LoadIsOnTrack /\ facts.todo # <<>>
      /\ UNCHANGED <<parser, inked, filing>>
  BY DEF ScansInv, LoadFact
<1>2. PICK f : f = Head(facts.todo)
  OBVIOUS
<1>3. PICK c : c = Candidate(f, facts.ink)
  OBVIOUS
<1>4. f \in Produced(facts.ink)
  BY <1>1, <1>2 DEF LoadIsOnTrack
<1>5. /\ c = [g \in RowFields |-> c[g]]
      /\ RowIsMeasured(f, c)
      /\ \A x : RowIsMeasured(f, x) /\ x.scan # Unmeasured =>
            /\ \E n \in WordCounts(x.scan) : c.legible = Weakest(x.scan, f, n)
            /\ \E n \in WordCounts(x.scan) : c.box = BoxOf(x.scan, f, n)
  BY <1>1, <1>3, <1>4, CandidateIsMeasured
<1>6. /\ facts' = [facts EXCEPT !.todo = Tail(@)]
      /\ facts.pc = "load"
  BY DEF LoadFact
<1>7. /\ facts' = [g \in RunFields |-> facts'[g]]
      /\ facts'.pc = "load" /\ facts'.ink = facts.ink /\ facts'.held = facts.held
      /\ facts'.todo = Tail(facts.todo)
  BY <1>1, <1>6 DEF RunFields
<1>8. /\ facts'.todo \in Seq(Produced(facts.ink))
      /\ ToSet(facts.todo) \subseteq {f} \cup ToSet(facts'.todo)
  <2>1. PICK q \in Seq(Produced(facts.ink)) : q = facts.todo
    BY <1>1 DEF LoadIsOnTrack
  <2>2. q # <<>> => /\ Tail(q) \in Seq(Produced(facts.ink))
                    /\ \A i \in DOMAIN q : i # 1 => i - 1 \in DOMAIN Tail(q) /\ q[i] = Tail(q)[i - 1]
    OBVIOUS
  <2>3. q # <<>> /\ f = q[1] /\ facts'.todo = Tail(q)
    BY <1>1, <1>2, <1>7, <2>1
  <2>4. \A i \in DOMAIN q : q[i] \in {f} \cup ToSet(Tail(q))
    BY <2>2, <2>3 DEF ToSet
  <2>5. ToSet(q) \subseteq {f} \cup ToSet(Tail(q))
    BY <2>4 DEF ToSet
  <2> QED
    BY <2>1, <2>2, <2>3, <2>5
\* The new row.
<1>9. PICK x : /\ fact' = [g \in DOMAIN fact \cup {f} |-> IF g = f THEN x ELSE fact[g]]
               /\ x = [g \in RowFields |-> x[g]]
               /\ RowIsMeasured(f, x)
               /\ x.legible = c.legible \/ (f \in DOMAIN facts.held /\ x.legible = fact[f].legible
                                            /\ facts.held[f].legible = c.legible)
  <2>1. CASE f \notin DOMAIN facts.held
    BY <2>1, <1>2, <1>3, <1>5 DEF LoadFact
  <2>2. CASE f \in DOMAIN facts.held
    <3>1. f \in DOMAIN fact
      BY <1>1, <2>2 DEF LoadIsOnTrack
    <3>2. PICK old : old = fact[f]
      OBVIOUS
    <3>3. PICK l : l = IF facts.held[f].legible # c.legible THEN c.legible ELSE old.legible
      OBVIOUS
    <3>4. PICK b : b \in {c.box, old.box} /\
                   fact' = [fact EXCEPT ![f].legible = l, ![f].box = b]
      <4>1. fact' = [fact EXCEPT
              ![f].legible = IF Reconciled(facts.held[f], c).legible THEN c.legible ELSE @,
              ![f].box = IF Reconciled(facts.held[f], c).box THEN c.box ELSE @]
        BY <2>2, <1>2, <1>3 DEF LoadFact
      <4>2. Reconciled(facts.held[f], c).legible = (facts.held[f].legible # c.legible)
        BY DEF Reconciled
      <4>3. PICK b : b = IF Reconciled(facts.held[f], c).box THEN c.box ELSE old.box
        OBVIOUS
      <4>4. fact' = [fact EXCEPT ![f].legible = l, ![f].box = b]
        BY <4>1, <4>2, <4>3, <3>1, <3>2, <3>3, <1>1
      <4> QED
        BY <4>3, <4>4
    <3>5. PICK x : x = [old EXCEPT !.legible = l, !.box = b]
      OBVIOUS
    <3>6. fact' = [g \in DOMAIN fact \cup {f} |-> IF g = f THEN x ELSE fact[g]]
      BY <3>1, <3>2, <3>4, <3>5, <1>1
    <3>7. /\ x = [g \in RowFields |-> x[g]]
          /\ x.scan = old.scan /\ x.scaled = old.scaled /\ x.legible = l /\ x.box = b
      <4>1. old = [g \in RowFields |-> old[g]]
        BY <3>1, <3>2, <1>1
      <4> QED
        BY <4>1, <3>5 DEF RowFields
    <3>8. RowIsMeasured(f, old)
      BY <3>1, <3>2, <1>1
    <3>9. RowIsMeasured(f, x)
      <4> SUFFICES ASSUME old.scan # Unmeasured
                   PROVE  RowIsMeasured(f, x)
        BY <3>7 DEF RowIsMeasured
      <4>1. PICK r : r = old.scan
        OBVIOUS
      <4>2. /\ r \in ScanReadings /\ f \in FactsOf(r)
            /\ \E n \in WordCounts(r) : old.legible = Weakest(r, f, n)
            /\ \E n \in WordCounts(r) : old.scaled = Weakest(r, f, n)
            /\ \E n \in WordCounts(r) : old.box = BoxOf(r, f, n)
        BY <3>8, <4>1 DEF RowIsMeasured
      <4>3. /\ \E n \in WordCounts(r) : c.legible = Weakest(r, f, n)
            /\ \E n \in WordCounts(r) : c.box = BoxOf(r, f, n)
        BY <3>8, <4>1, <1>5
      <4>4. \E n \in WordCounts(r) : l = Weakest(r, f, n)
        BY <3>3, <4>2, <4>3
      <4>5. \E n \in WordCounts(r) : b = BoxOf(r, f, n)
        BY <3>4, <4>2, <4>3
      <4> QED
        BY <3>7, <4>1, <4>2, <4>4, <4>5 DEF RowIsMeasured
    <3> QED
      BY <2>2, <3>2, <3>3, <3>6, <3>7, <3>9
  <2> QED
    BY <2>1, <2>2
<1>10. x.legible = c.legible
  <2>1. f \in DOMAIN facts.held => fact[f].legible = facts.held[f].legible \/ fact[f].legible = c.legible
    BY <1>1, <1>3 DEF LoadIsOnTrack, Landed
  <2> QED
    BY <1>9, <2>1
<1>11. /\ DOMAIN fact' = DOMAIN fact \cup {f}
       /\ \A g \in DOMAIN fact' : fact'[g] = IF g = f THEN x ELSE fact[g]
  BY <1>9
<1>12. \A g : Landed(g)' <=> g \in DOMAIN fact' /\ fact'[g].legible = Candidate(g, facts.ink).legible
  BY <1>1, <1>7, WordsSayTheSame DEF Landed
<1>13. Landed(f)' /\ \A g : Landed(g) => Landed(g)'
  BY <1>3, <1>10, <1>11, <1>12 DEF Landed
<1>14. LoadIsOnTrack'
  <2>1. /\ DOMAIN facts.held \subseteq DOMAIN fact'
        /\ \A g \in Produced(facts.ink) : g \in ToSet(facts'.todo) \/ Landed(g)'
    BY <1>1, <1>8, <1>11, <1>13 DEF LoadIsOnTrack
  <2>2. \A g \in DOMAIN facts.held : fact'[g].legible = facts.held[g].legible
                                        \/ (g \in Produced(facts.ink) /\ Landed(g)')
    BY <1>1, <1>4, <1>11, <1>13 DEF LoadIsOnTrack
  <2> QED
    BY <1>7, <1>8, <2>1, <2>2 DEF LoadIsOnTrack
<1>15. /\ fact' = [g \in DOMAIN fact' |-> fact'[g]]
       /\ \A g \in DOMAIN fact' : /\ fact'[g] = [h \in RowFields |-> fact'[g][h]]
                                  /\ RowIsMeasured(g, fact'[g])
  BY <1>1, <1>9, <1>11
<1> QED
  BY <1>1, <1>7, <1>14, <1>15, RowsStand

LEMMA RetireStep ==
    ASSUME ScansInv, RetireFacts
    PROVE  ScansInv'
<1>1. /\ facts = [g \in RunFields |-> facts[g]] /\ InkIsThere(facts.ink)
      /\ DOMAIN facts.ink \subseteq DOMAIN inked
      /\ \A f \in DOMAIN fact : fact[f] = [g \in RowFields |-> fact[f][g]]
      /\ \A f \in DOMAIN fact : RowIsMeasured(f, fact[f])
      /\ LoadIsOnTrack /\ facts.todo = <<>>
      /\ UNCHANGED <<parser, inked, filing>>
  BY DEF ScansInv, RetireFacts
<1>2. facts' = [facts EXCEPT !.pc = "done", !.todo = <<>>]
  BY DEF RetireFacts
<1>3. /\ facts' = [g \in RunFields |-> facts'[g]]
      /\ facts'.pc = "done" /\ facts'.ink = facts.ink /\ facts'.held = facts.held
  BY <1>1, <1>2 DEF RunFields
<1>4. PICK stale : /\ stale = {f \in DOMAIN facts.held \ Produced(facts.ink) :
                                  facts.held[f].status = "unverified"}
                   /\ fact' = [f \in DOMAIN fact \ stale |-> fact[f]]
  BY DEF RetireFacts
<1>5. /\ DOMAIN fact' = DOMAIN fact \ stale
      /\ \A f \in DOMAIN fact' : fact'[f] = fact[f]
      /\ fact' = [f \in DOMAIN fact' |-> fact'[f]]
  BY <1>4
<1>6. \A f \in Produced(facts.ink) : Landed(f)
  BY <1>1 DEF LoadIsOnTrack, ToSet
<1>7. \A f \in Produced(facts.ink) : Landed(f)'
  BY <1>1, <1>3, <1>4, <1>5, <1>6, WordsSayTheSame DEF Landed
<1>8. (\A f \in Produced(facts.ink) : Landed(f))'
  BY <1>3, <1>7
<1>9. \A f \in DOMAIN facts.held :
          IF f \in Produced(facts.ink) \/ facts.held[f].status # "unverified"
          THEN f \in DOMAIN fact' ELSE f \notin DOMAIN fact'
  BY <1>1, <1>4, <1>5 DEF LoadIsOnTrack
<1>10. DecidedFactsStay'
  BY <1>3, <1>9 DEF DecidedFactsStay
<1>11. \A f \in DOMAIN fact' : /\ fact'[f] = [g \in RowFields |-> fact'[f][g]]
                               /\ RowIsMeasured(f, fact'[f])
  BY <1>1, <1>5
<1> QED
  BY <1>1, <1>3, <1>5, <1>8, <1>10, <1>11, RowsStand

\* A reviewer changes what no run measures.
LEMMA DecideFactStep ==
    ASSUME ScansInv, NEW d \in DOMAIN fact, DecideFact(d)
    PROVE  ScansInv'
<1>1. /\ facts = [g \in RunFields |-> facts[g]] /\ InkIsThere(facts.ink)
      /\ DOMAIN facts.ink \subseteq DOMAIN inked
      /\ fact = [f \in DOMAIN fact |-> fact[f]]
      /\ \A f \in DOMAIN fact : fact[f] = [g \in RowFields |-> fact[f][g]]
      /\ \A f \in DOMAIN fact : RowIsMeasured(f, fact[f])
      /\ facts.pc = "load" => LoadIsOnTrack
      /\ facts.pc = "done" => (\A f \in Produced(facts.ink) : Landed(f)) /\ DecidedFactsStay
      /\ fact' = [fact EXCEPT ![d].status = "decided"]
      /\ UNCHANGED <<parser, inked, filing, facts>>
  BY DEF ScansInv, DecideFact
<1>2. PICK old : old = fact[d]
  OBVIOUS
<1>3. PICK x : x = [old EXCEPT !.status = "decided"]
  OBVIOUS
<1>4. fact' = [f \in DOMAIN fact |-> IF f = d THEN x ELSE fact[f]]
  BY <1>1, <1>2, <1>3
<1>5. /\ x = [g \in RowFields |-> x[g]]
      /\ x.scan = old.scan /\ x.scaled = old.scaled
      /\ x.legible = old.legible /\ x.box = old.box
  <2>1. old = [g \in RowFields |-> old[g]]
    BY <1>1, <1>2
  <2> QED
    BY <2>1, <1>3 DEF RowFields
<1>6. /\ DOMAIN fact' = DOMAIN fact
      /\ \A f \in DOMAIN fact' : fact'[f].legible = fact[f].legible
  BY <1>2, <1>4, <1>5
<1>7. \A f \in DOMAIN fact' : /\ fact'[f] = [g \in RowFields |-> fact'[f][g]]
                              /\ RowIsMeasured(f, fact'[f])
  <2>1. RowIsMeasured(d, x)
    <3>1. RowIsMeasured(d, old)
      BY <1>1, <1>2
    <3> QED
      BY <3>1, <1>5 DEF RowIsMeasured
  <2> QED
    BY <2>1, <1>1, <1>4, <1>5
<1>8. \A f : Landed(f)' <=> Landed(f)
  BY <1>1, <1>6, WordsSayTheSame DEF Landed
<1>9. LoadIsOnTrack => LoadIsOnTrack'
  BY <1>1, <1>6, <1>8 DEF LoadIsOnTrack
<1>10. DecidedFactsStay => DecidedFactsStay'
  BY <1>1, <1>6 DEF DecidedFactsStay
<1>11. (\A f \in Produced(facts.ink) : Landed(f)) => (\A f \in Produced(facts.ink) : Landed(f))'
  BY <1>1, <1>8
<1>12. /\ facts'.pc = "load" => LoadIsOnTrack'
       /\ facts'.pc = "done" => (\A f \in Produced(facts.ink) : Landed(f))' /\ DecidedFactsStay'
  BY <1>1, <1>9, <1>10, <1>11
<1>13. fact' = [f \in DOMAIN fact' |-> fact'[f]]
  BY <1>4
<1>14. /\ facts' = [g \in RunFields |-> facts'[g]] /\ InkIsThere(facts'.ink)
       /\ DOMAIN facts'.ink \subseteq DOMAIN inked
  BY <1>1
<1> QED
  BY <1>1, <1>7, <1>12, <1>13, <1>14, RowsStand

LEMMA ScansSteps == ScansInv /\ [ScansNext]_scanning => ScansInv'
<1> SUFFICES ASSUME ScansInv, [ScansNext]_scanning
             PROVE  ScansInv'
  OBVIOUS
<1>1. CASE UNCHANGED scanning
  BY <1>1, FilingStands DEF scanning, ScansInv
<1>2. CASE ScansNext
  BY <1>2, FilingSteps, ReadingSteps, HeldStep, LoadStep, RetireStep, DecideFactStep DEF ScansNext
<1> QED
  BY <1>1, <1>2

LEMMA ScansInvImplies == ScansInv => ScansAreMeasured
<1> SUFFICES ASSUME ScansInv
             PROVE  ScansAreMeasured
  OBVIOUS
<1>0. \A r \in ScanReadings : Len(Ink[r]) \in Nat
  BY ScansAreBounded
<1>1. NothingIsInvented
  <2> SUFFICES ASSUME NEW f \in OfScans, NEW r, r = fact[f].scan
               PROVE  LET x == fact[f]
                          whole == Len(Ink[r])
                      IN  /\ x.legible # Unmeasured => x.legible >= Weakest(r, f, whole)
                          /\ x.box # Unmeasured => Within(x.box, BoxOf(r, f, whole))
                          /\ x.scaled # Unmeasured => x.scaled >= Weakest(r, f, whole)
    BY DEF NothingIsInvented
  <2>1. /\ r \in ScanReadings
        /\ \E n \in WordCounts(r) : fact[f].legible = Weakest(r, f, n)
        /\ \E n \in WordCounts(r) : fact[f].scaled = Weakest(r, f, n)
        /\ \E n \in WordCounts(r) : fact[f].box = BoxOf(r, f, n)
    BY DEF OfScans, ScansInv, RowIsMeasured
  <2>2. Len(Ink[r]) \in WordCounts(r) /\ WordCounts(r) = 0..Len(Ink[r])
    BY <1>0, <2>1 DEF WordCounts
  <2> QED
    BY <2>1, <2>2, MoreWordsAreNoSurer
<1>2. LegibilityLands
  <2> SUFFICES ASSUME facts.pc = "done", NEW r \in DOMAIN facts.ink, NEW f \in FactsOf(r)
               PROVE  f \in DOMAIN fact /\ fact[f].legible = Weakest(r, f, facts.ink[r])
    BY DEF LegibilityLands
  <2>1. f \in Produced(facts.ink) /\ InkIsThere(facts.ink)
    BY DEF Produced, ScansInv
  <2>2. Candidate(f, facts.ink).legible = Weakest(r, f, facts.ink[r])
    BY <2>1, CandidateOfScan DEF ScanFact
  <2> QED
    BY <2>1, <2>2 DEF ScansInv, Landed
<1>3. DecidedFactsStay
  <2>1. facts.pc # "done" => DecidedFactsStay
    BY DEF DecidedFactsStay
  <2> QED
    BY <2>1 DEF ScansInv
<1> QED
  BY <1>1, <1>2, <1>3 DEF ScansAreMeasured

\* ScansAreMeasured: what a fact of a scan says of its figures is what words of
\* its reading say, though they are filed one by one beside the run that reads
\* them, though a filing dies half way, and whatever is decided meanwhile.
THEOREM ScansStayMeasured == ScansSpec => []ScansAreMeasured
<1>1. ScansInit => ScansInv
  BY ScansStart
<1>2. ScansInv /\ [ScansNext]_scanning => ScansInv'
  BY ScansSteps
<1>3. ScansInv => ScansAreMeasured
  BY ScansInvImplies
<1> QED
  BY <1>1, <1>2, <1>3, PTL DEF ScansSpec

------------------------------------------------------------------------------
(* Where a tender is placed (DistrictPlacing).                               *)

\* The rows of a file once they are in the table.
Entered(f, v) == {[row |-> r, version |-> v, file |-> f] : r \in ParseDirectory(f)}

Loading(o) == operator[o].stage # "idle"

\* The keys a chain states outright.
Stating(advert) == {advert.chain[i].key : i \in 2..Len(advert.chain)}

Agree(rows, d) == rows # {} /\ \A r \in rows : r.district = d

\* What PlacedOnWholeEvidence asks of one tender and one placement of it.
Evidenced(p, advert) ==
    /\ p.district \in HeldDistricts
    /\ p.method = "pincode" =>
          Agree({r \in Listed(p.file) : r.pincode = advert.pincode}, p.district)
    /\ p.method = "place_name" =>
          Agree({r \in Listed(p.file) : r.office = advert.place}, p.district)
    /\ p.method = "location_district" => NamedIn(advert.pieces) = {p.district}
    /\ p.method # "chain_unit" => Stating(advert) \cap Known = {}
    /\ p.method \in {"pincode", "place_name"} =>
          \/ Cardinality(NamedByPieces(advert.pieces)) # 1
          \/ Cardinality(NamedIn(advert.pieces)) # 1

\* What the resolver goes by: a file's rows of the state, all of them, or none.
IsIndex(index) ==
    index.file # Absent => index.file \in DOMAIN Files /\ index.rows = Listed(index.file)

\* One operator at a time replaces one file whole by another.
PlacingInv ==
    /\ versions \in Nat
    /\ DOMAIN operator = Operators
    /\ \A o \in Operators : operator[o].stage \in {"idle", "open", "deleted"}
    /\ \A o, p \in Operators : Loading(o) /\ Loading(p) => o = p
    /\ \A o \in Operators : Loading(o) =>
          operator[o].file \in DOMAIN Files /\ operator[o].version \in 1..versions
    /\ \A o \in Operators : operator[o].stage = "deleted" => operator[o].old = directory
    /\ directory # {} => \E f \in DOMAIN Files, v \in 1..versions : directory = Entered(f, v)
    /\ DOMAIN resolver = DOMAIN Reads
    /\ resolver.names \subseteq Spellings
    /\ resolver.stage = "rows" => IsIndex(resolver)
    /\ DOMAIN placed = DOMAIN Adverts
    /\ \A t \in DOMAIN Adverts :
          placed[t].district # Absent => Evidenced(placed[t], Adverts[t])

\* The chain names a district it states, if it states any, and otherwise one that
\* a word of it spells.
LEMMA ChainNamesKnown ==
    ASSUME NEW t \in DOMAIN Adverts
    PROVE  /\ \A n \in FromChain(Adverts[t]) :
                 /\ n.name \in Known
                 /\ n.method = "chain_unit" \/ (n.method = "office_code" /\ Stating(Adverts[t]) \cap Known = {})
           /\ FromChain(Adverts[t]) = {} => Stating(Adverts[t]) \cap Known = {}
<1> DEFINE advert == Adverts[t]
           depths == 2..Len(advert.chain)
           whole == {i \in depths : advert.chain[i].key \in Known}
           within == {i \in depths : \E n \in DOMAIN advert.chain[i].words : advert.chain[i].words[n] \in Known}
           deepest(found) == CHOOSE i \in found : \A j \in found : j <= i
           first(words) == words[CHOOSE n \in DOMAIN words : /\ words[n] \in Known
                                                             /\ \A m \in 1..(n - 1) : words[m] \notin Known]
<1>1. /\ Len(advert.chain) \in Nat
      /\ \A i \in depths : LET words == advert.chain[i].words
                            IN  Len(words) \in Nat /\ DOMAIN words = 1..Len(words)
  BY AdvertsAreRead
<1>2. ASSUME NEW found \in SUBSET depths, found # {}
      PROVE  deepest(found) \in found
  <2>1. found \subseteq Nat /\ IsFiniteSet(found)
    <3>1. found \subseteq 2..Len(advert.chain) /\ IsFiniteSet(2..Len(advert.chain))
      BY <1>1, FS_Interval
    <3>2. IsFiniteSet(found)
      BY <3>1, FS_Subset
    <3> QED
      BY <1>1, <3>1, <3>2
  <2>2. \E i \in found : \A j \in found : j <= i
    BY <1>2, <2>1, GreatestOf
  <2> QED
    BY <2>2
<1>3. ASSUME NEW i \in within
      PROVE  first(advert.chain[i].words) \in Known
  <2> DEFINE words == advert.chain[i].words
             spelt == {n \in DOMAIN words : words[n] \in Known}
  <2>1. Len(words) \in Nat /\ DOMAIN words = 1..Len(words) /\ spelt # {}
    BY <1>1
  <2>2. PICK n \in spelt : \A k \in spelt : n <= k
    <3>1. spelt \subseteq Nat
      BY <2>1
    <3> HIDE DEF spelt
    <3> QED
      BY <2>1, <3>1, LeastOf
  <2>3. ASSUME NEW m \in 1..(n - 1), words[m] \in Known
        PROVE  FALSE
    <3>1. n \in 1..Len(words)
      BY <2>1
    <3>2. m \in 1..Len(words) /\ m < n
      BY <2>1, <3>1
    <3>3. m \in spelt
      BY <2>1, <2>3, <3>2
    <3> QED
      BY <2>2, <3>1, <3>2, <3>3
  <2> QED
    BY <2>2, <2>3
<1>4. FromChain(advert) = CASE whole # {} -> {[name |-> advert.chain[deepest(whole)].key, method |-> "chain_unit"]}
                            [] whole = {} /\ within # {} ->
                                  {[name |-> first(advert.chain[deepest(within)].words), method |-> "office_code"]}
                            [] OTHER -> {}
  BY DEF FromChain
<1>5. Stating(advert) \cap Known # {} <=> whole # {}
  BY DEF Stating
<1>6. CASE whole # {}
  <2>1. deepest(whole) \in whole
    BY <1>2, <1>6
  <2>2. PICK i \in whole : i = deepest(whole)
    BY <2>1
  <2>3. FromChain(advert) = {[name |-> advert.chain[i].key, method |-> "chain_unit"]}
    BY <1>4, <1>6, <2>2
  <2>4. PICK name \in Known : FromChain(advert) = {[name |-> name, method |-> "chain_unit"]}
    BY <2>2, <2>3
  <2> HIDE DEF whole, within, deepest, first, depths
  <2>5. \A n \in FromChain(advert) : n.name \in Known /\ n.method = "chain_unit"
    BY <2>4
  <2>6. FromChain(advert) # {}
    BY <2>4
  <2> QED
    BY <2>5, <2>6
<1>7. CASE whole = {} /\ within # {}
  <2>1. deepest(within) \in within
    BY <1>2, <1>7
  <2>2. first(advert.chain[deepest(within)].words) \in Known
    BY <1>3, <2>1
  <2>3. FromChain(advert) = {[name |-> first(advert.chain[deepest(within)].words), method |-> "office_code"]}
    BY <1>4, <1>7
  <2>4. PICK name \in Known : FromChain(advert) = {[name |-> name, method |-> "office_code"]}
    BY <2>2, <2>3
  <2>5. Stating(advert) \cap Known = {}
    BY <1>5, <1>7
  <2> HIDE DEF advert
  <2> QED
    BY <2>4, <2>5 DEF advert
<1>8. CASE whole = {} /\ within = {}
  <2>1. FromChain(advert) = {}
    BY <1>4, <1>8
  <2> QED
    BY <1>5, <1>8, <2>1
<1> QED
  BY <1>6, <1>7, <1>8

\* The one district a set of districts comes to is all of it.
LEMMA OnlyIsAll ==
    ASSUME NEW S, IsFiniteSet(S)
    PROVE  \A d \in Only(S) : S = {d}
<1>1. CASE Cardinality(S) = 1
  <2>1. \E d : S = {d}
    BY <1>1, FS_Singleton
  <2> QED
    BY <2>1 DEF Only
<1>2. CASE Cardinality(S) # 1
  BY <1>2 DEF Only
<1> QED
  BY <1>1, <1>2

\* What the districts of some of the rows listed come to is said of all of them.
LEMMA RowsAgree ==
    ASSUME NEW index, index.file # Absent, IsIndex(index),
           NEW rows, rows \subseteq index.rows, NEW d \in Only({r.district : r \in rows})
    PROVE  Agree(rows, d)
<1>1. IsFiniteSet(rows)
  <2>1. IsFiniteSet(Files[index.file]) /\ rows \subseteq Files[index.file]
    BY OfficesAreListed DEF IsIndex, Listed, ParseDirectory
  <2> QED
    BY <2>1, FS_Subset
<1>2. IsFiniteSet({r.district : r \in rows})
  <2> DEFINE said == {r.district : r \in rows}
             district == [r \in rows |-> r.district]
  <2>1. district \in [rows -> said]
    OBVIOUS
  <2>2. \A d1 \in said : \E r \in rows : district[r] = d1
    OBVIOUS
  <2>3. district \in Surjection(rows, said)
    BY <2>1, <2>2 DEF Surjection
  <2> HIDE DEF said, district
  <2>4. IsFiniteSet(said)
    BY <1>1, <2>3, FS_Surjection
  <2> QED
    BY <2>4 DEF said
<1>3. {r.district : r \in rows} = {d}
  BY <1>2, OnlyIsAll
<1> QED
  BY <1>3 DEF Agree

LEMMA NamedIsFinite ==
    ASSUME NEW pieces
    PROVE  NamedIn(pieces) \subseteq HeldDistricts /\ IsFiniteSet(NamedIn(pieces))
                /\ NamedByPieces(pieces) \subseteq NamedIn(pieces)
<1> DEFINE words == UNION {WordsIn[p] : p \in pieces}
<1>1. NamedByPieces(pieces) \subseteq HeldDistricts
  BY DEF NamedByPieces
<1>2. NamedIn(pieces) = NamedByPieces(pieces) \cup (words \cap HeldDistricts)
  BY DEF NamedIn
<1> HIDE DEF words
<1>3. NamedIn(pieces) \subseteq HeldDistricts /\ NamedByPieces(pieces) \subseteq NamedIn(pieces)
  BY <1>1, <1>2
<1> QED
  BY <1>3, AdvertsAreRead, FS_Subset

\* The first rule that answers is the strongest.
LEMMA ResolvesOnEvidence ==
    ASSUME NEW t \in DOMAIN Adverts, NEW index, IsIndex(index),
           NEW a \in ResolveDistrict(Adverts[t], index)
    PROVE  Evidenced(a, Adverts[t])
<1> DEFINE advert == Adverts[t]
           rules == << Explicitly(advert), ByLocation(advert),
                       IF index.file = Absent THEN {} ELSE ByPincode(advert, index),
                       IF index.file = Absent THEN {} ELSE ByPlace(advert, index) >>
           answer == {n \in 1..4 : rules[n] # {}}
<1>1. PICK n \in 1..4 : a \in rules[n] /\ \A m \in answer : n <= m
  <2>1. ResolveDistrict(advert, index) = UNION {rules[n] : n \in {k \in answer : \A m \in answer : k <= m}}
    BY DEF ResolveDistrict
  <2> HIDE DEF rules
  <2> QED
    BY <2>1
<1>2. CASE n = 1
  <2>1. a \in Explicitly(advert)
    BY <1>1, <1>2
  <2>2. PICK m \in FromChain(advert) :
           a = Placement(IF m.name \in HeldDistricts THEN m.name ELSE Aliases[m.name], m.method, Absent)
    BY <2>1 DEF Explicitly
  <2>3. /\ a.district = IF m.name \in HeldDistricts THEN m.name ELSE Aliases[m.name]
        /\ a.method = m.method
    BY <2>2 DEF Placement
  <2>4. /\ m.name \in Known
        /\ m.method = "chain_unit" \/ (m.method = "office_code" /\ Stating(advert) \cap Known = {})
    BY ChainNamesKnown
  <2>5. a.district \in HeldDistricts
    BY <2>3, <2>4, AdvertsAreRead DEF Known
  <2> QED
    BY <2>3, <2>4, <2>5 DEF Evidenced
<1>3. ASSUME n # 1
      PROVE  Stating(advert) \cap Known = {}
  <2>1. Explicitly(advert) = {}
    BY <1>1, <1>3
  <2>2. FromChain(advert) = {}
    BY <2>1 DEF Explicitly
  <2> QED
    BY <2>2, ChainNamesKnown
<1>4. CASE n = 2
  <2>1. a \in ByLocation(advert)
    BY <1>1, <1>4
  <2>2. /\ Cardinality(NamedIn(advert.pieces)) = 1
        /\ \E d \in NamedByPieces(advert.pieces) : a = Placement(d, "location_district", Absent)
    BY <2>1 DEF ByLocation
  <2>3. a.district \in NamedByPieces(advert.pieces) /\ a.method = "location_district"
    BY <2>2 DEF Placement
  <2>4. PICK d : NamedIn(advert.pieces) = {d}
    BY <2>2, NamedIsFinite, FS_Singleton
  <2>5. NamedIn(advert.pieces) = {a.district} /\ a.district \in HeldDistricts
    BY <2>3, <2>4, NamedIsFinite
  <2> QED
    BY <1>3, <1>4, <2>3, <2>5 DEF Evidenced
<1>5. ASSUME n \notin {1, 2}
      PROVE  \/ Cardinality(NamedByPieces(advert.pieces)) # 1
             \/ Cardinality(NamedIn(advert.pieces)) # 1
  <2>1. ByLocation(advert) = {}
    BY <1>1, <1>5
  <2>2. CASE NamedByPieces(advert.pieces) = {}
    BY <2>2, FS_EmptySet
  <2> QED
    BY <2>1, <2>2 DEF ByLocation
<1>6. CASE n = 3
  <2> DEFINE rows == {q \in index.rows : q.pincode = advert.pincode}
  <2>1. index.file # Absent /\ a \in ByPincode(advert, index)
    BY <1>1, <1>6
  <2>2. PICK d \in Only({r.district : r \in rows}) \cap HeldDistricts : a = Placement(d, "pincode", index.file)
    BY <2>1 DEF ByPincode
  <2>3. a.district = d /\ a.method = "pincode" /\ a.file = index.file
    BY <2>2 DEF Placement
  <2>4. Agree(rows, d)
    BY <2>1, <2>2, RowsAgree
  <2>5. rows = {r \in Listed(a.file) : r.pincode = advert.pincode}
    BY <2>1, <2>3 DEF IsIndex
  <2>6. Agree({r \in Listed(a.file) : r.pincode = advert.pincode}, a.district)
    BY <2>3, <2>4, <2>5
  <2>7. a.district \in HeldDistricts
    BY <2>2, <2>3
  <2>8. n # 1
    BY <1>6
  <2>9. n \notin {1, 2}
    BY <1>6
  <2> HIDE DEF advert, rules, answer, rows
  <2>10. Stating(advert) \cap Known = {}
    BY <1>3, <2>8
  <2>11. \/ Cardinality(NamedByPieces(advert.pieces)) # 1
         \/ Cardinality(NamedIn(advert.pieces)) # 1
    BY <1>5, <2>9
  <2>12. Evidenced(a, advert)
    BY <2>3, <2>6, <2>7, <2>10, <2>11 DEF Evidenced
  <2> QED
    BY <2>12 DEF advert
<1>7. CASE n = 4
  <2> DEFINE rows == {q \in index.rows : q.office = advert.place}
  <2>1. index.file # Absent /\ a \in ByPlace(advert, index)
    BY <1>1, <1>7
  <2>2. PICK d \in Only({r.district : r \in rows}) \cap HeldDistricts : a = Placement(d, "place_name", index.file)
    BY <2>1 DEF ByPlace
  <2>3. a.district = d /\ a.method = "place_name" /\ a.file = index.file
    BY <2>2 DEF Placement
  <2>4. Agree(rows, d)
    BY <2>1, <2>2, RowsAgree
  <2>5. rows = {r \in Listed(a.file) : r.office = advert.place}
    BY <2>1, <2>3 DEF IsIndex
  <2>6. Agree({r \in Listed(a.file) : r.office = advert.place}, a.district)
    BY <2>3, <2>4, <2>5
  <2>7. a.district \in HeldDistricts
    BY <2>2, <2>3
  <2>8. n # 1
    BY <1>7
  <2>9. n \notin {1, 2}
    BY <1>7
  <2> HIDE DEF advert, rules, answer, rows
  <2>10. Stating(advert) \cap Known = {}
    BY <1>3, <2>8
  <2>11. \/ Cardinality(NamedByPieces(advert.pieces)) # 1
         \/ Cardinality(NamedIn(advert.pieces)) # 1
    BY <1>5, <2>9
  <2>12. Evidenced(a, advert)
    BY <2>3, <2>6, <2>7, <2>10, <2>11 DEF Evidenced
  <2> QED
    BY <2>12 DEF advert
<1> QED
  BY <1>1, <1>2, <1>4, <1>6, <1>7

\* A pass under one spelling of the state sees all of the file's rows of it, or
\* none: the rows read are a file's, whatever was loaded between the statements.
LEMMA PlacingStarts == PlacingInit => PlacingInv
<1> SUFFICES ASSUME PlacingInit PROVE PlacingInv
  OBVIOUS
<1>1. /\ versions \in Nat /\ DOMAIN operator = Operators /\ directory = {}
      /\ \A o \in Operators : operator[o].stage = "idle"
  BY DEF PlacingInit, AtRest
<1>2. DOMAIN resolver = DOMAIN Reads /\ resolver.names \subseteq Spellings /\ resolver.stage # "rows"
  BY DEF PlacingInit, Reads
<1>3. DOMAIN placed = DOMAIN Adverts /\ \A t \in DOMAIN Adverts : placed[t].district = Absent
  BY DEF PlacingInit, Placement
<1> QED
  BY <1>1, <1>2, <1>3 DEF PlacingInv, Loading

\* What a step of the directory leaves alone of the resolver's.
Resolving ==
    /\ DOMAIN resolver = DOMAIN Reads
    /\ resolver.names \subseteq Spellings
    /\ resolver.stage = "rows" => IsIndex(resolver)
    /\ DOMAIN placed = DOMAIN Adverts
    /\ \A t \in DOMAIN Adverts :
          placed[t].district # Absent => Evidenced(placed[t], Adverts[t])

\* And a step of the resolver, of the directory's.
Replacing ==
    /\ versions \in Nat
    /\ DOMAIN operator = Operators
    /\ \A o \in Operators : operator[o].stage \in {"idle", "open", "deleted"}
    /\ \A o, p \in Operators : Loading(o) /\ Loading(p) => o = p
    /\ \A o \in Operators : Loading(o) =>
          operator[o].file \in DOMAIN Files /\ operator[o].version \in 1..versions
    /\ \A o \in Operators : operator[o].stage = "deleted" => operator[o].old = directory
    /\ directory # {} => \E f \in DOMAIN Files, v \in 1..versions : directory = Entered(f, v)

LEMMA PlacingSplits == PlacingInv <=> Replacing /\ Resolving
BY DEF PlacingInv, Replacing, Resolving

LEMMA ResolvingStands ==
    ASSUME Resolving, UNCHANGED <<resolver, placed>>
    PROVE  Resolving'
BY DEF Resolving, IsIndex

LEMMA ReplacingStands ==
    ASSUME Replacing, UNCHANGED <<directory, operator, versions>>
    PROVE  Replacing'
BY DEF Replacing, Loading

LEMMA Opens ==
    ASSUME OneOperator, PlacingInv, NEW o \in Operators, OpenDirectory(o)
    PROVE  PlacingInv'
<1>1. Replacing /\ Resolving
  BY PlacingSplits
<1>2. /\ operator[o].stage = "idle" /\ \A p \in Operators : ~Loading(p)
      /\ versions' = versions + 1 /\ UNCHANGED <<directory, resolver, placed>>
  BY DEF OpenDirectory, Loading
<1>3. PICK book \in DOMAIN Files :
         operator' = [operator EXCEPT ![o] = [stage |-> "open", file |-> book, version |-> versions + 1]]
  BY DEF OpenDirectory
<1>4. versions \in Nat /\ versions' \in Nat /\ versions + 1 \in 1..versions' /\ 1..versions \subseteq 1..versions'
  <2>1. versions \in Nat
    BY <1>1 DEF Replacing
  <2> QED
    BY <1>2, <2>1
<1>5. /\ DOMAIN operator' = Operators
      /\ \A p \in Operators : p # o => operator'[p] = operator[p]
      /\ operator'[o].stage = "open" /\ operator'[o].file = book /\ operator'[o].version = versions + 1
  BY <1>1, <1>3 DEF Replacing
<1>6. \A p \in Operators : p # o => operator'[p].stage = "idle"
  BY <1>2, <1>5 DEF Loading
<1>7. Replacing'
  <2>1. \A p \in Operators : operator'[p].stage \in {"idle", "open", "deleted"}
    BY <1>5, <1>6
  <2>2. \A p \in Operators : Loading(p)' => p = o
    BY <1>6 DEF Loading
  <2>3. \A p \in Operators : Loading(p)' => operator'[p].file \in DOMAIN Files /\ operator'[p].version \in 1..versions'
    BY <1>4, <1>5, <2>2
  <2>4. \A p \in Operators : operator'[p].stage # "deleted"
    BY <1>5, <1>6
  <2>5. directory' # {} => \E f \in DOMAIN Files, v \in 1..versions' : directory' = Entered(f, v)
    BY <1>1, <1>2, <1>4 DEF Replacing
  <2> QED
    BY <1>4, <1>5, <2>1, <2>2, <2>3, <2>4, <2>5 DEF Replacing
<1>8. Resolving'
  BY <1>1, <1>2, ResolvingStands
<1> QED
  BY <1>7, <1>8 DEF PlacingInv, Replacing, Resolving

LEMMA Deletes ==
    ASSUME PlacingInv, NEW o \in Operators, DeleteOld(o)
    PROVE  PlacingInv'
<1>1. Replacing /\ Resolving
  BY PlacingSplits
<1>2. /\ operator[o].stage = "open"
      /\ UNCHANGED <<directory, resolver, placed, versions>>
      /\ operator' = [operator EXCEPT ![o] =
            [stage |-> "deleted", file |-> operator[o].file,
             version |-> operator[o].version, old |-> directory, behind |-> Deleting]]
  BY DEF DeleteOld
<1>3. /\ DOMAIN operator' = Operators
      /\ \A p \in Operators : p # o => operator'[p] = operator[p]
      /\ operator'[o].stage = "deleted" /\ operator'[o].file = operator[o].file
      /\ operator'[o].version = operator[o].version /\ operator'[o].old = directory
  BY <1>1, <1>2 DEF Replacing
<1>4. Replacing'
  <2>1. \A p \in Operators : operator'[p].stage \in {"idle", "open", "deleted"}
    BY <1>1, <1>3 DEF Replacing
  <2>2. \A p \in Operators : Loading(p)' <=> Loading(p)
    BY <1>2, <1>3 DEF Loading
  <2>3. \A p \in Operators : Loading(p)' => operator'[p].file \in DOMAIN Files /\ operator'[p].version \in 1..versions'
    BY <1>1, <1>2, <1>3, <2>2 DEF Replacing
  <2>4. \A p \in Operators : operator'[p].stage = "deleted" => operator'[p].old = directory'
    BY <1>1, <1>2, <1>3 DEF Replacing
  <2>5. directory' # {} => \E f \in DOMAIN Files, v \in 1..versions' : directory' = Entered(f, v)
    BY <1>1, <1>2 DEF Replacing
  <2>6. versions' \in Nat /\ \A p, q \in Operators : Loading(p)' /\ Loading(q)' => p = q
    BY <1>1, <1>2, <2>2 DEF Replacing
  <2> QED
    BY <1>3, <2>1, <2>3, <2>4, <2>5, <2>6 DEF Replacing
<1>5. Resolving'
  BY <1>1, <1>2, ResolvingStands
<1> QED
  BY <1>4, <1>5 DEF PlacingInv, Replacing, Resolving

\* Nobody else is deleting, so what was deleted is all that was there, and what is
\* inserted is all that the file has.
LEMMA Commits ==
    ASSUME PlacingInv, NEW o \in Operators, CommitDirectory(o)
    PROVE  PlacingInv'
<1>1. Replacing /\ Resolving
  BY PlacingSplits
<1>2. /\ operator[o].stage = "deleted"
      /\ directory' = Inserted(o)
      /\ UNCHANGED <<resolver, placed, versions>>
      /\ operator' = [operator EXCEPT ![o] = AtRest]
  BY DEF CommitDirectory
<1>3. /\ operator[o].old = directory
      /\ operator[o].file \in DOMAIN Files /\ operator[o].version \in 1..versions
      /\ \A p \in Operators : p # o => operator[p].stage = "idle"
  BY <1>1, <1>2 DEF Replacing, Loading
<1>4. directory' = Entered(operator[o].file, operator[o].version)
  <2>1. directory \ operator[o].old = {}
    BY <1>3
  <2> QED
    BY <1>2, <2>1 DEF Inserted, Entered
<1>5. DOMAIN operator' = Operators /\ \A p \in Operators : operator'[p].stage = "idle"
  BY <1>1, <1>2, <1>3 DEF Replacing, AtRest
<1>6. Replacing'
  BY <1>1, <1>2, <1>3, <1>4, <1>5 DEF Replacing, Loading
<1>7. Resolving'
  BY <1>1, <1>2, ResolvingStands
<1> QED
  BY <1>6, <1>7 DEF PlacingInv, Replacing, Resolving

LEMMA RollsBack ==
    ASSUME PlacingInv, NEW o \in Operators, FailDirectory(o)
    PROVE  PlacingInv'
<1>1. Replacing /\ Resolving
  BY PlacingSplits
<1>2. /\ UNCHANGED <<directory, resolver, placed, versions>>
      /\ operator' = [operator EXCEPT ![o] = AtRest]
  BY DEF FailDirectory
<1>3. /\ DOMAIN operator' = Operators /\ operator'[o].stage = "idle"
      /\ \A p \in Operators : p # o => operator'[p] = operator[p]
  BY <1>1, <1>2 DEF Replacing, AtRest
<1>4. Replacing'
  <2>1. \A p \in Operators : operator'[p].stage \in {"idle", "open", "deleted"}
    BY <1>1, <1>3 DEF Replacing
  <2>2. \A p \in Operators : Loading(p)' => p # o /\ Loading(p)
    BY <1>3 DEF Loading
  <2>3. \A p \in Operators : Loading(p)' => operator'[p].file \in DOMAIN Files /\ operator'[p].version \in 1..versions'
    BY <1>1, <1>2, <1>3, <2>2 DEF Replacing
  <2>4. \A p \in Operators : operator'[p].stage = "deleted" => operator'[p].old = directory'
    BY <1>1, <1>2, <1>3 DEF Replacing
  <2>5. directory' # {} => \E f \in DOMAIN Files, v \in 1..versions' : directory' = Entered(f, v)
    BY <1>1, <1>2 DEF Replacing
  <2>6. versions' \in Nat /\ \A p, q \in Operators : Loading(p)' /\ Loading(q)' => p = q
    BY <1>1, <1>2, <2>2 DEF Replacing
  <2> QED
    BY <1>3, <2>1, <2>3, <2>4, <2>5, <2>6 DEF Replacing
<1>5. Resolving'
  BY <1>1, <1>2, ResolvingStands
<1> QED
  BY <1>4, <1>5 DEF PlacingInv, Replacing, Resolving

LEMMA EnteredIsOfTheFile ==
    ASSUME NEW f, NEW v
    PROVE  /\ \A r \in Entered(f, v) : r.row \in ParseDirectory(f) /\ r.version = v /\ r.file = f
           /\ \A q \in ParseDirectory(f) : \E r \in Entered(f, v) : r.row = q
<1> DEFINE rows == ParseDirectory(f)
<1>1. Entered(f, v) = {[row |-> r, version |-> v, file |-> f] : r \in rows}
  BY DEF Entered
<1> HIDE DEF rows
<1>2. ASSUME NEW r \in Entered(f, v)
      PROVE  r.row \in rows /\ r.version = v /\ r.file = f
  <2>1. PICK q \in rows : r = [row |-> q, version |-> v, file |-> f]
    BY <1>1
  <2> QED
    BY <2>1
<1>3. ASSUME NEW q \in rows
      PROVE  \E r \in Entered(f, v) : r.row = q
  <2> DEFINE r == [row |-> q, version |-> v, file |-> f]
  <2>1. r.row = q
    OBVIOUS
  <2>2. r \in Entered(f, v)
    BY <1>1
  <2> HIDE DEF r
  <2> QED
    BY <2>1, <2>2
<1> QED
  BY <1>2, <1>3 DEF rows

LEMMA ReadsSpellings == ASSUME PlacingInv, ReadSpellings PROVE PlacingInv'
<1>1. Replacing /\ Resolving
  BY PlacingSplits
<1>2. Replacing'
  BY <1>1, ReplacingStands DEF ReadSpellings
<1>3. /\ DOMAIN resolver' = DOMAIN Reads
      /\ resolver'.stage = "names" /\ resolver'.names \subseteq Spellings
  BY DEF ReadSpellings, Reads
<1>4. Resolving'
  BY <1>1, <1>3 DEF Resolving, ReadSpellings
<1> QED
  BY <1>2, <1>4 DEF PlacingInv, Replacing, Resolving

\* A file spells the state one way, so a spelling known finds all of its rows or
\* none of them, whatever was loaded between the two statements.
LEMMA ReadsTheRows == ASSUME PlacingInv, ReadRows PROVE PlacingInv'
<1> DEFINE newest == {r \in directory : \A q \in directory : q.version <= r.version}
           rows == {r \in newest : r.row.state \in resolver.names}
<1>1. Replacing /\ Resolving
  BY PlacingSplits
<1>2. Replacing'
  BY <1>1, ReplacingStands DEF ReadRows
<1>3. /\ resolver' = [resolver EXCEPT !.stage = "rows", !.rows = {r.row : r \in rows},
                          !.file = IF rows = {} THEN Absent ELSE (CHOOSE r \in rows : TRUE).file]
      /\ UNCHANGED placed
  BY DEF ReadRows
<1>4. DOMAIN resolver = {"stage", "names", "rows", "file"}
  BY <1>1 DEF Resolving, Reads
<1> HIDE DEF rows
<1>5. /\ DOMAIN resolver' = DOMAIN resolver /\ resolver'.names = resolver.names
      /\ resolver'.rows = {r.row : r \in rows}
      /\ resolver'.file = IF rows = {} THEN Absent ELSE (CHOOSE r \in rows : TRUE).file
  BY <1>3, <1>4
<1>6. ASSUME rows # {}
      PROVE  resolver'.file \in DOMAIN Files /\ resolver'.rows = Listed(resolver'.file)
  <2>1. PICK known \in rows : resolver'.file = known.file
    BY <1>5, <1>6
  <2>2. PICK f \in DOMAIN Files, v \in 1..versions : directory = Entered(f, v)
    BY <1>1, <1>6 DEF Replacing, rows
  <2>3. versions \in Nat
    BY <1>1 DEF Replacing
  <2>4. \A r \in directory : r.row \in ParseDirectory(f) /\ r.version = v /\ r.file = f
    BY <2>2, EnteredIsOfTheFile
  <2>5. newest = directory
    BY <2>3, <2>4
  <2>6. {r.row : r \in rows} = {q \in ParseDirectory(f) : q.state \in resolver.names}
    <3>1. \A r \in rows : r.row \in ParseDirectory(f) /\ r.row.state \in resolver.names
      BY <2>4 DEF rows
    <3>2. ASSUME NEW q \in ParseDirectory(f), q.state \in resolver.names
          PROVE  \E r \in rows : r.row = q
      <4>1. PICK r \in directory : r.row = q
        BY <2>2, EnteredIsOfTheFile
      <4>2. r \in rows
        BY <2>5, <3>2, <4>1 DEF rows
      <4> QED
        BY <4>1, <4>2
    <3> QED
      BY <3>1, <3>2
  <2>7. known.row \in ParseDirectory(f) /\ known.row.state \in resolver.names /\ known.file = f
    BY <2>4 DEF rows
  <2>8. resolver.names \subseteq Spellings
    BY <1>1 DEF Resolving
  <2>9. ASSUME NEW q \in ParseDirectory(f)
        PROVE  q.state \in resolver.names <=> q.state \in Spellings
    <3>1. q \in Files[f] /\ known.row \in Files[f]
      BY <2>7 DEF ParseDirectory
    <3>2. known.row.state \in Spellings
      BY <2>7, <2>8
    <3>3. q.state \in Spellings => q.state = known.row.state
      BY <3>1, <3>2, OneSpellingPerFile
    <3> QED
      BY <2>7, <2>8, <3>3
  <2>10. {q \in ParseDirectory(f) : q.state \in resolver.names} = Listed(f)
    BY <2>9 DEF Listed
  <2>11. resolver'.file = f /\ resolver'.rows = Listed(f)
    BY <1>5, <2>1, <2>6, <2>7, <2>10
  <2> QED
    BY <2>11
<1>7. IsIndex(resolver)'
  BY <1>5, <1>6 DEF IsIndex
<1>8. Resolving'
  BY <1>1, <1>3, <1>5, <1>7 DEF Resolving
<1> QED
  BY <1>2, <1>8 DEF PlacingInv, Replacing, Resolving

LEMMA PlacesAll == ASSUME PlacingInv, PlaceAll PROVE PlacingInv'
<1>1. Replacing /\ Resolving
  BY PlacingSplits
<1>2. Replacing'
  BY <1>1, ReplacingStands DEF PlaceAll
<1>3. IsIndex(resolver)
  BY <1>1 DEF Resolving, PlaceAll
<1>4. resolver' = [resolver EXCEPT !.stage = "idle"] /\ DOMAIN resolver = {"stage", "names", "rows", "file"}
  BY <1>1 DEF PlaceAll, Resolving, Reads
<1>5. DOMAIN resolver' = DOMAIN resolver /\ resolver'.stage = "idle" /\ resolver'.names = resolver.names
  BY <1>4
<1>6. DOMAIN placed' = DOMAIN Adverts
  BY DEF PlaceAll
<1>7. ASSUME NEW t \in DOMAIN Adverts, placed'[t].district # Absent
      PROVE  Evidenced(placed'[t], Adverts[t])
  <2> DEFINE answer == ResolveDistrict(Adverts[t], resolver)
  <2>1. placed'[t] = IF placed[t].district # Absent \/ answer = {} THEN placed[t]
                     ELSE CHOOSE a \in answer : TRUE
    BY DEF PlaceAll
  <2>2. CASE placed'[t] = placed[t]
    BY <1>1, <1>7, <2>2 DEF Resolving
  <2>3. CASE placed'[t] # placed[t]
    <3>1. placed'[t] \in answer
      BY <2>1, <2>3
    <3>2. \A a \in answer : Evidenced(a, Adverts[t])
      BY <1>3, ResolvesOnEvidence
    <3> QED
      BY <3>1, <3>2
  <2> QED
    BY <2>2, <2>3
<1>8. \A t \in DOMAIN Adverts : placed'[t].district # Absent => Evidenced(placed'[t], Adverts[t])
  BY <1>7
<1>9. Resolving'
  BY <1>1, <1>5, <1>6, <1>8 DEF Resolving
<1> QED
  BY <1>2, <1>9 DEF PlacingInv, Replacing, Resolving

\* What the table holds is one file's rows, so it is one file.
LEMMA PlacedSoundly == PlacingInv => TendersArePlacedSoundly
<1> SUFFICES ASSUME PlacingInv PROVE TendersArePlacedSoundly
  OBVIOUS
<1>1. DirectoryIsOneFile
  <2> SUFFICES ASSUME directory # {}
               PROVE  \E f \in DOMAIN Files : {r.row : r \in directory} = ParseDirectory(f)
    BY DEF DirectoryIsOneFile
  <2>1. PICK f \in DOMAIN Files, v \in 1..versions : directory = Entered(f, v)
    BY DEF PlacingInv
  <2>2. {r.row : r \in Entered(f, v)} = ParseDirectory(f)
    BY EnteredIsOfTheFile
  <2> QED
    BY <2>1, <2>2
<1>2. PlacedOnWholeEvidence
  <2> SUFFICES ASSUME NEW t \in DOMAIN Adverts, placed[t].district # Absent
               PROVE  LET p == placed[t]
                          advert == Adverts[t]
                          chain == {advert.chain[i].key : i \in 2..Len(advert.chain)}
                          Agree1(rows) == rows # {} /\ \A r \in rows : r.district = p.district
                      IN  /\ p.district \in HeldDistricts
                          /\ p.method = "pincode" => Agree1({r \in Listed(p.file) : r.pincode = advert.pincode})
                          /\ p.method = "place_name" => Agree1({r \in Listed(p.file) : r.office = advert.place})
                          /\ p.method = "location_district" => NamedIn(advert.pieces) = {p.district}
                          /\ p.method # "chain_unit" => chain \cap Known = {}
                          /\ p.method \in {"pincode", "place_name"} =>
                                 Cardinality(NamedByPieces(advert.pieces)) # 1 \/ Cardinality(NamedIn(advert.pieces)) # 1
    BY DEF PlacedOnWholeEvidence
  <2>1. Evidenced(placed[t], Adverts[t])
    BY DEF PlacingInv
  <2> QED
    BY <2>1 DEF Evidenced, Agree, Stating
<1> QED
  BY <1>1, <1>2 DEF TendersArePlacedSoundly

\* Where one operator loads the directory at a time, a tender is placed where the
\* whole of its evidence says, and the directory is one file, whole.
THEOREM TendersPlacedSoundly ==
    ASSUME OneOperator
    PROVE  PlacingSpec => []TendersArePlacedSoundly
<1>1. PlacingInit => PlacingInv
  BY PlacingStarts
<1>2. PlacingInv /\ [PlacingNext]_placing => PlacingInv'
  <2> SUFFICES ASSUME PlacingInv, [PlacingNext]_placing
               PROVE  PlacingInv'
    OBVIOUS
  <2>1. ASSUME NEW o \in Operators, OpenDirectory(o)
        PROVE  PlacingInv'
    BY <2>1, Opens
  <2>2. ASSUME NEW o \in Operators, DeleteOld(o)
        PROVE  PlacingInv'
    BY <2>2, Deletes
  <2>3. ASSUME NEW o \in Operators, CommitDirectory(o)
        PROVE  PlacingInv'
    BY <2>3, Commits
  <2>4. ASSUME NEW o \in Operators, FailDirectory(o)
        PROVE  PlacingInv'
    BY <2>4, RollsBack
  <2>5. CASE ReadSpellings
    BY <2>5, ReadsSpellings
  <2>6. CASE ReadRows
    BY <2>6, ReadsTheRows
  <2>7. CASE PlaceAll
    BY <2>7, PlacesAll
  <2>8. CASE UNCHANGED placing
    <3>1. Replacing /\ Resolving
      BY PlacingSplits
    <3>2. Replacing' /\ Resolving'
      BY <2>8, <3>1, ReplacingStands, ResolvingStands DEF placing
    <3> QED
      BY <3>2 DEF PlacingInv, Replacing, Resolving
  <2> QED
    BY <2>1, <2>2, <2>3, <2>4, <2>5, <2>6, <2>7, <2>8 DEF PlacingNext
<1>3. PlacingInv => TendersArePlacedSoundly
  BY PlacedSoundly
<1> QED
  BY <1>1, <1>2, <1>3, PTL DEF PlacingSpec

-----------------------------------------------------------------------------
(* Where names are read (PlaceNames).                                        *)

\* After the first n words the name may start behind the last that restarts it.
IsStart(s, run, n) ==
    /\ s \in 0..n
    /\ s = 0 \/ StartsAfresh(run[s])
    /\ \A j \in (s + 1)..n : StartsAfresh(run[j]) => run[j] = "general" /\ j = s + 1

LEMMA StartOfIs ==
    ASSUME NEW run, Len(run) \in Nat
    PROVE  IsStart(StartOf(run), run, Len(run))
<1> DEFINE N == Len(run)
           S == 0..N
           Then(x, n) == IF run[n] = "general" /\ n = x + 1 THEN x
                         ELSE IF StartsAfresh(run[n]) THEN n ELSE x
           Equation(g) == g = [n \in 0..N |->
                                  IF n = 0 THEN 0
                                  ELSE IF run[n] = "general" /\ n = g[n - 1] + 1 THEN g[n - 1]
                                  ELSE IF StartsAfresh(run[n]) THEN n ELSE g[n - 1]]
           start == CHOOSE g : Equation(g)
<1>1. N \in Nat
  OBVIOUS
<1>2. \E g : Equation(g)
  <2> DEFINE step == [n \in 1..N |-> [x \in S |-> Then(x, n)]]
  <2>1. step \in [1..N -> [S -> S]]
    BY <1>1
  <2>2. PICK h : IsListOf(h, S, 0, N, step)
    <3>1. 0 \in S
      BY <1>1
    <3> HIDE DEF step, N, S
    <3> QED
      BY <1>1, <2>1, <3>1, StepsExist
  <2> HIDE DEF step
  <2>3. h \in [0..N -> S] /\ h[0] = 0 /\ \A n \in 1..N : h[n] = step[n][h[n - 1]]
    BY <2>2 DEF IsListOf
  <2>4. \A n \in 1..N : h[n] = Then(h[n - 1], n)
    <3> SUFFICES ASSUME NEW n \in 1..N
                 PROVE  h[n] = Then(h[n - 1], n)
      OBVIOUS
    <3> HIDE DEF S
    <3>1. n - 1 \in 0..N /\ h[n - 1] \in S
      BY <1>1, <2>3
    <3>2. step[n] = [x \in S |-> Then(x, n)]
      BY DEF step
    <3> HIDE DEF Then
    <3> QED
      BY <2>3, <3>1, <3>2
  <2>5. ASSUME NEW n \in 0..N
        PROVE  h[n] = IF n = 0 THEN 0
                      ELSE IF run[n] = "general" /\ n = h[n - 1] + 1 THEN h[n - 1]
                      ELSE IF StartsAfresh(run[n]) THEN n ELSE h[n - 1]
    <3>1. CASE n = 0
      BY <2>3, <3>1
    <3>2. CASE n # 0
      <4>1. n \in 1..N
        BY <1>1, <3>2
      <4> QED
        BY <2>4, <3>2, <4>1
    <3> QED
      BY <3>1, <3>2
  <2>6. Equation(h)
    BY <2>3, <2>5
  <2> QED
    BY <2>6
<1>3. Equation(start)
  BY <1>2
<1>4. start[0] = 0 /\ \A n \in 1..N : start[n] = Then(start[n - 1], n)
  <2> HIDE DEF start
  <2>1. \A n \in 0..N : start[n] = IF n = 0 THEN 0
                                   ELSE IF run[n] = "general" /\ n = start[n - 1] + 1 THEN start[n - 1]
                                   ELSE IF StartsAfresh(run[n]) THEN n ELSE start[n - 1]
    BY <1>3
  <2>2. 0 \in 0..N /\ \A n \in 1..N : n \in 0..N /\ n # 0
    BY <1>1
  <2> QED
    BY <2>1, <2>2
<1>5. StartOf(run) = start[N]
  BY DEF StartOf
<1> HIDE DEF start
<1> DEFINE G == {n \in 0..N : IsStart(start[n], run, n)}
<1>6. 0 \in G
  BY <1>1, <1>4 DEF IsStart
<1>7. ASSUME NEW n \in 1..N, n - 1 \in G
      PROVE  n \in G
  <2>1. PICK old, new : old = start[n - 1] /\ new = start[n]
    OBVIOUS
  <2>2. IsStart(old, run, n - 1) /\ new = Then(old, n)
    BY <1>4, <1>7, <2>1
  <2>3. n \in Nat /\ old \in 0..(n - 1)
    BY <1>1, <2>2 DEF IsStart
  <2>4. IsStart(new, run, n)
    BY <2>2, <2>3 DEF IsStart
  <2> QED
    BY <1>1, <2>1, <2>4
<1>8. 0..N \subseteq G
  <2> HIDE DEF G, N
  <2> QED
    BY <1>1, <1>6, <1>7, StepByStep
<1> QED
  BY <1>1, <1>5, <1>8

\* What a run spells, if it spells a name.
IsWholeName(name, run) ==
    /\ Len(name) \in Nat /\ DOMAIN name = 1..Len(name)
    /\ name[1] \notin Joiners /\ name[Len(name)] \notin Joiners
    /\ \A i \in DOMAIN name :
          name[i] # "restart" /\ (name[i] = "general" => i = 1 /\ Len(name) > 1)
    /\ \E at \in DOMAIN run :
          /\ at + Len(name) - 1 <= Len(run)
          /\ SubSeq(run, at, at + Len(name) - 1) = name
          /\ \A j \in (at + Len(name))..Len(run) : run[j] \in Joiners
          /\ \A j \in 1..(at - 1) :
                \/ run[j] \in Joiners
                \/ StartsAfresh(run[j])
                \/ \E k \in (j + 1)..(at - 1) : StartsAfresh(run[k])

LEMMA DepartmentNameIs ==
    ASSUME NEW W, NEW run \in Seq(W), DepartmentName(run) # <<>>
    PROVE  IsWholeName(DepartmentName(run), run)
<1> DEFINE rest == SubSeq(run, StartOf(run) + 1, Len(run))
           own == {i \in DOMAIN rest : rest[i] \notin Joiners}
           first == CHOOSE i \in own : \A j \in own : i <= j
           last == CHOOSE i \in own : \A j \in own : j <= i
           name == SubSeq(rest, first, last)
<1>1. PICK N, s : N = Len(run) /\ s = StartOf(run)
  OBVIOUS
<1>2. N \in Nat /\ DOMAIN run = 1..N /\ \A i \in 1..N : run[i] \in W
  BY <1>1
<1>3. IsStart(s, run, N)
  BY <1>1, <1>2, StartOfIs
<1>4. s \in 0..N
  BY <1>3 DEF IsStart
<1>5. /\ rest \in Seq(W) /\ Len(rest) = N - s
      /\ \A i \in 1..(N - s) : rest[i] = run[s + i]
  <2>1. s + 1 \in Int /\ N \in Int /\ \A i \in (s + 1)..N : run[i] \in W
    BY <1>2, <1>4
  <2>2. /\ SubSeq(run, s + 1, N) \in Seq(W)
        /\ Len(SubSeq(run, s + 1, N)) = IF s + 1 <= N THEN N - (s + 1) + 1 ELSE 0
        /\ \A i \in 1..(N - (s + 1) + 1) : SubSeq(run, s + 1, N)[i] = run[s + 1 + i - 1]
    BY <2>1, SubSeqProperties
  <2>3. N - (s + 1) + 1 = N - s /\ (~(s + 1 <= N) => N - s = 0)
    BY <1>2, <1>4
  <2>4. \A i \in 1..(N - s) : s + 1 + i - 1 = s + i
    BY <1>2, <1>4
  <2> QED
    BY <1>1, <2>2, <2>3, <2>4
<1>6. DepartmentName(run) = IF own = {} \/ name = <<"general">> THEN <<>> ELSE name
  BY DEF DepartmentName
<1>7. own # {} /\ name # <<"general">> /\ DepartmentName(run) = name
  BY <1>6
<1>8. DOMAIN rest = 1..(N - s) /\ N - s \in Nat
  <2> HIDE DEF rest
  <2>1. DOMAIN rest = 1..Len(rest)
    BY <1>5
  <2> QED
    BY <1>2, <1>4, <1>5, <2>1
<1> HIDE DEF rest
<1>9. own \subseteq 1..(N - s)
  BY <1>8
<1>10. own \subseteq Nat /\ IsFiniteSet(own)
  <2>1. IsFiniteSet(1..(N - s))
    BY <1>8, FS_Interval
  <2> HIDE DEF own
  <2>2. IsFiniteSet(own)
    BY <1>9, <2>1, FS_Subset
  <2> QED
    BY <1>8, <1>9, <2>2
<1>11. first \in own /\ \A j \in own : first <= j
  <2>1. \E i \in own : \A j \in own : i <= j
    <3> HIDE DEF own
    <3> QED
      BY <1>7, <1>10, LeastOf
  <2> QED
    BY <2>1
<1>12. last \in own /\ \A j \in own : j <= last
  <2>1. \E i \in own : \A j \in own : j <= i
    <3> HIDE DEF own
    <3> QED
      BY <1>7, <1>10, GreatestOf
  <2> QED
    BY <2>1
<1> HIDE DEF first, last
<1>13. PICK f, l : f = first /\ l = last
  OBVIOUS
<1>14. /\ f \in 1..(N - s) /\ l \in 1..(N - s) /\ f <= l
       /\ rest[f] \notin Joiners /\ rest[l] \notin Joiners
       /\ \A j \in 1..(N - s) : rest[j] \notin Joiners => f <= j /\ j <= l
  BY <1>8, <1>11, <1>12, <1>13
<1>15. PICK M \in Nat : M = l - f + 1 /\ M >= 1
  BY <1>8, <1>14
<1>16. /\ name \in Seq(W) /\ Len(name) = M
       /\ \A i \in 1..M : name[i] = rest[f + i - 1]
  <2>1. f \in Int /\ l \in Int /\ \A i \in f..l : rest[i] \in W
    BY <1>5, <1>8, <1>14
  <2>2. /\ SubSeq(rest, f, l) \in Seq(W)
        /\ Len(SubSeq(rest, f, l)) = IF f <= l THEN l - f + 1 ELSE 0
        /\ \A i \in 1..(l - f + 1) : SubSeq(rest, f, l)[i] = rest[f + i - 1]
    BY <2>1, SubSeqProperties
  <2> QED
    BY <1>13, <1>14, <1>15, <2>2
<1>17. DOMAIN name = 1..M
  BY <1>16
<1>18. name # <<"general">>
  BY <1>7
<1>19. PICK a : a = name
  OBVIOUS
<1>20. /\ a \in Seq(W) /\ Len(a) = M /\ DOMAIN a = 1..M /\ a # <<"general">>
       /\ \A i \in 1..M : a[i] = run[s + f + i - 1] /\ f + i - 1 \in 1..(N - s)
  <2>1. \A i \in 1..M : f + i - 1 \in 1..(N - s)
    BY <1>8, <1>14, <1>15
  <2>2. \A i \in 1..M : rest[f + i - 1] = run[s + (f + i - 1)]
    BY <1>5, <2>1
  <2>3. \A i \in 1..M : s + (f + i - 1) = s + f + i - 1
    BY <1>4, <1>14, <1>15
  <2> QED
    BY <1>16, <1>17, <1>18, <1>19, <2>1, <2>2, <2>3
<1>21. a[1] \notin Joiners /\ a[M] \notin Joiners
  <2>1. a[1] = rest[f + 1 - 1] /\ a[M] = rest[f + M - 1]
    BY <1>15, <1>16, <1>19
  <2>2. f + 1 - 1 = f /\ f + M - 1 = l
    BY <1>14, <1>15
  <2> QED
    BY <1>14, <2>1, <2>2
<1>22. \A i \in 1..M : a[i] # "restart" /\ (a[i] = "general" => i = 1 /\ M > 1)
  <2> SUFFICES ASSUME NEW i \in 1..M, a[i] \in {"restart", "general"}
               PROVE  a[i] = "general" /\ i = 1 /\ M > 1
    OBVIOUS
  <2>1. a[i] = run[s + f + i - 1] /\ s + f + i - 1 \in (s + 1)..N
    BY <1>2, <1>4, <1>14, <1>15, <1>20
  <2>2. StartsAfresh(run[s + f + i - 1])
    BY <2>1 DEF StartsAfresh
  <2>3. a[i] = "general" /\ s + f + i - 1 = s + 1
    BY <1>3, <2>1, <2>2 DEF IsStart
  <2>4. i = 1
    BY <1>4, <1>14, <1>15, <2>3
  <2>5. CASE M = 1
    <3>1. Len(a) = 1 /\ a[1] = "general"
      BY <1>20, <2>3, <2>4, <2>5
    <3>2. a = <<"general">>
      BY <1>20, <3>1
    <3> QED
      BY <1>20, <3>2
  <2> QED
    BY <1>15, <2>3, <2>4, <2>5
<1>23. PICK at : at = s + f
  OBVIOUS
<1>24. at \in 1..N /\ at + M - 1 = s + l /\ at + M - 1 <= N
  BY <1>2, <1>4, <1>14, <1>15, <1>23
<1>25. SubSeq(run, at, at + M - 1) = a
  <2>1. at \in Int /\ at + M - 1 \in Int /\ \A i \in at..(at + M - 1) : run[i] \in W
    BY <1>2, <1>15, <1>24
  <2>2. PICK b : b = SubSeq(run, at, at + M - 1)
    OBVIOUS
  <2>3. /\ b \in Seq(W)
        /\ Len(b) = IF at <= at + M - 1 THEN at + M - 1 - at + 1 ELSE 0
        /\ \A i \in 1..(at + M - 1 - at + 1) : b[i] = run[at + i - 1]
    BY <2>1, <2>2, SubSeqProperties
  <2>4. at <= at + M - 1 /\ at + M - 1 - at + 1 = M
    BY <1>15, <1>24
  <2>5. Len(b) = Len(a) /\ \A i \in 1..M : b[i] = a[i]
    BY <1>20, <1>23, <2>3, <2>4
  <2>6. b = a
    BY <1>20, <2>3, <2>5, SeqEqual
  <2> QED
    BY <2>2, <2>6
<1>26. \A j \in (at + M)..N : run[j] \in Joiners
  <2> SUFFICES ASSUME NEW j \in (at + M)..N
               PROVE  run[j] \in Joiners
    OBVIOUS
  <2>1. PICK k : k = j - s
    OBVIOUS
  <2>2. k \in 1..(N - s) /\ k > l /\ s + k = j
    BY <1>2, <1>4, <1>14, <1>15, <1>23, <2>1
  <2> QED
    BY <1>5, <1>14, <2>2
<1>27. ASSUME NEW j \in 1..(at - 1)
       PROVE  \/ run[j] \in Joiners
              \/ StartsAfresh(run[j])
              \/ \E k \in (j + 1)..(at - 1) : StartsAfresh(run[k])
  <2>1. CASE j > s
    <3>1. PICK k : k = j - s
      OBVIOUS
    <3>2. k \in 1..(N - s) /\ k < f /\ s + k = j
      BY <1>2, <1>4, <1>14, <1>23, <2>1, <3>1
    <3> QED
      BY <1>5, <1>14, <3>2
  <2>2. CASE j <= s
    <3>1. s # 0 /\ StartsAfresh(run[s])
      BY <1>3, <1>4, <2>2 DEF IsStart
    <3>2. s = j \/ s \in (j + 1)..(at - 1)
      BY <1>4, <1>14, <1>23, <2>2
    <3> QED
      BY <3>1, <3>2
  <2> QED
    BY <1>4, <1>23, <1>14, <2>1, <2>2
<1>28. IsWholeName(a, run)
  <2>1. Len(run) = N /\ DOMAIN run = 1..N
    BY <1>1, <1>2
  <2> QED
    BY <1>15, <1>20, <1>21, <1>22, <1>24, <1>25, <1>26, <1>27, <2>1 DEF IsWholeName
<1> QED
  BY <1>7, <1>19, <1>28

\* The names of the first n runs, each once, where it is spelled first.
IsMentioned(kept, report, n) ==
    /\ \A c \in kept :
          /\ c = [run |-> c.run, name |-> c.name] /\ c.run \in 1..n
          /\ c.name = DepartmentName(report[c.run]) /\ c.name # <<>>
    /\ \A c, d \in kept : c.name = d.name => c = d
    /\ \A m \in 1..n :
          DepartmentName(report[m]) # <<>> =>
              \E c \in kept : c.name = DepartmentName(report[m]) /\ c.run <= m

LEMMA FirstMentionIs ==
    ASSUME NEW report, Len(report) \in Nat
    PROVE  IsMentioned(FirstMentionOfEach(report), report, Len(report))
<1> DEFINE N == Len(report)
           S == SUBSET {[run |-> m, name |-> DepartmentName(report[m])] : m \in 1..N}
           Then(x, n) == IF \/ DepartmentName(report[n]) = <<>>
                            \/ \E c \in x : c.name = DepartmentName(report[n])
                         THEN x
                         ELSE x \cup {[run |-> n, name |-> DepartmentName(report[n])]}
           Equation(g) == g = [n \in 0..N |->
                                  IF n = 0 THEN {}
                                  ELSE LET name == DepartmentName(report[n])
                                       IN  IF name = <<>> \/ \E c \in g[n - 1] : c.name = name THEN g[n - 1]
                                           ELSE g[n - 1] \cup {[run |-> n, name |-> name]}]
           kept == CHOOSE g : Equation(g)
<1>1. N \in Nat
  OBVIOUS
<1>2. \E g : Equation(g)
  <2> DEFINE step == [n \in 1..N |-> [x \in S |-> Then(x, n)]]
  <2>1. step \in [1..N -> [S -> S]]
    <3>1. ASSUME NEW n \in 1..N, NEW x \in S
          PROVE  Then(x, n) \in S
      OBVIOUS
    <3> HIDE DEF Then, S
    <3> QED
      BY <3>1
  <2>2. PICK h : IsListOf(h, S, {}, N, step)
    <3>1. {} \in S
      OBVIOUS
    <3> HIDE DEF step, N, S
    <3> QED
      BY <1>1, <2>1, <3>1, StepsExist
  <2> HIDE DEF step
  <2>3. h \in [0..N -> S] /\ h[0] = {} /\ \A n \in 1..N : h[n] = step[n][h[n - 1]]
    BY <2>2 DEF IsListOf
  <2>4. \A n \in 1..N : h[n] = Then(h[n - 1], n)
    <3> SUFFICES ASSUME NEW n \in 1..N
                 PROVE  h[n] = Then(h[n - 1], n)
      OBVIOUS
    <3> HIDE DEF S
    <3>1. n - 1 \in 0..N /\ h[n - 1] \in S
      BY <1>1, <2>3
    <3>2. step[n] = [x \in S |-> Then(x, n)]
      BY DEF step
    <3> HIDE DEF Then
    <3> QED
      BY <2>3, <3>1, <3>2
  <2>5. ASSUME NEW n \in 0..N
        PROVE  h[n] = IF n = 0 THEN {}
                      ELSE LET name == DepartmentName(report[n])
                           IN  IF name = <<>> \/ \E c \in h[n - 1] : c.name = name THEN h[n - 1]
                               ELSE h[n - 1] \cup {[run |-> n, name |-> name]}
    <3>1. CASE n = 0
      BY <2>3, <3>1
    <3>2. CASE n # 0
      <4>1. n \in 1..N
        BY <1>1, <3>2
      <4> QED
        BY <2>4, <3>2, <4>1
    <3> QED
      BY <3>1, <3>2
  <2>6. Equation(h)
    BY <2>3, <2>5
  <2> QED
    BY <2>6
<1>3. Equation(kept)
  BY <1>2
<1>4. kept[0] = {} /\ \A n \in 1..N : kept[n] = Then(kept[n - 1], n)
  <2> HIDE DEF kept
  <2>1. \A n \in 0..N : kept[n] = IF n = 0 THEN {}
                                  ELSE LET name == DepartmentName(report[n])
                                       IN  IF name = <<>> \/ \E c \in kept[n - 1] : c.name = name THEN kept[n - 1]
                                           ELSE kept[n - 1] \cup {[run |-> n, name |-> name]}
    BY <1>3
  <2>2. 0 \in 0..N /\ \A n \in 1..N : n \in 0..N /\ n # 0
    BY <1>1
  <2> QED
    BY <2>1, <2>2
<1>5. FirstMentionOfEach(report) = kept[N]
  BY DEF FirstMentionOfEach
<1> HIDE DEF kept
<1> DEFINE G == {n \in 0..N : IsMentioned(kept[n], report, n)}
<1>6. 0 \in G
  BY <1>1, <1>4 DEF IsMentioned
<1>7. ASSUME NEW n \in 1..N, n - 1 \in G
      PROVE  n \in G
  <2>1. PICK old, new, name : /\ old = kept[n - 1] /\ new = kept[n]
                              /\ name = DepartmentName(report[n])
    OBVIOUS
  <2>2. IsMentioned(old, report, n - 1)
    BY <1>7, <2>1
  <2>3. new = IF name = <<>> \/ \E c \in old : c.name = name THEN old
              ELSE old \cup {[run |-> n, name |-> name]}
    BY <1>4, <2>1
  <2>4. /\ n \in Nat /\ \A m \in 1..(n - 1) : m \in 1..n
        /\ \A m \in 1..n : m \in 1..(n - 1) \/ m = n
    BY <1>1
  <2> SUFFICES IsMentioned(new, report, n)
    BY <1>1, <2>1
  <2>5. CASE name = <<>>
    <3>1. new = old
      BY <2>3, <2>5
    <3>2. \A m \in 1..n : DepartmentName(report[m]) # <<>> => m \in 1..(n - 1)
      BY <2>1, <2>4, <2>5
    <3> QED
      BY <2>2, <2>4, <3>1, <3>2 DEF IsMentioned
  <2>6. CASE name # <<>> /\ \E c \in old : c.name = name
    <3>1. new = old
      BY <2>3, <2>6
    <3>2. PICK c \in old : c.name = name /\ c.run \in 1..(n - 1)
      BY <2>2, <2>6 DEF IsMentioned
    <3>3. c.run <= n
      BY <1>1, <3>2
    <3> QED
      BY <2>1, <2>2, <2>4, <3>1, <3>2, <3>3 DEF IsMentioned
  <2>7. CASE name # <<>> /\ ~\E c \in old : c.name = name
    <3>1. PICK new1 : new1 = [run |-> n, name |-> name]
      OBVIOUS
    <3>2. new = old \cup {new1} /\ new1.run = n /\ new1.name = name
      BY <2>3, <2>7, <3>1
    <3>3. \A c \in new : /\ c = [run |-> c.run, name |-> c.name] /\ c.run \in 1..n
                         /\ c.name = DepartmentName(report[c.run]) /\ c.name # <<>>
      BY <2>1, <2>2, <2>4, <2>7, <3>1, <3>2 DEF IsMentioned
    <3>4. \A c, d \in new : c.name = d.name => c = d
      BY <2>2, <2>7, <3>2 DEF IsMentioned
    <3>5. \A m \in 1..n : DepartmentName(report[m]) # <<>> =>
             \E c \in new : c.name = DepartmentName(report[m]) /\ c.run <= m
      BY <2>1, <2>2, <2>4, <3>2 DEF IsMentioned
    <3> QED
      BY <3>3, <3>4, <3>5 DEF IsMentioned
  <2> QED
    BY <2>5, <2>6, <2>7
<1>8. 0..N \subseteq G
  <2> HIDE DEF G, N
  <2> QED
    BY <1>1, <1>6, <1>7, StepByStep
<1> QED
  BY <1>1, <1>5, <1>8

\* The departments of any report.
LEMMA DepartmentsAre ==
    ASSUME NEW W, runs \in Seq(Seq(W))
    PROVE  DepartmentsAreWhole
<1>1. PICK offered : offered = FirstMentionOfEach(runs)
  OBVIOUS
<1>2. Len(runs) \in Nat /\ DOMAIN runs = 1..Len(runs) /\ \A n \in 1..Len(runs) : runs[n] \in Seq(W)
  OBVIOUS
<1>3. IsMentioned(offered, runs, Len(runs))
  BY <1>1, <1>2, FirstMentionIs
<1>4. ASSUME NEW c \in offered
      PROVE  IsWholeName(c.name, runs[c.run])
  <2>1. c.run \in 1..Len(runs) /\ c.name = DepartmentName(runs[c.run]) /\ c.name # <<>>
    BY <1>3 DEF IsMentioned
  <2> QED
    BY <1>2, <2>1, DepartmentNameIs
<1>5. /\ \A c, d \in offered : c.name = d.name => c = d
      /\ \A n \in DOMAIN runs :
            DepartmentName(runs[n]) # <<>> =>
                \E c \in offered : c.name = DepartmentName(runs[n]) /\ c.run <= n
  BY <1>2, <1>3 DEF IsMentioned
<1> QED
  BY <1>1, <1>4, <1>5 DEF DepartmentsAreWhole, IsWholeName

LEMMA LettersAreCounted ==
    ASSUME NEW name \in Seq(DOMAIN Letters)
    PROVE  LettersOf(name) \in Nat
<1> DEFINE N == Len(name)
           Then(x, n) == x + Letters[name[n]]
           Equation(g) == g = [i \in 0..N |-> IF i = 0 THEN 0 ELSE g[i - 1] + Letters[name[i]]]
           sum == CHOOSE g : Equation(g)
<1>1. N \in Nat /\ \A n \in 1..N : Letters[name[n]] \in Nat
  BY NamesAssumption
<1>2. \E g : Equation(g)
  <2> DEFINE step == [n \in 1..N |-> [x \in Nat |-> Then(x, n)]]
  <2>1. step \in [1..N -> [Nat -> Nat]]
    BY <1>1
  <2>2. PICK h : IsListOf(h, Nat, 0, N, step)
    <3>1. 0 \in Nat
      OBVIOUS
    <3> HIDE DEF step, N
    <3> QED
      BY <1>1, <2>1, <3>1, StepsExist
  <2> HIDE DEF step
  <2>3. h \in [0..N -> Nat] /\ h[0] = 0 /\ \A n \in 1..N : h[n] = step[n][h[n - 1]]
    BY <2>2 DEF IsListOf
  <2>4. \A n \in 1..N : h[n] = Then(h[n - 1], n)
    <3> SUFFICES ASSUME NEW n \in 1..N
                 PROVE  h[n] = Then(h[n - 1], n)
      OBVIOUS
    <3>0. n - 1 \in 0..N
      BY <1>1
    <3>1. n - 1 \in 0..N /\ h[n - 1] \in Nat
      <4> HIDE DEF N
      <4> QED
        BY <2>3, <3>0
    <3>2. step[n] = [x \in Nat |-> Then(x, n)]
      BY DEF step
    <3> HIDE DEF Then
    <3> QED
      BY <2>3, <3>1, <3>2
  <2>5. ASSUME NEW n \in 0..N
        PROVE  h[n] = IF n = 0 THEN 0 ELSE h[n - 1] + Letters[name[n]]
    <3>1. CASE n = 0
      BY <2>3, <3>1
    <3>2. CASE n # 0
      <4>1. n \in 1..N
        BY <1>1, <3>2
      <4> QED
        BY <2>4, <3>2, <4>1
    <3> QED
      BY <3>1, <3>2
  <2>6. Equation(h)
    BY <2>3, <2>5
  <2> QED
    BY <2>6
<1>3. Equation(sum)
  BY <1>2
<1>4. sum[0] = 0 /\ \A n \in 1..N : sum[n] = Then(sum[n - 1], n)
  <2> HIDE DEF sum
  <2>1. \A n \in 0..N : sum[n] = IF n = 0 THEN 0 ELSE sum[n - 1] + Letters[name[n]]
    BY <1>3
  <2>2. 0 \in 0..N /\ \A n \in 1..N : n \in 0..N /\ n # 0
    BY <1>1
  <2> QED
    BY <2>1, <2>2
<1>5. LettersOf(name) = sum[N]
  BY DEF LettersOf
<1> HIDE DEF sum
<1> DEFINE G == {n \in 0..N : sum[n] \in Nat}
<1>6. 0 \in G
  BY <1>1, <1>4
<1>7. ASSUME NEW n \in 1..N, n - 1 \in G
      PROVE  n \in G
  BY <1>1, <1>4, <1>7
<1>8. 0..N \subseteq G
  <2> HIDE DEF G, N
  <2> QED
    BY <1>1, <1>6, <1>7, StepByStep
<1> QED
  BY <1>1, <1>5, <1>8

LEMMA BareNameIs ==
    ASSUME NEW p \in StatePlaces
    PROVE  BareName(p.name) \in Seq(DOMAIN Letters)
<1>1. PICK name : name = p.name
  OBVIOUS
<1>2. name \in Seq(DOMAIN Letters)
  BY <1>1, NamesAssumption
<1>3. CASE Len(name) > 1
  <2>1. 1 \in Int /\ Len(name) - 1 \in Int /\ \A i \in 1..(Len(name) - 1) : name[i] \in DOMAIN Letters
    BY <1>2, <1>3
  <2>2. SubSeq(name, 1, Len(name) - 1) \in Seq(DOMAIN Letters)
    BY <2>1, SubSeqProperties
  <2> QED
    BY <1>1, <1>2, <2>2 DEF BareName
<1>4. CASE ~(Len(name) > 1)
  BY <1>1, <1>2, <1>4 DEF BareName
<1> QED
  BY <1>3, <1>4

LEMMA GazetteerIs ==
    /\ IsFiniteSet(Gazetteer) /\ Cardinality(Gazetteer) \in Nat
    /\ \A e \in Gazetteer : /\ e.name \in Seq(DOMAIN Letters)
                            /\ e.level \in {"district", "sub_district"}
                            /\ Standing(e) \in Nat
    /\ \A e \in Gazetteer : e.level = "sub_district" =>
          /\ Cardinality({p \in StatePlaces : p.level = "sub_district" /\ BareName(p.name) = e.name}) = 1
          /\ \A p \in StatePlaces : p.level = "district" => BareName(p.name) # e.name
<1> DEFINE Entry(p) == [name |-> BareName(p.name), level |-> p.level]
           entry == [p \in StatePlaces |-> Entry(p)]
           entries == {Entry(p) : p \in StatePlaces}
           districts == {BareName(p.name) : p \in {q \in StatePlaces : q.level = "district"}}
           talukas == {q \in StatePlaces : q.level = "sub_district"}
           alone == {m \in {BareName(p.name) : p \in talukas} :
                        /\ Cardinality({p \in talukas : BareName(p.name) = m}) = 1
                        /\ m \notin districts
                        /\ LettersOf(m) >= ShortestName}
<1>1. IsFiniteSet(StatePlaces)
  BY NamesAssumption
<1>2. IsFiniteSet(entries)
  <2>1. entry \in Surjection(StatePlaces, entries)
    BY DEF Surjection
  <2> HIDE DEF entry, entries
  <2> QED
    BY <1>1, <2>1, FS_Surjection
<1>3. Gazetteer = {[name |-> n, level |-> "district"] : n \in districts}
                    \cup {[name |-> n, level |-> "sub_district"] : n \in alone}
  BY DEF Gazetteer
<1>4. ASSUME NEW e \in Gazetteer
      PROVE  \/ \E p \in StatePlaces : p.level = "district" /\ e = [name |-> BareName(p.name), level |-> "district"]
             \/ \E p \in StatePlaces :
                   /\ p.level = "sub_district" /\ e = [name |-> BareName(p.name), level |-> "sub_district"]
                   /\ e.name \in alone
  <2>1. CASE e \in {[name |-> n, level |-> "district"] : n \in districts}
    <3>1. PICK n \in districts : e = [name |-> n, level |-> "district"]
      BY <2>1
    <3>2. PICK p \in StatePlaces : p.level = "district" /\ n = BareName(p.name)
      OBVIOUS
    <3> QED
      BY <3>1, <3>2
  <2>2. CASE e \in {[name |-> n, level |-> "sub_district"] : n \in alone}
    <3> HIDE DEF alone
    <3>1. PICK n \in alone : e = [name |-> n, level |-> "sub_district"]
      BY <2>2
    <3>2. PICK p \in StatePlaces : p.level = "sub_district" /\ n = BareName(p.name)
      BY DEF alone
    <3> QED
      BY <3>1, <3>2
  <2> HIDE DEF alone, districts
  <2> QED
    BY <1>3, <2>1, <2>2
<1>5. ASSUME NEW e \in Gazetteer
      PROVE  e \in entries /\ e.level \in {"district", "sub_district"}
             /\ \E p \in StatePlaces : e.name = BareName(p.name)
  <2> HIDE DEF alone
  <2>1. PICK p \in StatePlaces : /\ p.level \in {"district", "sub_district"}
                                 /\ e = [name |-> BareName(p.name), level |-> p.level]
    BY <1>4
  <2> QED
    BY <2>1
<1>6. IsFiniteSet(Gazetteer)
  <2>1. Gazetteer \in SUBSET entries
    BY <1>5
  <2> HIDE DEF entries
  <2> QED
    BY <1>2, <2>1, FS_Subset
<1>7. Cardinality(Gazetteer) \in Nat
  BY <1>6, FS_CardinalityType
<1>8. ASSUME NEW e \in Gazetteer
      PROVE  e.name \in Seq(DOMAIN Letters) /\ Standing(e) \in Nat
  <2>1. e.name \in Seq(DOMAIN Letters)
    BY <1>5, BareNameIs
  <2>2. LettersOf(e.name) \in Nat
    BY <2>1, LettersAreCounted
  <2> QED
    BY <2>1, <2>2 DEF Standing
<1>9. ASSUME NEW e \in Gazetteer, e.level = "sub_district"
      PROVE  /\ Cardinality({p \in StatePlaces : p.level = "sub_district" /\ BareName(p.name) = e.name}) = 1
             /\ \A p \in StatePlaces : p.level = "district" => BareName(p.name) # e.name
  <2>1. e.name \in alone
    <3> HIDE DEF alone
    <3>1. \A p : [name |-> BareName(p.name), level |-> "district"].level = "district"
      OBVIOUS
    <3> QED
      BY <1>4, <1>9, <3>1
  <2>2. /\ Cardinality({p \in talukas : BareName(p.name) = e.name}) = 1
        /\ e.name \notin districts
    BY <2>1
  <2>3. {p \in talukas : BareName(p.name) = e.name}
          = {p \in StatePlaces : p.level = "sub_district" /\ BareName(p.name) = e.name}
    OBVIOUS
  <2>4. \A p \in StatePlaces : p.level = "district" => BareName(p.name) # e.name
    BY <2>2
  <2> HIDE DEF talukas
  <2> QED
    BY <2>2, <2>3, <2>4
<1> QED
  BY <1>5, <1>6, <1>7, <1>8, <1>9

LEMMA ForemostIs ==
    ASSUME NEW left \in SUBSET Gazetteer, left # {}
    PROVE  Foremost(left) \in left
<1> DEFINE S == {Standing(e) : e \in left}
<1>1. IsFiniteSet(left)
  BY GazetteerIs, FS_Subset
<1>2. S \subseteq Nat /\ S # {} /\ IsFiniteSet(S)
  <2>1. \A e \in left : Standing(e) \in Nat
    BY GazetteerIs
  <2>2. [e \in left |-> Standing(e)] \in Surjection(left, S)
    BY DEF Surjection
  <2>3. IsFiniteSet(S)
    <3> HIDE DEF S
    <3> QED
      BY <1>1, <2>2, FS_Surjection
  <2> QED
    BY <2>1, <2>3
<1>3. \E n \in S : \A k \in S : k <= n
  <2> HIDE DEF S
  <2> QED
    BY <1>2, GreatestOf
<1>4. PICK e \in left : \A k \in S : k <= Standing(e)
  BY <1>3
<1>5. \A f \in left : Standing(f) <= Standing(e)
  BY <1>4
<1> QED
  BY <1>5 DEF Foremost

\* Where a name stands in a sentence.
LEMMA OccurrencesAre ==
    ASSUME NEW W, NEW sentence \in Seq(W), NEW name, Len(name) \in Nat,
           NEW m \in Occurrences(sentence, name)
    PROVE  m = [at |-> m.at, end |-> m.end] /\ m.at \in Nat /\ m.end = m.at + Len(name) /\ m.end \in Nat
<1>1. PICK i \in DOMAIN sentence : m = [at |-> i, end |-> i + Len(name)]
  BY DEF Occurrences
<1>2. i \in Nat
  OBVIOUS
<1>3. m.at = i /\ m.end = i + Len(name)
  BY <1>1
<1> QED
  BY <1>1, <1>2, <1>3

\* No longer name has claimed it, and it stands before the others no name has.
LEMMA FirstUnclaimedIs ==
    ASSUME NEW W, NEW sentence \in Seq(W), NEW name, Len(name) \in Nat, NEW claimed
    PROVE  LET match == FirstUnclaimed(sentence, name, claimed)
           IN  /\ \A m \in match : m \in Occurrences(sentence, name) /\ \A c \in claimed : ~Overlap(m, c)
               /\ \A m, n \in match : m = n
               /\ match = {} => \A m \in Occurrences(sentence, name) : \E c \in claimed : Overlap(m, c)
<1> DEFINE open == {m \in Occurrences(sentence, name) : \A c \in claimed : ~Overlap(m, c)}
           match == {m \in open : \A n \in open : m.at <= n.at}
<1>1. FirstUnclaimed(sentence, name, claimed) = match
  BY DEF FirstUnclaimed
<1>2. ASSUME NEW m \in open
      PROVE  m = [at |-> m.at, end |-> m.end] /\ m.at \in Nat /\ m.end = m.at + Len(name)
  BY OccurrencesAre
<1>3. \A m \in match : m \in Occurrences(sentence, name) /\ \A c \in claimed : ~Overlap(m, c)
  OBVIOUS
<1>4. ASSUME NEW m \in match, NEW n \in match
      PROVE  m = n
  <2>1. m \in open /\ n \in open /\ m.at <= n.at /\ n.at <= m.at
    OBVIOUS
  <2>2. m.at \in Nat /\ n.at \in Nat
    BY <1>2, <2>1
  <2>3. m.at = n.at
    BY <2>1, <2>2
  <2> HIDE DEF open, match
  <2>4. /\ m = [at |-> m.at, end |-> m.end] /\ m.end = m.at + Len(name)
        /\ n = [at |-> n.at, end |-> n.end] /\ n.end = n.at + Len(name)
    BY <1>2, <2>1
  <2> QED
    BY <2>3, <2>4
<1>5. ASSUME open # {}
      PROVE  match # {}
  <2> DEFINE S == {m.at : m \in open}
  <2>1. S \subseteq Nat /\ S # {}
    BY <1>2, <1>5
  <2>2. \E n \in S : \A k \in S : n <= k
    <3> HIDE DEF S
    <3> QED
      BY <2>1, LeastOf
  <2>3. PICK m \in open : \A k \in S : m.at <= k
    BY <2>2
  <2>4. \A n \in open : m.at <= n.at
    BY <2>3
  <2> QED
    BY <2>3, <2>4
<1>6. open = {} => \A m \in Occurrences(sentence, name) : \E c \in claimed : Overlap(m, c)
  OBVIOUS
<1> HIDE DEF open, match
<1> QED
  BY <1>1, <1>3, <1>4, <1>5, <1>6

Offers == [sentence : Nat, place : Gazetteer, at : Nat, end : Nat]
Readings == [left : SUBSET Gazetteer, claimed : SUBSET [at : Nat, end : Nat], out : SUBSET Offers]

\* A name stands in a sentence apart from every other.
StandsFree(e, sentence) ==
    \E m \in Occurrences(sentence, e.name) :
        \A f \in Gazetteer \ {e} : \A o \in Occurrences(sentence, f.name) : ~Overlap(m, o)

\* Each place once, and no two for the same words.
AreApartPlaces(out) ==
    /\ \A c, d \in out : c.place = d.place => c = d
    /\ \A c, d \in out : c.sentence = d.sentence /\ Overlap(c, d) => c = d

\* What the first n sentences offer.
AreOffered(out, passage, n) ==
    /\ out \subseteq Offers /\ AreApartPlaces(out)
    /\ \A c \in out : c.sentence \in 1..n
    /\ \A e \in Gazetteer, k \in 1..n : StandsFree(e, passage[k]) => \E c \in out : c.place = e

\* Part of the gazetteer tried against the n-th sentence.
IsTried(r, n, sentence, before) ==
    /\ r \in Readings /\ before \subseteq r.out /\ AreApartPlaces(r.out)
    /\ \A c \in r.out : c \in before \/ c.sentence = n
    /\ \A c \in r.out : c.sentence = n => [at |-> c.at, end |-> c.end] \in r.claimed
    /\ \A x \in r.claimed : \E f \in Gazetteer \ r.left : x \in Occurrences(sentence, f.name)
    /\ \A e \in Gazetteer \ r.left : StandsFree(e, sentence) => \E c \in r.out : c.place = e

LEMMA TryEntryIs ==
    ASSUME NEW W, NEW sentence \in Seq(W), NEW n \in Nat, NEW before, NEW r,
           IsTried(r, n, sentence, before), NEW e \in r.left
    PROVE  /\ IsTried(TryEntry(r, n, sentence, e), n, sentence, before)
           /\ TryEntry(r, n, sentence, e).left = r.left \ {e}
<1> DEFINE match == IF \E c \in r.out : c.place = e THEN {}
                    ELSE FirstUnclaimed(sentence, e.name, r.claimed)
           Offer(m) == [sentence |-> n, place |-> e, at |-> m.at, end |-> m.end]
<1>1. PICK left, claimed, out : left = r.left /\ claimed = r.claimed /\ out = r.out
  OBVIOUS
<1>2. PICK new : new = TryEntry(r, n, sentence, e)
  OBVIOUS
<1>3. new = [left |-> left \ {e}, claimed |-> claimed \cup match, out |-> out \cup {Offer(m) : m \in match}]
  BY <1>1, <1>2 DEF TryEntry
<1>4. /\ new.left = left \ {e} /\ new.claimed = claimed \cup match
      /\ new.out = out \cup {Offer(m) : m \in match}
  BY <1>3
<1>5. /\ left \subseteq Gazetteer /\ claimed \subseteq [at : Nat, end : Nat] /\ out \subseteq Offers
      /\ e \in left /\ e \in Gazetteer
  BY <1>1 DEF IsTried, Readings
<1>6. /\ before \subseteq out /\ AreApartPlaces(out)
      /\ \A c \in out : c \in before \/ c.sentence = n
      /\ \A c \in out : c.sentence = n => [at |-> c.at, end |-> c.end] \in claimed
      /\ \A x \in claimed : \E f \in Gazetteer \ left : x \in Occurrences(sentence, f.name)
      /\ \A f \in Gazetteer \ left : StandsFree(f, sentence) => \E c \in out : c.place = f
  BY <1>1 DEF IsTried
<1>7. Len(e.name) \in Nat
  BY <1>5, GazetteerIs
<1> SUFFICES IsTried(new, n, sentence, before) /\ new.left = left \ {e}
  BY <1>1, <1>2
<1> HIDE DEF match
<1>8. CASE match = {}
  <2>1. new.left = left \ {e} /\ new.claimed = claimed /\ new.out = out
    BY <1>4, <1>8
  <2>2. new \in Readings
    BY <1>3, <1>4, <1>5, <2>1 DEF Readings
  <2>3. \A x \in claimed : \E f \in Gazetteer \ (left \ {e}) : x \in Occurrences(sentence, f.name)
    BY <1>6
  <2>4. StandsFree(e, sentence) => \E c \in out : c.place = e
    <3>1. CASE \E c \in out : c.place = e
      BY <3>1
    <3>2. CASE ~\E c \in out : c.place = e
      <4>1. FirstUnclaimed(sentence, e.name, claimed) = {}
        BY <1>1, <1>8, <3>2 DEF match
      <4>2. \A m \in Occurrences(sentence, e.name) : \E x \in claimed : Overlap(m, x)
        BY <1>7, <4>1, FirstUnclaimedIs
      <4>3. \A x \in claimed : \E f \in Gazetteer \ {e} : x \in Occurrences(sentence, f.name)
        BY <1>5, <1>6
      <4> QED
        BY <4>2, <4>3 DEF StandsFree
    <3> QED
      BY <3>1, <3>2
  <2>5. \A f \in Gazetteer \ (left \ {e}) : StandsFree(f, sentence) => \E c \in out : c.place = f
    BY <1>6, <2>4
  <2> QED
    BY <1>6, <2>1, <2>2, <2>3, <2>5 DEF IsTried
<1>9. CASE match # {}
  <2>1. ~(\E c \in out : c.place = e) /\ match = FirstUnclaimed(sentence, e.name, claimed)
    BY <1>1, <1>9 DEF match
  <2>2. PICK m \in match : TRUE
    BY <1>9
  <2>3. /\ m \in Occurrences(sentence, e.name) /\ \A x \in claimed : ~Overlap(m, x)
        /\ \A k \in match : k = m
    <3>1. /\ \A k \in match : k \in Occurrences(sentence, e.name) /\ \A x \in claimed : ~Overlap(k, x)
          /\ \A k, l \in match : k = l
      BY <1>7, <2>1, FirstUnclaimedIs
    <3> QED
      BY <2>2, <3>1
  <2>4. m = [at |-> m.at, end |-> m.end] /\ m.at \in Nat /\ m.end \in Nat
    BY <1>7, <2>3, OccurrencesAre
  <2>5. PICK o : o = Offer(m)
    OBVIOUS
  <2>6. o.sentence = n /\ o.place = e /\ o.at = m.at /\ o.end = m.end /\ o \in Offers
    BY <1>5, <2>4, <2>5 DEF Offers
  <2> HIDE DEF Offer
  <2>7. match = {m}
    BY <2>2, <2>3
  <2>8. new.claimed = claimed \cup {m} /\ new.out = out \cup {o}
    BY <1>4, <2>5, <2>7
  <2>9. new \in Readings
    <3>1. claimed \cup {m} \subseteq [at : Nat, end : Nat]
      BY <1>5, <2>4
    <3>2. out \cup {o} \subseteq Offers /\ left \ {e} \subseteq Gazetteer
      BY <1>5, <2>6
    <3>3. new = [left |-> left \ {e}, claimed |-> claimed \cup {m}, out |-> out \cup {o}]
      BY <1>3, <1>4, <2>8
    <3> QED
      BY <3>1, <3>2, <3>3 DEF Readings
  <2>10. ASSUME NEW c \in out, c.sentence = n
         PROVE  ~Overlap(c, o) /\ ~Overlap(o, c)
    <3>1. PICK x \in claimed : x = [at |-> c.at, end |-> c.end]
      BY <1>6, <2>10
    <3>2. ~Overlap(m, x) /\ x.at = c.at /\ x.end = c.end
      BY <2>3, <3>1
    <3> QED
      BY <2>6, <3>2 DEF Overlap
  <2>11. AreApartPlaces(new.out)
    <3>1. \A c, d \in out \cup {o} : c.place = d.place => c = d
      BY <1>6, <2>1, <2>6 DEF AreApartPlaces
    <3>2. \A c, d \in out \cup {o} : c.sentence = d.sentence /\ Overlap(c, d) => c = d
      BY <1>6, <2>6, <2>10 DEF AreApartPlaces
    <3> QED
      BY <2>8, <3>1, <3>2 DEF AreApartPlaces
  <2>12. \A c \in out \cup {o} : c \in before \/ c.sentence = n
    BY <1>6, <2>6
  <2>13. \A c \in out \cup {o} : c.sentence = n => [at |-> c.at, end |-> c.end] \in claimed \cup {m}
    BY <1>6, <2>4, <2>6
  <2>14. \A x \in claimed \cup {m} : \E f \in Gazetteer \ (left \ {e}) : x \in Occurrences(sentence, f.name)
    BY <1>5, <1>6, <2>3
  <2>15. \A f \in Gazetteer \ (left \ {e}) : StandsFree(f, sentence) => \E c \in out \cup {o} : c.place = f
    BY <1>6, <2>6
  <2>16. before \subseteq out \cup {o}
    BY <1>6
  <2> QED
    BY <1>4, <2>8, <2>9, <2>11, <2>12, <2>13, <2>14, <2>15, <2>16 DEF IsTried
<1> QED
  BY <1>8, <1>9

\* The whole gazetteer, entry by entry, if each step tries the foremost left.
AreInTurn(r, N, n, sentence, before) ==
    /\ IsTried(r[0], n, sentence, before) /\ r[0].left = Gazetteer
    /\ \A i \in 1..N :
          IsTried(r[i - 1], n, sentence, before) /\ r[i - 1].left # {}
              => r[i] = TryEntry(r[i - 1], n, sentence, Foremost(r[i - 1].left))

LEMMA TriedInTurn ==
    ASSUME NEW W, NEW sentence \in Seq(W), NEW n \in Nat, NEW before, NEW r, NEW N,
           N = Cardinality(Gazetteer), AreInTurn(r, N, n, sentence, before)
    PROVE  \A i \in 0..N : IsTried(r[i], n, sentence, before) /\ Cardinality(r[i].left) = N - i
<1> DEFINE G == {i \in 0..N : IsTried(r[i], n, sentence, before) /\ Cardinality(r[i].left) = N - i}
<1>1. N \in Nat
  BY GazetteerIs
<1>2. 0 \in G
  BY <1>1 DEF AreInTurn
<1>3. ASSUME NEW i \in 1..N, i - 1 \in G
      PROVE  i \in G
  <2>1. PICK x : x = r[i - 1]
    OBVIOUS
  <2>2. IsTried(x, n, sentence, before) /\ Cardinality(x.left) = N - (i - 1)
    BY <1>3, <2>1
  <2>3. x.left \in SUBSET Gazetteer /\ IsFiniteSet(x.left)
    <3>1. x.left \in SUBSET Gazetteer
      BY <2>2 DEF IsTried, Readings
    <3> QED
      BY <3>1, GazetteerIs, FS_Subset
  <2>4. x.left # {}
    BY <1>1, <2>2, <2>3, FS_EmptySet
  <2>5. PICK e \in x.left : e = Foremost(x.left)
    BY <2>3, <2>4, ForemostIs
  <2>6. r[i] = TryEntry(x, n, sentence, e)
    BY <2>1, <2>2, <2>4, <2>5 DEF AreInTurn
  <2>7. IsTried(r[i], n, sentence, before) /\ r[i].left = x.left \ {e}
    BY <2>2, <2>6, TryEntryIs
  <2>8. PICK left, next : left = x.left /\ next = r[i]
    OBVIOUS
  <2>9. IsFiniteSet(left) /\ e \in left /\ Cardinality(left) = N - (i - 1)
    BY <2>2, <2>3, <2>8
  <2>10. Cardinality(left \ {e}) = Cardinality(left) - 1
    BY <2>9, FS_RemoveElement
  <2>11. N - (i - 1) - 1 = N - i /\ i \in 0..N
    BY <1>1
  <2>12. Cardinality(next.left) = N - i
    BY <2>7, <2>8, <2>9, <2>10, <2>11
  <2> QED
    BY <2>7, <2>8, <2>11, <2>12
<1>4. 0..N \subseteq G
  <2> HIDE DEF G
  <2> QED
    BY <1>1, <1>2, <1>3, StepByStep
<1> QED
  BY <1>4

Untried(before) == [left |-> Gazetteer, claimed |-> {}, out |-> before]

\* Every entry has been tried, and the sentence is placed accordingly.
IsAllTried(r, n, sentence, before) ==
    IsTried(r, n, sentence, before) /\ r.left = {} /\ PlacesOf(n, sentence, before) = r.out

\* The gazetteer tried against one sentence, to its last entry.
LEMMA PlacesOfAre ==
    ASSUME NEW W, NEW sentence \in Seq(W), NEW n \in Nat, NEW before,
           IsTried(Untried(before), n, sentence, before)
    PROVE  \E r : IsAllTried(r, n, sentence, before)
<1> DEFINE N == Cardinality(Gazetteer)
           S == Readings
           base == [left |-> Gazetteer, claimed |-> {}, out |-> before]
           Then(x) == TryEntry(x, n, sentence, Foremost(x.left))
           Tried(x) == IsTried(x, n, sentence, before) /\ x.left # {}
           Equation(g) == g = [i \in 0..N |->
                                  IF i = 0 THEN [left |-> Gazetteer, claimed |-> {}, out |-> before]
                                  ELSE TryEntry(g[i - 1], n, sentence, Foremost(g[i - 1].left))]
           reading == CHOOSE g : Equation(g)
<1>1. N \in Nat
  BY GazetteerIs
<1>2. base \in S
  BY DEF IsTried, Untried
<1>3. ASSUME NEW x \in S, Tried(x)
      PROVE  Then(x) \in S
  <2>1. x.left \in SUBSET Gazetteer
    BY DEF Readings
  <2>2. PICK e \in x.left : e = Foremost(x.left)
    BY <1>3, <2>1, ForemostIs
  <2>3. IsTried(TryEntry(x, n, sentence, e), n, sentence, before)
    BY <1>3, <2>2, TryEntryIs
  <2> QED
    BY <2>2, <2>3 DEF IsTried
<1>4. \E g : Equation(g)
  <2> DEFINE step == [i \in 1..N |-> [x \in S |-> IF Tried(x) THEN Then(x) ELSE x]]
  <2>1. step \in [1..N -> [S -> S]]
    <3> HIDE DEF Then, Tried, S
    <3> QED
      BY <1>3
  <2>2. PICK h : IsListOf(h, S, base, N, step)
    <3> HIDE DEF step, N, S, base
    <3> QED
      BY <1>1, <1>2, <2>1, StepsExist
  <2> HIDE DEF step
  <2>3. h \in [0..N -> S] /\ h[0] = base /\ \A i \in 1..N : h[i] = step[i][h[i - 1]]
    BY <2>2 DEF IsListOf
  <2>4. \A i \in 1..N : h[i] = IF Tried(h[i - 1]) THEN Then(h[i - 1]) ELSE h[i - 1]
    <3> SUFFICES ASSUME NEW i \in 1..N
                 PROVE  h[i] = IF Tried(h[i - 1]) THEN Then(h[i - 1]) ELSE h[i - 1]
      OBVIOUS
    <3> HIDE DEF S
    <3>1. i - 1 \in 0..N
      BY <1>1
    <3> HIDE DEF N
    <3>2. h[i - 1] \in S
      BY <2>3, <3>1
    <3>3. step[i] = [x \in S |-> IF Tried(x) THEN Then(x) ELSE x]
      BY DEF step
    <3> HIDE DEF Then, Tried
    <3> QED
      BY <2>3, <3>2, <3>3
  <2>5. IsTried(h[0], n, sentence, before) /\ h[0].left = Gazetteer
    BY <2>3 DEF Untried
  <2>6. \A i \in 1..N : /\ IsTried(h[i - 1], n, sentence, before)
                        /\ h[i - 1].left # {}
                        => h[i] = TryEntry(h[i - 1], n, sentence, Foremost(h[i - 1].left))
    BY <2>4
  <2>7. \A i \in 0..N : IsTried(h[i], n, sentence, before) /\ Cardinality(h[i].left) = N - i
    <3>1. AreInTurn(h, Cardinality(Gazetteer), n, sentence, before)
      BY <2>5, <2>6 DEF AreInTurn
    <3> HIDE DEF Then, Tried, S, base
    <3> QED
      BY <3>1, TriedInTurn
  <2>8. \A i \in 1..N : Tried(h[i - 1])
    <3> SUFFICES ASSUME NEW i \in 1..N
                 PROVE  Tried(h[i - 1])
      OBVIOUS
    <3>1. i - 1 \in 0..N /\ N - (i - 1) > 0
      BY <1>1
    <3>2. IsTried(h[i - 1], n, sentence, before) /\ Cardinality(h[i - 1].left) = N - (i - 1)
      BY <2>7, <3>1
    <3>3. h[i - 1].left # {}
      <4>1. PICK left : left = h[i - 1].left
        OBVIOUS
      <4>2. Cardinality(left) = N - (i - 1)
        BY <3>2, <4>1
      <4>3. Cardinality(left) # 0
        BY <3>1, <4>2
      <4>4. left # {}
        BY <4>3, FS_EmptySet
      <4> QED
        BY <4>1, <4>4
    <3> QED
      BY <3>2, <3>3
  <2>9. ASSUME NEW i \in 0..N
        PROVE  h[i] = IF i = 0 THEN [left |-> Gazetteer, claimed |-> {}, out |-> before]
                      ELSE TryEntry(h[i - 1], n, sentence, Foremost(h[i - 1].left))
    <3>1. CASE i = 0
      BY <2>3, <3>1
    <3>2. CASE i # 0
      <4>1. i \in 1..N
        BY <1>1, <3>2
      <4>2. h[i] = Then(h[i - 1])
        <5> HIDE DEF Then, Tried, N
        <5> QED
          BY <2>4, <2>8, <4>1
      <4> QED
        BY <3>2, <4>2
    <3> QED
      BY <3>1, <3>2
  <2>10. Equation(h)
    <3> HIDE DEF S
    <3> QED
      BY <2>3, <2>9
  <2> QED
    BY <2>10
<1>5. Equation(reading)
  BY <1>4
<1>6. PlacesOf(n, sentence, before) = reading[N].out
  BY DEF PlacesOf
<1> HIDE DEF reading
<1>7. /\ reading[0] = base
      /\ \A i \in 1..N : reading[i] = TryEntry(reading[i - 1], n, sentence, Foremost(reading[i - 1].left))
  <2>1. \A i \in 0..N : reading[i] = IF i = 0 THEN [left |-> Gazetteer, claimed |-> {}, out |-> before]
                                     ELSE TryEntry(reading[i - 1], n, sentence, Foremost(reading[i - 1].left))
    BY <1>5
  <2>2. 0 \in 0..N /\ \A i \in 1..N : i \in 0..N /\ i # 0
    BY <1>1
  <2> QED
    BY <2>1, <2>2
<1>8. IsTried(reading[0], n, sentence, before) /\ reading[0].left = Gazetteer
  BY <1>7 DEF Untried
<1>9. \A i \in 0..N : IsTried(reading[i], n, sentence, before) /\ Cardinality(reading[i].left) = N - i
  <2>1. AreInTurn(reading, Cardinality(Gazetteer), n, sentence, before)
    BY <1>7, <1>8 DEF AreInTurn
  <2> HIDE DEF Then, Tried, S, base
  <2> QED
    BY <2>1, TriedInTurn
<1>10. IsTried(reading[N], n, sentence, before) /\ Cardinality(reading[N].left) = 0
  <2>1. N \in 0..N /\ N - N = 0
    BY <1>1
  <2> QED
    BY <1>9, <2>1
<1>11. reading[N].left = {}
  <2>1. PICK left : left = reading[N].left
    OBVIOUS
  <2>2. IsFiniteSet(left)
    <3>1. left \in SUBSET Gazetteer
      BY <1>10, <2>1 DEF IsTried, Readings
    <3> QED
      BY <3>1, GazetteerIs, FS_Subset
  <2> QED
    BY <1>10, <2>1, <2>2, FS_EmptySet
<1> QED
  BY <1>6, <1>10, <1>11 DEF IsAllTried

\* One sentence more.
LEMMA OneSentenceMore ==
    ASSUME NEW W, NEW passage \in Seq(Seq(W)), NEW n \in 1..Len(passage), NEW before,
           AreOffered(before, passage, n - 1)
    PROVE  AreOffered(PlacesOf(n, passage[n], before), passage, n)
<1>1. PICK sentence \in Seq(W) : sentence = passage[n]
  OBVIOUS
<1>2. n \in Nat /\ \A k \in 1..n : k \in 1..(n - 1) \/ k = n
  OBVIOUS
<1>3. /\ before \subseteq Offers /\ AreApartPlaces(before)
      /\ \A c \in before : c.sentence \in 1..(n - 1)
      /\ \A e \in Gazetteer, k \in 1..(n - 1) : StandsFree(e, passage[k]) => \E c \in before : c.place = e
  BY DEF AreOffered
<1>4. IsTried(Untried(before), n, sentence, before)
  <2>1. PICK r : r = Untried(before)
    OBVIOUS
  <2>2. r.left = Gazetteer /\ r.claimed = {} /\ r.out = before
    BY <2>1 DEF Untried
  <2>3. r \in Readings
    BY <1>3, <2>1 DEF Readings, Untried
  <2>4. \A c \in before : c.sentence # n
    BY <1>2, <1>3
  <2>5. IsTried(r, n, sentence, before)
    BY <1>3, <2>2, <2>3, <2>4 DEF IsTried
  <2> QED
    BY <2>1, <2>5
<1>5. PICK r : IsAllTried(r, n, sentence, before)
  <2>1. n \in Nat /\ sentence \in Seq(W)
    BY <1>1, <1>2
  <2> QED
    BY <1>4, <2>1, PlacesOfAre
<1>6. PICK out : out = r.out
  OBVIOUS
<1>7. /\ out \subseteq Offers /\ before \subseteq out /\ AreApartPlaces(out)
      /\ \A c \in out : c \in before \/ c.sentence = n
      /\ \A e \in Gazetteer : StandsFree(e, sentence) => \E c \in out : c.place = e
  BY <1>5, <1>6 DEF IsAllTried, IsTried, Readings
<1>8. \A c \in out : c.sentence \in 1..n
  BY <1>2, <1>3, <1>7
<1>9. \A e \in Gazetteer, k \in 1..n : StandsFree(e, passage[k]) => \E c \in out : c.place = e
  BY <1>1, <1>2, <1>3, <1>7
<1> QED
  BY <1>1, <1>5, <1>6, <1>7, <1>8, <1>9 DEF IsAllTried, AreOffered

\* A whole page.
LEMMA PlacesInAre ==
    ASSUME NEW W, NEW passage \in Seq(Seq(W))
    PROVE  AreOffered(PlacesIn(passage), passage, Len(passage))
<1> DEFINE N == Len(passage)
           S == SUBSET Offers
           Then(x, n) == PlacesOf(n, passage[n], x)
           Prepared(x, n) == AreOffered(x, passage, n - 1)
           Equation(g) == g = [n \in 0..N |-> IF n = 0 THEN {} ELSE PlacesOf(n, passage[n], g[n - 1])]
           out == CHOOSE g : Equation(g)
<1>1. N \in Nat
  OBVIOUS
<1>2. AreOffered({}, passage, 0)
  BY DEF AreOffered, AreApartPlaces
<1>3. ASSUME NEW n \in 1..N, NEW x, Prepared(x, n)
      PROVE  AreOffered(Then(x, n), passage, n) /\ Then(x, n) \in S
  <2>1. AreOffered(Then(x, n), passage, n)
    BY <1>3, OneSentenceMore
  <2> QED
    BY <2>1 DEF AreOffered
<1>4. \E g : Equation(g)
  <2> DEFINE step == [n \in 1..N |-> [x \in S |-> IF Prepared(x, n) THEN Then(x, n) ELSE x]]
  <2>1. step \in [1..N -> [S -> S]]
    <3> HIDE DEF Then, Prepared, S
    <3> QED
      BY <1>3
  <2>2. PICK h : IsListOf(h, S, {}, N, step)
    <3>1. {} \in S
      OBVIOUS
    <3> HIDE DEF step, N, S
    <3> QED
      BY <1>1, <2>1, <3>1, StepsExist
  <2> HIDE DEF step
  <2>3. h \in [0..N -> S] /\ h[0] = {} /\ \A n \in 1..N : h[n] = step[n][h[n - 1]]
    BY <2>2 DEF IsListOf
  <2>4. \A n \in 1..N : h[n] = IF Prepared(h[n - 1], n) THEN Then(h[n - 1], n) ELSE h[n - 1]
    <3> SUFFICES ASSUME NEW n \in 1..N
                 PROVE  h[n] = IF Prepared(h[n - 1], n) THEN Then(h[n - 1], n) ELSE h[n - 1]
      OBVIOUS
    <3> HIDE DEF S
    <3>1. n - 1 \in 0..N
      BY <1>1
    <3> HIDE DEF N
    <3>2. h[n - 1] \in S
      BY <2>3, <3>1
    <3>3. step[n] = [x \in S |-> IF Prepared(x, n) THEN Then(x, n) ELSE x]
      BY DEF step
    <3> HIDE DEF Then, Prepared
    <3> QED
      BY <2>3, <3>2, <3>3
  <2> DEFINE H == {n \in 0..N : AreOffered(h[n], passage, n)}
  <2>5. 0 \in H
    <3>1. 0 \in 0..N
      BY <1>1
    <3>2. AreOffered(h[0], passage, 0)
      BY <1>2, <2>3
    <3> QED
      BY <3>1, <3>2
  <2>6. ASSUME NEW n \in 1..N, n - 1 \in H
        PROVE  n \in H
    <3>1. Prepared(h[n - 1], n)
      BY <2>6
    <3>2. h[n] = Then(h[n - 1], n)
      <4> HIDE DEF Then, Prepared, N
      <4> QED
        BY <2>4, <3>1
    <3>3. AreOffered(h[n], passage, n)
      <4> HIDE DEF Then, Prepared
      <4> QED
        BY <1>3, <3>1, <3>2
    <3> QED
      BY <1>1, <3>3
  <2>7. 0..N \subseteq H
    <3> HIDE DEF H, N
    <3> QED
      BY <1>1, <2>5, <2>6, StepByStep
  <2>8. \A n \in 1..N : Prepared(h[n - 1], n)
    <3>1. \A n \in 1..N : n - 1 \in 0..N
      BY <1>1
    <3> QED
      BY <2>7, <3>1
  <2>9. ASSUME NEW n \in 0..N
        PROVE  h[n] = IF n = 0 THEN {} ELSE PlacesOf(n, passage[n], h[n - 1])
    <3>1. CASE n = 0
      BY <2>3, <3>1
    <3>2. CASE n # 0
      <4>1. n \in 1..N
        BY <1>1, <3>2
      <4>2. h[n] = Then(h[n - 1], n)
        <5> HIDE DEF Then, Prepared, N
        <5> QED
          BY <2>4, <2>8, <4>1
      <4> QED
        BY <3>2, <4>2
    <3> QED
      BY <3>1, <3>2
  <2>10. Equation(h)
    <3> HIDE DEF S, H
    <3> QED
      BY <2>3, <2>9
  <2> QED
    BY <2>10
<1>5. Equation(out)
  BY <1>4
<1>6. PlacesIn(passage) = out[N]
  BY DEF PlacesIn
<1> HIDE DEF out
<1>7. out[0] = {} /\ \A n \in 1..N : out[n] = PlacesOf(n, passage[n], out[n - 1])
  <2>1. \A n \in 0..N : out[n] = IF n = 0 THEN {} ELSE PlacesOf(n, passage[n], out[n - 1])
    BY <1>5
  <2>2. 0 \in 0..N /\ \A n \in 1..N : n \in 0..N /\ n # 0
    BY <1>1
  <2> QED
    BY <2>1, <2>2
<1> DEFINE G == {n \in 0..N : AreOffered(out[n], passage, n)}
<1>8. 0 \in G
  <2>1. 0 \in 0..N
    BY <1>1
  <2> QED
    BY <1>2, <1>7, <2>1
<1>9. ASSUME NEW n \in 1..N, n - 1 \in G
      PROVE  n \in G
  <2>1. AreOffered(out[n - 1], passage, n - 1) /\ out[n] = PlacesOf(n, passage[n], out[n - 1])
    BY <1>7, <1>9
  <2>2. AreOffered(out[n], passage, n)
    BY <2>1, OneSentenceMore
  <2> QED
    BY <1>1, <2>2
<1>10. 0..N \subseteq G
  <2> HIDE DEF G, N
  <2> QED
    BY <1>1, <1>8, <1>9, StepByStep
<1> QED
  BY <1>1, <1>6, <1>10

\* The places of any page.
LEMMA PlacesAre ==
    ASSUME NEW W, text \in Seq(Seq(W))
    PROVE  PlacesAreUnmistakable
<1>1. PICK offered : offered = PlacesIn(text)
  OBVIOUS
<1>2. AreOffered(offered, text, Len(text))
  BY <1>1, PlacesInAre
<1>3. /\ offered \subseteq Offers /\ AreApartPlaces(offered)
      /\ \A e \in Gazetteer, k \in 1..Len(text) : StandsFree(e, text[k]) => \E c \in offered : c.place = e
  BY <1>2 DEF AreOffered
<1>4. \A c, d \in offered : /\ c.place = d.place => c = d
                            /\ c.sentence = d.sentence /\ Overlap(c, d) => c = d
  BY <1>3 DEF AreApartPlaces
<1>5. ASSUME NEW c \in offered
      PROVE  /\ c.place.level = "sub_district" => Cardinality(Bearing(c.place)) = 1
             /\ \A p \in StatePlaces :
                   BareName(p.name) = c.place.name => p.level = c.place.level \/ c.place.level = "district"
  <2>1. PICK e \in Gazetteer : e = c.place
    BY <1>3 DEF Offers
  <2>2. CASE e.level = "district"
    BY <2>1, <2>2
  <2>3. CASE e.level = "sub_district"
    <3>1. Bearing(e) = {p \in StatePlaces : p.level = "sub_district" /\ BareName(p.name) = e.name}
      BY <2>3 DEF Bearing
    <3>2. Cardinality(Bearing(e)) = 1
      BY <2>3, <3>1, GazetteerIs
    <3>3. \A p \in StatePlaces : BareName(p.name) = e.name => p.level # "district"
      BY <2>3, GazetteerIs
    <3>4. \A p \in StatePlaces : p.level \in {"district", "sub_district"}
      BY NamesAssumption
    <3> QED
      BY <2>1, <2>3, <3>2, <3>3, <3>4
  <2> QED
    BY <2>1, <2>2, <2>3, GazetteerIs
<1>6. ASSUME NEW e \in Gazetteer, NEW n \in DOMAIN text,
             \E m \in Stands(e, n) : \A f \in Gazetteer \ {e} : \A o \in Stands(f, n) : ~Overlap(m, o)
      PROVE  \E c \in offered : c.place = e
  <2>1. n \in 1..Len(text)
    OBVIOUS
  <2>2. StandsFree(e, text[n])
    BY <1>6 DEF StandsFree, Stands
  <2> QED
    BY <1>3, <2>1, <2>2
<1> QED
  BY <1>1, <1>4, <1>5, <1>6 DEF PlacesAreUnmistakable

\* The runs and the sentences read so far.
NamesInv == runs \in Seq(Seq(RunWords)) /\ text \in Seq(Seq(TextWords))

LEMMA LongerIs ==
    ASSUME NEW W, NEW texts \in Seq(Seq(W)), NEW word \in W, NEW most, NEW longest,
           NEW new \in Longer(texts, word, most, longest)
    PROVE  new \in Seq(Seq(W))
<1>1. <<word>> \in Seq(W) /\ Append(texts, <<word>>) \in Seq(Seq(W))
  OBVIOUS
<1>2. ASSUME texts # <<>>
      PROVE  [texts EXCEPT ![Len(texts)] = Append(@, word)] \in Seq(Seq(W))
  <2>1. Len(texts) \in 1..Len(texts) /\ texts \in [1..Len(texts) -> Seq(W)]
    BY <1>2
  <2>2. PICK last : last = Append(texts[Len(texts)], word)
    OBVIOUS
  <2>3. last \in Seq(W)
    BY <2>1, <2>2
  <2>4. [texts EXCEPT ![Len(texts)] = last] \in Seq(Seq(W))
    <3> HIDE DEF Append
    <3> QED
      BY <2>1, <2>3, ExceptSeq
  <2> QED
    BY <2>2, <2>4
<1> QED
  BY <1>1, <1>2 DEF Longer

\* Whatever a report's runs and a page's sentences are, each department is offered
\* once, under its whole name, and each place stands for one place of the state:
\* no two are offered for the same words (bodies.ts:136-226, places.ts:66-150).
THEOREM NamesAreReadRightly == NamesSpec => []NamesAreRead
<1>1. NamesInit => NamesInv
  BY DEF NamesInit, NamesInv
<1>2. NamesInv /\ [NamesNext]_named_reading => NamesInv'
  <2> SUFFICES ASSUME NamesInv, [NamesNext]_named_reading
               PROVE  NamesInv'
    OBVIOUS
  <2>1. CASE RunOn
    <3>1. PICK word \in RunWords : runs' \in Longer(runs, word, MaxRuns, MaxRun)
      BY <2>1 DEF RunOn
    <3>2. runs \in Seq(Seq(RunWords)) /\ text \in Seq(Seq(TextWords)) /\ text' = text
      BY <2>1 DEF RunOn, NamesInv
    <3>3. runs' \in Seq(Seq(RunWords))
      BY <3>1, <3>2, LongerIs
    <3> QED
      BY <3>2, <3>3 DEF NamesInv
  <2>2. CASE ReadOn
    <3>1. PICK word \in TextWords : text' \in Longer(text, word, MaxSentences, MaxText)
      BY <2>2 DEF ReadOn
    <3>2. runs \in Seq(Seq(RunWords)) /\ text \in Seq(Seq(TextWords)) /\ runs' = runs
      BY <2>2 DEF ReadOn, NamesInv
    <3>3. text' \in Seq(Seq(TextWords))
      BY <3>1, <3>2, LongerIs
    <3> QED
      BY <3>2, <3>3 DEF NamesInv
  <2>3. CASE UNCHANGED named_reading
    BY <2>3 DEF NamesInv, named_reading
  <2> QED
    BY <2>1, <2>2, <2>3 DEF NamesNext
<1>3. NamesInv => NamesAreRead
  BY DepartmentsAre, PlacesAre DEF NamesInv, NamesAreRead
<1> QED
  BY <1>1, <1>2, <1>3, PTL DEF NamesSpec

=============================================================================
