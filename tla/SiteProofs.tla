----------------------------- MODULE SiteProofs ------------------------------
(***************************************************************************)
(* What is proved of the reader's page: what is listed was found for the    *)
(* term above it, the address is the view, the map draws the input it was   *)
(* last given, its names come to rest apart, no tender and no count is told *)
(* without warrant, and its panels share their requests and answers and     *)
(* lose none.  Each part has an invariant that its steps keep, put before   *)
(* its theorem.                                                             *)
(***************************************************************************)
EXTENDS SearchDialog, Explorer, MapView, MapLabels, TenderViews, ResourceCache, Inductions

------------------------------------------------------------------------------
(* The search box (SearchDialog).                                             *)

DialogTypeOK ==
    dialog \in [open : BOOLEAN, term : Terms \cup {TooShort}, timer : BOOLEAN,
                sent : SUBSET Terms, listed : Terms \cup {NoTerm},
                loading : BOOLEAN, failed : BOOLEAN]

\* Whatever is under way is for the term in an open box, which waits for it.
OnlyTheTermIsAwaited ==
    /\ dialog.timer => dialog.open /\ dialog.loading /\ dialog.term # TooShort
    /\ dialog.sent # {} =>
          /\ dialog.open /\ dialog.loading /\ dialog.term # TooShort
          /\ dialog.sent = {dialog.term}
          /\ ~dialog.timer

DialogInv == DialogTypeOK /\ OnlyTheTermIsAwaited /\ SearchShowsItsTerm

LEMMA DialogBegins == DialogInit => DialogInv
BY DEF DialogInit, DialogInv, DialogTypeOK, OnlyTheTermIsAwaited, SearchShowsItsTerm

\* The effect run again on a box that may have been changed: what was under way
\* is given up before anything is asked for.
LEMMA RerunKeeps ==
    ASSUME DialogTypeOK,
           NEW d \in [open : BOOLEAN, term : Terms \cup {TooShort}, timer : BOOLEAN,
                      sent : SUBSET Terms, listed : Terms \cup {NoTerm},
                      loading : BOOLEAN, failed : BOOLEAN],
           Rerun(d)
    PROVE  DialogInv'
<1> PICK e : e = Abort(d)
  OBVIOUS
<1>1. e \in [open : BOOLEAN, term : Terms \cup {TooShort}, timer : BOOLEAN,
             sent : SUBSET Terms, listed : Terms \cup {NoTerm},
             loading : BOOLEAN, failed : BOOLEAN]
      /\ e.timer = FALSE /\ e.sent = {}
  BY DEF Abort
<1>2. dialog' = Effect(e)
  BY DEF Rerun
<1>3. CASE ~e.open
  BY <1>1, <1>2, <1>3 DEF Effect, DialogInv, DialogTypeOK, OnlyTheTermIsAwaited, SearchShowsItsTerm
<1>4. CASE e.open /\ e.term = TooShort
  BY <1>1, <1>2, <1>4 DEF Effect, DialogInv, DialogTypeOK, OnlyTheTermIsAwaited, SearchShowsItsTerm
<1>5. CASE e.open /\ e.term # TooShort
  BY <1>1, <1>2, <1>5 DEF Effect, DialogInv, DialogTypeOK, OnlyTheTermIsAwaited, SearchShowsItsTerm
<1> QED
  BY <1>1, <1>3, <1>4, <1>5

LEMMA DialogSteps == DialogInv /\ [DialogNext]_dialog => DialogInv'
<1> SUFFICES ASSUME DialogInv, [DialogNext]_dialog PROVE DialogInv'
  OBVIOUS
<1> USE DEF DialogInv
<1>1. CASE OpenDialog
  BY <1>1, RerunKeeps DEF OpenDialog, DialogTypeOK
<1>2. CASE CloseDialog
  BY <1>2, RerunKeeps DEF CloseDialog, DialogTypeOK
<1>3. ASSUME NEW t \in Terms \cup {TooShort}, Type(t) PROVE DialogInv'
  BY <1>3, RerunKeeps DEF Type, DialogTypeOK
<1>4. CASE SendSearch
  BY <1>4 DEF SendSearch, DialogTypeOK, OnlyTheTermIsAwaited, SearchShowsItsTerm
<1>5. ASSUME NEW t \in Terms, HearResults(t) PROVE DialogInv'
  BY <1>5 DEF HearResults, DialogTypeOK, OnlyTheTermIsAwaited, SearchShowsItsTerm
<1>6. ASSUME NEW t \in Terms, HearFailure(t) PROVE DialogInv'
  BY <1>6 DEF HearFailure, DialogTypeOK, OnlyTheTermIsAwaited, SearchShowsItsTerm
<1>7. CASE UNCHANGED dialog
  BY <1>7 DEF DialogTypeOK, OnlyTheTermIsAwaited, SearchShowsItsTerm
<1> QED
  BY <1>1, <1>2, <1>3, <1>4, <1>5, <1>6, <1>7 DEF DialogNext

\* What is listed without reserve was found for the term above it, whatever the
\* terms are and however late the answers (SearchDialog.tsx 55-87).
THEOREM ListIsForItsTerm == DialogSpec => []SearchShowsItsTerm
<1>1. DialogInv => SearchShowsItsTerm
  BY DEF DialogInv
<1> QED
  BY <1>1, DialogBegins, DialogSteps, PTL DEF DialogSpec

------------------------------------------------------------------------------
(* What is told of the tenders (TenderViews).                                 *)

\* Counts of the classes of a set make up the set.
LEMMA ClassesMakeUp ==
    ASSUME NEW S, IsFiniteSet(S), NEW counts, NEW key \in [S -> DOMAIN counts],
           \A u \in DOMAIN counts : counts[u] = Cardinality({t \in S : key[t] = u})
    PROVE  Total(counts) = Cardinality(S)
<1> DEFINE class(u) == {t \in S : key[t] = u}
           numbered == [u \in DOMAIN counts |-> CHOOSE b : b \in Bijection(1..counts[u], class(u))]
           pairs == UNION {{u} \X (1..counts[u]) : u \in DOMAIN counts}
           nth == [p \in pairs |-> numbered[p[1]][p[2]]]
<1>1. ASSUME NEW u \in DOMAIN counts
      PROVE  numbered[u] \in Bijection(1..counts[u], class(u))
  <2>1. class(u) \in SUBSET S
    OBVIOUS
  <2>2. counts[u] = Cardinality(class(u))
    OBVIOUS
  <2>3. numbered[u] = CHOOSE b : b \in Bijection(1..counts[u], class(u))
    OBVIOUS
  <2> HIDE DEF class, numbered
  <2>4. ExistsBijection(1..Cardinality(class(u)), class(u))
    BY <2>1, FS_Subset, FS_CardinalityType
  <2>5. \E b : b \in Bijection(1..counts[u], class(u))
    BY <2>2, <2>4 DEF ExistsBijection
  <2> QED
    BY <2>3, <2>5
<1> HIDE DEF numbered
<1>2. \A p \in pairs : /\ p[1] \in DOMAIN counts /\ p[2] \in 1..counts[p[1]]
                       /\ p = <<p[1], p[2]>>
  OBVIOUS
<1>3. \A u \in DOMAIN counts : \A n \in 1..counts[u] : <<u, n>> \in pairs
  <2> SUFFICES ASSUME NEW u \in DOMAIN counts, NEW n \in 1..counts[u]
               PROVE  <<u, n>> \in pairs
    OBVIOUS
  <2>1. <<u, n>> \in {u} \X (1..counts[u])
    OBVIOUS
  <2> QED
    BY <2>1
<1>4. ASSUME NEW u \in DOMAIN counts
      PROVE  /\ \A n \in 1..counts[u] : numbered[u][n] \in class(u)
             /\ \A m, n \in 1..counts[u] : numbered[u][m] = numbered[u][n] => m = n
             /\ \A t \in class(u) : \E n \in 1..counts[u] : numbered[u][n] = t
  <2>1. PICK b : b = numbered[u]
    OBVIOUS
  <2>2. PICK there : there = class(u)
    OBVIOUS
  <2>3. b \in Bijection(1..counts[u], there)
    BY <1>1, <2>1, <2>2
  <2>4. /\ b \in [1..counts[u] -> there]
        /\ \A m, n \in 1..counts[u] : b[m] = b[n] => m = n
        /\ \A t \in there : \E n \in 1..counts[u] : b[n] = t
    BY <2>3 DEF Bijection, Injection, Surjection, IsInjective
  <2> QED
    BY <2>1, <2>2, <2>4
<1> HIDE DEF pairs
<1>5. \A p \in pairs : nth[p] \in S /\ key[nth[p]] = p[1]
  <2> SUFFICES ASSUME NEW p \in pairs PROVE nth[p] \in S /\ key[nth[p]] = p[1]
    OBVIOUS
  <2>1. nth[p] = numbered[p[1]][p[2]]
    OBVIOUS
  <2>2. numbered[p[1]][p[2]] \in class(p[1])
    <3>1. PICK u, n : u = p[1] /\ n = p[2]
      OBVIOUS
    <3>2. u \in DOMAIN counts /\ n \in 1..counts[u]
      BY <1>2, <3>1
    <3> HIDE DEF class
    <3> QED
      BY <1>4, <3>1, <3>2
  <2> QED
    BY <2>1, <2>2
<1>6. nth \in [pairs -> S]
  BY <1>5
<1>7. \A p, q \in pairs : nth[p] = nth[q] => p = q
  <2> SUFFICES ASSUME NEW p \in pairs, NEW q \in pairs, nth[p] = nth[q] PROVE p = q
    OBVIOUS
  <2>1. p[1] = q[1]
    BY <1>5
  <2>2. numbered[p[1]][p[2]] = numbered[p[1]][q[2]]
    BY <2>1
  <2>3. p[2] = q[2]
    <3> HIDE DEF class, nth
    <3> QED
      BY <1>2, <1>4, <2>1, <2>2
  <2> QED
    BY <1>2, <2>1, <2>3
<1>8. \A t \in S : \E p \in pairs : nth[p] = t
  <2> SUFFICES ASSUME NEW t \in S PROVE \E p \in pairs : nth[p] = t
    OBVIOUS
  <2>1. PICK u : u = key[t]
    OBVIOUS
  <2>2. u \in DOMAIN counts /\ t \in class(u)
    BY <2>1
  <2>3. PICK n \in 1..counts[u] : numbered[u][n] = t
    <3> HIDE DEF class
    <3> QED
      BY <1>4, <2>2
  <2>4. <<u, n>> \in pairs
    BY <1>3, <2>2
  <2>5. nth[<<u, n>>] = numbered[u][n]
    BY <2>4
  <2> QED
    BY <2>3, <2>4, <2>5
<1> HIDE DEF nth
<1>9. nth \in Injection(pairs, S) /\ nth \in Surjection(pairs, S)
  BY <1>6, <1>7, <1>8 DEF Injection, Surjection, IsInjective
<1>10. Cardinality(pairs) = Cardinality(S)
  BY <1>9, FS_Injection
<1> QED
  BY <1>10 DEF Total, pairs

\* Those held are finitely many, and each is at some district or none.
RowsAreOfDistricts ==
    IsFiniteSet(HeldAdverts) /\ \A t \in HeldAdverts : rows[t] \in Units \cup {Absent}

\* The open tenders placed, of a department and in a state where one is asked for.
PlacedOf(issuer, s) ==
    {t \in HeldAdverts : /\ StillOpen(t) /\ OfIssuer(t, issuer) /\ rows[t] # Absent
                         /\ s = Absent \/ rows[t] \in UnitsOf[s]}

LEMMA DistrictsMakeUp ==
    ASSUME RowsAreOfDistricts, NEW issuer, NEW s
    PROVE  /\ IsFiniteSet(PlacedOf(issuer, s))
           /\ Total(CountsByDistrict(issuer, s)) = Cardinality(PlacedOf(issuer, s))
<1>1. PICK placed : placed = PlacedOf(issuer, s)
  OBVIOUS
<1>2. PICK counts : counts = CountsByDistrict(issuer, s)
  OBVIOUS
<1>3. counts = [u \in {rows[t] : t \in placed} |-> Cardinality({t \in placed : rows[t] = u})]
  BY <1>1, <1>2 DEF CountsByDistrict, PlacedOf
<1>4. placed \in SUBSET HeldAdverts
  BY <1>1 DEF PlacedOf
<1>5. IsFiniteSet(placed)
  BY <1>4, FS_Subset DEF RowsAreOfDistricts
<1>6. PICK key : key = [t \in placed |-> rows[t]]
  OBVIOUS
<1>7. DOMAIN counts = {rows[t] : t \in placed}
  BY <1>3
<1>8. key \in [placed -> DOMAIN counts]
  BY <1>6, <1>7
<1>9. ASSUME NEW u \in DOMAIN counts
      PROVE  counts[u] = Cardinality({t \in placed : key[t] = u})
  <2>1. {t \in placed : key[t] = u} = {t \in placed : rows[t] = u}
    BY <1>6
  <2> QED
    BY <1>3, <2>1
<1>10. Total(counts) = Cardinality(placed)
  BY <1>5, <1>8, <1>9, ClassesMakeUp
<1> QED
  BY <1>1, <1>2, <1>5, <1>10

LEMMA StatesMakeUp ==
    ASSUME RowsAreOfDistricts, NEW issuer
    PROVE  Total(CountsByDistrict(issuer, Absent))
              = Total([s \in Territories |-> Total(CountsByDistrict(issuer, s))])
<1>1. PICK placed : placed = PlacedOf(issuer, Absent)
  OBVIOUS
<1>2. IsFiniteSet(placed) /\ Total(CountsByDistrict(issuer, Absent)) = Cardinality(placed)
  BY <1>1, DistrictsMakeUp
<1>3. PICK counts : counts = [s \in Territories |-> Total(CountsByDistrict(issuer, s))]
  OBVIOUS
<1> DEFINE home(t) == CHOOSE s \in Territories : rows[t] \in UnitsOf[s]
<1>4. \A t \in placed : rows[t] \in Units
  BY <1>1 DEF PlacedOf, RowsAreOfDistricts
<1>5. \A t \in placed : home(t) \in Territories /\ rows[t] \in UnitsOf[home(t)]
  BY <1>4 DEF Units
<1> HIDE DEF home
<1>6. \A t \in placed : \A s \in Territories : rows[t] \in UnitsOf[s] <=> home(t) = s
  BY <1>5, DistrictsAssumption DEF Territories
<1>7. PICK key : key = [t \in placed |-> home(t)]
  OBVIOUS
<1>8. key \in [placed -> DOMAIN counts]
  BY <1>3, <1>5, <1>7
<1>9. ASSUME NEW s \in DOMAIN counts
      PROVE  counts[s] = Cardinality({t \in placed : key[t] = s})
  <2>1. s \in Territories /\ counts[s] = Total(CountsByDistrict(issuer, s))
    BY <1>3
  <2>2. counts[s] = Cardinality(PlacedOf(issuer, s))
    BY <2>1, DistrictsMakeUp
  <2>3. {t \in placed : key[t] = s} = {t \in placed : rows[t] \in UnitsOf[s]}
    BY <1>6, <1>7, <2>1
  <2>4. s # Absent
    BY <2>1, DistrictsAssumption DEF Territories
  <2>5. {t \in placed : rows[t] \in UnitsOf[s]} = PlacedOf(issuer, s)
    BY <1>1, <2>4 DEF PlacedOf
  <2> QED
    BY <2>2, <2>3, <2>5
<1>10. Total(counts) = Cardinality(placed)
  BY <1>2, <1>8, <1>9, ClassesMakeUp
<1> QED
  BY <1>2, <1>3, <1>10

\* Whatever is held, the counts add up, since each is of a set of the tenders held
\* and no tender is in two districts.
LEMMA OpenOnesAddUp == RowsAreOfDistricts => OpenTendersAddUp
<1> SUFFICES ASSUME RowsAreOfDistricts PROVE OpenTendersAddUp
  OBVIOUS
<1>1. Absent \notin Units
  BY DistrictsAssumption DEF Units, Territories
<1>2. ASSUME NEW d \in Issuers \cup {Absent}
      PROVE  Total(CountsByDistrict(d, Absent)) + CountTenders(Absent, d, TRUE, Absent)
                = CountTenders(Absent, d, FALSE, Absent)
  <2>1. PICK placed : placed = PlacedOf(d, Absent)
    OBVIOUS
  <2>2. PICK unplaced : unplaced = Matching(Absent, d, TRUE, Absent)
    OBVIOUS
  <2>3. PICK all : all = Matching(Absent, d, FALSE, Absent)
    OBVIOUS
  <2>4. \A t : t \in all <=> t \in HeldAdverts /\ StillOpen(t) /\ OfIssuer(t, d)
    BY <2>3 DEF Matching, FromPortalOf
  <2>5. \A t : t \in unplaced <=> t \in HeldAdverts /\ StillOpen(t) /\ OfIssuer(t, d) /\ rows[t] = Absent
    BY <2>2 DEF Matching, FromPortalOf
  <2>6. \A t : t \in placed <=> t \in HeldAdverts /\ StillOpen(t) /\ OfIssuer(t, d) /\ rows[t] # Absent
    BY <2>1 DEF PlacedOf
  <2>7. all = placed \cup unplaced /\ placed \cap unplaced = {} /\ all \subseteq HeldAdverts
    BY <2>4, <2>5, <2>6
  <2>8. IsFiniteSet(placed) /\ IsFiniteSet(unplaced)
    BY <2>7, FS_Subset DEF RowsAreOfDistricts
  <2>9. Cardinality(all) = Cardinality(placed) + Cardinality(unplaced) - Cardinality({})
    BY <2>7, <2>8, FS_Union
  <2>10. Cardinality({}) = 0 /\ Cardinality(placed) \in Nat /\ Cardinality(unplaced) \in Nat
    BY <2>8, FS_EmptySet, FS_CardinalityType
  <2>11. Total(CountsByDistrict(d, Absent)) = Cardinality(placed)
    BY <2>1, DistrictsMakeUp
  <2>12. CountTenders(Absent, d, TRUE, Absent) = Cardinality(unplaced)
         /\ CountTenders(Absent, d, FALSE, Absent) = Cardinality(all)
    BY <2>2, <2>3 DEF CountTenders
  <2>13. Cardinality(placed) + Cardinality(unplaced) = Cardinality(all)
    BY <2>9, <2>10
  <2> QED
    BY <2>11, <2>12, <2>13, Zenon
<1>3. ASSUME NEW d \in Issuers \cup {Absent}, NEW u \in Units
      PROVE  CountTenders(u, d, FALSE, Absent)
                = IF u \in DOMAIN CountsByDistrict(d, Absent) THEN CountsByDistrict(d, Absent)[u] ELSE 0
  <2>1. PICK placed : placed = PlacedOf(d, Absent)
    OBVIOUS
  <2>2. PICK counts : counts = CountsByDistrict(d, Absent)
    OBVIOUS
  <2>3. counts = [v \in {rows[t] : t \in placed} |-> Cardinality({t \in placed : rows[t] = v})]
    BY <2>1, <2>2 DEF CountsByDistrict, PlacedOf
  <2>4. PICK there : there = Matching(u, d, FALSE, Absent)
    OBVIOUS
  <2>5. \A t : t \in placed <=> t \in HeldAdverts /\ StillOpen(t) /\ OfIssuer(t, d) /\ rows[t] # Absent
    BY <2>1 DEF PlacedOf
  <2>6. u # Absent
    BY <1>1
  <2>7. \A t : t \in there <=> t \in HeldAdverts /\ StillOpen(t) /\ OfIssuer(t, d) /\ rows[t] = u
    BY <2>4, <2>6 DEF Matching, FromPortalOf
  <2>8. there = {t \in placed : rows[t] = u}
    BY <2>5, <2>6, <2>7
  <2>9. CASE u \in DOMAIN counts
    BY <2>2, <2>3, <2>4, <2>8, <2>9 DEF CountTenders
  <2>10. CASE u \notin DOMAIN counts
    <3>1. there = {}
      BY <2>3, <2>8, <2>10
    <3> QED
      BY <2>2, <2>4, <2>10, <3>1, FS_EmptySet DEF CountTenders
  <2> QED
    BY <2>9, <2>10
<1>4. ASSUME NEW s \in Territories \cup {Absent}
      PROVE  UnplacedCount(s) = CountTenders(Absent, Absent, TRUE, s)
  <2>1. {t \in HeldAdverts : StillOpen(t) /\ rows[t] = Absent /\ FromPortalOf(t, s)}
           = Matching(Absent, Absent, TRUE, s)
    BY DEF Matching, OfIssuer
  <2> QED
    BY <2>1 DEF UnplacedCount, CountTenders
<1>5. ASSUME NEW s \in Territories \cup {Absent}, NEW d \in DOMAIN DepartmentsOf(s)
      PROVE  DepartmentsOf(s)[d] = CountTenders(Absent, d, FALSE, s)
  <2> DEFINE advertised == {t \in HeldAdverts : StillOpen(t) /\ IssuerOf[t] # Absent /\ FromPortalOf(t, s)}
  <2>1. DepartmentsOf(s) = [e \in {IssuerOf[t] : t \in advertised} |->
                               Cardinality({t \in advertised : IssuerOf[t] = e})]
    BY DEF DepartmentsOf
  <2>2. d \in {IssuerOf[t] : t \in advertised}
    BY <2>1
  <2>3. d # Absent
    BY <2>2
  <2>4. {t \in advertised : IssuerOf[t] = d} = Matching(Absent, d, FALSE, s)
    BY <2>3 DEF Matching, OfIssuer
  <2>5. DepartmentsOf(s)[d] = Cardinality({t \in advertised : IssuerOf[t] = d})
    BY <2>1, <2>2
  <2> QED
    BY <2>4, <2>5 DEF CountTenders
<1>6. Cardinality({t \in HeldAdverts : StatusOf(t) # "closed"}) = CountTenders(Absent, Absent, FALSE, Absent)
  <2>1. \A t : StatusOf(t) # "closed" <=> StillOpen(t)
    BY DEF StatusOf, StillOpen
  <2>2. {t \in HeldAdverts : StatusOf(t) # "closed"} = Matching(Absent, Absent, FALSE, Absent)
    BY <2>1 DEF Matching, OfIssuer, FromPortalOf
  <2> QED
    BY <2>2 DEF CountTenders
<1>7. \A d \in Issuers \cup {Absent} :
          Total(CountsByDistrict(d, Absent))
             = Total([s \in Territories |-> Total(CountsByDistrict(d, s))])
  BY StatesMakeUp
<1> QED
  BY <1>2, <1>3, <1>4, <1>5, <1>6, <1>7 DEF OpenTendersAddUp

\* The list on the page was allowed by the deployment that made it.
ListIsWarranted ==
    DOMAIN list.tenders # {} => "all" \in list.under \/ InternalPreview(list.by)

\* A window is of a success: an attempt makes none.
WindowRecords == [lastSuccess : Nat \cup {Absent}, attempted : BOOLEAN]
WindowsAreOfSuccesses ==
    /\ windows \in [EPortals -> WindowRecords \cup {Absent}]
    /\ \A p \in EPortals : windows[p] # Absent => windows[p].lastSuccess # Absent

\* What an answer says of a state's collection, some sweep bears out.
AnswerIsBorneOut ==
    overview \notin {Awaited, Missed} /\ question.state # Absent =>
        overview.collection.status = "not_collected" \/ EverCollected(question.state)

ViewsInv ==
    /\ RowsAreOfDistricts
    /\ WindowsAreOfSuccesses
    /\ hour \in Nat
    /\ Absent \notin grants
    /\ ListIsWarranted
    /\ AnswerIsBorneOut

LEMMA NoListIsEmpty == DOMAIN NoList.tenders = {}
BY DEF NoList

\* Of a state with a window, the answer is of one that has succeeded.
LEMMA CollectionIsBorneOut ==
    ASSUME WindowsAreOfSuccesses, NEW s, NEW c \in CollectionForState(s)
    PROVE  c.status = "not_collected" \/ EverCollected(s)
<1> DEFINE theirs == {windows[p] : p \in {q \in EPortals : StateOfPortal[q] = s}} \ {Absent}
           first == {w \in theirs : \A v \in theirs : NoEarlier(w, v)}
<1>1. CASE theirs = {}
  BY <1>1 DEF CollectionForState, NotCollected
<1>2. CASE theirs # {}
  <2>1. PICK w \in theirs : TRUE
    BY <1>2
  <2>2. PICK p \in EPortals : StateOfPortal[p] = s /\ windows[p] = w /\ w # Absent
    BY <2>1
  <2> QED
    BY <2>2 DEF WindowsAreOfSuccesses, EverCollected
<1> QED
  BY <1>1, <1>2

LEMMA ViewsBegin == ViewsInit => ViewsInv
<1> SUFFICES ASSUME ViewsInit PROVE ViewsInv
  OBVIOUS
<1>1. RowsAreOfDistricts
  <2>1. HeldAdverts = {}
    BY DEF ViewsInit, HeldAdverts
  <2> QED
    BY <2>1, FS_EmptySet DEF RowsAreOfDistricts
<1> QED
  BY <1>1, ViewsAssumption, NoListIsEmpty
     DEF ViewsInit, ViewsInv, ListIsWarranted, AnswerIsBorneOut, WindowsAreOfSuccesses

\* Rows are added sweep by sweep and moved from one district to another.
LEMMA RowsStayOfDistricts == RowsAreOfDistricts /\ [ViewsNext]_tenderviews => RowsAreOfDistricts'
<1> SUFFICES ASSUME RowsAreOfDistricts, [ViewsNext]_tenderviews PROVE RowsAreOfDistricts'
  OBVIOUS
<1>1. IsFiniteSet(HeldAdverts) /\ \A t \in HeldAdverts : rows[t] \in Units \cup {Absent}
  BY DEF RowsAreOfDistricts
<1>2. ASSUME NEW p \in EPortals, NEW found \in Findings(p), SweepSucceeds(p, found)
      PROVE  RowsAreOfDistricts'
  <2>1. PICK new \in SUBSET Adverts : found \in [new -> Units \cup {Absent}]
    BY DEF Findings
  <2>2. rows' = [t \in HeldAdverts \cup new |-> IF t \in new THEN found[t] ELSE rows[t]]
    BY <1>2, <2>1 DEF SweepSucceeds
  <2>3. HeldAdverts' = HeldAdverts \cup new
    BY <2>2 DEF HeldAdverts
  <2>4. IsFiniteSet(HeldAdverts \cup new)
    BY <1>1, <2>1, ViewsAssumption, FS_Subset, FS_Union
  <2>5. \A x \in HeldAdverts \cup new : rows'[x] \in Units \cup {Absent}
    BY <1>1, <2>1, <2>2
  <2> QED
    BY <2>3, <2>4, <2>5 DEF RowsAreOfDistricts
<1>3. ASSUME NEW t \in Adverts, NEW u \in Units \cup {Absent}, MoveAdvert(t, u) PROVE RowsAreOfDistricts'
  <2>1. rows' = [rows EXCEPT ![t] = u]
    BY <1>3 DEF MoveAdvert
  <2>2. HeldAdverts' = HeldAdverts
    BY <2>1 DEF HeldAdverts
  <2>3. \A x \in HeldAdverts : rows'[x] \in Units \cup {Absent}
    BY <1>1, <2>1 DEF HeldAdverts
  <2> QED
    BY <1>1, <2>2, <2>3 DEF RowsAreOfDistricts
<1>4. ASSUME rows' = rows PROVE RowsAreOfDistricts'
  BY <1>1, <1>4 DEF RowsAreOfDistricts, HeldAdverts
<1>5. \/ \E p \in EPortals : \E found \in Findings(p) : SweepSucceeds(p, found)
      \/ \E t \in Adverts, u \in Units \cup {Absent} : MoveAdvert(t, u)
      \/ rows' = rows
  BY DEF ViewsNext, SweepBegins, HourPasses, Redeploy, LookAt, HearOverview, HearList, tenderviews
<1> QED
  BY <1>2, <1>3, <1>4, <1>5

\* A window once there stays, and keeps a success.
LEMMA WindowsStay ==
    ASSUME ViewsInv, [ViewsNext]_tenderviews
    PROVE  /\ WindowsAreOfSuccesses'
           /\ \A s : EverCollected(s) => EverCollected(s)'
<1> DEFINE Goal == WindowsAreOfSuccesses' /\ \A s : EverCollected(s) => EverCollected(s)'
<1> SUFFICES Goal
  OBVIOUS
<1>1. WindowsAreOfSuccesses /\ hour \in Nat
  BY DEF ViewsInv
<1>2. windows \in [EPortals -> WindowRecords \cup {Absent}]
  BY <1>1 DEF WindowsAreOfSuccesses
<1>3. Absent \notin WindowRecords /\ Absent \notin Nat
  BY ViewsAssumption DEF WindowRecords
<1>4. ASSUME NEW p \in EPortals, NEW w \in WindowRecords, w.lastSuccess # Absent,
             windows' = [windows EXCEPT ![p] = w]
      PROVE  Goal
  <2>1. windows' \in [EPortals -> WindowRecords \cup {Absent}]
    BY <1>2, <1>4
  <2>2. \A q \in EPortals : windows'[q] = IF q = p THEN w ELSE windows[q]
    BY <1>2, <1>4
  <2>3. w # Absent
    BY <1>3
  <2>4. WindowsAreOfSuccesses'
    BY <1>1, <1>4, <2>1, <2>2 DEF WindowsAreOfSuccesses
  <2>5. \A s : EverCollected(s) => EverCollected(s)'
    BY <1>4, <2>2, <2>3 DEF EverCollected
  <2> QED
    BY <2>4, <2>5
<1>5. ASSUME NEW p \in EPortals, SweepBegins(p) PROVE Goal
  <2>1. PICK v : v = windows[p]
    OBVIOUS
  <2>2. v \in WindowRecords /\ v.lastSuccess # Absent
    BY <1>1, <1>2, <1>5, <2>1 DEF SweepBegins, WindowsAreOfSuccesses
  <2>3. PICK w : w = [v EXCEPT !.attempted = TRUE]
    OBVIOUS
  <2>4. w \in WindowRecords /\ w.lastSuccess = v.lastSuccess
    BY <2>2, <2>3 DEF WindowRecords
  <2>5. windows' = [windows EXCEPT ![p] = w]
    BY <1>5, <2>1, <2>3 DEF SweepBegins
  <2> QED
    BY <1>4, <2>2, <2>4, <2>5
<1>6. ASSUME NEW p \in EPortals, NEW found, SweepSucceeds(p, found) PROVE Goal
  <2>1. PICK w : w = [lastSuccess |-> hour, attempted |-> FALSE]
    OBVIOUS
  <2>2. w \in WindowRecords /\ w.lastSuccess \in Nat
    BY <1>1, <2>1 DEF WindowRecords
  <2>3. windows' = [windows EXCEPT ![p] = w]
    BY <1>6, <2>1 DEF SweepSucceeds
  <2> QED
    BY <1>3, <1>4, <2>2, <2>3
<1>7. ASSUME windows' = windows PROVE Goal
  BY <1>1, <1>7 DEF WindowsAreOfSuccesses, EverCollected
<1> HIDE DEF Goal
<1> QED
  BY <1>5, <1>6, <1>7
     DEF ViewsNext, MoveAdvert, HourPasses, Redeploy, LookAt, HearOverview, HearList, tenderviews

LEMMA ViewsSteps == ViewsInv /\ [ViewsNext]_tenderviews => ViewsInv'
<1> SUFFICES ASSUME ViewsInv, [ViewsNext]_tenderviews PROVE ViewsInv'
  OBVIOUS
<1>0. RowsAreOfDistricts'
  BY RowsStayOfDistricts DEF ViewsInv
<1>1. WindowsAreOfSuccesses' /\ \A s : EverCollected(s) => EverCollected(s)'
  BY WindowsStay
<1>2. hour \in Nat /\ Absent \notin grants /\ ListIsWarranted /\ AnswerIsBorneOut
  BY DEF ViewsInv
<1> DEFINE Others == hour' \in Nat /\ Absent \notin grants' /\ ListIsWarranted' /\ AnswerIsBorneOut'
<1> SUFFICES Others
  BY <1>0, <1>1 DEF ViewsInv
<1>3. ASSUME UNCHANGED <<question, overview>> PROVE AnswerIsBorneOut'
  BY <1>1, <1>2, <1>3 DEF AnswerIsBorneOut
<1>4. ASSUME list' = list PROVE ListIsWarranted'
  BY <1>2, <1>4 DEF ListIsWarranted
<1>5. ASSUME UNCHANGED <<hour, deployment, grants, question, overview, list>> PROVE Others
  BY <1>2, <1>3, <1>4, <1>5
<1>6. CASE HourPasses
  BY <1>2, <1>3, <1>4, <1>6 DEF HourPasses
<1>7. ASSUME NEW e \in Deployments, NEW h \in {{}} \cup {{x} : x \in MayGrant}, Redeploy(e, h)
      PROVE  Others
  <2>1. Absent \notin grants'
    BY <1>7, ViewsAssumption DEF Redeploy
  <2> QED
    BY <1>2, <1>3, <1>4, <1>7, <2>1 DEF Redeploy
<1>8. ASSUME NEW q \in Questions, LookAt(q) PROVE Others
  BY <1>2, <1>8, NoListIsEmpty DEF LookAt, ListIsWarranted, AnswerIsBorneOut
<1>9. CASE HearOverview
  <2>1. ASSUME overview' = Missed PROVE AnswerIsBorneOut'
    BY <2>1 DEF AnswerIsBorneOut
  <2>2. ASSUME overview' \in OverviewAnswers PROVE AnswerIsBorneOut'
    <3> SUFFICES ASSUME question.state # Absent
                 PROVE  overview'.collection.status = "not_collected" \/ EverCollected(question.state)
      BY <1>1, <1>9 DEF HearOverview, AnswerIsBorneOut
    <3>1. PICK c \in CollectionForState(question.state) : overview' = [collection |-> c]
      BY <2>2 DEF OverviewAnswers
    <3> QED
      BY <3>1, CollectionIsBorneOut DEF ViewsInv
  <2> QED
    BY <1>2, <1>4, <1>9, <2>1, <2>2 DEF HearOverview
<1>10. CASE HearList
  <2>1. PICK answer : answer = ListAnswer(question.unit, question.unplaced)
    OBVIOUS
  <2>2. DetailsArePublishable => "all" \in grants \/ InternalPreview(deployment)
    BY <1>2 DEF DetailsArePublishable, Publishable, Granted
  <2>3. \/ answer = NoList
        \/ DetailsArePublishable /\ answer.under = grants /\ answer.by = deployment
    BY <2>1 DEF ListAnswer
  <2>4. list' = answer \/ list' = NoList
    BY <1>10, <2>1 DEF HearList
  <2>5. ListIsWarranted'
    BY <2>2, <2>3, <2>4, NoListIsEmpty DEF ListIsWarranted
  <2> QED
    BY <1>2, <1>3, <1>10, <2>5 DEF HearList
<1> HIDE DEF Others
<1> QED
  BY <1>5, <1>6, <1>7, <1>8, <1>9, <1>10
     DEF ViewsNext, SweepBegins, SweepSucceeds, MoveAdvert, tenderviews

\* No tender is named in public without a grant for its department or for all when
\* it was answered, however long the page is held and whatever is deployed since; and
\* no count is given for a state no sweep of which has succeeded, whatever fails
\* (publicationDecision, internalPreview, withheldNotice).
THEOREM PageClaimsNoMore == ViewsSpec => []PageSaysNoMore
<1>1. ViewsInv => PageSaysNoMore
  <2> SUFFICES ASSUME ViewsInv PROVE PageSaysNoMore
    OBVIOUS
  <2>1. ASSUME NEW i \in DOMAIN list.tenders
        PROVE  "all" \in list.under \/ (list.by.preview /\ list.by.vercel # "production")
    BY <2>1 DEF ViewsInv, ListIsWarranted, InternalPreview
  <2>2. ASSUME question.state # Absent, Notice = Absent, overview # Awaited
        PROVE  EverCollected(question.state)
    BY <2>2, ViewsAssumption DEF Notice, ViewsInv, AnswerIsBorneOut
  <2> QED
    BY <2>1, <2>2 DEF PageSaysNoMore
<1> QED
  BY <1>1, ViewsBegin, ViewsSteps, PTL DEF ViewsSpec

\* Every open tender is counted once, in its district or among the unplaced, by
\* district and by state and by department, and the page claims no more than it
\* may, whatever is held, moved, collected and switched meanwhile
\* (countsByDistrict, countTenders, unplacedCount, listTenders).
THEOREM TendersToldTruly == ViewsSpec => []TendersAreToldTruly
<1>1. ViewsInv => OpenTendersAddUp
  BY OpenOnesAddUp DEF ViewsInv
<1> QED
  BY <1>1, ViewsBegin, ViewsSteps, PageClaimsNoMore, PTL DEF ViewsSpec, TendersAreToldTruly

------------------------------------------------------------------------------
(* The selection and the address (Explorer).                                  *)

IsRecord(q) == q = [f \in Parameters |-> q[f]]

\* A view as the page has one: what it was parsed from left no trace in it.
IsView(v) ==
    /\ IsRecord(v)
    /\ Malformed \notin {v.unit, v.document}
    /\ v.layers \subseteq Toggles
    /\ v.department \notin LongNames
    /\ v.pin \in 1..Newest \cup {Nowhere}

\* What the bar holds leads to the view, but for the version.
AddressIsTheViews == [Opening(address) EXCEPT !.pin = view.pin] = Reconcile(view)

ExplorerInv ==
    /\ IsView(view)
    /\ IsRecord(address)
    /\ watermark \in {0, Newest}
    /\ AddressIsTheViews
    /\ moved => view.pin = Nowhere /\ address.pin = Nowhere
    /\ detail => view.unit \in Places

\* layersParam and parseLayers: each set of layers has an address of its own.
LEMMA LayersReturn ==
    ASSUME NEW layers \in SUBSET Toggles
    PROVE  ParseLayers(LayersParam(layers)) = layers
<1>1. CASE layers = Toggles
  BY <1>1 DEF ParseLayers, LayersParam
<1>2. CASE layers # Toggles /\ layers = {}
  BY <1>2, ExplorerAssumption DEF ParseLayers, LayersParam
<1>3. CASE layers # Toggles /\ layers # {}
  <2>1. LayersParam(layers) = layers /\ layers \cap Toggles = layers
    BY <1>3 DEF LayersParam
  <2>2. layers # Nowhere /\ layers # {NoLayers}
    BY ExplorerAssumption
  <2> QED
    BY <1>3, <2>1, <2>2 DEF ParseLayers
<1> QED
  BY <1>1, <1>2, <1>3

\* toQueryString and parseExplorerState: what is written is read back.
LEMMA ViewReturns ==
    ASSUME NEW v, IsView(v)
    PROVE  IsRecord(ToQueryString(v)) /\ ParseExplorerState(ToQueryString(v)) = v
<1> PICK q : q = ToQueryString(v)
  OBVIOUS
<1>1. /\ IsRecord(q)
      /\ q.state = v.state /\ q.unit = v.unit /\ q.document = v.document
      /\ q.department = v.department /\ q.pin = v.pin
      /\ q.layers = LayersParam(v.layers)
  BY DEF IsView, IsRecord, Parameters, ToQueryString
<1>2. ParseLayers(q.layers) = v.layers
  BY <1>1, LayersReturn DEF IsView
<1>3. PositiveInt(q.unit) = v.unit /\ PositiveInt(q.document) = v.document
  BY <1>1 DEF PositiveInt, IsView
<1>4. PositiveInt(q.pin) = v.pin /\ ParseDepartment(q.department) = v.department
  BY <1>1, ExplorerAssumption DEF PositiveInt, ParseDepartment, IsView
<1>5. ParseExplorerState(q) = v
  <2> PICK w : w = ParseExplorerState(q)
    OBVIOUS
  <2>1. /\ w = [f \in Parameters |-> w[f]]
        /\ w.state = q.state /\ w.department = ParseDepartment(q.department)
        /\ w.unit = PositiveInt(q.unit) /\ w.document = PositiveInt(q.document)
        /\ w.layers = ParseLayers(q.layers) /\ w.pin = PositiveInt(q.pin)
    BY <1>1 DEF IsRecord, Parameters, ParseExplorerState
  <2>2. \A f \in Parameters : w[f] = v[f]
    BY <1>1, <1>2, <1>3, <1>4, <2>1 DEF Parameters
  <2> QED
    BY <2>1, <2>2 DEF IsView, IsRecord
<1> QED
  BY <1>1, <1>5

\* reconcile leaves a view, and has nothing more to do.
LEMMA ReconcileSettles ==
    ASSUME NEW v, IsView(v)
    PROVE  /\ IsView(Reconcile(v))
           /\ Reconcile(v).pin = v.pin
           /\ Reconcile(Reconcile(v)) = Reconcile(v)
<1>1. CASE v.state = Nowhere \/ v.unit = Nowhere \/ ActualState(v.unit) = v.state
  BY <1>1 DEF Reconcile
<1>2. CASE ~(v.state = Nowhere \/ v.unit = Nowhere \/ ActualState(v.unit) = v.state)
  <2> PICK w : w = [v EXCEPT !.unit = Nowhere]
    OBVIOUS
  <2>1. /\ IsRecord(w)
        /\ w.unit = Nowhere /\ w.document = v.document /\ w.layers = v.layers /\ w.pin = v.pin
        /\ w.department = v.department
    BY DEF IsView, IsRecord, Parameters
  <2>2. Reconcile(v) = w /\ Reconcile(w) = w
    BY <1>2, <2>1 DEF Reconcile
  <2>3. IsView(w)
    BY <2>1, ExplorerAssumption DEF IsView
  <2> QED
    BY <2>1, <2>2, <2>3
<1> QED
  BY <1>1, <1>2

\* ExplorePage: whatever the address says, a view comes of it, and a coherent one.
LEMMA OpeningIsAView ==
    ASSUME NEW q, IsRecord(q)
    PROVE  IsView(Opening(q)) /\ Reconcile(Opening(q)) = Opening(q)
<1> PICK p : p = ParseExplorerState(q)
  OBVIOUS
<1>1. /\ IsRecord(p)
      /\ p.unit = PositiveInt(q.unit) /\ p.document = PositiveInt(q.document)
      /\ p.layers = ParseLayers(q.layers) /\ p.pin = PositiveInt(q.pin)
      /\ p.department = ParseDepartment(q.department)
  BY DEF IsRecord, Parameters, ParseExplorerState
<1>2. Malformed \notin {p.unit, p.document}
  BY <1>1, ExplorerAssumption DEF PositiveInt
<1>3. p.layers \subseteq Toggles /\ p.department \notin LongNames
  BY <1>1, ExplorerAssumption DEF ParseLayers, ParseDepartment
<1> PICK r : r = Reconcile(p)
  OBVIOUS
<1>4. /\ IsRecord(r)
      /\ Malformed \notin {r.unit, r.document}
      /\ r.layers \subseteq Toggles /\ r.department \notin LongNames
      /\ r.state = Nowhere \/ r.unit = Nowhere \/ ActualState(r.unit) = r.state
  <2>1. CASE p.state = Nowhere \/ p.unit = Nowhere \/ ActualState(p.unit) = p.state
    BY <1>1, <1>2, <1>3, <2>1 DEF Reconcile
  <2>2. CASE ~(p.state = Nowhere \/ p.unit = Nowhere \/ ActualState(p.unit) = p.state)
    <3>1. r = [p EXCEPT !.unit = Nowhere]
      BY <2>2 DEF Reconcile
    <3> QED
      BY <1>1, <1>2, <1>3, <3>1, ExplorerAssumption DEF IsRecord, Parameters
  <2> QED
    BY <2>1, <2>2
<1> PICK o : o = Opening(q)
  OBVIOUS
<1>5. o = ReconcilePin(r)
  BY DEF Opening
<1>6. /\ IsRecord(o)
      /\ o.state = r.state /\ o.unit = r.unit /\ o.document = r.document /\ o.layers = r.layers
      /\ o.department = r.department
      /\ o.pin \in 1..Newest \cup {Nowhere}
  <2>1. CASE r.pin # Nowhere /\ r.pin \notin 1..Newest
    <3>1. o = [r EXCEPT !.pin = Nowhere]
      BY <1>5, <2>1 DEF ReconcilePin
    <3> QED
      BY <1>4, <3>1 DEF IsRecord, Parameters
  <2>2. CASE ~(r.pin # Nowhere /\ r.pin \notin 1..Newest)
    BY <1>4, <1>5, <2>2 DEF ReconcilePin
  <2> QED
    BY <2>1, <2>2
<1>7. IsView(o)
  BY <1>4, <1>6 DEF IsView
<1>8. Reconcile(o) = o
  BY <1>4, <1>6 DEF Reconcile
<1> QED
  BY <1>7, <1>8

\* A view written to an address and opened comes back reconciled.
LEMMA ViewReopens ==
    ASSUME NEW v, IsView(v)
    PROVE  Opening(ToQueryString(v)) = Reconcile(v)
<1>1. Opening(ToQueryString(v)) = ReconcilePin(Reconcile(v))
  BY ViewReturns DEF Opening
<1>2. Reconcile(v).pin \in 1..Newest \cup {Nowhere}
  BY ReconcileSettles DEF IsView
<1> QED
  BY <1>1, <1>2 DEF ReconcilePin

\* Naming another version, or none, is all that changes.
LEMMA PinIsReplaced ==
    ASSUME NEW v, IsView(v), NEW version \in 1..Newest \cup {Nowhere}
    PROVE  /\ IsView([v EXCEPT !.pin = version])
           /\ [v EXCEPT !.pin = version].pin = version
           /\ ToQueryString([v EXCEPT !.pin = version]).pin = version
<1> PICK w : w = [v EXCEPT !.pin = version]
  OBVIOUS
<1>1. /\ IsRecord(w)
      /\ w.unit = v.unit /\ w.document = v.document /\ w.layers = v.layers /\ w.pin = version
      /\ w.department = v.department
  BY DEF IsView, IsRecord, Parameters
<1>2. IsView(w)
  BY <1>1 DEF IsView
<1>3. ToQueryString(w).pin = w.pin
  BY <1>1 DEF ToQueryString, IsRecord, Parameters
<1> QED
  BY <1>1, <1>2, <1>3

\* A record replaced in its version by its own is itself.
LEMMA OwnPin ==
    ASSUME NEW v, IsView(v)
    PROVE  [v EXCEPT !.pin = v.pin] = v
<1> PICK w : w = [v EXCEPT !.pin = v.pin]
  OBVIOUS
<1>1. w = [f \in Parameters |-> w[f]] /\ \A f \in Parameters : w[f] = v[f]
  BY DEF IsView, IsRecord, Parameters
<1> QED
  BY <1>1 DEF IsView, IsRecord

LEMMA Opens ==
    ASSUME NEW q, IsRecord(q), address' = q, view' = Opening(q), moved' = FALSE, detail' = FALSE,
           watermark' \in {0, Newest}
    PROVE  ExplorerInv'
<1>1. IsView(view') /\ Reconcile(view') = view'
  BY OpeningIsAView
<1>2. [Opening(address') EXCEPT !.pin = view'.pin] = Reconcile(view')
  BY <1>1, OwnPin
<1> QED
  BY <1>1, <1>2 DEF ExplorerInv, AddressIsTheViews

LEMMA ExplorerBegins == ExplorerInit => ExplorerInv
<1> SUFFICES ASSUME ExplorerInit PROVE ExplorerInv
  OBVIOUS
<1>1. IsRecord(address)
  BY ExplorerAssumption DEF ExplorerInit, IsRecord
<1>2. IsView(view) /\ Reconcile(view) = view
  BY <1>1, OpeningIsAView DEF ExplorerInit
<1>3. [Opening(address) EXCEPT !.pin = view.pin] = Reconcile(view)
  BY <1>2, OwnPin DEF ExplorerInit
<1> QED
  BY <1>1, <1>2, <1>3 DEF ExplorerInit, ExplorerInv, AddressIsTheViews

\* apply: one change of the view, and the address with it.
LEMMA PatchKeeps ==
    ASSUME ExplorerInv, NEW v, IsView(v), Patch(v)
    PROVE  ExplorerInv'
<1> PICK next : next = [v EXCEPT !.pin = Nowhere]
  OBVIOUS
<1>1. IsView(next) /\ next.pin = Nowhere /\ ToQueryString(next).pin = Nowhere
  BY PinIsReplaced
<1>2. /\ view' = next /\ address' = ToQueryString(next) /\ watermark' = watermark
      /\ detail' = (detail /\ next.unit = view.unit)
  BY DEF Patch
<1>3. IsRecord(ToQueryString(next)) /\ Opening(ToQueryString(next)) = Reconcile(next)
  BY <1>1, ViewReturns, ViewReopens
<1>4. IsView(Reconcile(next)) /\ Reconcile(next).pin = next.pin
  BY <1>1, ReconcileSettles
<1>5. [Reconcile(next) EXCEPT !.pin = next.pin] = Reconcile(next)
  BY <1>4, OwnPin
<1> QED
  BY <1>1, <1>2, <1>3, <1>5 DEF ExplorerInv, AddressIsTheViews

\* Every place the page offers is one of the ledger's.
LEMMA OfferedArePlaces ==
    /\ Malformed \notin Places \cup {Nowhere}
    /\ \A p : ChildrenOf(p) \subseteq Places /\ BoundariesOfChildren(p) \subseteq Places
    /\ \A p : NamedWithin(p, Named) \subseteq Places
    /\ \A p \in Places : \A i \in DOMAIN AncestorsOf[p] : AncestorsOf[p][i] \in Places
<1>1. Malformed \notin Places \cup {Nowhere}
  BY ExplorerAssumption
<1>2. \A p : ChildrenOf(p) \subseteq Places /\ BoundariesOfChildren(p) \subseteq Places
  BY ExplorerAssumption DEF ChildrenOf, BoundariesOfChildren
<1>3. \A p : NamedWithin(p, Named) \subseteq Places
  BY ExplorerAssumption DEF NamedWithin
<1>4. \A p \in Places : \A i \in DOMAIN AncestorsOf[p] : AncestorsOf[p][i] \in Places
  <2> SUFFICES ASSUME NEW p \in Places, NEW i \in DOMAIN AncestorsOf[p]
               PROVE  AncestorsOf[p][i] \in Places
    OBVIOUS
  <2>1. AncestorsOf[p] \in Seq(Places)
    BY ExplorerAssumption
  <2> QED
    BY <2>1
<1> QED
  BY <1>1, <1>2, <1>3, <1>4

LEMMA StateChosen ==
    ASSUME ExplorerInv, NEW code, SelectState(code)
    PROVE  ExplorerInv'
<1> PICK w : w = [view EXCEPT !.state = code, !.unit = Nowhere,
                              !.document = Nowhere, !.department = Nowhere]
  OBVIOUS
<1>1. IsRecord(w) /\ w.unit = Nowhere /\ w.document = Nowhere
      /\ w.layers = view.layers /\ w.pin = view.pin /\ w.department = Nowhere
  BY DEF ExplorerInv, IsView, IsRecord, Parameters
<1>2. IsView(w)
  BY <1>1, ExplorerAssumption DEF ExplorerInv, IsView
<1>3. Patch(w)
  BY DEF SelectState
<1> QED
  BY <1>2, <1>3, PatchKeeps

LEMMA UnitChosen ==
    ASSUME ExplorerInv, NEW u \in Places \cup {Nowhere}, SelectUnit(u)
    PROVE  ExplorerInv'
<1> PICK w : w = [view EXCEPT !.unit = u]
  OBVIOUS
<1>1. IsRecord(w) /\ w.unit = u /\ w.document = view.document
      /\ w.layers = view.layers /\ w.pin = view.pin
      /\ w.department \in {view.department, Nowhere}
  BY DEF ExplorerInv, IsView, IsRecord, Parameters
<1>2. IsView(w)
  BY <1>1, OfferedArePlaces, ExplorerAssumption DEF ExplorerInv, IsView
<1>3. Patch(w)
  BY DEF SelectUnit
<1> QED
  BY <1>2, <1>3, PatchKeeps

LEMMA PlaceChosen ==
    ASSUME ExplorerInv, NEW code, NEW u \in Places \cup {Nowhere}, SelectPlace(code, u)
    PROVE  ExplorerInv'
<1> PICK w : w = [view EXCEPT !.state = code, !.unit = u,
                              !.department = IF code = view.state THEN @ ELSE Nowhere]
  OBVIOUS
<1>1. IsRecord(w) /\ w.unit = u /\ w.document = view.document
      /\ w.layers = view.layers /\ w.pin = view.pin
      /\ w.department \in {view.department, Nowhere}
  BY DEF ExplorerInv, IsView, IsRecord, Parameters
<1>2. IsView(w)
  BY <1>1, OfferedArePlaces, ExplorerAssumption DEF ExplorerInv, IsView
<1>3. Patch(w)
  BY DEF SelectPlace
<1> QED
  BY <1>2, <1>3, PatchKeeps

LEMMA ExplorerSteps == ExplorerInv /\ [ExplorerNext]_explorer => ExplorerInv'
<1> SUFFICES ASSUME ExplorerInv, [ExplorerNext]_explorer PROVE ExplorerInv'
  OBVIOUS
<1>1. CASE HearLevel \/ HearDetail
  BY <1>1 DEF HearLevel, HearDetail, ExplorerInv, AddressIsTheViews
<1>2. CASE ChooseState
  BY <1>2, StateChosen DEF ChooseState
<1>3. CASE ChooseListed
  <2>1. Listed \subseteq Places
    BY OfferedArePlaces DEF Listed
  <2> QED
    BY <1>3, <2>1, UnitChosen DEF ChooseListed
<1>4. CASE StepUp
  <2> DEFINE n == Len(Ancestors)
             up == IF n < 2 THEN Nowhere
                   ELSE IF LevelOf[Ancestors[n - 1]] = "state" THEN Nowhere
                   ELSE Ancestors[n - 1]
  <2>1. up \in Places \cup {Nowhere}
    <3>1. CASE n < 2
      BY <3>1
    <3>2. CASE ~(n < 2)
      <4>1. detail
        BY <3>2 DEF Ancestors
      <4>2. Ancestors \in Seq(Places)
        BY <4>1, ExplorerAssumption DEF Ancestors, ExplorerInv
      <4>3. Ancestors[n - 1] \in Places
        BY <3>2, <4>2
      <4> QED
        BY <4>3
    <3> QED
      BY <3>1, <3>2
  <2>2. SelectUnit(up)
    BY <1>4 DEF StepUp
  <2> QED
    BY <2>1, <2>2, UnitChosen
<1>5. CASE ChooseCrumb
  <2>1. CASE SelectState(Nowhere)
    BY <2>1, StateChosen
  <2>2. ASSUME NEW i \in DOMAIN Ancestors, SelectUnit(Ancestors[i]) PROVE ExplorerInv'
    <3>1. detail
      BY <2>2 DEF Ancestors
    <3>2. Ancestors[i] \in Places
      BY <2>2, <3>1, OfferedArePlaces DEF Ancestors, ExplorerInv
    <3> QED
      BY <2>2, <3>2, UnitChosen
  <2> QED
    BY <1>5, <2>1, <2>2 DEF ChooseCrumb
<1>6. CASE ClickMap
  <2>1. ASSUME NEW u \in NamedWithin(StateUnit(view.state), Named), SelectUnit(u) PROVE ExplorerInv'
    BY <2>1, OfferedArePlaces, UnitChosen
  <2>2. ASSUME NEW u \in Drawn, SelectUnit(u) PROVE ExplorerInv'
    <3>1. u \in Places
      BY OfferedArePlaces DEF Drawn
    <3> QED
      BY <2>2, <3>1, UnitChosen
  <2>3. ASSUME NEW code \in States, SelectState(code) PROVE ExplorerInv'
    BY <2>3, StateChosen
  <2> QED
    BY <1>6, <2>1, <2>2, <2>3 DEF ClickMap
<1>7. CASE ChooseResult
  BY <1>7, PlaceChosen DEF ChooseResult
<1>8. CASE ChooseDocument
  <2> PICK d \in Documents \cup {Nowhere} : Patch([view EXCEPT !.document = d])
    BY <1>8 DEF ChooseDocument
  <2> PICK w : w = [view EXCEPT !.document = d]
    OBVIOUS
  <2>1. IsRecord(w) /\ w.unit = view.unit /\ w.document = d
        /\ w.layers = view.layers /\ w.pin = view.pin /\ w.department = view.department
    BY DEF ExplorerInv, IsView, IsRecord, Parameters
  <2>2. IsView(w)
    BY <2>1, ExplorerAssumption DEF ExplorerInv, IsView
  <2> QED
    BY <2>2, PatchKeeps
<1>9. CASE ToggleLayer
  <2> PICK t \in Toggles : Patch([view EXCEPT !.layers = IF t \in @ THEN @ \ {t} ELSE @ \cup {t}])
    BY <1>9 DEF ToggleLayer
  <2> PICK w : w = [view EXCEPT !.layers = IF t \in @ THEN @ \ {t} ELSE @ \cup {t}]
    OBVIOUS
  <2>1. IsRecord(w) /\ w.unit = view.unit /\ w.document = view.document
        /\ w.layers \subseteq view.layers \cup {t} /\ w.pin = view.pin
        /\ w.department = view.department
    BY DEF ExplorerInv, IsView, IsRecord, Parameters
  <2>2. IsView(w)
    BY <2>1 DEF ExplorerInv, IsView
  <2> QED
    BY <2>2, PatchKeeps
<1>10. CASE ChooseDepartment
  <2> PICK d \in Departments : Patch([view EXCEPT !.department = IF @ = d THEN Nowhere ELSE d])
    BY <1>10 DEF ChooseDepartment
  <2> PICK w : w = [view EXCEPT !.department = IF @ = d THEN Nowhere ELSE d]
    OBVIOUS
  <2>1. IsRecord(w) /\ w.unit = view.unit /\ w.document = view.document
        /\ w.layers = view.layers /\ w.pin = view.pin /\ w.department \in {d, Nowhere}
    BY DEF ExplorerInv, IsView, IsRecord, Parameters
  <2>2. IsView(w)
    BY <2>1, ExplorerAssumption DEF ExplorerInv, IsView
  <2> QED
    BY <2>2, PatchKeeps
<1>11. CASE OpenAgain
  <2>1. IsRecord(ViewLink)
    <3> DEFINE version == IF watermark > 0 THEN watermark ELSE Nowhere
    <3>1. version \in 1..Newest \cup {Nowhere}
      BY ExplorerAssumption DEF ExplorerInv
    <3>2. IsView([view EXCEPT !.pin = version])
      BY <3>1, PinIsReplaced DEF ExplorerInv
    <3> QED
      BY <3>2, ViewReturns DEF ViewLink
  <2> QED
    BY <1>11, <2>1, Opens DEF OpenAgain, Open, ExplorerInv
<1>12. CASE UNCHANGED explorer
  BY <1>12 DEF explorer, ExplorerInv, AddressIsTheViews
<1> QED
  BY <1>1, <1>2, <1>3, <1>4, <1>5, <1>6, <1>7, <1>8, <1>9, <1>10, <1>11, <1>12 DEF ExplorerNext

\* The address in the bar and the copied link lead to the reader's own view,
\* whatever was chosen, by whichever way, since whichever link was opened, and
\* claim no version the reader has left (explorer-url.ts, useExplorerState.ts).
THEOREM AddressIsTheView == ExplorerSpec => []AddressRestoresView
<1>1. ExplorerInv => AddressRestoresView
  <2> SUFFICES ASSUME ExplorerInv PROVE AddressRestoresView
    OBVIOUS
  <2> DEFINE version == IF watermark > 0 THEN watermark ELSE Nowhere
  <2>1. version \in 1..Newest \cup {Nowhere}
    BY ExplorerAssumption DEF ExplorerInv
  <2>2. IsView([view EXCEPT !.pin = version])
    BY <2>1, PinIsReplaced DEF ExplorerInv
  <2>3. Opening(ViewLink) = Reconcile([view EXCEPT !.pin = version])
    BY <2>2, ViewReopens DEF ViewLink
  <2> QED
    BY <2>3 DEF ExplorerInv, AddressIsTheViews, AddressRestoresView
<1> QED
  BY <1>1, ExplorerBegins, ExplorerSteps, PTL DEF ExplorerSpec

------------------------------------------------------------------------------
(* The map (MapView).                                                         *)

\* What the map of the living mount is to hold of a layer.
Wanted(l, i) == IF Refused(l, i) THEN Nothing ELSE i[l]
WantedNumbers(i) == IF Refused("tenders", i) THEN NoNumbers ELSE Shades(i)

\* The binder knows what its map holds: what it read last is what each source
\* was given, and what it remembers of the numbers is there, and alone if the
\* renderer drops numbers with their data.
BinderIsInStep ==
    /\ data = snapshot
    /\ snapshot = [l \in Sources |-> snapshot[l]]
    /\ sent = [p \in Spots |-> sent[p]]
    /\ numbers = [p \in Spots |-> numbers[p]]
    /\ \A p \in Spots : sent[p] # 0 => numbers[p] = sent[p]
    /\ ~keeps => numbers = sent

MapInv ==
    /\ cancelled \subseteq 1..Mounts
    /\ bound \in 1..Mounts \cup {Nothing}
    /\ bound \notin cancelled
    /\ keeps \in BOOLEAN
    /\ BinderIsInStep
    /\ lifted \subseteq {hovered}
    /\ bound # Nothing =>
        /\ \A l \in Sources : data[l] = Wanted(l, input)
        /\ sent = WantedNumbers(input)
        /\ drawn = {l \in Layers : ~Refused(l, input) /\ Toggled(l, input)}

LEMMA NumbersAreZero == NoNumbers = [p \in Spots |-> 0] /\ \A p \in Spots : NoNumbers[p] = 0
BY DEF NoNumbers

LEMMA WantedIsOfPlaces == \A i : WantedNumbers(i) = [p \in Spots |-> WantedNumbers(i)[p]]
<1> SUFFICES ASSUME NEW i PROVE WantedNumbers(i) = [p \in Spots |-> WantedNumbers(i)[p]]
  OBVIOUS
<1>1. CASE WantedNumbers(i) = NoNumbers
  BY <1>1 DEF NoNumbers
<1>2. CASE WantedNumbers(i) # NoNumbers
  BY <1>2 DEF WantedNumbers, Shades
<1> QED
  BY <1>1, <1>2

\* update: a binder in step with its map, given any input, leaves the map as
\* the input asks and stays in step.
LEMMA BindServes ==
    ASSUME NEW i, NEW was,
           was.data = was.snapshot,
           was.snapshot = [l \in Sources |-> was.snapshot[l]],
           was.sent = [p \in Spots |-> was.sent[p]],
           was.numbers = [p \in Spots |-> was.numbers[p]],
           \A p \in Spots : was.sent[p] # 0 => was.numbers[p] = was.sent[p],
           ~keeps => was.numbers = was.sent,
           keeps \in BOOLEAN, keeps' = keeps,
           Bind(i, was)
    PROVE  /\ BinderIsInStep'
           /\ \A l \in Sources : data'[l] = Wanted(l, i)
           /\ sent' = WantedNumbers(i)
           /\ drawn' = {l \in Layers : ~Refused(l, i) /\ Toggled(l, i)}
           /\ lifted' \subseteq was.lifted
<1> DEFINE given == [l \in Sources |-> ToSend(l, i, was)]
           resent == given["areas"] # was.data["areas"]
           previous == IF resent THEN NoNumbers ELSE was.sent
           held == IF resent /\ ~keeps THEN NoNumbers ELSE was.numbers
<1>1. \A l \in Sources : ToSend(l, i, was) = Wanted(l, i) /\ Snapshot(l, i, was) = Wanted(l, i)
  BY DEF ToSend, Snapshot, Wanted
<1>2. /\ data' = given
      /\ snapshot' = [l \in Sources |-> Snapshot(l, i, was)]
      /\ sent' = WantedNumbers(i)
      /\ numbers' = [p \in Spots |-> IF WantedNumbers(i)[p] = previous[p] THEN held[p]
                                     ELSE WantedNumbers(i)[p]]
      /\ drawn' = {l \in Layers : ~Refused(l, i) /\ Toggled(l, i)}
      /\ lifted' = {x \in was.lifted : keeps \/ given[x.layer] = was.data[x.layer]}
  BY DEF Bind, WantedNumbers
<1>3. data' = snapshot' /\ snapshot' = [l \in Sources |-> snapshot'[l]]
      /\ \A l \in Sources : data'[l] = Wanted(l, i)
  BY <1>1, <1>2
<1> HIDE DEF given, resent
<1>4. /\ \A p \in Spots : previous[p] # 0 => held[p] = previous[p]
      /\ ~keeps => \A p \in Spots : held[p] = previous[p]
  <2>1. CASE resent
    BY <2>1, NumbersAreZero
  <2>2. CASE ~resent
    BY <2>2
  <2> QED
    BY <2>1, <2>2
<1> HIDE DEF previous, held
<1>5. sent' = [p \in Spots |-> sent'[p]] /\ numbers' = [p \in Spots |-> numbers'[p]]
  BY <1>2, WantedIsOfPlaces
<1>6. \A p \in Spots : sent'[p] # 0 => numbers'[p] = sent'[p]
  BY <1>2, <1>4
<1>7. ~keeps => numbers' = sent'
  <2>1. ~keeps => \A p \in Spots : numbers'[p] = sent'[p]
    BY <1>2, <1>4
  <2> QED
    BY <2>1, <1>5
<1>8. BinderIsInStep'
  BY <1>3, <1>5, <1>6, <1>7 DEF BinderIsInStep
<1> QED
  BY <1>2, <1>3, <1>8

LEMMA FreshIsInStep ==
    /\ Fresh.data = Fresh.snapshot
    /\ Fresh.snapshot = [l \in Sources |-> Fresh.snapshot[l]]
    /\ Fresh.sent = [p \in Spots |-> Fresh.sent[p]]
    /\ Fresh.numbers = Fresh.sent
    /\ Fresh.sent = NoNumbers
    /\ Fresh.lifted = {}
BY NumbersAreZero DEF Fresh

LEMMA MapBegins == MapInit => MapInv
BY MountsAssumption, NumbersAreZero DEF MapInit, MapInv, BinderIsInStep

LEMMA MapSteps == MapInv /\ [MapNext]_mapview => MapInv'
<1> SUFFICES ASSUME MapInv, [MapNext]_mapview PROVE MapInv'
  OBVIOUS
<1> USE DEF MapInv
<1>1. ASSUME NEW m \in 1..Mounts, MountMap(m) \/ FailToLoad(m) \/ MissOutlines(m) \/ RendererFails(m)
      PROVE  MapInv'
  BY <1>1 DEF MountMap, FailToLoad, MissOutlines, RendererFails, binder, pointer, BinderIsInStep,
              Wanted, WantedNumbers
<1>2. ASSUME NEW m \in 1..Mounts, HearStyle(m) \/ HearLoad(m) PROVE MapInv'
  BY <1>2 DEF HearStyle, HearLoad, binder, pointer, BinderIsInStep, Wanted, WantedNumbers
<1>3. CASE AnswerOutlines
  BY <1>3 DEF AnswerOutlines, binder, pointer, BinderIsInStep, Wanted, WantedNumbers
<1>4. ASSUME NEW m \in 1..Mounts, HearOutlines(m) PROVE MapInv'
  <2>1. CASE ~Live(m)
    BY <1>4, <2>1 DEF HearOutlines, binder, pointer, BinderIsInStep, Wanted, WantedNumbers
  <2>2. CASE Live(m)
    <3> PICK i : i = [input EXCEPT !.states = "outlines"]
      OBVIOUS
    <3>1. /\ bound' = m /\ input' = i /\ Bind(i, Fresh) /\ hovered' = hovered
          /\ cancelled' = cancelled /\ keeps' = keeps
      BY <1>4, <2>2 DEF HearOutlines
    <3>2. /\ BinderIsInStep'
          /\ \A l \in Sources : data'[l] = Wanted(l, i)
          /\ sent' = WantedNumbers(i)
          /\ drawn' = {l \in Layers : ~Refused(l, i) /\ Toggled(l, i)}
          /\ lifted' \subseteq {}
      BY <3>1, FreshIsInStep, BindServes
    <3> QED
      BY <2>2, <3>1, <3>2, MountsAssumption DEF Live
  <2> QED
    BY <2>1, <2>2
<1>5. ASSUME NEW m \in 1..Mounts, Unmount(m) PROVE MapInv'
  <2>1. BinderIsInStep'
    BY <1>5, FreshIsInStep, NumbersAreZero DEF Unmount, BinderIsInStep
  <2> QED
    BY <1>5, <2>1, MountsAssumption DEF Unmount
<1>6. ASSUME NEW i, ShowInput(i) PROVE MapInv'
  <2>1. CASE bound = Nothing
    BY <1>6, <2>1 DEF ShowInput, binder, pointer, BinderIsInStep
  <2>2. CASE bound # Nothing
    <3>1. /\ Now.data = data /\ Now.snapshot = snapshot /\ Now.sent = sent
          /\ Now.numbers = numbers /\ Now.lifted = lifted
      BY DEF Now
    <3>2. /\ input' = i /\ Bind(i, Now) /\ hovered' = hovered
          /\ bound' = bound /\ cancelled' = cancelled /\ keeps' = keeps
      BY <1>6, <2>2 DEF ShowInput
    <3>3. /\ BinderIsInStep'
          /\ \A l \in Sources : data'[l] = Wanted(l, i)
          /\ sent' = WantedNumbers(i)
          /\ drawn' = {l \in Layers : ~Refused(l, i) /\ Toggled(l, i)}
          /\ lifted' \subseteq lifted
      BY <3>1, <3>2, BindServes DEF BinderIsInStep
    <3> QED
      BY <2>2, <3>2, <3>3
  <2> QED
    BY <2>1, <2>2
<1>7. ASSUME NEW p \in Pointed \cup {Nothing}, Point(p) PROVE MapInv'
  BY <1>7 DEF Point, binder, BinderIsInStep, Wanted, WantedNumbers
<1>8. CASE UNCHANGED mapview
  BY <1>8 DEF mapview, binder, pointer, BinderIsInStep, Wanted, WantedNumbers
<1> QED
  BY <1>1, <1>2, <1>3, <1>4, <1>5, <1>6, <1>7, <1>8 DEF MapNext

\* Whatever came and went, in whichever order, and however often the map was
\* made anew, it shows what it was last given, on a renderer that keeps numbers
\* with new data and on one that drops them (binder.ts update, MapCanvas).
THEOREM MapIsOfItsInput == MapSpec => []MapShowsItsInput
<1>1. MapInv => MapShowsItsInput
  <2> SUFFICES ASSUME MapInv PROVE MapShowsItsInput
    OBVIOUS
  <2> USE DEF MapInv
  <2>1. ASSUME bound # Nothing
        PROVE  \A l \in Sources : data[l] = IF Refused(l, input) THEN Nothing ELSE input[l]
    BY <2>1 DEF Wanted
  <2>2. ASSUME bound # Nothing, "tenders" \in drawn PROVE sent = Shades(input)
    BY <2>2 DEF WantedNumbers
  <2>3. ASSUME bound # Nothing, "tenders" \in drawn
        PROVE  \A p \in Spots : Shades(input)[p] > 0 => numbers[p] = Shades(input)[p]
    <3>1. \A p \in Spots : Shades(input)[p] = sent[p]
      BY <2>2, <2>3
    <3>2. ~(0 > 0)
      OBVIOUS
    <3> QED
      BY <3>1, <3>2 DEF BinderIsInStep
  <2>4. ASSUME bound # Nothing, "tenders" \in drawn, ~keeps PROVE numbers = Shades(input)
    BY <2>2, <2>4 DEF BinderIsInStep
  <2>5. BaseNames(input) \cap LedgerNames(input) = {}
    BY DEF BaseNames
  <2> QED
    BY <2>1, <2>3, <2>4, <2>5 DEF MapShowsItsInput
<1> QED
  BY <1>1, MapBegins, MapSteps, PTL DEF MapSpec

------------------------------------------------------------------------------
(* The names on the map (MapLabels).                                          *)

\* The names the arbiter holds to be visible.
NamesDrawn == {x \in Names : visibleFor[x] # Never}

LabelsTypeOK ==
    /\ camera \in Cameras /\ settling \in 0..Settle \cup {Never}
    /\ visibleFor \in [Names -> 0..Never] /\ hidden \in [Names -> 0..Never]
    /\ frame \in BOOLEAN /\ restless \in BOOLEAN /\ switched \in BOOLEAN

\* No two names drawn touch, but for the reader's selection.
DrawnApart == \A x, y \in NamesDrawn : x # y /\ Touch(x, y) => {x, y} \cap labels.selected # {}

\* A name with a node on the screen is drawn or touches one that is.
DrawnFull ==
    /\ NamesDrawn \subseteq nodes
    /\ \A x \in (nodes \cap OnScreen[camera]) \ NamesDrawn : \E y \in NamesDrawn : Touch(x, y)

\* The arbiter has forgotten everything; nothing holds its place or waits for it;
\* each will have had its window when the timer is out; nothing was ever hidden.
Forgotten == \A x \in Names : visibleFor[x] = Never /\ hidden[x] = Never
AllRested == \A x \in Names : visibleFor[x] >= MinVisible /\ hidden[x] >= Cooldown
WillBeRested ==
    \A x \in Names : /\ visibleFor[x] >= MinVisible \/ visibleFor[x] + settling >= Settle
                     /\ hidden[x] >= Cooldown \/ hidden[x] + settling >= Settle
NoneGaveWay == DrawnApart /\ \A x \in Names : hidden[x] = Never

\* The nodes show what the arbiter has drawn.
NodesFollow ==
    /\ ~switched => Forgotten
    /\ switched => bright \subseteq NamesDrawn /\ NamesDrawn \cap nodes \subseteq bright \cup anew
    /\ ~switched /\ ~frame => bright = {}

\* What is in store while the camera rests: the timer is running, its pass is
\* asked for, or it has passed.
PassIsInStore ==
    ~restless =>
        /\ settling # Never => WillBeRested \/ NoneGaveWay
        /\ settling # Never /\ frame => settling = Settle \/ Forgotten
        /\ settling = Never /\ frame => AllRested \/ NoneGaveWay
        /\ settling = Never /\ ~frame /\ switched => DrawnApart /\ DrawnFull

LabelsInv == LabelsTypeOK /\ NodesFollow /\ PassIsInStore

\* What a name placed in its turn leaves: those held stay, the others are on the
\* screen and apart, and who is not placed was cooling down or had no room.
IsFilled(placed, held, order, n) ==
    /\ held \subseteq placed
    /\ \A x \in placed \ held : x \in OnScreen[camera] /\ \E k \in 1..n : x = order[k]
    /\ \A x, y \in placed : x # y /\ Touch(x, y) => x \in held /\ y \in held
    /\ \A k \in 1..n : order[k] \in OnScreen[camera] \ placed
                          => CoolingDown(order[k]) \/ \E y \in placed : Touch(order[k], y)

LEMMA FillIs ==
    ASSUME NEW order, Len(order) \in Nat, NEW held
    PROVE  IsFilled(Fill(order, held), held, order, Len(order))
<1> DEFINE N == Len(order)
           S == SUBSET (held \cup NamesOf(order))
           Next1(x, n) == IF Fits(order[n], x) THEN x \cup {order[n]} ELSE x
           Equation(g) == g = [n \in 0..N |-> IF n = 0 THEN held
                                              ELSE IF Fits(order[n], g[n - 1]) THEN g[n - 1] \cup {order[n]}
                                              ELSE g[n - 1]]
           placed == CHOOSE g : Equation(g)
<1>1. N \in Nat /\ \A n \in 1..N : order[n] \in NamesOf(order)
  BY DEF NamesOf
<1>2. \E g : Equation(g)
  <2> DEFINE step == [n \in 1..N |-> [x \in S |-> Next1(x, n)]]
  <2>1. step \in [1..N -> [S -> S]]
    BY <1>1
  <2>2. PICK h : IsListOf(h, S, held, N, step)
    <3>1. N \in Nat /\ held \in S
      BY <1>1
    <3> HIDE DEF step, N, S
    <3> QED
      BY <2>1, <3>1, StepsExist
  <2> HIDE DEF step
  <2>3. h \in [0..N -> S] /\ h[0] = held /\ \A n \in 1..N : h[n] = step[n][h[n - 1]]
    BY <2>2 DEF IsListOf
  <2>4. \A n \in 1..N : h[n] = Next1(h[n - 1], n)
    <3> SUFFICES ASSUME NEW n \in 1..N
                 PROVE  h[n] = Next1(h[n - 1], n)
      OBVIOUS
    <3> HIDE DEF S
    <3>1. n - 1 \in 0..N /\ h[n - 1] \in S
      BY <1>1, <2>3
    <3>2. step[n] = [x \in S |-> Next1(x, n)]
      BY DEF step
    <3> HIDE DEF Next1
    <3> QED
      BY <2>3, <3>1, <3>2
  <2>5. ASSUME NEW n \in 0..N
        PROVE  h[n] = IF n = 0 THEN held
                      ELSE IF Fits(order[n], h[n - 1]) THEN h[n - 1] \cup {order[n]} ELSE h[n - 1]
    <3>1. CASE n = 0
      BY <2>3, <3>1
    <3>2. CASE n # 0
      <4>1. n \in 1..N
        BY <1>1, <3>2
      <4> QED
        BY <2>4, <3>2, <4>1
    <3> QED
      BY <3>1, <3>2
  <2>6. Equation(h)
    BY <2>3, <2>5
  <2> QED
    BY <2>6
<1>3. Equation(placed)
  BY <1>2
<1>4. /\ placed[0] = held
      /\ \A n \in 1..N : placed[n] = Next1(placed[n - 1], n)
  <2> HIDE DEF placed
  <2>1. \A n \in 0..N : placed[n] = IF n = 0 THEN held
                                    ELSE IF Fits(order[n], placed[n - 1]) THEN placed[n - 1] \cup {order[n]}
                                    ELSE placed[n - 1]
    BY <1>3
  <2>2. 0 \in 0..N /\ \A n \in 1..N : n \in 0..N /\ n # 0
    BY <1>1
  <2> QED
    BY <2>1, <2>2
<1>5. Fill(order, held) = placed[N]
  BY DEF Fill
<1> HIDE DEF placed
<1> DEFINE G == {n \in 0..N : IsFilled(placed[n], held, order, n)}
<1>6. 0 \in G
  BY <1>1, <1>4 DEF IsFilled
<1>7. ASSUME NEW n \in 1..N, n - 1 \in G
      PROVE  n \in G
  <2>1. PICK old : old = placed[n - 1]
    OBVIOUS
  <2>2. PICK new : new = placed[n]
    OBVIOUS
  <2>3. IsFilled(old, held, order, n - 1) /\ new = Next1(old, n)
    BY <1>4, <1>7, <2>1, <2>2
  <2>4. \A k \in 1..n : k \in 1..(n - 1) \/ k = n
    BY <1>1
  <2>5. \A k \in 1..(n - 1) : k \in 1..n
    BY <1>1
  <2>6. CASE Fits(order[n], old)
    <3>1. new = old \cup {order[n]}
      BY <2>3, <2>6
    <3>2. order[n] \in OnScreen[camera] /\ ~CoolingDown(order[n]) /\ \A y \in old : ~Touch(order[n], y) /\ ~Touch(y, order[n])
      BY <2>6 DEF Fits, Touch
    <3>3. held \subseteq new /\ \A x \in new \ held : x \in OnScreen[camera] /\ \E k \in 1..n : x = order[k]
      BY <1>1, <2>3, <2>5, <3>1, <3>2 DEF IsFilled
    <3>4. \A x, y \in new : x # y /\ Touch(x, y) => x \in held /\ y \in held
      BY <2>3, <3>1, <3>2 DEF IsFilled
    <3>5. \A k \in 1..n : order[k] \in OnScreen[camera] \ new
                             => CoolingDown(order[k]) \/ \E y \in new : Touch(order[k], y)
      BY <2>3, <2>4, <3>1 DEF IsFilled
    <3> QED
      BY <1>1, <2>2, <3>3, <3>4, <3>5 DEF IsFilled
  <2>7. CASE ~Fits(order[n], old)
    <3>1. new = old
      BY <2>3, <2>7
    <3>2. order[n] \in OnScreen[camera] \ old => CoolingDown(order[n]) \/ \E y \in old : Touch(order[n], y)
      BY <2>7 DEF Fits
    <3>3. \A x \in new \ held : x \in OnScreen[camera] /\ \E k \in 1..n : x = order[k]
      BY <2>3, <2>5, <3>1 DEF IsFilled
    <3>4. \A k \in 1..n : order[k] \in OnScreen[camera] \ new
                             => CoolingDown(order[k]) \/ \E y \in new : Touch(order[k], y)
      BY <2>3, <2>4, <3>1, <3>2 DEF IsFilled
    <3>5. held \subseteq new /\ \A x, y \in new : x # y /\ Touch(x, y) => x \in held /\ y \in held
      BY <2>3, <3>1 DEF IsFilled
    <3> QED
      BY <1>1, <2>2, <3>3, <3>4, <3>5 DEF IsFilled
  <2> QED
    BY <2>6, <2>7
<1>8. 0..N \subseteq G
  <2> HIDE DEF G, N
  <2> QED
    BY <1>1, <1>6, <1>7, StepByStep
<1> QED
  BY <1>1, <1>5, <1>8

LEMMA VisibleIs ==
    ASSUME LabelsTypeOK, NEW order, Len(order) \in Nat, NEW visible, visible = Visible(order)
    PROVE  /\ visible \subseteq NamesOf(order) \cap OnScreen[camera]
           /\ visible \subseteq Names
           /\ \A x, y \in visible : x # y /\ Touch(x, y) =>
                 /\ x \in labels.selected \/ HoldsPlace(x)
                 /\ y \in labels.selected \/ HoldsPlace(y)
           /\ \A x \in (NamesOf(order) \cap OnScreen[camera]) \ visible :
                 CoolingDown(x) \/ \E y \in visible : Touch(x, y)
<1> DEFINE held == {x \in NamesOf(order) \cap OnScreen[camera] : x \in labels.selected \/ HoldsPlace(x)}
<1>1. visible = Fill(order, held)
  BY DEF Visible
<1>2. IsFilled(visible, held, order, Len(order))
  <2> HIDE DEF held
  <2> QED
    BY <1>1, FillIs
<1>3. \A k \in 1..Len(order) : order[k] \in NamesOf(order)
  BY DEF NamesOf
<1>4. visible \subseteq NamesOf(order) \cap OnScreen[camera]
  BY <1>2, <1>3 DEF IsFilled
<1>5. visible \subseteq Names
  BY <1>4, CamerasAssumption DEF LabelsTypeOK
<1>6. \A x, y \in visible : x # y /\ Touch(x, y) => x \in held /\ y \in held
  BY <1>2 DEF IsFilled
<1>7. \A x \in (NamesOf(order) \cap OnScreen[camera]) \ visible :
         CoolingDown(x) \/ \E y \in visible : Touch(x, y)
  BY <1>2 DEF IsFilled, NamesOf
<1> QED
  BY <1>4, <1>5, <1>6, <1>7

LEMMA NearViewIsAList == LabelsTypeOK => Len(NearView) \in Nat
<1> SUFFICES ASSUME LabelsTypeOK PROVE Len(NearView) \in Nat
  OBVIOUS
<1> DEFINE set == labels.offered \cap Near[camera]
<1>1. IsFiniteSet(Names) /\ set \in SUBSET Names /\ MaxNodes \in Nat
  BY CamerasAssumption DEF LabelsTypeOK
<1>2. Cardinality(set) \in Nat
  <2> HIDE DEF set
  <2> QED
    BY <1>1, FS_Subset, FS_CardinalityType
<1>3. PICK order : order = ByPriority(set)
  OBVIOUS
<1>4. PICK n : n = Cardinality(set)
  OBVIOUS
<1>5. DOMAIN order = 1..n /\ order = [i \in 1..n |-> order[i]]
  <2> HIDE DEF set
  <2> DEFINE nth(i) == CHOOSE x \in set : Cardinality({y \in set : Foremost(y, x)}) = i - 1
  <2>1. order = [i \in 1..n |-> nth(i)]
    BY <1>3, <1>4 DEF ByPriority
  <2> HIDE DEF nth
  <2> QED
    BY <2>1
<1>6. order \in Seq({order[i] : i \in 1..n}) /\ Len(order) = n
  <2> HIDE DEF set
  <2>1. n \in Nat
    BY <1>2, <1>4
  <2>2. \A i \in 1..n : order[i] \in {order[j] : j \in 1..n}
    OBVIOUS
  <2>3. order \in [1..n -> {order[i] : i \in 1..n}]
    BY <1>5, <2>2
  <2>4. order \in Seq({order[i] : i \in 1..n})
    BY <2>1, <2>3
  <2>5. Len(order) = n
    BY <1>5, <2>1, <2>4
  <2> QED
    BY <2>4, <2>5
<1>7. NearView = SubSeq(order, 1, IF Len(order) < MaxNodes THEN Len(order) ELSE MaxNodes)
  BY <1>3 DEF NearView
<1>8. Len(SubSeq(order, 1, IF Len(order) < MaxNodes THEN Len(order) ELSE MaxNodes)) \in Nat
  <2>1. PICK m : m = IF Len(order) < MaxNodes THEN Len(order) ELSE MaxNodes
    OBVIOUS
  <2>2. m \in 0..Len(order)
    BY <1>1, <1>2, <1>4, <1>6, <2>1
  <2>3. Len(SubSeq(order, 1, m)) = m
    BY <1>6, <2>2
  <2> QED
    BY <1>2, <1>4, <1>6, <2>1, <2>2, <2>3
<1> QED
  BY <1>7, <1>8

LEMMA LabelsBegin == LabelsInit => LabelsInv
<1>1. 0 \in 0..Never /\ Never \in 0..Never /\ Settle \in 0..Settle /\ Settle # Never
  BY SettleAssumption DEF Never
<1> QED
  BY <1>1 DEF LabelsInit, LabelsInv, LabelsTypeOK, NodesFollow, PassIsInStore, NoneGaveWay, DrawnApart,
     NamesDrawn, Forgotten

LEMMA LayoutKeeps == LabelsInv /\ Layout => LabelsInv'
<1> SUFFICES ASSUME LabelsInv, Layout PROVE LabelsInv'
  OBVIOUS
<1>1. /\ MinVisible \in Nat /\ Cooldown \in Nat /\ Settle \in Nat
      /\ MinVisible < 99 /\ Cooldown < 99 /\ Settle < 99 /\ Never = 99
  BY SettleAssumption DEF Never
<1>2. CASE ~switched
  <2>1. /\ UNCHANGED <<camera, labels, switched, settling, restless, visibleFor, hidden>>
        /\ bright' = {} /\ frame' = FALSE
    BY <1>2 DEF Layout
  <2>2. LabelsTypeOK' /\ NodesFollow' /\ Forgotten
    BY <1>2, <2>1 DEF LabelsInv, LabelsTypeOK, NodesFollow, Forgotten
  <2>3. NoneGaveWay'
    BY <2>1, <2>2 DEF NoneGaveWay, Forgotten, DrawnApart, NamesDrawn
  <2>4. PassIsInStore'
    BY <1>2, <2>1, <2>3 DEF PassIsInStore
  <2> QED
    BY <2>2, <2>4 DEF LabelsInv
<1>3. CASE switched
  <2>1. PICK order : order = NearView
    OBVIOUS
  <2>2. PICK visible : visible = Visible(order)
    OBVIOUS
  <2>3. LabelsTypeOK /\ Len(order) \in Nat
    BY <2>1, NearViewIsAList DEF LabelsInv
  <2>4. PICK there : there = NamesOf(order)
    OBVIOUS
  <2>5. /\ visible \subseteq there \cap OnScreen[camera] /\ visible \subseteq Names
        /\ \A x, y \in visible : x # y /\ Touch(x, y) =>
                 /\ x \in labels.selected \/ HoldsPlace(x)
                 /\ y \in labels.selected \/ HoldsPlace(y)
        /\ \A x \in (there \cap OnScreen[camera]) \ visible :
                 CoolingDown(x) \/ \E y \in visible : Touch(x, y)
    BY <2>2, <2>3, <2>4, VisibleIs
  <2>6. /\ nodes' = there
        /\ visibleFor' = [x \in Names |->
                       IF x \notin there \/ x \notin visible THEN Never
                       ELSE IF visibleFor[x] = Never THEN 0 ELSE visibleFor[x]]
        /\ hidden' = [x \in Names |->
                       IF x \notin there \/ (x \in visible /\ visibleFor[x] = Never) THEN Never
                       ELSE IF x \notin visible /\ visibleFor[x] # Never THEN 0 ELSE hidden[x]]
        /\ bright' = ((bright \cap there) \cup {x \in visible : visibleFor[x] = Never})
                        \ {x \in there \ visible : visibleFor[x] # Never}
        /\ anew' = (anew \cup {x \in there \ nodes : visibleFor[x] # Never})
                        \cap (there \ {x \in visible : visibleFor[x] = Never})
        /\ frame' = FALSE
        /\ UNCHANGED <<camera, labels, switched, settling, restless>>
    BY <1>3, <2>1, <2>2, <2>4 DEF Layout, Remember
  <2>7. LabelsTypeOK'
    <3>1. 0 \in 0..Never /\ Never \in 0..Never
      BY <1>1
    <3>2. \A x \in Names : visibleFor[x] \in 0..Never /\ hidden[x] \in 0..Never
      BY <2>3 DEF LabelsTypeOK
    <3>3. visibleFor' \in [Names -> 0..Never]
      BY <2>6, <3>1, <3>2
    <3>4. hidden' \in [Names -> 0..Never]
      BY <2>6, <3>1, <3>2
    <3> QED
      BY <2>3, <2>6, <3>3, <3>4 DEF LabelsTypeOK
  <2>8. NamesDrawn' = visible
    BY <1>1, <2>5, <2>6 DEF NamesDrawn
  <2>9. bright \subseteq NamesDrawn /\ NamesDrawn \cap nodes \subseteq bright \cup anew
    BY <1>3 DEF LabelsInv, NodesFollow
  <2>10. NodesFollow'
    <3>1. bright' \subseteq visible
      BY <2>6, <2>9 DEF NamesDrawn
    <3>2. visible \cap nodes' \subseteq bright' \cup anew'
      BY <2>5, <2>6, <2>9 DEF NamesDrawn
    <3> QED
      BY <1>3, <2>6, <2>8, <3>1, <3>2 DEF NodesFollow
  <2>11. ASSUME ~restless, settling # Never
         PROVE  WillBeRested' \/ NoneGaveWay'
    <3>1. CASE settling = Settle
      <4>1. \A x \in Names : visibleFor'[x] + Settle >= Settle /\ hidden'[x] + Settle >= Settle
        BY <1>1, <2>7 DEF LabelsTypeOK
      <4> QED
        BY <2>6, <3>1, <4>1 DEF WillBeRested
    <3>2. CASE Forgotten
      <4>1. DrawnApart'
        BY <2>5, <2>6, <2>8, <3>2 DEF DrawnApart, Forgotten, HoldsPlace, Touch
      <4>2. \A x \in Names : hidden'[x] = Never
        BY <2>6, <3>2 DEF Forgotten
      <4> QED
        BY <4>1, <4>2 DEF NoneGaveWay
    <3> QED
      BY <2>11, <3>1, <3>2 DEF LabelsInv, PassIsInStore, Layout
  <2>12. ASSUME ~restless, settling = Never
         PROVE  DrawnApart' /\ DrawnFull'
    <3>1. AllRested \/ NoneGaveWay
      BY <2>12 DEF LabelsInv, PassIsInStore, Layout
    <3>2. \A x \in Names : ~CoolingDown(x)
      <4>1. \A x \in Names : hidden[x] \in 0..99
        BY <1>1, <2>3 DEF LabelsTypeOK
      <4>2. \A x \in Names : hidden[x] >= Cooldown \/ hidden[x] = Never
        BY <3>1 DEF AllRested, NoneGaveWay
      <4> QED
        BY <1>1, <4>1, <4>2 DEF CoolingDown
    <3>3. \A x, y \in visible : x # y /\ HoldsPlace(x) /\ HoldsPlace(y) => ~Touch(x, y) \/ {x, y} \cap labels.selected # {}
      <4>1. CASE AllRested
        <5>1. \A x \in visible : visibleFor[x] \in 0..99 /\ visibleFor[x] >= MinVisible
          BY <1>1, <2>3, <2>5, <4>1 DEF AllRested, LabelsTypeOK
        <5> QED
          BY <1>1, <5>1 DEF HoldsPlace
      <4>2. CASE NoneGaveWay
        BY <2>5, <4>2 DEF NoneGaveWay, DrawnApart, HoldsPlace, NamesDrawn
      <4> QED
        BY <3>1, <4>1, <4>2
    <3>4. DrawnApart'
      BY <2>5, <2>6, <2>8, <3>3 DEF DrawnApart, Touch
    <3>5. there \cap OnScreen[camera] \subseteq Names
      BY <2>3, CamerasAssumption DEF LabelsTypeOK
    <3>6. DrawnFull'
      BY <2>5, <2>6, <2>8, <3>2, <3>5 DEF DrawnFull, Touch
    <3> QED
      BY <3>4, <3>6
  <2>13. PassIsInStore'
    BY <2>6, <2>11, <2>12 DEF PassIsInStore
  <2> QED
    BY <2>7, <2>10, <2>13 DEF LabelsInv
<1> QED
  BY <1>2, <1>3

LEMMA LabelTickKeeps == LabelsInv /\ LabelTick => LabelsInv'
<1> SUFFICES ASSUME LabelsInv, LabelTick PROVE LabelsInv'
  OBVIOUS
<1>1. /\ MinVisible \in 0..98 /\ Cooldown \in 0..98 /\ Settle \in 0..98
      /\ Settle > MinVisible /\ Settle > Cooldown /\ Never = 99
  BY SettleAssumption DEF Never
<1>2. LabelsTypeOK /\ ~frame /\ (settling = Never => ~restless)
      /\ UNCHANGED <<camera, labels, switched, nodes, bright, restless, anew, touches>>
  BY DEF LabelTick, LabelsInv
<1>3. /\ settling' = IF settling \in {0, Never} THEN Never ELSE settling - 1
      /\ frame' = (settling = 0)
  BY DEF LabelTick
<1>4. visibleFor' = [x \in Names |-> Older(visibleFor[x], MinVisible)]
      /\ hidden' = [x \in Names |-> Older(hidden[x], Cooldown)]
  BY DEF LabelTick
<1>5. \A x \in Names : visibleFor[x] \in 0..99 /\ hidden[x] \in 0..99
  BY <1>1, <1>2 DEF LabelsTypeOK
<1>6. ASSUME NEW age \in 0..99, NEW window \in 0..98
      PROVE  /\ Older(age, window) \in 0..99
             /\ Older(age, window) = Never <=> age = Never
             /\ age >= window => Older(age, window) >= window
             /\ age < window => Older(age, window) = age + 1
  BY <1>1 DEF Older
<1>7. \A x \in Names :
         /\ visibleFor'[x] \in 0..99 /\ hidden'[x] \in 0..99
         /\ visibleFor'[x] = Never <=> visibleFor[x] = Never
         /\ hidden'[x] = Never <=> hidden[x] = Never
         /\ visibleFor[x] >= MinVisible => visibleFor'[x] >= MinVisible
         /\ visibleFor[x] < MinVisible => visibleFor'[x] = visibleFor[x] + 1
         /\ hidden[x] >= Cooldown => hidden'[x] >= Cooldown
         /\ hidden[x] < Cooldown => hidden'[x] = hidden[x] + 1
  <2> SUFFICES ASSUME NEW x \in Names
               PROVE  /\ visibleFor'[x] \in 0..99 /\ hidden'[x] \in 0..99
                      /\ visibleFor'[x] = Never <=> visibleFor[x] = Never
                      /\ hidden'[x] = Never <=> hidden[x] = Never
                      /\ visibleFor[x] >= MinVisible => visibleFor'[x] >= MinVisible
                      /\ visibleFor[x] < MinVisible => visibleFor'[x] = visibleFor[x] + 1
                      /\ hidden[x] >= Cooldown => hidden'[x] >= Cooldown
                      /\ hidden[x] < Cooldown => hidden'[x] = hidden[x] + 1
    OBVIOUS
  <2>1. visibleFor'[x] = Older(visibleFor[x], MinVisible) /\ hidden'[x] = Older(hidden[x], Cooldown)
    BY <1>4
  <2>2. visibleFor[x] \in 0..99 /\ hidden[x] \in 0..99
    BY <1>5
  <2>3. MinVisible \in 0..98 /\ Cooldown \in 0..98
    BY <1>1
  <2>4. /\ Older(visibleFor[x], MinVisible) \in 0..99
        /\ Older(visibleFor[x], MinVisible) = Never <=> visibleFor[x] = Never
        /\ visibleFor[x] >= MinVisible => Older(visibleFor[x], MinVisible) >= MinVisible
        /\ visibleFor[x] < MinVisible => Older(visibleFor[x], MinVisible) = visibleFor[x] + 1
    BY <1>6, <2>2, <2>3
  <2>5. /\ Older(hidden[x], Cooldown) \in 0..99
        /\ Older(hidden[x], Cooldown) = Never <=> hidden[x] = Never
        /\ hidden[x] >= Cooldown => Older(hidden[x], Cooldown) >= Cooldown
        /\ hidden[x] < Cooldown => Older(hidden[x], Cooldown) = hidden[x] + 1
    BY <1>6, <2>2, <2>3
  <2> QED
    BY <2>1, <2>4, <2>5
<1>8. LabelsTypeOK'
  <2>1. visibleFor' \in [Names -> 0..Never] /\ hidden' \in [Names -> 0..Never]
    BY <1>1, <1>4, <1>7
  <2>2. settling' \in 0..Settle \cup {Never} /\ frame' \in BOOLEAN
    BY <1>1, <1>2, <1>3 DEF LabelsTypeOK
  <2> QED
    BY <1>2, <2>1, <2>2 DEF LabelsTypeOK
<1>9. NamesDrawn' = NamesDrawn
  BY <1>7 DEF NamesDrawn
<1>10. NodesFollow'
  <2>1. ~switched => Forgotten' /\ bright = {}
    BY <1>2, <1>7 DEF LabelsInv, NodesFollow, Forgotten
  <2> QED
    BY <1>2, <1>9, <2>1 DEF LabelsInv, NodesFollow
<1>11. NoneGaveWay => NoneGaveWay'
  <2>1. DrawnApart => DrawnApart'
    BY <1>2, <1>9 DEF DrawnApart, Touch
  <2>2. (\A x \in Names : hidden[x] = Never) => \A x \in Names : hidden'[x] = Never
    BY <1>7
  <2> QED
    BY <2>1, <2>2 DEF NoneGaveWay
<1>12. ASSUME ~restless, settling \in 1..Settle
       PROVE  PassIsInStore'
  <2>1. settling' = settling - 1 /\ frame' = FALSE
    <3>1. settling \notin {0, Never} /\ settling # 0
      BY <1>1, <1>12
    <3> QED
      BY <1>3, <3>1
  <2>2. WillBeRested \/ NoneGaveWay
    BY <1>1, <1>12 DEF LabelsInv, PassIsInStore
  <2>3. WillBeRested => WillBeRested'
    <3>1. \A x \in Names :
             visibleFor[x] >= MinVisible \/ visibleFor[x] + settling >= Settle
             => visibleFor'[x] >= MinVisible \/ visibleFor'[x] + (settling - 1) >= Settle
      BY <1>1, <1>5, <1>7, <1>12
    <3>2. \A x \in Names :
             hidden[x] >= Cooldown \/ hidden[x] + settling >= Settle
             => hidden'[x] >= Cooldown \/ hidden'[x] + (settling - 1) >= Settle
      BY <1>1, <1>5, <1>7, <1>12
    <3> QED
      BY <2>1, <3>1, <3>2 DEF WillBeRested
  <2>4. settling' # Never
    BY <1>1, <1>12, <2>1
  <2> QED
    BY <1>11, <2>1, <2>2, <2>3, <2>4 DEF PassIsInStore
<1>13. ASSUME ~restless, settling = 0
       PROVE  PassIsInStore'
  <2>1. settling' = Never /\ frame' = TRUE
    BY <1>3, <1>13
  <2>2. WillBeRested \/ NoneGaveWay
    BY <1>1, <1>13 DEF LabelsInv, PassIsInStore
  <2>3. WillBeRested => AllRested'
    BY <1>1, <1>5, <1>7, <1>13 DEF WillBeRested, AllRested
  <2> QED
    BY <1>11, <2>1, <2>2, <2>3 DEF PassIsInStore
<1>14. ASSUME settling = Never
       PROVE  PassIsInStore'
  <2>1. settling' = Never /\ frame' = FALSE /\ ~restless
    <3>1. settling \in {0, Never} /\ (settling = 0) = FALSE
      BY <1>1, <1>14
    <3> QED
      BY <1>2, <1>3, <1>14, <3>1
  <2>2. switched => DrawnApart /\ DrawnFull
    BY <1>2, <1>14, <2>1 DEF LabelsInv, PassIsInStore
  <2>3. switched => DrawnApart' /\ DrawnFull'
    BY <1>2, <1>9, <2>2 DEF DrawnApart, DrawnFull, Touch
  <2> QED
    BY <1>2, <2>1, <2>3 DEF PassIsInStore
<1>15. restless => PassIsInStore'
  BY <1>2 DEF PassIsInStore
<1>16. settling \in 1..Settle \/ settling = 0 \/ settling = Never
  BY <1>1, <1>2 DEF LabelsTypeOK
<1> QED
  BY <1>8, <1>10, <1>12, <1>13, <1>14, <1>15, <1>16 DEF LabelsInv

LEMMA LabelsSteps == LabelsInv /\ [LabelsNext]_maplabels => LabelsInv'
<1> SUFFICES ASSUME LabelsInv, [LabelsNext]_maplabels PROVE LabelsInv'
  OBVIOUS
<1>1. /\ MinVisible \in 0..98 /\ Cooldown \in 0..98 /\ Settle \in 0..98 /\ Never = 99
  BY SettleAssumption DEF Never
<1>2. ASSUME NEW c \in Cameras, Move(c)
      PROVE  LabelsInv'
  <2>1. /\ camera' = c /\ frame' = TRUE /\ restless' = TRUE
        /\ UNCHANGED <<labels, switched, visibleFor, hidden, nodes, bright, settling, anew>>
    BY <1>2 DEF Move
  <2>2. LabelsTypeOK'
    BY <2>1 DEF LabelsInv, LabelsTypeOK
  <2>3. NodesFollow'
    BY <2>1 DEF LabelsInv, NodesFollow, Forgotten, NamesDrawn
  <2> QED
    BY <2>1, <2>2, <2>3 DEF LabelsInv, PassIsInStore
<1>3. ASSUME Rest
      PROVE  LabelsInv'
  <2>1. /\ restless' = FALSE /\ settling' = Settle
        /\ UNCHANGED <<camera, labels, switched, visibleFor, hidden, nodes, bright, frame, anew>>
    BY <1>3 DEF Rest
  <2>2. LabelsTypeOK' /\ Settle # Never
    <3>1. Settle \in 0..Settle /\ Settle # Never
      BY <1>1
    <3> QED
      BY <2>1, <3>1 DEF LabelsInv, LabelsTypeOK
  <2>3. NodesFollow'
    BY <2>1 DEF LabelsInv, NodesFollow, Forgotten, NamesDrawn
  <2>4. WillBeRested'
    <3>1. \A x \in Names : visibleFor[x] + Settle >= Settle /\ hidden[x] + Settle >= Settle
      <4>1. \A x \in Names : visibleFor[x] \in 0..Never /\ hidden[x] \in 0..Never
        BY DEF LabelsInv, LabelsTypeOK
      <4>2. \A n \in 0..Never : n + Settle >= Settle
        BY <1>1
      <4> QED
        BY <4>1, <4>2
    <3> QED
      BY <2>1, <3>1 DEF WillBeRested
  <2> QED
    BY <2>1, <2>2, <2>3, <2>4 DEF LabelsInv, PassIsInStore
<1>4. ASSUME NEW new \in LabelSets, NEW elsewhere \in SUBSET new.offered, SetLabels(new, elsewhere)
      PROVE  LabelsInv'
  <2>1. PICK stay : stay = new.offered \ elsewhere
    OBVIOUS
  <2>2. /\ nodes' = nodes \cap stay /\ bright' = bright \cap stay /\ frame' = TRUE /\ settling' = Settle
        /\ UNCHANGED <<camera, switched, visibleFor, hidden, restless, anew>>
    BY <1>4, <2>1 DEF SetLabels
  <2>3. LabelsTypeOK' /\ Settle # Never
    BY <1>1, <2>2 DEF LabelsInv, LabelsTypeOK
  <2>4. NodesFollow'
    BY <2>2 DEF LabelsInv, NodesFollow, Forgotten, NamesDrawn
  <2>5. WillBeRested'
    <3>1. \A x \in Names : visibleFor[x] + Settle >= Settle /\ hidden[x] + Settle >= Settle
      <4>1. \A x \in Names : visibleFor[x] \in 0..Never /\ hidden[x] \in 0..Never
        BY DEF LabelsInv, LabelsTypeOK
      <4>2. \A n \in 0..Never : n + Settle >= Settle
        BY <1>1
      <4> QED
        BY <4>1, <4>2
    <3> QED
      BY <2>2, <3>1 DEF WillBeRested
  <2> QED
    BY <2>2, <2>3, <2>4, <2>5 DEF LabelsInv, PassIsInStore
<1>5. ASSUME SetVisible
      PROVE  LabelsInv'
  <2>1. /\ ~frame /\ switched' = ~switched /\ frame' = TRUE
        /\ visibleFor' = [x \in Names |-> Never] /\ hidden' = [x \in Names |-> Never]
        /\ UNCHANGED <<camera, labels, nodes, bright, settling, restless, anew>>
    BY <1>5 DEF SetVisible
  <2>2. LabelsTypeOK'
    BY <1>1, <2>1 DEF LabelsInv, LabelsTypeOK
  <2>3. Forgotten' /\ NamesDrawn' = {}
    BY <2>1 DEF Forgotten, NamesDrawn
  <2>4. NodesFollow'
    BY <2>1, <2>3 DEF LabelsInv, NodesFollow
  <2>5. NoneGaveWay'
    BY <2>3 DEF NoneGaveWay, DrawnApart, Forgotten
  <2> QED
    BY <2>1, <2>2, <2>3, <2>4, <2>5 DEF LabelsInv, PassIsInStore
<1>6. CASE UNCHANGED maplabels
  <2>1. LabelsTypeOK'
    BY <1>6 DEF LabelsInv, LabelsTypeOK, maplabels
  <2>2. NodesFollow'
    BY <1>6 DEF LabelsInv, NodesFollow, Forgotten, NamesDrawn, maplabels
  <2>3. (WillBeRested => WillBeRested') /\ (Forgotten => Forgotten') /\ (AllRested => AllRested')
    BY <1>6 DEF WillBeRested, Forgotten, AllRested, maplabels
  <2>4. (DrawnApart => DrawnApart') /\ (DrawnFull => DrawnFull') /\ (NoneGaveWay => NoneGaveWay')
    BY <1>6 DEF DrawnApart, DrawnFull, NoneGaveWay, NamesDrawn, Touch, maplabels
  <2>5. PassIsInStore'
    BY <1>6, <2>3, <2>4 DEF LabelsInv, PassIsInStore, maplabels
  <2> QED
    BY <2>1, <2>2, <2>5 DEF LabelsInv
<1> QED
  BY <1>2, <1>3, <1>4, <1>5, <1>6, LayoutKeeps, LabelTickKeeps DEF LabelsNext

\* Once the reader and the timers are done, the names drawn are apart and each
\* name left out touches one of them (NamesSettleApart), whatever moved before,
\* in whatever order the names are tried.
THEOREM NamesComeToRest == LabelsSpec => []NamesSettleApart
<1>1. LabelsInv => NamesSettleApart
  <2> SUFFICES ASSUME LabelsInv, Settled PROVE NamesSettleApart
    BY DEF NamesSettleApart
  <2>1. settling = Never /\ ~frame /\ ~restless
    BY DEF Settled
  <2>2. CASE ~switched
    BY <2>1, <2>2 DEF LabelsInv, NodesFollow, NamesSettleApart
  <2>3. CASE switched
    <3>1. /\ DrawnApart /\ DrawnFull /\ bright \subseteq NamesDrawn
          /\ NamesDrawn \cap nodes \subseteq bright \cup anew
      BY <2>1, <2>3 DEF LabelsInv, NodesFollow, PassIsInStore
    <3>2. \A x, y \in Shown : x # y /\ Touch(x, y) => {x, y} \cap labels.selected # {}
      BY <3>1 DEF Shown, DrawnApart
    <3>3. \A x \in (nodes \cap OnScreen[camera]) \ (bright \cup anew) :
                   \E y \in bright \cup anew : Touch(x, y)
      BY <3>1 DEF DrawnFull
    <3> QED
      BY <2>3, <3>2, <3>3 DEF NamesSettleApart
  <2> QED
    BY <2>2, <2>3
<1> QED
  BY <1>1, LabelsBegin, LabelsSteps, PTL DEF LabelsSpec

------------------------------------------------------------------------------
(* The panels of a page and what they share (ResourceCache).                 *)

\* A Map names a URL once.
IsMap(es) == \A i, j \in DOMAIN es : es[i].url = es[j].url => i = j

Answer(e) == [of |-> e.url, version |-> e.version]

\* What the cache says of a URL at once.
IsSettledFor(e, u) == e.flight = 0 /\ e.url = u

Says(u, value) == \E e \in ToSet(entries) : IsSettledFor(e, u) /\ value = Answer(e)

\* An entry that waits, waits for a request of its URL; one that does not, has an
\* answer's version.
EntryIsSound(e) ==
    /\ e.flight # 0 => InFlight(e.flight) /\ flights[e.flight].url = e.url
    /\ e.flight = 0 => e.version \in Versions

\* While nothing is pushed out, whatever is in flight is waited for.
FlightsAreHeld ==
    HoldsEvery => \A q \in ReadIds : InFlight(q) => \E e \in ToSet(entries) : e.flight = q

\* A panel holds what was read for the URL it is held under, waits for a request of
\* that URL and, with its effect run and nothing awaited, holds what the cache does.
PanelIsSound(m) ==
    /\ m.held.value # Null => m.held.value.of = m.held.url
    /\ m.held.failed => m.held.value = Null
    /\ m.awaiting # 0 => InFlight(m.awaiting) /\ flights[m.awaiting].url = m.held.url
    /\ ~m.due => m.held.url = m.url
    /\ HoldsEvery /\ ~m.due /\ m.url # Null /\ m.awaiting = 0 /\ ~m.held.failed =>
          Says(m.url, m.held.value)

CacheInv ==
    /\ TypeOK
    /\ \A e \in ToSet(entries) : EntryIsSound(e)
    /\ FlightsAreHeld
    /\ \A p \in Panels : PanelIsSound(panel[p])

------------------------------------------------------------------------------
(* The cache is a Map.                                                       *)

LEMMA Constants ==
    /\ Capacities \subseteq Nat /\ 0 \notin Capacities
    /\ MaxVersion \in Nat /\ MaxReads \in Nat
    /\ Versions \subseteq Nat /\ 0 \in Versions /\ ReadIds \subseteq Nat /\ 0 \notin ReadIds
    /\ ReadIds \subseteq 0..MaxReads
    /\ Null \notin Urls /\ Null \notin Versions /\ Null \notin Value /\ Null \notin Flight
<1>1. MaxVersion \in Nat /\ MaxReads \in Nat
  BY ConstantsAssumption
<1> QED
  BY <1>1, ConstantsAssumption DEF Versions, ReadIds

\* A URL that is not in a Map comes last in it.
LEMMA AppendsToMap ==
    ASSUME NEW es \in Seq(Entry), IsMap(es), NEW e \in Entry, \A x \in ToSet(es) : x.url # e.url
    PROVE  /\ Append(es, e) \in Seq(Entry) /\ IsMap(Append(es, e))
           /\ Len(Append(es, e)) = Len(es) + 1 /\ ToSet(Append(es, e)) = ToSet(es) \cup {e}
<1> DEFINE as == Append(es, e)
<1>1. /\ as \in Seq(Entry) /\ Len(as) = Len(es) + 1 /\ Len(es) \in Nat
      /\ \A i \in 1..Len(es) : as[i] = es[i]
      /\ as[Len(es) + 1] = e
  OBVIOUS
<1>2. \A i \in 1..Len(es) : es[i] \in ToSet(es)
  BY DEF ToSet
<1> HIDE DEF as
<1>3. ToSet(as) = ToSet(es) \cup {e}
  <2>1. DOMAIN as = 1..Len(es) + 1 /\ DOMAIN es = 1..Len(es)
    BY <1>1
  <2>2. 1..Len(es) + 1 = (1..Len(es)) \cup {Len(es) + 1}
    BY <1>1
  <2> QED
    BY <1>1, <2>1, <2>2 DEF ToSet
<1>4. IsMap(as)
  <2>5. DOMAIN as = 1..Len(es) + 1 /\ DOMAIN es = 1..Len(es)
    BY <1>1
  <2> SUFFICES ASSUME NEW i \in 1..Len(es) + 1, NEW j \in 1..Len(es) + 1, as[i].url = as[j].url
               PROVE  i = j
    BY <2>5 DEF IsMap
  <2>1. CASE i \in 1..Len(es) /\ j \in 1..Len(es)
    BY <1>1, <2>1, <2>5 DEF IsMap
  <2>2. CASE i \in 1..Len(es) /\ j = Len(es) + 1
    BY <1>1, <1>2, <2>2
  <2>3. CASE i = Len(es) + 1 /\ j \in 1..Len(es)
    BY <1>1, <1>2, <2>3
  <2>4. CASE i = Len(es) + 1 /\ j = Len(es) + 1
    BY <2>4
  <2> QED
    BY <1>1, <2>1, <2>2, <2>3, <2>4
<1> QED
  BY <1>1, <1>3, <1>4 DEF as

\* What is left of the first n entries.
IsLeft(w, es, gone, n) ==
    /\ w \in Seq(Entry) /\ IsMap(w)
    /\ ToSet(w) = {es[i] : i \in 1..n} \ gone
    /\ Len(w) <= n
    /\ (\E i \in 1..n : es[i] \in gone) => Len(w) < n

\* Deleting leaves the others, each once.
LEMMA WithoutIs ==
    ASSUME NEW es \in Seq(Entry), IsMap(es), NEW gone
    PROVE  /\ Without(es, gone) \in Seq(Entry) /\ IsMap(Without(es, gone))
           /\ ToSet(Without(es, gone)) = ToSet(es) \ gone
           /\ Len(Without(es, gone)) <= Len(es)
           /\ (\E e \in ToSet(es) : e \in gone) => Len(Without(es, gone)) < Len(es)
<1> DEFINE N == Len(es)
           Goes(x, n) == IF es[n] \in gone THEN x ELSE Append(x, es[n])
           Equation(g) == g = [n \in 0..N |-> IF n = 0 THEN <<>>
                                              ELSE IF es[n] \in gone THEN g[n - 1] ELSE Append(g[n - 1], es[n])]
           kept == CHOOSE g : Equation(g)
<1>1. N \in Nat /\ DOMAIN es = 1..N /\ \A n \in 1..N : es[n] \in Entry
  OBVIOUS
<1>2. \E g : Equation(g)
  <2> DEFINE step == [n \in 1..N |-> [x \in Seq(Entry) |-> Goes(x, n)]]
  <2>1. step \in [1..N -> [Seq(Entry) -> Seq(Entry)]]
    BY <1>1
  <2>2. PICK h : IsListOf(h, Seq(Entry), <<>>, N, step)
    <3>1. N \in Nat /\ <<>> \in Seq(Entry)
      BY <1>1
    <3> HIDE DEF step, N
    <3> QED
      BY <2>1, <3>1, StepsExist
  <2> HIDE DEF step
  <2>3. h \in [0..N -> Seq(Entry)] /\ h[0] = <<>> /\ \A n \in 1..N : h[n] = step[n][h[n - 1]]
    BY <2>2 DEF IsListOf
  <2>4. \A n \in 1..N : h[n] = Goes(h[n - 1], n)
    <3> SUFFICES ASSUME NEW n \in 1..N
                 PROVE  h[n] = Goes(h[n - 1], n)
      OBVIOUS
    <3>1. n - 1 \in 0..N /\ h[n - 1] \in Seq(Entry)
      BY <1>1, <2>3
    <3>2. step[n] = [x \in Seq(Entry) |-> Goes(x, n)]
      BY DEF step
    <3> QED
      BY <2>3, <3>1, <3>2
  <2>5. ASSUME NEW n \in 0..N
        PROVE  h[n] = IF n = 0 THEN <<>> ELSE IF es[n] \in gone THEN h[n - 1] ELSE Append(h[n - 1], es[n])
    <3>1. CASE n = 0
      BY <2>3, <3>1
    <3>2. CASE n # 0
      <4>1. n \in 1..N
        BY <1>1, <3>2
      <4> QED
        BY <2>4, <3>2, <4>1
    <3> QED
      BY <3>1, <3>2
  <2>6. Equation(h)
    BY <2>3, <2>5
  <2> QED
    BY <2>6
<1>3. Equation(kept)
  BY <1>2
<1>4. /\ DOMAIN kept = 0..N /\ kept[0] = <<>>
      /\ \A n \in 1..N : kept[n] = IF es[n] \in gone THEN kept[n - 1] ELSE Append(kept[n - 1], es[n])
  <2> HIDE DEF kept
  <2>1. DOMAIN kept = 0..N
    BY <1>3
  <2>2. \A n \in 0..N : kept[n] = IF n = 0 THEN <<>>
                                 ELSE IF es[n] \in gone THEN kept[n - 1] ELSE Append(kept[n - 1], es[n])
    BY <1>3
  <2>3. 0 \in 0..N /\ \A n \in 1..N : n \in 0..N /\ n # 0
    BY <1>1
  <2> QED
    BY <2>1, <2>2, <2>3
<1>5. Without(es, gone) = kept[N]
  BY DEF Without
<1> HIDE DEF kept
<1> DEFINE G == {n \in 0..N : IsLeft(kept[n], es, gone, n)}
<1>6. 0 \in G
  <2>1. IsLeft(<<>>, es, gone, 0)
    BY DEF IsLeft, IsMap, ToSet
  <2> HIDE DEF kept
  <2> QED
    BY <1>1, <1>4, <2>1
<1>7. ASSUME NEW n \in 1..N, n - 1 \in G
      PROVE  n \in G
  <2>1. IsLeft(kept[n - 1], es, gone, n - 1) /\ n \in Nat /\ n - 1 \in Nat
    BY <1>1, <1>7
  <2>2. PICK w, x : w = kept[n - 1] /\ x = kept[n]
    OBVIOUS
  <2>3. x = IF es[n] \in gone THEN w ELSE Append(w, es[n])
    BY <1>4, <2>2
  <2>4. IsLeft(w, es, gone, n - 1)
    BY <2>1, <2>2
  <2>5. {es[i] : i \in 1..n} = {es[i] : i \in 1..(n - 1)} \cup {es[n]}
    <3>1. 1..n = 1..(n - 1) \cup {n}
      BY <2>1
    <3> QED
      BY <3>1
  <2>6. w \in Seq(Entry) /\ Len(w) \in Nat
    BY <2>4 DEF IsLeft
  <2>7. IsLeft(x, es, gone, n)
    <3>1. CASE es[n] \in gone
      <4>1. x = w /\ ToSet(w) = {es[i] : i \in 1..n} \ gone
        BY <2>3, <2>4, <2>5, <3>1 DEF IsLeft
      <4>2. Len(w) < n
        BY <2>1, <2>4, <2>6 DEF IsLeft
      <4> QED
        BY <2>4, <4>1, <4>2 DEF IsLeft
    <3>2. CASE es[n] \notin gone
      <4>1. x = Append(w, es[n])
        BY <2>3, <3>2
      <4>2. es[n] \in Entry
        BY <1>1
      <4>3. ASSUME NEW e \in ToSet(w), e.url = es[n].url
            PROVE  FALSE
        <5>1. PICK i \in 1..(n - 1) : e = es[i]
          BY <2>4 DEF IsLeft
        <5>2. i \in 1..N /\ i # n
          BY <1>1, <2>1
        <5> QED
          BY <1>1, <4>3, <5>1, <5>2 DEF IsMap
      <4>4. /\ x \in Seq(Entry) /\ IsMap(x)
            /\ Len(x) = Len(w) + 1 /\ ToSet(x) = ToSet(w) \cup {es[n]}
        BY <2>4, <4>1, <4>2, <4>3, AppendsToMap DEF IsLeft
      <4>5. ToSet(x) = {es[i] : i \in 1..n} \ gone
        BY <2>4, <2>5, <3>2, <4>4 DEF IsLeft
      <4>6. Len(x) <= n
        BY <2>1, <2>4, <2>6, <4>4 DEF IsLeft
      <4>7. (\E i \in 1..n : es[i] \in gone) => Len(x) < n
        <5>1. (\E i \in 1..n : es[i] \in gone) => \E i \in 1..(n - 1) : es[i] \in gone
          BY <2>1, <3>2
        <5>2. (\E i \in 1..(n - 1) : es[i] \in gone) => Len(w) < n - 1
          BY <2>4 DEF IsLeft
        <5> QED
          BY <2>1, <2>6, <4>4, <5>1, <5>2
      <4> QED
        BY <4>4, <4>5, <4>6, <4>7 DEF IsLeft
    <3> QED
      BY <3>1, <3>2
  <2> HIDE DEF kept
  <2> QED
    BY <2>2, <2>7
<1>8. 0..N \subseteq G
  <2> HIDE DEF G
  <2> QED
    BY <1>1, <1>6, <1>7, StepByStep
<1>9. IsLeft(Without(es, gone), es, gone, N)
  BY <1>1, <1>5, <1>8
<1>10. ToSet(es) = {es[i] : i \in 1..N}
  BY <1>1 DEF ToSet
<1> QED
  BY <1>9, <1>10 DEF IsLeft

\* Nothing goes while there is room, and otherwise the oldest entry.
LEMMA TrimIs ==
    ASSUME capacity \in Nat, NEW es \in Seq(Entry), IsMap(es), Len(es) <= capacity + 1
    PROVE  /\ Trim(es) \in Seq(Entry) /\ IsMap(Trim(es)) /\ Len(Trim(es)) <= capacity
           /\ ToSet(Trim(es)) \subseteq ToSet(es)
           /\ Len(es) <= capacity => Trim(es) = es
           /\ \A i \in 2..Len(es) : es[i] \in ToSet(Trim(es))
<1>1. CASE Len(es) <= capacity
  <2>1. Trim(es) = es
    BY <1>1 DEF Trim
  <2> QED
    BY <1>1, <2>1 DEF ToSet
<1>2. CASE Len(es) = capacity + 1
  <2> DEFINE ts == SubSeq(es, 2, Len(es))
  <2>1. Trim(es) = ts
    <3>1. ~(Len(es) <= capacity) /\ Len(es) - capacity + 1 = 2
      BY <1>2
    <3> QED
      BY <3>1 DEF Trim
  <2>2. /\ ts \in Seq(Entry) /\ Len(ts) = capacity
        /\ \A i \in 1..capacity : ts[i] = es[i + 1]
    BY <1>2
  <2> HIDE DEF ts
  <2>3. DOMAIN ts = 1..capacity /\ DOMAIN es = 1..capacity + 1
    BY <1>2, <2>2
  <2>4. IsMap(ts)
    <3> SUFFICES ASSUME NEW i \in 1..capacity, NEW j \in 1..capacity, ts[i].url = ts[j].url
                 PROVE  i = j
      BY <2>3 DEF IsMap
    <3>1. i + 1 \in DOMAIN es /\ j + 1 \in DOMAIN es /\ es[i + 1].url = es[j + 1].url
      BY <2>2, <2>3
    <3>2. i + 1 = j + 1
      BY <3>1 DEF IsMap
    <3> QED
      BY <3>2
  <2>5. ToSet(ts) \subseteq ToSet(es)
    BY <2>2, <2>3 DEF ToSet
  <2>6. ASSUME NEW i \in 2..Len(es)
        PROVE  es[i] \in ToSet(ts)
    <3>1. i - 1 \in 1..capacity /\ ts[i - 1] = es[(i - 1) + 1] /\ (i - 1) + 1 = i
      BY <1>2, <2>2
    <3> QED
      BY <2>3, <3>1 DEF ToSet
  <2> QED
    BY <1>2, <2>1, <2>2, <2>4, <2>5, <2>6
<1> QED
  BY <1>1, <1>2

\* A Map of all URLs is no longer than there are.
LEMMA MapIsSmall ==
    ASSUME NEW es \in Seq(Entry), IsMap(es)
    PROVE  Cardinality(Urls) \in Nat /\ Len(es) <= Cardinality(Urls)
<1> DEFINE url == [i \in 1..Len(es) |-> es[i].url]
<1>1. Len(es) \in Nat /\ DOMAIN es = 1..Len(es) /\ \A i \in 1..Len(es) : es[i].url \in Urls
  <2>1. Len(es) \in Nat /\ DOMAIN es = 1..Len(es) /\ \A i \in 1..Len(es) : es[i] \in Entry
    OBVIOUS
  <2>2. \A e \in Entry : e.url \in Urls
    BY DEF Entry
  <2> QED
    BY <2>1, <2>2
<1>2. url \in Injection(1..Len(es), Urls)
  <2>1. url \in [1..Len(es) -> Urls]
    BY <1>1
  <2>2. \A i, j \in 1..Len(es) : url[i] = url[j] => i = j
    BY <1>1 DEF IsMap
  <2> HIDE DEF url
  <2> QED
    BY <2>1, <2>2 DEF Injection, IsInjective
<1>3. Cardinality(1..Len(es)) <= Cardinality(Urls)
  <2> HIDE DEF url
  <2> QED
    BY <1>2, ConstantsAssumption, FS_Injection
<1> QED
  BY <1>1, <1>3, ConstantsAssumption, FS_Interval, FS_CardinalityType

------------------------------------------------------------------------------
(* The invariant.                                                            *)

LEMMA UnusedIs == Unused \in Panel /\ PanelIsSound(Unused)
<1>1. NothingHeld \in [url : Urls \cup {Null}, value : Value \cup {Null}, failed : BOOLEAN]
  BY DEF NothingHeld
<1>2. 0 \in 0..MaxReads
  BY Constants
<1>3. Unused \in Panel
  BY <1>1, <1>2 DEF Unused, Panel
<1> QED
  BY <1>3 DEF PanelIsSound, Unused, NothingHeld

LEMMA CacheStarts == Init => CacheInv
<1> SUFFICES ASSUME Init PROVE CacheInv
  OBVIOUS
<1>1. /\ server = 0 /\ flights = [q \in ReadIds |-> Null] /\ capacity \in Capacities
      /\ entries = <<>> /\ highest = 0 /\ panel = [p \in Panels |-> Unused]
  BY DEF Init
<1>2. TypeOK
  <2>1. Unused \in Panel
    BY UnusedIs
  <2>2. entries \in Seq(Entry) /\ Len(entries) = 0 /\ DOMAIN entries = {}
    BY <1>1
  <2>3. capacity \in Nat /\ 0 \in Versions
    BY <1>1, Constants
  <2> QED
    BY <1>1, <2>1, <2>2, <2>3 DEF TypeOK
<1>3. ToSet(entries) = {}
  BY <1>1 DEF ToSet
<1>4. FlightsAreHeld
  BY <1>1 DEF FlightsAreHeld, InFlight
<1>5. PanelIsSound(Unused)
  BY UnusedIs
<1> QED
  BY <1>1, <1>2, <1>3, <1>4, <1>5 DEF CacheInv

LEMMA EntryStands ==
    ASSUME NEW e, EntryIsSound(e),
           e.flight # 0 => InFlight(e.flight)' /\ flights'[e.flight].url = flights[e.flight].url
    PROVE  EntryIsSound(e)'
BY DEF EntryIsSound

\* A panel stays sound while its request is under way and the cache keeps what it
\* says of the panel's URL.
LEMMA PanelStands ==
    ASSUME NEW m, PanelIsSound(m), capacity' = capacity,
           m.awaiting # 0 => InFlight(m.awaiting)' /\ flights'[m.awaiting].url = flights[m.awaiting].url,
           HoldsEvery /\ ~m.due =>
              \A e \in ToSet(entries) : IsSettledFor(e, m.url) => e \in ToSet(entries')
    PROVE  PanelIsSound(m)'
<1>1. HoldsEvery' <=> HoldsEvery
  BY DEF HoldsEvery
<1>2. HoldsEvery /\ ~m.due /\ Says(m.url, m.held.value) => Says(m.url, m.held.value)'
  BY DEF Says, IsSettledFor, Answer
<1> QED
  BY <1>1, <1>2 DEF PanelIsSound

\* A step of one panel, by itself.
LEMMA PanelMoves ==
    ASSUME CacheInv, UNCHANGED <<server, flights, capacity, entries, highest>>,
           NEW p \in Panels, NEW m \in Panel, panel' = [panel EXCEPT ![p] = m], PanelIsSound(m)
    PROVE  CacheInv'
<1>1. TypeOK /\ panel \in [Panels -> Panel]
  BY DEF CacheInv, TypeOK
<1>2. panel' \in [Panels -> Panel] /\ \A r \in Panels : panel'[r] = IF r = p THEN m ELSE panel[r]
  BY <1>1
<1>3. TypeOK'
  BY <1>1, <1>2 DEF TypeOK
<1>4. \A e \in ToSet(entries)' : EntryIsSound(e)'
  BY DEF CacheInv, EntryIsSound, InFlight
<1>5. FlightsAreHeld'
  BY DEF CacheInv, FlightsAreHeld, HoldsEvery, InFlight
<1>6. ASSUME NEW r \in Panels
      PROVE  PanelIsSound(panel[r])'
  <2>1. PanelIsSound(panel'[r])
    BY <1>2 DEF CacheInv
  <2> QED
    BY <2>1 DEF PanelIsSound, InFlight, HoldsEvery, Says
<1> QED
  BY <1>3, <1>4, <1>5, <1>6 DEF CacheInv

LEMMA LoadKeeps == ASSUME CacheInv, Load PROVE CacheInv'
<1>1. server' = server + 1 /\ server < MaxVersion /\ UNCHANGED <<flights, capacity, entries, highest, panel>>
  BY DEF Load
<1>2. TypeOK
  BY DEF CacheInv
<1>3. server' \in Versions /\ highest \in 0..server'
  <2>1. server \in Versions /\ highest \in 0..server
    BY <1>2 DEF TypeOK
  <2> QED
    BY <1>1, <2>1, Constants DEF Versions
<1>4. TypeOK'
  BY <1>1, <1>2, <1>3 DEF TypeOK
<1>5. \A e \in ToSet(entries)' : EntryIsSound(e)'
  BY <1>1 DEF CacheInv, EntryIsSound, InFlight
<1>6. FlightsAreHeld'
  BY <1>1 DEF CacheInv, FlightsAreHeld, HoldsEvery, InFlight
<1>7. \A p \in Panels : PanelIsSound(panel[p])'
  BY <1>1 DEF CacheInv, PanelIsSound, InFlight, HoldsEvery, Says
<1> QED
  BY <1>4, <1>5, <1>6, <1>7 DEF CacheInv

\* What peek says: the settled entry of the URL, of which there is one.
LEMMA PeekIs ==
    ASSUME TypeOK, NEW u
    PROVE  /\ \A e \in ToSet(entries) : IsSettledFor(e, u) => Peek(u) = Answer(e)
           /\ Peek(u) # Null => \E e \in ToSet(entries) : IsSettledFor(e, u) /\ Peek(u) = Answer(e)
<1>1. \A e, x \in ToSet(entries) : e.url = x.url => e = x
  BY DEF TypeOK, ToSet
<1>2. ASSUME NEW e \in ToSet(entries), IsSettledFor(e, u)
      PROVE  Peek(u) = Answer(e)
  <2>1. e \in EntryOf(u) /\ \A x \in EntryOf(u) : x = e
    BY <1>1, <1>2 DEF EntryOf, IsSettledFor
  <2>2. (CHOOSE x \in EntryOf(u) : TRUE) = e
    BY <2>1
  <2>3. e.flight = 0 /\ e.url = u
    BY <1>2 DEF IsSettledFor
  <2> QED
    BY <2>1, <2>2, <2>3 DEF Peek, Answer
<1>3. ASSUME Peek(u) # Null
      PROVE  \E e \in ToSet(entries) : IsSettledFor(e, u)
  <2>1. PICK e \in EntryOf(u) : e.flight = 0
    BY <1>3 DEF Peek
  <2> QED
    BY <2>1 DEF EntryOf, IsSettledFor
<1> QED
  BY <1>2, <1>3

LEMMA PeekIsValue ==
    ASSUME CacheInv, NEW u \in Urls
    PROVE  Peek(u) \in Value \cup {Null} /\ (Peek(u) # Null => Peek(u).of = u)
<1>1. TypeOK /\ \A e \in ToSet(entries) : EntryIsSound(e)
  BY DEF CacheInv
<1>2. CASE Peek(u) # Null
  <2>1. PICK e \in ToSet(entries) : IsSettledFor(e, u) /\ Peek(u) = Answer(e)
    BY <1>1, <1>2, PeekIs
  <2>2. e.url = u /\ e.version \in Versions
    BY <1>1, <2>1 DEF EntryIsSound, IsSettledFor
  <2> QED
    BY <2>1, <2>2 DEF Answer, Value
<1> QED
  BY <1>2

LEMMA MountKeeps == ASSUME CacheInv, NEW p \in Panels, NEW u \in Urls, Mount(p, u) PROVE CacheInv'
<1> DEFINE held == [url |-> u, value |-> Peek(u), failed |-> FALSE]
           m == [url |-> u, due |-> TRUE, awaiting |-> 0, held |-> held]
<1>1. UNCHANGED <<server, flights, capacity, entries, highest>> /\ panel' = [panel EXCEPT ![p] = m]
  BY DEF Mount
<1>2. Peek(u) \in Value \cup {Null} /\ (Peek(u) # Null => Peek(u).of = u)
  BY PeekIsValue
<1>3. m \in Panel
  <2>1. held \in [url : Urls \cup {Null}, value : Value \cup {Null}, failed : BOOLEAN]
    BY <1>2
  <2> HIDE DEF held
  <2> QED
    BY <2>1, Constants DEF Panel
<1>4. PanelIsSound(m)
  BY <1>2 DEF PanelIsSound
<1> HIDE DEF m
<1> QED
  BY <1>1, <1>3, <1>4, PanelMoves

LEMMA NavigateKeeps == ASSUME CacheInv, NEW p \in Panels, NEW u \in Urls \cup {Null}, Navigate(p, u) PROVE CacheInv'
<1> DEFINE was == panel[p]
           m == [url |-> u, due |-> TRUE, awaiting |-> was.awaiting, held |-> was.held]
<1>1. was \in Panel /\ PanelIsSound(was)
  BY DEF CacheInv, TypeOK
<1>2. UNCHANGED <<server, flights, capacity, entries, highest>> /\ panel' = [panel EXCEPT ![p] = m]
  BY DEF Navigate
<1>3. m \in Panel
  BY <1>1 DEF Panel
<1>4. PanelIsSound(m)
  BY <1>1 DEF PanelIsSound
<1> HIDE DEF m
<1> QED
  BY <1>2, <1>3, <1>4, PanelMoves

LEMMA ResetKeeps ==
    ASSUME CacheInv, NEW p \in Panels, UnmountPanel(p) \/ EffectOfNothing(p)
    PROVE  CacheInv'
<1>1. UNCHANGED <<server, flights, capacity, entries, highest>> /\ panel' = [panel EXCEPT ![p] = Unused]
  BY DEF UnmountPanel, EffectOfNothing
<1>2. Unused \in Panel /\ PanelIsSound(Unused)
  BY UnusedIs
<1> QED
  BY <1>1, <1>2, PanelMoves

LEMMA EntriesAre ==
    ASSUME TypeOK
    PROVE  /\ entries \in Seq(Entry) /\ IsMap(entries) /\ Len(entries) <= capacity
           /\ capacity \in Nat /\ capacity # 0
           /\ \A e \in ToSet(entries) : e \in Entry
           /\ \A e, x \in ToSet(entries) : e.url = x.url => e = x
<1>1. entries \in Seq(Entry) /\ IsMap(entries) /\ Len(entries) <= capacity /\ capacity \in Capacities
  BY DEF TypeOK, IsMap
<1>2. \A e \in ToSet(entries) : e \in Entry
  BY <1>1 DEF ToSet
<1>3. \A e, x \in ToSet(entries) : e.url = x.url => e = x
  BY <1>1 DEF ToSet, IsMap
<1> QED
  BY <1>1, <1>2, <1>3, Constants

\* What a panel holds while it waits is what its URL said before.
LEMMA MeanwhileIs ==
    ASSUME CacheInv, NEW p \in Panels
    PROVE  /\ Meanwhile(p) \in Value \cup {Null}
           /\ Meanwhile(p) # Null => Meanwhile(p).of = panel[p].url
<1>1. panel[p] \in Panel /\ PanelIsSound(panel[p])
  BY DEF CacheInv, TypeOK
<1>2. panel[p].held.value \in Value \cup {Null}
  BY <1>1 DEF Panel
<1> QED
  BY <1>1, <1>2 DEF Meanwhile, PanelIsSound

LEMMA EffectSharesKeeps == ASSUME CacheInv, NEW p \in Panels, EffectShares(p) PROVE CacheInv'
<1>0. PICK u : u = panel[p].url
  OBVIOUS
<1>1. PICK e \in ToSet(entries) :
         /\ e.url = u
         /\ entries' = Append(Without(entries, {e}), e)
         /\ Reading(p, e.flight,
                    IF e.flight = 0 THEN [of |-> e.url, version |-> e.version] ELSE Meanwhile(p))
  BY <1>0 DEF EffectShares, Shared, Except
<1>2. PICK value : value = IF e.flight = 0 THEN Answer(e) ELSE Meanwhile(p)
  OBVIOUS
<1> DEFINE held == [url |-> u, value |-> value, failed |-> FALSE]
           m == [url |-> u, due |-> FALSE, awaiting |-> e.flight, held |-> held]
<1>3. /\ UNCHANGED <<server, flights, capacity, highest>>
      /\ panel' = [panel EXCEPT ![p] = m]
  <2>1. UNCHANGED <<server, flights, capacity, highest>>
    BY DEF EffectShares
  <2> QED
    BY <1>0, <1>1, <1>2, <2>1 DEF Reading, Answer
<1>4. TypeOK
  BY DEF CacheInv
<1>5. /\ entries' \in Seq(Entry) /\ IsMap(entries') /\ Len(entries') <= capacity
      /\ ToSet(entries') = ToSet(entries)
  <2>1. PICK w : w = Without(entries, {e})
    OBVIOUS
  <2>2. /\ w \in Seq(Entry) /\ IsMap(w) /\ ToSet(w) = ToSet(entries) \ {e} /\ Len(w) < Len(entries)
    BY <1>4, <2>1, EntriesAre, WithoutIs
  <2>3. \A x \in ToSet(w) : x.url # e.url
    BY <1>4, <2>2, EntriesAre
  <2>4. e \in Entry
    BY <1>4, EntriesAre
  <2>5. /\ Append(w, e) \in Seq(Entry) /\ IsMap(Append(w, e))
        /\ Len(Append(w, e)) = Len(w) + 1 /\ ToSet(Append(w, e)) = ToSet(w) \cup {e}
    BY <2>2, <2>3, <2>4, AppendsToMap
  <2>6. Len(w) + 1 <= Len(entries) /\ Len(entries) <= capacity /\ Len(w) \in Nat /\ Len(entries) \in Nat /\ capacity \in Nat
    BY <1>4, <2>2, EntriesAre
  <2>7. Len(w) + 1 <= capacity
    BY <2>6
  <2>8. entries' = Append(w, e)
    BY <1>1, <2>1
  <2> QED
    BY <2>2, <2>5, <2>7, <2>8
<1>6. EntryIsSound(e) /\ e \in Entry
  BY <1>4, EntriesAre DEF CacheInv
<1>7. m \in Panel
  <2>1. e.flight \in 0..MaxReads /\ u \in Urls
    BY <1>1, <1>6 DEF Entry
  <2>2. value \in Value \cup {Null}
    BY <1>0, <1>1, <1>2, <1>6, <2>1, MeanwhileIs DEF EntryIsSound, Answer, Value
  <2>3. held \in [url : Urls \cup {Null}, value : Value \cup {Null}, failed : BOOLEAN]
    BY <2>1, <2>2
  <2> HIDE DEF held
  <2> QED
    BY <2>1, <2>3 DEF Panel
<1>8. PanelIsSound(m)'
  <2>1. value # Null => value.of = u
    BY <1>0, <1>1, <1>2, MeanwhileIs DEF Answer
  <2>2. e.flight # 0 => InFlight(e.flight)' /\ flights'[e.flight].url = u
    BY <1>1, <1>3, <1>6 DEF EntryIsSound, InFlight
  <2>3. e.flight = 0 => Says(u, value)'
    BY <1>1, <1>2, <1>5 DEF Says, IsSettledFor
  <2> QED
    BY <2>1, <2>2, <2>3 DEF PanelIsSound
<1> HIDE DEF m
<1>9. panel' \in [Panels -> Panel] /\ \A r \in Panels : panel'[r] = IF r = p THEN m ELSE panel[r]
  BY <1>3, <1>4, <1>7 DEF TypeOK
<1>10. TypeOK'
  BY <1>3, <1>4, <1>5, <1>9 DEF TypeOK, IsMap
<1>11. \A x \in ToSet(entries') : EntryIsSound(x)'
  BY <1>3, <1>5 DEF CacheInv, EntryIsSound, InFlight
<1>12. FlightsAreHeld'
  BY <1>3, <1>5 DEF CacheInv, FlightsAreHeld, HoldsEvery, InFlight
<1>13. ASSUME NEW r \in Panels
       PROVE  PanelIsSound(panel[r])'
  <2>1. CASE r = p
    BY <1>8, <1>9, <2>1
  <2>2. CASE r # p
    <3>1. PICK x : x = panel[r]
      OBVIOUS
    <3>2. PanelIsSound(x)
      BY <3>1 DEF CacheInv
    <3>3. PanelIsSound(x)'
      BY <1>3, <1>5, <3>2, PanelStands DEF PanelIsSound, InFlight
    <3> QED
      BY <1>9, <2>2, <3>1, <3>3
  <2> QED
    BY <2>1, <2>2
<1> QED
  BY <1>10, <1>11, <1>12, <1>13 DEF CacheInv

LEMMA EffectAsksKeeps == ASSUME CacheInv, NEW p \in Panels, EffectAsks(p) PROVE CacheInv'
<1>0. PICK u, value, was : u = panel[p].url /\ value = Meanwhile(p) /\ was = server
  OBVIOUS
<1>1. u # Null /\ \A e \in ToSet(entries) : e.url # u
  BY <1>0 DEF EffectAsks, Shared
<1>2. PICK q \in ReadIds :
         /\ ~InFlight(q)
         /\ flights' = [flights EXCEPT ![q] = [url |-> u, asked |-> "first", since |-> was]]
         /\ entries' = Trim(Append(entries, [url |-> u, flight |-> q, version |-> Null]))
         /\ Reading(p, q, value)
  BY <1>0 DEF EffectAsks
<1> DEFINE new == [url |-> u, flight |-> q, version |-> Null]
           flight == [url |-> u, asked |-> "first", since |-> was]
           held == [url |-> u, value |-> value, failed |-> FALSE]
           m == [url |-> u, due |-> FALSE, awaiting |-> q, held |-> held]
           es == Append(entries, new)
<1>3. /\ UNCHANGED <<server, capacity, highest>>
      /\ panel' = [panel EXCEPT ![p] = m]
  BY <1>0, <1>2 DEF EffectAsks, Reading
<1>4. TypeOK
  BY DEF CacheInv
<1>5. u \in Urls /\ was \in Versions /\ flights \in [ReadIds -> Flight \cup {Null}] /\ q # 0 /\ q \in 0..MaxReads
  <2>1. panel[p] \in Panel
    BY <1>4 DEF TypeOK
  <2> QED
    BY <1>0, <1>1, <1>4, <2>1, Constants DEF TypeOK, Panel
<1>6. new \in Entry /\ flight \in Flight /\ flight # Null
  <2>1. new \in Entry
    BY <1>5 DEF Entry
  <2>2. flight \in Flight
    BY <1>5 DEF Flight
  <2> HIDE DEF new, flight
  <2> QED
    BY <2>1, <2>2, Constants
<1>7. /\ flights' \in [ReadIds -> Flight \cup {Null}] /\ flights'[q] = flight
      /\ \A f \in ReadIds : f # q => flights'[f] = flights[f]
  <2> HIDE DEF flight
  <2> QED
    BY <1>2, <1>5, <1>6 DEF flight
<1>8. new.url = u /\ new.flight = q /\ flight.url = u
  OBVIOUS
<1> HIDE DEF new, flight
<1>9. /\ es \in Seq(Entry) /\ IsMap(es) /\ Len(es) = Len(entries) + 1
      /\ ToSet(es) = ToSet(entries) \cup {new}
  BY <1>1, <1>4, <1>6, <1>8, EntriesAre, AppendsToMap
<1>10. entries' = Trim(es)
  BY <1>2 DEF new
<1> HIDE DEF es
<1>11. /\ entries' \in Seq(Entry) /\ IsMap(entries') /\ Len(entries') <= capacity
       /\ ToSet(entries') \subseteq ToSet(es)
       /\ Len(es) <= capacity => entries' = es
  <2>1. capacity \in Nat /\ Len(entries) <= capacity /\ Len(entries) \in Nat
    BY <1>4, EntriesAre
  <2>2. Len(es) <= capacity + 1
    BY <1>9, <2>1
  <2> QED
    BY <1>9, <1>10, <2>1, <2>2, TrimIs
<1>12. HoldsEvery => entries' = es
  <2>1. Cardinality(Urls) \in Nat /\ Len(es) <= Cardinality(Urls)
    BY <1>9, MapIsSmall
  <2>2. capacity \in Nat /\ Len(es) \in Nat
    BY <1>4, <1>9, EntriesAre
  <2> QED
    BY <1>11, <2>1, <2>2 DEF HoldsEvery
<1>13. \A f \in ReadIds : InFlight(f) => InFlight(f)' /\ flights'[f] = flights[f]
  BY <1>2, <1>7 DEF InFlight
<1>14. InFlight(q)' /\ flights'[q].url = u
  BY <1>6, <1>7, <1>8 DEF InFlight
<1>15. m \in Panel
  <2>1. held \in [url : Urls \cup {Null}, value : Value \cup {Null}, failed : BOOLEAN]
    BY <1>0, <1>5, MeanwhileIs
  <2> HIDE DEF held
  <2> QED
    BY <1>5, <2>1 DEF Panel
<1>16. PanelIsSound(m)'
  <2>1. value # Null => value.of = u
    BY <1>0, MeanwhileIs
  <2> QED
    BY <1>5, <1>14, <2>1 DEF PanelIsSound
<1> HIDE DEF m
<1>17. panel' \in [Panels -> Panel] /\ \A r \in Panels : panel'[r] = IF r = p THEN m ELSE panel[r]
  BY <1>3, <1>4, <1>15 DEF TypeOK
<1>18. TypeOK'
  BY <1>3, <1>4, <1>7, <1>11, <1>17 DEF TypeOK, IsMap
<1>19. ASSUME NEW x \in ToSet(entries')
       PROVE  EntryIsSound(x)'
  <2>1. CASE x = new
    BY <1>5, <1>8, <1>14, <2>1 DEF EntryIsSound
  <2>2. CASE x # new
    <3>1. x \in ToSet(entries) /\ x \in Entry /\ EntryIsSound(x)
      BY <1>4, <1>9, <1>11, <2>2, EntriesAre DEF CacheInv
    <3>2. x.flight # 0 => x.flight \in ReadIds
      BY <3>1, Constants DEF Entry, ReadIds
    <3> QED
      BY <1>13, <3>1, <3>2 DEF EntryIsSound
  <2> QED
    BY <2>1, <2>2
<1>20. FlightsAreHeld'
  <2> SUFFICES ASSUME HoldsEvery, NEW f \in ReadIds, InFlight(f)'
               PROVE  \E e \in ToSet(entries') : e.flight = f
    BY <1>3 DEF FlightsAreHeld, HoldsEvery
  <2>1. ToSet(entries') = ToSet(entries) \cup {new}
    BY <1>9, <1>12
  <2>2. CASE f = q
    BY <1>8, <2>1, <2>2
  <2>3. CASE f # q
    <3>1. InFlight(f)
      BY <1>7, <2>3 DEF InFlight
    <3> QED
      BY <2>1, <3>1 DEF CacheInv, FlightsAreHeld
  <2> QED
    BY <2>2, <2>3
<1>21. ASSUME NEW r \in Panels
       PROVE  PanelIsSound(panel[r])'
  <2>1. CASE r = p
    BY <1>16, <1>17, <2>1
  <2>2. CASE r # p
    <3>1. PICK x : x = panel[r]
      OBVIOUS
    <3>2. PanelIsSound(x) /\ x \in Panel
      BY <1>4, <3>1 DEF CacheInv, TypeOK
    <3>3. x.awaiting # 0 => x.awaiting \in ReadIds
      BY <3>2, Constants DEF Panel, ReadIds
    <3>4. x.awaiting # 0 => InFlight(x.awaiting)' /\ flights'[x.awaiting].url = flights[x.awaiting].url
      BY <1>13, <3>2, <3>3 DEF PanelIsSound
    <3>5. PanelIsSound(x)'
      BY <1>3, <1>9, <1>12, <3>2, <3>4, PanelStands
    <3> QED
      BY <1>17, <2>2, <3>1, <3>5
  <2> QED
    BY <2>1, <2>2
<1> QED
  BY <1>18, <1>19, <1>20, <1>21 DEF CacheInv

\* What a panel is left with when a request is over.
LEMMA DeliveredIs ==
    ASSUME CacheInv, NEW p \in Panels, NEW q \in ReadIds, InFlight(q), NEW value \in Value \cup {Null},
           NEW v, v = IF value = Null THEN 0 ELSE value.version,
           NEW m, m = Delivered(p, q, value)
    PROVE  /\ m \in Panel
           /\ m.url = panel[p].url
           /\ ~m.due => ~panel[p].due /\ (v > highest => m.url = Null)
           /\ panel[p].due => m.due
           /\ panel[p].awaiting = q =>
                 /\ m.awaiting = 0
                 /\ m.held = [url |-> flights[q].url, value |-> value, failed |-> value = Null]
           /\ panel[p].awaiting # q => m.awaiting = panel[p].awaiting /\ m.held = panel[p].held
<1>1. PICK was : was = panel[p]
  OBVIOUS
<1>2. PICK raised : raised = (v > highest /\ was.url # Null)
  OBVIOUS
<1>3. was \in Panel /\ flights[q] \in Flight
  BY <1>1 DEF CacheInv, TypeOK, InFlight
<1>4. PICK told : told = [was EXCEPT !.due = was.due \/ raised]
  OBVIOUS
<1>5. told = Told(p, v)
  BY <1>1, <1>2, <1>4 DEF Told
<1>6. /\ told.url = was.url /\ told.awaiting = was.awaiting /\ told.held = was.held
      /\ told.due = (was.due \/ raised)
  BY <1>3, <1>4 DEF Panel
<1>7. told \in Panel
  <2>1. (was.due \/ raised) \in BOOLEAN
    BY <1>2, <1>3 DEF Panel
  <2> QED
    BY <1>3, <1>4, <2>1 DEF Panel
<1>8. CASE was.awaiting = q
  <2> DEFINE held == [url |-> flights[q].url, value |-> value, failed |-> value = Null]
  <2>1. m = [url |-> told.url, due |-> told.due, awaiting |-> 0, held |-> held]
    BY <1>1, <1>5, <1>8 DEF Delivered
  <2>2. held \in [url : Urls \cup {Null}, value : Value \cup {Null}, failed : BOOLEAN]
    BY <1>3 DEF Flight
  <2> HIDE DEF held
  <2>3. 0 \in 0..MaxReads
    BY Constants
  <2>4. m \in Panel
    BY <1>7, <2>1, <2>2, <2>3 DEF Panel
  <2>5. m.url = was.url /\ m.awaiting = 0 /\ m.held = held /\ m.due = (was.due \/ raised)
    BY <1>6, <2>1
  <2> QED
    BY <1>1, <1>2, <1>8, <2>4, <2>5 DEF held
<1>9. CASE was.awaiting # q
  <2>1. m = told
    BY <1>1, <1>5, <1>9 DEF Delivered
  <2> QED
    BY <1>1, <1>2, <1>6, <1>7, <1>9, <2>1
<1> QED
  BY <1>8, <1>9

SettledEntry(e, v) == [url |-> e.url, flight |-> 0, version |-> v]

LEMMA SettledOnIs ==
    ASSUME TypeOK, NEW q \in ReadIds, NEW v \in Versions
    PROVE  /\ SettledOn(q, v) \in Seq(Entry) /\ IsMap(SettledOn(q, v))
           /\ Len(SettledOn(q, v)) = Len(entries)
           /\ \A x \in ToSet(SettledOn(q, v)) : \E e \in ToSet(entries) :
                 IF e.flight = q THEN x = SettledEntry(e, v) ELSE x = e
           /\ \A e \in ToSet(entries) :
                 (IF e.flight = q THEN SettledEntry(e, v) ELSE e) \in ToSet(SettledOn(q, v))
<1>1. entries \in Seq(Entry) /\ IsMap(entries)
  BY EntriesAre
<1> DEFINE N == Len(entries)
           es == [i \in 1..N |-> IF entries[i].flight = q THEN SettledEntry(entries[i], v) ELSE entries[i]]
<1>2. N \in Nat /\ DOMAIN entries = 1..N /\ \A i \in 1..N : entries[i] \in Entry
  BY <1>1
<1>3. SettledOn(q, v) = es
  BY <1>2 DEF SettledOn, SettledEntry
<1>4. \A e \in Entry : SettledEntry(e, v) \in Entry /\ SettledEntry(e, v).url = e.url
  <2> SUFFICES ASSUME NEW e \in Entry PROVE SettledEntry(e, v) \in Entry /\ SettledEntry(e, v).url = e.url
    OBVIOUS
  <2>1. e.url \in Urls /\ 0 \in 0..MaxReads
    BY Constants DEF Entry
  <2> QED
    BY <2>1 DEF Entry, SettledEntry
<1>5. es \in Seq(Entry) /\ Len(es) = N /\ DOMAIN es = 1..N
  <2>1. \A i \in 1..N : es[i] \in Entry
    BY <1>2, <1>4
  <2>2. es = [i \in 1..N |-> es[i]]
    OBVIOUS
  <2>3. DOMAIN es = 1..N
    OBVIOUS
  <2> HIDE DEF es
  <2>4. es \in [1..N -> Entry]
    BY <2>1, <2>2
  <2> QED
    BY <1>2, <2>4
<1>6. \A i \in 1..N : es[i] = IF entries[i].flight = q THEN SettledEntry(entries[i], v) ELSE entries[i]
  OBVIOUS
<1> HIDE DEF es
<1>7. \A i \in 1..N : es[i].url = entries[i].url
  BY <1>2, <1>4, <1>6
<1>8. IsMap(es)
  BY <1>1, <1>2, <1>5, <1>7 DEF IsMap
<1>9. ASSUME NEW x \in ToSet(es)
      PROVE  \E e \in ToSet(entries) : IF e.flight = q THEN x = SettledEntry(e, v) ELSE x = e
  <2>1. PICK i \in 1..N : x = es[i]
    BY <1>5 DEF ToSet
  <2>2. entries[i] \in ToSet(entries)
    BY <1>2 DEF ToSet
  <2> QED
    BY <1>6, <2>1, <2>2
<1>10. ASSUME NEW e \in ToSet(entries)
       PROVE  (IF e.flight = q THEN SettledEntry(e, v) ELSE e) \in ToSet(es)
  <2>1. PICK i \in 1..N : e = entries[i]
    BY <1>2 DEF ToSet
  <2>2. es[i] \in ToSet(es)
    BY <1>5 DEF ToSet
  <2> QED
    BY <1>6, <2>1, <2>2
<1> QED
  BY <1>3, <1>5, <1>8, <1>9, <1>10

\* What the cache keeps when an answer settles an entry of it.
LEMMA SettleLeaves ==
    ASSUME CacheInv, NEW q \in ReadIds, NEW v \in Versions, SettleRead(q, v)
    PROVE  /\ entries' \in Seq(Entry) /\ IsMap(entries') /\ Len(entries') <= Len(entries)
           /\ \A x \in ToSet(entries') : \E e \in ToSet(entries) :
                 IF e.flight = q THEN x = SettledEntry(e, v) ELSE x = e
           /\ \A e \in ToSet(entries) : e.flight = q => SettledEntry(e, v) \in ToSet(entries')
           /\ \A e \in ToSet(entries) :
                 e.flight # q => e \in ToSet(entries') \/ (v > highest /\ e.flight = 0 /\ e.version < v)
<1>1. PICK es : es = SettledOn(q, v)
  OBVIOUS
<1>2. TypeOK /\ Len(entries) \in Nat
  BY EntriesAre DEF CacheInv
<1>3. /\ es \in Seq(Entry) /\ IsMap(es) /\ Len(es) = Len(entries)
      /\ \A x \in ToSet(es) : \E e \in ToSet(entries) : IF e.flight = q THEN x = SettledEntry(e, v) ELSE x = e
      /\ \A e \in ToSet(entries) : (IF e.flight = q THEN SettledEntry(e, v) ELSE e) \in ToSet(es)
  BY <1>1, <1>2, SettledOnIs
<1>4. CASE v > highest
  <2> DEFINE gone == {e \in ToSet(es) : Overtaken(e, v)}
  <2>1. entries' = Without(es, gone)
    BY <1>1, <1>4 DEF SettleRead
  <2> HIDE DEF gone
  <2>2. /\ entries' \in Seq(Entry) /\ IsMap(entries') /\ Len(entries') <= Len(entries)
        /\ ToSet(entries') = ToSet(es) \ gone
    BY <1>3, <2>1, WithoutIs
  <2>3. \A e \in ToSet(entries) : e.flight = q => SettledEntry(e, v) \in ToSet(entries')
    <3> SUFFICES ASSUME NEW e \in ToSet(entries), e.flight = q
                 PROVE  SettledEntry(e, v) \notin gone
      BY <1>3, <2>2
    <3>1. ~(SettledEntry(e, v).version < v)
      BY Constants DEF SettledEntry
    <3> QED
      BY <3>1 DEF gone, Overtaken
  <2>4. \A e \in ToSet(entries) : e.flight # q /\ e \notin ToSet(entries') => e.flight = 0 /\ e.version < v
    BY <1>3, <2>2 DEF gone, Overtaken
  <2> QED
    BY <1>3, <1>4, <2>2, <2>3, <2>4
<1>5. CASE ~(v > highest)
  <2>1. entries' = es
    BY <1>1, <1>5 DEF SettleRead
  <2> QED
    BY <1>2, <1>3, <2>1
<1> QED
  BY <1>4, <1>5

LEMMA AnswerIsOld ==
    ASSUME CacheInv, NEW q \in ReadIds, InFlight(q), NEW v \in MayAnswer(q)
    PROVE  v \in Versions /\ v \in 0..server
<1>1. server \in Versions /\ flights[q] \in Flight
  BY DEF CacheInv, TypeOK, InFlight
<1>2. PICK since : since = flights[q].since
  OBVIOUS
<1>3. v \in 0..server
  <2>1. since \in Nat /\ server \in Nat
    BY <1>1, <1>2, Constants DEF Flight
  <2>2. v \in 0..server \/ v \in since..server
    BY <1>2 DEF MayAnswer
  <2> QED
    BY <2>1, <2>2
<1> QED
  BY <1>1, <1>3, Constants DEF Versions

LEMMA AskAgainKeeps ==
    ASSUME CacheInv, NEW q \in ReadIds, InFlight(q), AskAgain(q), UNCHANGED <<server, capacity>>
    PROVE  CacheInv'
<1> DEFINE flight == [url |-> flights[q].url, since |-> server,
                      asked |-> IF flights[q].asked = "again" THEN "anew" ELSE "again"]
<1>1. flights' = [flights EXCEPT ![q] = flight] /\ UNCHANGED <<entries, highest, panel>>
  BY DEF AskAgain
<1>2. TypeOK /\ flights \in [ReadIds -> Flight \cup {Null}] /\ flights[q] \in Flight /\ server \in Versions
  BY DEF CacheInv, TypeOK, InFlight
<1>3. flight \in Flight /\ flight.url = flights[q].url
  BY <1>2 DEF Flight
<1> HIDE DEF flight
<1>4. flights' \in [ReadIds -> Flight \cup {Null}]
  BY <1>1, <1>2, <1>3
<1>5. \A f \in ReadIds : InFlight(f)' <=> InFlight(f)
  BY <1>1, <1>2, <1>3, Constants DEF InFlight
<1>6. \A f \in ReadIds : InFlight(f) => flights'[f].url = flights[f].url
  BY <1>1, <1>2, <1>3
<1>7. TypeOK'
  BY <1>1, <1>2, <1>4 DEF TypeOK
<1>8. ASSUME NEW e \in ToSet(entries)
      PROVE  EntryIsSound(e)'
  <2>1. EntryIsSound(e) /\ e \in Entry
    BY <1>2, EntriesAre DEF CacheInv
  <2>2. e.flight # 0 => e.flight \in ReadIds
    BY <2>1, Constants DEF Entry, ReadIds
  <2> QED
    BY <1>5, <1>6, <2>1, <2>2 DEF EntryIsSound
<1>9. FlightsAreHeld'
  BY <1>1, <1>5 DEF CacheInv, FlightsAreHeld, HoldsEvery
<1>10. ASSUME NEW r \in Panels
       PROVE  PanelIsSound(panel[r])'
  <2>1. PICK x : x = panel[r]
    OBVIOUS
  <2>2. PanelIsSound(x) /\ x \in Panel
    BY <1>2, <2>1 DEF CacheInv, TypeOK
  <2>3. x.awaiting # 0 => x.awaiting \in ReadIds
    BY <2>2, Constants DEF Panel, ReadIds
  <2>4. x.awaiting # 0 => InFlight(x.awaiting)' /\ flights'[x.awaiting].url = flights[x.awaiting].url
    BY <1>5, <1>6, <2>2, <2>3 DEF PanelIsSound
  <2>5. PanelIsSound(x)'
    BY <1>1, <2>2, <2>4, PanelStands
  <2> QED
    BY <1>1, <2>1, <2>5
<1> QED
  BY <1>1, <1>7, <1>8, <1>9, <1>10 DEF CacheInv

\* What the end of a request leaves of the others.
LEMMA RequestEnds ==
    ASSUME CacheInv, NEW q \in ReadIds, flights' = [flights EXCEPT ![q] = Null]
    PROVE  /\ flights' \in [ReadIds -> Flight \cup {Null}]
           /\ \A f \in ReadIds : f # q => flights'[f] = flights[f] /\ (InFlight(f) <=> InFlight(f)')
           /\ ~InFlight(q)'
           /\ \A e \in ToSet(entries) : e.flight # 0 => e.flight \in ReadIds
           /\ \A e \in ToSet(entries) : e.flight # q => EntryIsSound(e)'
<1>1. TypeOK /\ flights \in [ReadIds -> Flight \cup {Null}]
  BY DEF CacheInv, TypeOK
<1>2. /\ flights' \in [ReadIds -> Flight \cup {Null}]
      /\ flights'[q] = Null
      /\ \A f \in ReadIds : f # q => flights'[f] = flights[f]
  BY <1>1
<1>3. \A e \in ToSet(entries) : e.flight # 0 => e.flight \in ReadIds
  BY <1>1, EntriesAre, Constants DEF Entry, ReadIds
<1>4. \A e \in ToSet(entries) : e.flight # q => EntryIsSound(e)'
  BY <1>2, <1>3 DEF CacheInv, EntryIsSound, InFlight
<1> QED
  BY <1>2, <1>3, <1>4 DEF InFlight

LEMMA SettleKeeps ==
    ASSUME CacheInv, NEW q \in ReadIds, InFlight(q), NEW v \in Versions, v \in 0..server,
           SettleRead(q, v), UNCHANGED <<server, capacity>>
    PROVE  CacheInv'
<1>1. PICK value, url : value = [of |-> url, version |-> v] /\ url = flights[q].url
  OBVIOUS
<1>2. /\ flights' = [flights EXCEPT ![q] = Null]
      /\ highest' = IF v > highest THEN v ELSE highest
      /\ panel' = [p \in Panels |-> Delivered(p, q, value)]
  BY <1>1 DEF SettleRead
<1>3. TypeOK /\ flights[q] \in Flight /\ highest \in 0..server /\ server \in Nat
  BY Constants DEF CacheInv, TypeOK, InFlight
<1>4. value \in Value /\ value # Null /\ value.version = v /\ value.of = url
  <2>1. url \in Urls
    BY <1>1, <1>3 DEF Flight
  <2> QED
    BY <1>1, <2>1, Constants DEF Value
<1>5. /\ flights' \in [ReadIds -> Flight \cup {Null}]
      /\ \A f \in ReadIds : f # q => flights'[f] = flights[f] /\ (InFlight(f) <=> InFlight(f)')
      /\ ~InFlight(q)'
      /\ \A e \in ToSet(entries) : e.flight # 0 => e.flight \in ReadIds
      /\ \A e \in ToSet(entries) : e.flight # q => EntryIsSound(e)'
  BY <1>2, RequestEnds
<1>6. /\ entries' \in Seq(Entry) /\ IsMap(entries') /\ Len(entries') <= Len(entries)
      /\ \A x \in ToSet(entries') : \E e \in ToSet(entries) :
            IF e.flight = q THEN x = SettledEntry(e, v) ELSE x = e
      /\ \A e \in ToSet(entries) : e.flight = q => SettledEntry(e, v) \in ToSet(entries')
      /\ \A e \in ToSet(entries) :
            e.flight # q => e \in ToSet(entries') \/ (v > highest /\ e.flight = 0 /\ e.version < v)
  BY SettleLeaves
<1>7. Len(entries') <= capacity
  <2>1. Len(entries) <= capacity /\ capacity \in Nat /\ Len(entries) \in Nat
    BY <1>3, EntriesAre
  <2> QED
    BY <1>6, <2>1
<1>8. highest' \in 0..server
  BY <1>2, <1>3
<1>9. \A p \in Panels : panel'[p] = Delivered(p, q, value)
  BY <1>2
<1>10. ASSUME NEW p \in Panels, NEW m, m = panel'[p]
       PROVE  m \in Panel /\ PanelIsSound(m)'
  <2>1. PICK was : was = panel[p]
    OBVIOUS
  <2>2. was \in Panel /\ PanelIsSound(was)
    BY <1>3, <2>1 DEF CacheInv, TypeOK
  <2>3. m = Delivered(p, q, value)
    BY <1>9, <1>10
  <2>4. /\ m \in Panel
        /\ m.url = was.url
        /\ ~m.due => ~was.due /\ (v > highest => m.url = Null)
        /\ was.awaiting = q =>
              /\ m.awaiting = 0
              /\ m.held = [url |-> url, value |-> value, failed |-> value = Null]
        /\ was.awaiting # q => m.awaiting = was.awaiting /\ m.held = was.held
    BY <1>1, <1>4, <2>1, <2>3, DeliveredIs
  <2>5. HoldsEvery' <=> HoldsEvery
    BY DEF HoldsEvery
  <2>6. CASE was.awaiting = q
    <3>1. m.awaiting = 0 /\ m.held.url = url /\ m.held.value = value /\ m.held.failed = FALSE
      <4>1. (value = Null) = FALSE
        BY <1>4
      <4>2. m.held = [url |-> url, value |-> value, failed |-> FALSE]
        BY <2>4, <2>6, <4>1
      <4> QED
        BY <2>4, <2>6, <4>2
    <3>2. q # 0
      BY Constants
    <3>3. was.held.url = url
      BY <1>1, <2>2, <2>6, <3>2 DEF PanelIsSound
    <3>4. ~m.due => m.held.url = m.url
      BY <2>2, <2>4, <3>1, <3>3 DEF PanelIsSound
    <3>5. HoldsEvery => Says(url, value)'
      <4> SUFFICES ASSUME HoldsEvery
                   PROVE  \E x \in ToSet(entries') : IsSettledFor(x, url) /\ value = Answer(x)
        BY DEF Says, IsSettledFor, Answer
      <4>1. PICK e \in ToSet(entries) : e.flight = q
        BY DEF CacheInv, FlightsAreHeld
      <4>2. e.url = url
        BY <1>1, <3>2, <4>1 DEF CacheInv, EntryIsSound
      <4>3. SettledEntry(e, v) \in ToSet(entries')
        BY <1>6, <4>1
      <4>4. IsSettledFor(SettledEntry(e, v), url) /\ value = Answer(SettledEntry(e, v))
        BY <1>1, <4>2 DEF IsSettledFor, Answer, SettledEntry
      <4> QED
        BY <4>3, <4>4
    <3> QED
      BY <1>4, <2>4, <2>5, <3>1, <3>4, <3>5 DEF PanelIsSound
  <2>7. CASE was.awaiting # q
    <3>1. m.url = was.url /\ m.awaiting = was.awaiting /\ m.held = was.held
      BY <2>4, <2>7
    <3>2. was.awaiting # 0 => InFlight(was.awaiting)' /\ flights'[was.awaiting].url = was.held.url
      <4>1. was.awaiting # 0 => was.awaiting \in ReadIds
        BY <2>2, Constants DEF Panel, ReadIds
      <4> QED
        BY <1>5, <2>2, <2>7, <4>1 DEF PanelIsSound
    <3>3. ASSUME HoldsEvery, ~m.due, m.url # Null, Says(was.url, was.held.value)
          PROVE  Says(was.url, was.held.value)'
      <4>1. PICK e \in ToSet(entries) : IsSettledFor(e, was.url) /\ was.held.value = Answer(e)
        BY <3>3 DEF Says
      <4>2. e.flight # q
        BY <4>1, Constants DEF IsSettledFor
      <4>3. e \in ToSet(entries')
        BY <1>6, <2>4, <3>3, <4>2
      <4> QED
        BY <4>1, <4>3 DEF Says, IsSettledFor, Answer
    <3> QED
      BY <2>2, <2>4, <2>5, <3>1, <3>2, <3>3 DEF PanelIsSound
  <2> QED
    BY <2>4, <2>6, <2>7
<1>11. panel' \in [Panels -> Panel]
  BY <1>2, <1>10
<1>12. TypeOK'
  BY <1>3, <1>5, <1>6, <1>7, <1>8, <1>11 DEF TypeOK, IsMap
<1>13. ASSUME NEW x \in ToSet(entries')
       PROVE  EntryIsSound(x)'
  <2>1. PICK e \in ToSet(entries) : IF e.flight = q THEN x = SettledEntry(e, v) ELSE x = e
    BY <1>6
  <2>2. CASE e.flight = q
    <3>1. x.flight = 0 /\ x.version = v
      BY <2>1, <2>2 DEF SettledEntry
    <3> QED
      BY <3>1 DEF EntryIsSound
  <2>3. CASE e.flight # q
    BY <1>5, <2>1, <2>3
  <2> QED
    BY <2>2, <2>3
<1>14. FlightsAreHeld'
  <2> SUFFICES ASSUME HoldsEvery, NEW f \in ReadIds, InFlight(f)'
               PROVE  \E e \in ToSet(entries') : e.flight = f
    BY DEF FlightsAreHeld, HoldsEvery
  <2>1. f # q /\ InFlight(f) /\ f # 0
    BY <1>5, Constants
  <2>2. PICK e \in ToSet(entries) : e.flight = f
    BY <2>1 DEF CacheInv, FlightsAreHeld
  <2> QED
    BY <1>6, <2>1, <2>2
<1> QED
  BY <1>10, <1>12, <1>13, <1>14 DEF CacheInv

LEMMA FailedKeeps == ASSUME CacheInv, NEW q \in ReadIds, Failed(q) PROVE CacheInv'
<1> DEFINE gone == {e \in ToSet(entries) : Evicted(e, q)}
<1>1. PICK url : url = flights[q].url
  OBVIOUS
<1>2. /\ InFlight(q) /\ flights' = [flights EXCEPT ![q] = Null]
      /\ entries' = Without(entries, gone)
      /\ panel' = [p \in Panels |-> Delivered(p, q, Null)]
      /\ UNCHANGED <<server, capacity, highest>>
  BY DEF Failed
<1>3. TypeOK /\ highest \in Nat
  BY Constants DEF CacheInv, TypeOK
<1>4. /\ flights' \in [ReadIds -> Flight \cup {Null}]
      /\ \A f \in ReadIds : f # q => flights'[f] = flights[f] /\ (InFlight(f) <=> InFlight(f)')
      /\ ~InFlight(q)'
      /\ \A e \in ToSet(entries) : e.flight # 0 => e.flight \in ReadIds
      /\ \A e \in ToSet(entries) : e.flight # q => EntryIsSound(e)'
  BY <1>2, RequestEnds
<1> HIDE DEF gone
<1>5. /\ entries' \in Seq(Entry) /\ IsMap(entries') /\ Len(entries') <= Len(entries)
      /\ ToSet(entries') = ToSet(entries) \ gone
  BY <1>2, <1>3, EntriesAre, WithoutIs
<1>6. Len(entries') <= capacity
  <2>1. Len(entries) <= capacity /\ capacity \in Nat /\ Len(entries) \in Nat
    BY <1>3, EntriesAre
  <2> QED
    BY <1>5, <2>1
<1>7. \A e \in ToSet(entries) : e \in ToSet(entries') <=> e.flight # q
  BY <1>5 DEF gone, Evicted
<1>8. \A p \in Panels : panel'[p] = Delivered(p, q, Null)
  BY <1>2
<1>9. ASSUME NEW p \in Panels, NEW m, m = panel'[p]
      PROVE  m \in Panel /\ PanelIsSound(m)'
  <2>1. PICK was : was = panel[p]
    OBVIOUS
  <2>2. was \in Panel /\ PanelIsSound(was)
    BY <1>3, <2>1 DEF CacheInv, TypeOK
  <2>3. m = Delivered(p, q, Null)
    BY <1>8, <1>9
  <2>4. PICK held : held = [url |-> url, value |-> Null, failed |-> TRUE]
    OBVIOUS
  <2>5. /\ m \in Panel
        /\ m.url = was.url
        /\ ~m.due => ~was.due
        /\ was.awaiting = q => m.awaiting = 0 /\ m.held = held
        /\ was.awaiting # q => m.awaiting = was.awaiting /\ m.held = was.held
    <3>1. PICK none, v : none = Null /\ v = IF none = Null THEN 0 ELSE none.version
      OBVIOUS
    <3>2. none \in Value \cup {Null} /\ m = Delivered(p, q, none) /\ InFlight(q)
      BY <1>2, <2>3, <3>1
    <3>3. /\ m \in Panel
          /\ m.url = panel[p].url
          /\ ~m.due => ~panel[p].due
          /\ panel[p].awaiting = q =>
                /\ m.awaiting = 0
                /\ m.held = [url |-> flights[q].url, value |-> none, failed |-> none = Null]
          /\ panel[p].awaiting # q => m.awaiting = panel[p].awaiting /\ m.held = panel[p].held
      BY <3>1, <3>2, DeliveredIs
    <3>4. (none = Null) = TRUE
      BY <3>1
    <3> QED
      BY <1>1, <2>1, <2>4, <3>1, <3>3, <3>4
  <2>6. HoldsEvery' <=> HoldsEvery
    BY <1>2 DEF HoldsEvery
  <2>7. CASE was.awaiting = q
    <3>1. m.awaiting = 0 /\ m.held.url = url /\ m.held.value = Null /\ m.held.failed = TRUE
      BY <2>4, <2>5, <2>7
    <3>2. was.held.url = url
      BY <1>1, <2>2, <2>7, Constants DEF PanelIsSound
    <3>3. ~m.due => m.held.url = m.url
      BY <2>2, <2>5, <3>1, <3>2 DEF PanelIsSound
    <3> QED
      BY <2>5, <3>1, <3>3 DEF PanelIsSound
  <2>8. CASE was.awaiting # q
    <3>1. m.url = was.url /\ m.awaiting = was.awaiting /\ m.held = was.held
      BY <2>5, <2>8
    <3>2. was.awaiting # 0 => InFlight(was.awaiting)' /\ flights'[was.awaiting].url = was.held.url
      <4>1. was.awaiting # 0 => was.awaiting \in ReadIds
        BY <2>2, Constants DEF Panel, ReadIds
      <4> QED
        BY <1>4, <2>2, <2>8, <4>1 DEF PanelIsSound
    <3>3. ASSUME Says(was.url, was.held.value)
          PROVE  Says(was.url, was.held.value)'
      <4>1. PICK e \in ToSet(entries) : IsSettledFor(e, was.url) /\ was.held.value = Answer(e)
        BY <3>3 DEF Says
      <4>2. e \in ToSet(entries')
        BY <1>7, <4>1, Constants DEF IsSettledFor
      <4> QED
        BY <4>1, <4>2 DEF Says, IsSettledFor, Answer
    <3> QED
      BY <2>2, <2>5, <2>6, <3>1, <3>2, <3>3 DEF PanelIsSound
  <2> QED
    BY <2>5, <2>7, <2>8
<1>10. panel' \in [Panels -> Panel]
  BY <1>2, <1>9
<1>11. TypeOK'
  BY <1>2, <1>3, <1>4, <1>5, <1>6, <1>10 DEF TypeOK, IsMap
<1>12. \A e \in ToSet(entries') : EntryIsSound(e)'
  BY <1>4, <1>5, <1>7
<1>13. FlightsAreHeld'
  <2> SUFFICES ASSUME HoldsEvery, NEW f \in ReadIds, InFlight(f)'
               PROVE  \E e \in ToSet(entries') : e.flight = f
    BY <1>2 DEF FlightsAreHeld, HoldsEvery
  <2>1. f # q /\ InFlight(f)
    BY <1>4
  <2>2. PICK e \in ToSet(entries) : e.flight = f
    BY <2>1 DEF CacheInv, FlightsAreHeld
  <2> QED
    BY <1>7, <2>1, <2>2
<1> QED
  BY <1>9, <1>11, <1>12, <1>13 DEF CacheInv

LEMMA CacheSteps == CacheInv /\ [Next]_vars => CacheInv'
<1> SUFFICES ASSUME CacheInv, [Next]_vars
             PROVE  CacheInv'
  OBVIOUS
<1>1. CASE Load
  BY <1>1, LoadKeeps
<1>2. ASSUME NEW q \in ReadIds, Failed(q)
      PROVE  CacheInv'
  BY <1>2, FailedKeeps
<1>3. ASSUME NEW q \in ReadIds, NEW v \in Versions, Answered(q, v)
      PROVE  CacheInv'
  <2>1. InFlight(q) /\ v \in MayAnswer(q) /\ UNCHANGED <<server, capacity>> /\ (SettleRead(q, v) \/ AskAgain(q))
    BY <1>3 DEF Answered
  <2>2. v \in 0..server
    BY <2>1, AnswerIsOld
  <2> QED
    BY <2>1, <2>2, SettleKeeps, AskAgainKeeps
<1>4. ASSUME NEW p \in Panels, NEW u \in Urls, Mount(p, u)
      PROVE  CacheInv'
  BY <1>4, MountKeeps
<1>5. ASSUME NEW p \in Panels, NEW u \in Urls \cup {Null}, Navigate(p, u)
      PROVE  CacheInv'
  BY <1>5, NavigateKeeps
<1>6. ASSUME NEW p \in Panels, UnmountPanel(p) \/ EffectOfNothing(p)
      PROVE  CacheInv'
  BY <1>6, ResetKeeps
<1>7. ASSUME NEW p \in Panels, EffectShares(p)
      PROVE  CacheInv'
  BY <1>7, EffectSharesKeeps
<1>8. ASSUME NEW p \in Panels, EffectAsks(p)
      PROVE  CacheInv'
  BY <1>8, EffectAsksKeeps
<1>9. CASE UNCHANGED vars
  <2>1. TypeOK'
    BY <1>9 DEF CacheInv, TypeOK, vars
  <2>2. \A e \in ToSet(entries)' : EntryIsSound(e)'
    BY <1>9 DEF CacheInv, EntryIsSound, InFlight, vars
  <2>3. FlightsAreHeld'
    BY <1>9 DEF CacheInv, FlightsAreHeld, HoldsEvery, InFlight, vars
  <2>4. \A p \in Panels : PanelIsSound(panel[p])'
    BY <1>9 DEF CacheInv, PanelIsSound, InFlight, HoldsEvery, Says, vars
  <2> QED
    BY <2>1, <2>2, <2>3, <2>4 DEF CacheInv
<1> QED
  BY <1>1, <1>2, <1>3, <1>4, <1>5, <1>6, <1>7, <1>8, <1>9 DEF Next, Answers, PanelEffect

------------------------------------------------------------------------------
(* What the panels share.                                                    *)

\* Two requests of a URL would be two entries of it.
LEMMA OneFlight == CacheInv => OneFlightPerUrl
<1> SUFFICES ASSUME CacheInv, HoldsEvery, NEW q \in ReadIds, NEW r \in ReadIds,
                    InFlight(q), InFlight(r), flights[q].url = flights[r].url
             PROVE  q = r
  BY DEF OneFlightPerUrl
<1>1. PICK e, x \in ToSet(entries) : e.flight = q /\ x.flight = r
  BY DEF CacheInv, FlightsAreHeld
<1>2. e.url = flights[q].url /\ x.url = flights[r].url
  BY <1>1, Constants DEF CacheInv, EntryIsSound
<1>3. e = x
  BY <1>1, <1>2, EntriesAre DEF CacheInv
<1> QED
  BY <1>1, <1>3

LEMMA SameAnswer == CacheInv => SameUrlSameAnswer
<1> SUFFICES ASSUME CacheInv, NEW p \in Panels, ShownBy(p) # Null
             PROVE  /\ ShownBy(p).of = panel[p].url
                    /\ HoldsEvery /\ AtRest => ShownBy(p) = Peek(panel[p].url)
  BY DEF SameUrlSameAnswer
<1>1. PICK m : m = panel[p]
  OBVIOUS
<1>2. TypeOK /\ m \in Panel /\ PanelIsSound(m)
  BY <1>1 DEF CacheInv, TypeOK
<1>3. CASE m.held.url = m.url
  <2>1. ShownBy(p) = m.held.value
    BY <1>1, <1>3 DEF ShownBy
  <2>2. m.held.value # Null /\ m.held.value.of = m.url /\ ~m.held.failed
    BY <1>2, <1>3, <2>1 DEF PanelIsSound
  <2>3. ASSUME HoldsEvery, AtRest
        PROVE  Peek(m.url) = m.held.value
    <3>1. ~m.due /\ m.awaiting = 0
      <4>1. m.awaiting # 0 => m.awaiting \in ReadIds
        BY <1>2, Constants DEF Panel, ReadIds
      <4> QED
        BY <1>1, <1>2, <2>3, <4>1 DEF AtRest, PanelIsSound
    <3>2. m.url # Null
      <4>1. m.held.value \in Value
        BY <1>2, <2>2 DEF Panel
      <4>2. m.held.value.of \in Urls
        BY <4>1 DEF Value
      <4> QED
        BY <2>2, <4>2, Constants
    <3>3. Says(m.url, m.held.value)
      BY <1>2, <2>2, <2>3, <3>1, <3>2 DEF PanelIsSound
    <3> QED
      BY <1>2, <3>3, PeekIs DEF Says
  <2> QED
    BY <1>1, <2>1, <2>2, <2>3
<1>4. CASE m.held.url # m.url
  <2>1. ShownBy(p) = Peek(m.url) /\ m.url \in Urls
    BY <1>1, <1>2, <1>4 DEF ShownBy, Panel
  <2> QED
    BY <1>1, <2>1, PeekIsValue
<1> QED
  BY <1>3, <1>4

\* What a step may take out of the cache.
MayLeave(e) ==
    \/ highest' > highest /\ e.version < highest'
    \/ Len(entries) = capacity /\ e = Head(entries) /\ flights' # flights
       /\ \E p \in Panels : panel[p].due /\ ~panel'[p].due

LEMMA AsksKeepsAnswers ==
    ASSUME CacheInv, NEW p \in Panels, EffectAsks(p),
           NEW e \in ToSet(entries), e \notin ToSet(entries')
    PROVE  MayLeave(e)
<1>1. TypeOK /\ panel[p].due /\ panel[p].url # Null /\ \A x \in ToSet(entries) : x.url # panel[p].url
  BY DEF EffectAsks, CacheInv, Shared
<1>2. PICK q \in ReadIds :
         /\ ~InFlight(q)
         /\ flights' = [flights EXCEPT ![q] = [url |-> panel[p].url, asked |-> "first", since |-> server]]
         /\ entries' = Trim(Append(entries, [url |-> panel[p].url, flight |-> q, version |-> Null]))
         /\ Reading(p, q, Meanwhile(p))
  BY DEF EffectAsks
<1>3. panel \in [Panels -> Panel] /\ panel[p].url \in Urls /\ server \in Versions /\ flights \in [ReadIds -> Flight \cup {Null}]
  BY <1>1 DEF TypeOK, Panel
<1>4. flights' # flights
  <2> DEFINE flight == [url |-> panel[p].url, asked |-> "first", since |-> server]
  <2>1. flight \in Flight
    BY <1>3 DEF Flight
  <2> HIDE DEF flight
  <2>2. flights'[q] = flight
    BY <1>2, <1>3 DEF flight
  <2> QED
    BY <1>2, <2>1, <2>2, Constants DEF InFlight
<1>5. ~panel'[p].due
  BY <1>2, <1>3 DEF Reading
<1> DEFINE new == [url |-> panel[p].url, flight |-> q, version |-> Null]
           es == Append(entries, new)
<1>6. new \in Entry /\ new.url = panel[p].url
  BY <1>3, Constants DEF Entry
<1>7. entries' = Trim(es)
  BY <1>2
<1>8. entries \in Seq(Entry) /\ IsMap(entries) /\ Len(entries) <= capacity /\ capacity \in Nat /\ Len(entries) \in Nat
  BY <1>1, EntriesAre
<1> HIDE DEF new
<1>9. /\ es \in Seq(Entry) /\ IsMap(es) /\ Len(es) = Len(entries) + 1
      /\ ToSet(es) = ToSet(entries) \cup {new}
  BY <1>1, <1>6, <1>8, AppendsToMap
<1>10. \A i \in 1..Len(entries) : es[i] = entries[i]
  BY <1>8
<1> HIDE DEF es
<1>11. /\ Len(es) <= capacity => Trim(es) = es
       /\ \A i \in 2..Len(es) : es[i] \in ToSet(Trim(es))
  BY <1>8, <1>9, TrimIs
<1>12. PICK i \in 1..Len(entries) : e = entries[i]
  BY <1>8 DEF ToSet
<1>13. i = 1
  BY <1>7, <1>8, <1>9, <1>10, <1>11, <1>12
<1>14. Len(entries) = capacity
  BY <1>7, <1>8, <1>9, <1>11
<1>15. e = Head(entries)
  BY <1>8, <1>12, <1>13
<1> QED
  BY <1>1, <1>4, <1>5, <1>14, <1>15 DEF MayLeave

LEMMA AnswersStay ==
    ASSUME CacheInv, [Next]_vars, NEW e \in ToSet(entries), e.flight = 0, e \notin ToSet(entries')
    PROVE  MayLeave(e)
<1>1. ASSUME NEW q \in ReadIds, Failed(q)
      PROVE  FALSE
  <2> DEFINE gone == {x \in ToSet(entries) : Evicted(x, q)}
  <2>1. entries' = Without(entries, gone) /\ entries \in Seq(Entry) /\ IsMap(entries)
    BY <1>1, EntriesAre DEF Failed, CacheInv
  <2>2. e \notin gone
    BY Constants DEF Evicted
  <2> HIDE DEF gone
  <2>3. ToSet(entries') = ToSet(entries) \ gone
    BY <2>1, WithoutIs
  <2> QED
    BY <2>2, <2>3
<1>2. ASSUME NEW q \in ReadIds, NEW v \in Versions, Answered(q, v)
      PROVE  MayLeave(e)
  <2>1. CASE AskAgain(q)
    BY <2>1 DEF AskAgain
  <2>2. CASE SettleRead(q, v)
    <3>1. e.flight # q
      BY Constants
    <3>2. v > highest /\ e.version < v
      BY <2>2, <3>1, SettleLeaves
    <3>3. highest' = v
      BY <2>2, <3>2 DEF SettleRead
    <3> QED
      BY <3>2, <3>3 DEF MayLeave
  <2> QED
    BY <1>2, <2>1, <2>2 DEF Answered
<1>3. ASSUME NEW p \in Panels, EffectShares(p)
      PROVE  FALSE
  <2>1. PICK x \in ToSet(entries) : entries' = Append(Without(entries, {x}), x)
    BY <1>3 DEF EffectShares, Except
  <2>2. PICK w : w = Without(entries, {x})
    OBVIOUS
  <2>3. w \in Seq(Entry) /\ IsMap(w) /\ ToSet(w) = ToSet(entries) \ {x}
    BY <2>2, EntriesAre, WithoutIs DEF CacheInv
  <2>4. x \in Entry /\ \A y \in ToSet(w) : y.url # x.url
    BY <2>3, EntriesAre DEF CacheInv
  <2>5. ToSet(Append(w, x)) = ToSet(w) \cup {x}
    BY <2>3, <2>4, AppendsToMap
  <2> QED
    BY <2>1, <2>2, <2>3, <2>5
<1>4. ASSUME NEW p \in Panels, EffectAsks(p)
      PROVE  MayLeave(e)
  BY <1>4, AsksKeepsAnswers
<1>5. CASE UNCHANGED entries
  BY <1>5
<1> QED
  BY <1>1, <1>2, <1>3, <1>4, <1>5
     DEF Next, vars, Load, Answers, Mount, Navigate, UnmountPanel, PanelEffect, EffectOfNothing

\* A settled answer leaves the cache only as GoodAnswerIsKept says.
LEMMA AnswersAreKept ==
    CacheInv /\ [Next]_vars =>
      [\A e \in ToSet(entries) :
         e.flight = 0 /\ ~(\E x \in ToSet(entries') : x = e) =>
           \/ highest' > highest /\ e.version < highest'
           \/ Len(entries) = capacity /\ e = Head(entries) /\ flights' # flights
              /\ \E p \in Panels : panel[p].due /\ ~panel'[p].due]_vars
BY AnswersStay DEF MayLeave

\* The panels of a page share requests and answers and lose none, whatever loads,
\* fails or is answered late meanwhile.
THEOREM PanelsShareAnswers == Spec => AnswersAreShared
<1>1. Init => CacheInv
  BY CacheStarts
<1>2. CacheInv /\ [Next]_vars => CacheInv'
  BY CacheSteps
<1>3. CacheInv => OneFlightPerUrl /\ SameUrlSameAnswer
  BY OneFlight, SameAnswer
<1>4. CacheInv /\ [Next]_vars =>
      [\A e \in ToSet(entries) :
         e.flight = 0 /\ ~(\E x \in ToSet(entries') : x = e) =>
           \/ highest' > highest /\ e.version < highest'
           \/ Len(entries) = capacity /\ e = Head(entries) /\ flights' # flights
              /\ \E p \in Panels : panel[p].due /\ ~panel'[p].due]_vars
  BY AnswersAreKept
<1> QED
  BY <1>1, <1>2, <1>3, <1>4, PTL DEF Spec, AnswersAreShared, GoodAnswerIsKept

=============================================================================
