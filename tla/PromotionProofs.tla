---------------------------- MODULE PromotionProofs ----------------------------
(***************************************************************************)
(* What is proved of a report carried to the readers' database: what is    *)
(* committed is one state of the source, and no decision the readers were  *)
(* told is lost.  Each run knows, at each of its steps, how what it has    *)
(* read compares with a source that has gone on (IsOnTrack); that the      *)
(* source only grows (Grows) keeps it true while others edit.              *)
(* And of a notice, a printed date and a listing's row: each is read as it *)
(* is printed, or has no value, whatever its layout prints (NoticeReading).*)
(***************************************************************************)
EXTENDS Promotion, NoticeReading, SequenceTheorems, Inductions

Sayings == Decisions \cup {Undecided}
Trails == Seq(Nat \X Decisions)

\* Figures by id, and a database's report: its figures, their trail, its last id.
IsTable(figure) ==
    /\ figure = [i \in DOMAIN figure |-> figure[i]]
    /\ DOMAIN figure \subseteq Nat /\ IsFiniteSet(DOMAIN figure)
    /\ \A i \in DOMAIN figure : figure[i] \in Figure

IsReport(l) ==
    /\ l = [figure |-> l.figure, trail |-> l.trail, last |-> l.last]
    /\ IsTable(l.figure) /\ l.trail \in Trails /\ l.last \in Nat
    /\ DOMAIN l.figure \subseteq 1..l.last

\* No two figures are the same one, but those that share an identity from the start.
AreApart(figure) ==
    \A i, j \in DOMAIN figure :
        figure[i].identity \notin Shared /\ figure[i].identity = figure[j].identity => i = j

\* No two entries of a trail are the same, or none of figures that share no identity.
FiledOnce(trail) == \A n, m \in DOMAIN trail : trail[n] = trail[m] => n = m

LoneOnce(ledger) ==
    \A n, m \in OfLone(ledger) : ledger.trail[n] = ledger.trail[m] => n = m

\* A reviewed ledger: what is past is of a figure that is decided otherwise now.
IsReviewed(l) ==
    /\ IsReport(l) /\ AreApart(l.figure) /\ FiledOnce(l.trail)
    /\ \A n \in DOMAIN l.trail :
          /\ l.trail[n][1] \in DOMAIN l.figure
          /\ Decided(l.figure[l.trail[n][1]])
          /\ l.figure[l.trail[n][1]].decision # l.trail[n][2]

\* Figures and a trail, each read from the source at some time: what has become of
\* the figures since is in the source, and the trail has only grown.
WasRead(figure, trail, l) ==
    /\ IsTable(figure) /\ AreApart(figure) /\ trail \in Trails
    /\ Len(trail) <= Len(l.trail)
    /\ \A n \in DOMAIN trail : l.trail[n] = trail[n]
    /\ \A i \in DOMAIN figure :
          /\ i <= l.last
          /\ i \in DOMAIN l.figure => l.figure[i].identity = figure[i].identity
          /\ Decided(figure[i]) =>
                /\ i \in DOMAIN l.figure /\ Decided(l.figure[i])
                /\ \/ l.figure[i].decision = figure[i].decision
                   \/ <<i, figure[i].decision>> \in Filed(l.trail)

\* A ledger says, or has said, so of a figure; has said so.
Says(l, identity, d) ==
    \E i \in DOMAIN l.figure :
        /\ l.figure[i].identity = identity
        /\ l.figure[i].decision = d \/ <<i, d>> \in Filed(l.trail)

HasSaid(l, identity, d) ==
    \E n \in DOMAIN l.trail :
        /\ l.trail[n][1] \in DOMAIN l.figure
        /\ l.figure[l.trail[n][1]].identity = identity
        /\ l.trail[n][2] = d

\* What readers are told of a figure that shares no identity is, or was, said by the
\* ledger.
IsCopyOf(copy, l) ==
    /\ \A i \in Lone(copy.figure) :
          Decided(copy.figure[i]) => Says(l, copy.figure[i].identity, copy.figure[i].decision)
    /\ \A n \in OfLone(copy) :
          HasSaid(l, copy.figure[copy.trail[n][1]].identity, copy.trail[n][2])

IsReaders(copy, l) ==
    /\ IsReport(copy) /\ AreApart(copy.figure) /\ LoneOnce(copy)
    /\ \A i \in DOMAIN copy.figure : copy.figure[i].identity \notin Scanned
    /\ \A n \in DOMAIN copy.trail : copy.trail[n][1] \in DOMAIN copy.figure
    /\ IsCopyOf(copy, l)

\* A plan of refreshing the target as it is.
Filings == (Identities \X Nat) \X Decisions

MayInsert(insert, tgt, l) ==
    /\ insert \in Seq(Figure)
    /\ \A n \in DOMAIN insert :
          /\ insert[n].identity \notin Scanned
          /\ insert[n].identity \notin Shared =>
                /\ \A i \in DOMAIN tgt.figure : insert[n].identity # tgt.figure[i].identity
                /\ Decided(insert[n]) => Says(l, insert[n].identity, insert[n].decision)
                /\ \A m \in DOMAIN insert : insert[n].identity = insert[m].identity => n = m

MayUpdate(update, tgt, l) ==
    \A u \in update :
        /\ u[1] \in DOMAIN tgt.figure /\ u[2] \in Sayings
        /\ tgt.figure[u[1]].identity \notin Shared =>
              (u[2] # Undecided => Says(l, tgt.figure[u[1]].identity, u[2]))

MayFile(history, tgt, l) ==
    /\ history \in Seq(Filings)
    /\ \A n \in DOMAIN history : history[n][1][1] \notin Shared =>
          /\ \A m \in DOMAIN history : history[n] = history[m] => n = m
          /\ HasSaid(l, history[n][1][1], history[n][2])
          /\ \A m \in DOMAIN tgt.trail :
                ~ /\ tgt.figure[tgt.trail[m][1]].identity = history[n][1][1]
                  /\ tgt.trail[m][2] = history[n][2]

IsPlanned(plan, tgt, l) ==
    MayInsert(plan.insert, tgt, l) /\ MayUpdate(plan.update, tgt, l) /\ MayFile(plan.history, tgt, l)

\* What is written keeps what the target tells.
KeepsTarget(work, tgt) ==
    /\ \A i \in DOMAIN tgt.figure :
          Decided(tgt.figure[i]) => /\ i \in DOMAIN work.figure
                                       /\ work.figure[i].identity = tgt.figure[i].identity
    /\ \A n \in OfLone(tgt) : tgt.trail[n] \in Filed(work.trail)

\* A copy of figures, and of as much of the source's trail as it has.
IsCopied(work, figure, l) ==
    /\ IsReport(work) /\ work.figure = Remapped(figure)
    /\ Len(work.trail) <= Len(l.trail)
    /\ \A n \in DOMAIN work.trail :
          /\ l.trail[n][1] \in DOMAIN figure
          /\ work.trail[n] = <<Rank(DOMAIN figure, l.trail[n][1]), l.trail[n][2]>>

Pcs == {"idle", "put", "count", "begin", "figures", "history", "compare",
        "sourceTrail", "targetFigures", "targetTrail", "apply", "check", "checkTrail"}

\* What run p knows, when the ledgers are l and tgt and the lock is held so.
IsOnTrack(p, r, l, tgt, held) ==
    /\ r.pc \in Pcs
    /\ r.pc \in {"begin", "figures", "history", "compare"} => r.expected[3] \in 0..Len(l.trail)
    /\ r.pc \in {"figures", "history", "compare"} => tgt = Null /\ held = p
    /\ r.pc \in {"history", "compare", "checkTrail"} =>
          IsReviewed(r.asRead) /\ WasRead(r.asRead.figure, r.asRead.trail, l)
    /\ r.pc \in {"history", "compare"} =>
          /\ r.expected[3] <= Len(r.asRead.trail)
          /\ \A i \in DOMAIN r.asRead.figure : r.asRead.figure[i].identity \notin Scanned
    /\ r.pc = "compare" =>
          IsCopied(r.work, r.asRead.figure, l) /\ Len(r.asRead.trail) <= Len(r.work.trail)
    /\ r.pc \in {"sourceTrail", "targetFigures", "targetTrail", "apply", "check", "checkTrail"}
          => tgt # Null
    /\ r.pc = "sourceTrail" => WasRead(r.figure, <<>>, l)
    /\ r.pc \in {"targetFigures", "targetTrail"} => WasRead(r.figure, r.trail, l)
    /\ r.pc = "targetTrail" => r.held = tgt.figure
    /\ r.pc = "apply" => IsPlanned(r.plan, tgt, l)
    /\ r.pc \in {"check", "checkTrail"} =>
          held = p /\ IsReaders(r.work, l) /\ KeepsTarget(r.work, tgt)
    /\ r.pc = "checkTrail" => IsCopyOf(r.work, r.asRead) /\ IsCopyOf(tgt, r.asRead)

\* The trail of what readers are told is of figures decided since.
IsToldNow(tgt, l) ==
    /\ IsReaders(tgt, l)
    /\ \A n \in OfLone(tgt) : Decided(tgt.figure[tgt.trail[n][1]])

IsEdited(l, n) ==
    /\ IsReviewed(l) /\ n \in Nat
    /\ \A i \in DOMAIN l.figure : l.figure[i].decision.at <= n
    /\ \A m \in DOMAIN l.trail : l.trail[m][2].at <= n

OneRefreshes == \A p, q \in Runs : IsRefreshing(p) /\ IsRefreshing(q) => p = q

PromotionInv ==
    /\ IsEdited(source, edits)
    /\ target # Null => IsToldNow(target, source)
    /\ run = [p \in Runs |-> run[p]]
    /\ OneRefreshes
    /\ \A p \in Runs : IsOnTrack(p, run[p], source, target, lock)

\* A row's place in the order of ids tells it from the others, and each place is
\* some row's.
LEMMA PlacesAreTaken ==
    ASSUME NEW ids \in SUBSET Nat, IsFiniteSet(ids)
    PROVE  /\ Cardinality(ids) \in Nat
           /\ \A i \in ids : Rank(ids, i) \in 1..Cardinality(ids)
           /\ \A i, j \in ids : Rank(ids, i) = Rank(ids, j) => i = j
           /\ \A n \in 1..Cardinality(ids) : \E i \in ids : Rank(ids, i) = n
<1> DEFINE upto(i) == {j \in ids : j <= i}
           N == Cardinality(ids)
           rank == [i \in ids |-> Cardinality(upto(i))]
<1>1. N \in Nat
  BY FS_CardinalityType
<1>2. ASSUME NEW i \in ids
      PROVE  /\ upto(i) \in SUBSET ids /\ i \in upto(i)
             /\ IsFiniteSet(upto(i)) /\ Cardinality(upto(i)) \in 1..N
  <2>1. upto(i) \in SUBSET ids /\ i \in upto(i)
    OBVIOUS
  <2> HIDE DEF upto
  <2>2. IsFiniteSet(upto(i)) /\ Cardinality(upto(i)) <= N
    BY <2>1, FS_Subset
  <2>3. Cardinality(upto(i)) \in Nat /\ Cardinality(upto(i)) # 0
    BY <2>1, <2>2, FS_CardinalityType, FS_EmptySet
  <2> QED
    BY <1>1, <2>1, <2>2, <2>3
<1>3. ASSUME NEW i \in ids, NEW j \in ids, i < j
      PROVE  Cardinality(upto(i)) < Cardinality(upto(j))
  <2>1. i \in Nat /\ j \in Nat /\ \A k \in ids : k \in Nat
    OBVIOUS
  <2>2. /\ \A k \in upto(i) \cup {j} : k \in ids /\ k <= j
        /\ j \notin upto(i)
    BY <1>3, <2>1
  <2>3. upto(i) \cup {j} \in SUBSET upto(j)
    BY <2>2
  <2> HIDE DEF upto
  <2>4. Cardinality(upto(i) \cup {j}) = Cardinality(upto(i)) + 1
    BY <1>2, <2>2, FS_AddElement
  <2>5. Cardinality(upto(i) \cup {j}) <= Cardinality(upto(j))
    BY <1>2, <2>3, FS_Subset
  <2> QED
    BY <1>2, <2>4, <2>5
<1>4. \A i, j \in ids : Cardinality(upto(i)) = Cardinality(upto(j)) => i = j
  <2> SUFFICES ASSUME NEW i \in ids, NEW j \in ids, i # j, Cardinality(upto(i)) = Cardinality(upto(j))
               PROVE  FALSE
    OBVIOUS
  <2>1. i < j \/ j < i
    OBVIOUS
  <2> HIDE DEF upto
  <2> QED
    BY <1>2, <1>3, <2>1
<1>5. rank \in [ids -> 1..N]
  BY <1>2
<1>6. \A i \in ids : rank[i] = Cardinality(upto(i))
  OBVIOUS
<1> HIDE DEF upto, rank
<1>7. rank \in Injection(ids, 1..N)
  BY <1>4, <1>5, <1>6 DEF Injection, IsInjective
<1>8. IsFiniteSet(1..N) /\ Cardinality(1..N) = N
  <2> HIDE DEF N
  <2>1. 1 \in Int /\ N \in Int
    BY <1>1
  <2>2. Cardinality(1..N) = IF 1 > N THEN 0 ELSE N - 1 + 1
    BY <2>1, FS_Interval
  <2>3. IsFiniteSet(1..N)
    BY <2>1, FS_Interval
  <2> QED
    BY <1>1, <2>2, <2>3
<1>9. rank \in Surjection(ids, 1..N)
  BY <1>7, <1>8, FS_Injection
<1>10. \A n \in 1..N : \E i \in ids : Cardinality(upto(i)) = n
  <2> HIDE DEF N
  <2> QED
    BY <1>6, <1>9 DEF Surjection
<1> QED
  BY <1>1, <1>2, <1>4, <1>10 DEF Rank, upto

\* So the rows of some ids, in order, are those rows, each once.
LEMMA InOrderIs ==
    ASSUME NEW ids \in SUBSET Nat, IsFiniteSet(ids), NEW rows
    PROVE  /\ Cardinality(ids) \in Nat
           /\ InOrder(rows, ids) = [n \in 1..Cardinality(ids) |-> rows[NthOf(ids, n)]]
           /\ DOMAIN InOrder(rows, ids) = 1..Cardinality(ids)
           /\ \A n \in 1..Cardinality(ids) : /\ NthOf(ids, n) \in ids
                                             /\ Rank(ids, NthOf(ids, n)) = n
                                             /\ InOrder(rows, ids)[n] = rows[NthOf(ids, n)]
           /\ \A i \in ids : Rank(ids, i) \in 1..Cardinality(ids) /\ NthOf(ids, Rank(ids, i)) = i
<1>1. /\ Cardinality(ids) \in Nat
      /\ \A i \in ids : Rank(ids, i) \in 1..Cardinality(ids)
      /\ \A i, j \in ids : Rank(ids, i) = Rank(ids, j) => i = j
      /\ \A n \in 1..Cardinality(ids) : \E i \in ids : Rank(ids, i) = n
  BY PlacesAreTaken
<1>2. \A n \in 1..Cardinality(ids) : NthOf(ids, n) \in ids /\ Rank(ids, NthOf(ids, n)) = n
  BY <1>1 DEF NthOf
<1>3. ASSUME NEW i \in ids
      PROVE  NthOf(ids, Rank(ids, i)) = i
  <2>1. PICK n : n = Rank(ids, i)
    OBVIOUS
  <2>2. NthOf(ids, n) \in ids /\ Rank(ids, NthOf(ids, n)) = Rank(ids, i)
    BY <1>1, <1>2, <2>1
  <2>3. NthOf(ids, n) = i
    BY <1>1, <2>2
  <2> QED
    BY <2>1, <2>3
<1> QED
  BY <1>1, <1>2, <1>3 DEF InOrder

\* The empty sequence is in the order of no ids.
LEMMA NoneInOrder ==
    ASSUME NEW ids \in SUBSET Nat, IsFiniteSet(ids), NEW rows, DOMAIN InOrder(rows, ids) = {}
    PROVE  ids = {}
<1>1. /\ Cardinality(ids) \in Nat
      /\ DOMAIN InOrder(rows, ids) = 1..Cardinality(ids)
      /\ \A i \in ids : Rank(ids, i) \in 1..Cardinality(ids)
  BY InOrderIs
<1> QED
  BY <1>1

\* A figure's key begins with its identity; one that shares it with none has no more.
LEMMA KeysAre ==
    ASSUME NEW figure, IsTable(figure), AreApart(figure)
    PROVE  /\ \A i \in DOMAIN figure :
                 /\ KeyOf(figure, i) \in Keys(figure) /\ KeyOf(figure, i) \in Identities \X Nat
                 /\ KeyOf(figure, i)[1] = figure[i].identity
                 /\ figure[i].identity \notin Shared =>
                       /\ KeyOf(figure, i) = <<figure[i].identity, 0>>
                       /\ WithKey(figure, <<figure[i].identity, 0>>) = i
           /\ \A k \in Keys(figure) :
                 /\ WithKey(figure, k) \in DOMAIN figure /\ KeyOf(figure, WithKey(figure, k)) = k
                 /\ k \in Identities \X Nat /\ k[1] = figure[WithKey(figure, k)].identity
                 /\ k[1] \notin Shared => k = <<k[1], 0>>
<1>1. /\ DOMAIN figure \subseteq Nat /\ IsFiniteSet(DOMAIN figure)
      /\ \A i \in DOMAIN figure : figure[i].identity \in Identities
  BY DEF IsTable, Figure
<1>2. ASSUME NEW i \in DOMAIN figure
      PROVE  /\ KeyOf(figure, i) \in Identities \X Nat
             /\ KeyOf(figure, i)[1] = figure[i].identity
             /\ figure[i].identity \notin Shared => KeyOf(figure, i) = <<figure[i].identity, 0>>
  <2>1. PICK before : before = {j \in DOMAIN figure : j < i /\ figure[j].identity = figure[i].identity}
    OBVIOUS
  <2>2. KeyOf(figure, i) = <<figure[i].identity, Cardinality(before)>>
    BY <2>1 DEF KeyOf
  <2>3. before \in SUBSET DOMAIN figure
    BY <2>1
  <2>4. Cardinality(before) \in Nat
    BY <1>1, <2>3, FS_Subset, FS_CardinalityType
  <2>5. ASSUME figure[i].identity \notin Shared
        PROVE  Cardinality(before) = 0
    <3>1. before = {}
      BY <1>1, <2>1, <2>5 DEF AreApart
    <3> QED
      BY <3>1, FS_EmptySet
  <2> QED
    BY <1>1, <2>2, <2>4, <2>5
<1>3. ASSUME NEW k \in Keys(figure)
      PROVE  WithKey(figure, k) \in DOMAIN figure /\ KeyOf(figure, WithKey(figure, k)) = k
  <2>1. \E i \in DOMAIN figure : KeyOf(figure, i) = k
    BY DEF Keys
  <2> QED
    BY <2>1 DEF WithKey
<1>4. \A i \in DOMAIN figure : KeyOf(figure, i) \in Keys(figure)
  BY DEF Keys
<1>5. ASSUME NEW i \in DOMAIN figure, figure[i].identity \notin Shared
      PROVE  WithKey(figure, <<figure[i].identity, 0>>) = i
  <2>1. PICK k, j : k = <<figure[i].identity, 0>> /\ j = WithKey(figure, k)
    OBVIOUS
  <2>2. k \in Keys(figure)
    BY <1>2, <1>4, <1>5, <2>1
  <2>3. j \in DOMAIN figure /\ KeyOf(figure, j) = k
    BY <1>3, <2>1, <2>2
  <2>4. figure[j].identity = figure[i].identity
    BY <1>2, <2>1, <2>3
  <2> QED
    BY <1>5, <2>1, <2>3, <2>4 DEF AreApart
<1>6. ASSUME NEW k \in Keys(figure)
      PROVE  /\ k \in Identities \X Nat /\ k[1] = figure[WithKey(figure, k)].identity
             /\ k[1] \notin Shared => k = <<k[1], 0>>
  <2>1. PICK j : j = WithKey(figure, k)
    OBVIOUS
  <2>2. j \in DOMAIN figure /\ KeyOf(figure, j) = k
    BY <1>3, <2>1
  <2> QED
    BY <1>2, <2>1, <2>2
<1> QED
  BY <1>2, <1>3, <1>4, <1>5, <1>6

-----------------------------------------------------------------------------
(* What becomes of the source.                                               *)

\* The ledger as reviewers and the parser leave it: ids are not given twice, what
\* is decided stays, and what was said of it is filed when it no longer is.
Grows(l, new) ==
    /\ Len(l.trail) <= Len(new.trail)
    /\ \A n \in DOMAIN l.trail : new.trail[n] = l.trail[n]
    /\ l.last <= new.last
    /\ \A i \in DOMAIN new.figure :
          i <= l.last => i \in DOMAIN l.figure /\ new.figure[i].identity = l.figure[i].identity
    /\ \A i \in DOMAIN l.figure :
          Decided(l.figure[i]) =>
                /\ i \in DOMAIN new.figure /\ Decided(new.figure[i])
                /\ \/ new.figure[i].decision = l.figure[i].decision
                   \/ <<i, l.figure[i].decision>> \in Filed(new.trail)

LEMMA FiledStays ==
    ASSUME NEW l, NEW new, IsReport(l), IsReport(new), Grows(l, new)
    PROVE  /\ Filed(l.trail) \subseteq Filed(new.trail)
           /\ DOMAIN l.trail \subseteq DOMAIN new.trail
<1>1. l.trail \in Trails /\ new.trail \in Trails
  BY DEF IsReport
<1>2. /\ Len(l.trail) \in Nat /\ Len(new.trail) \in Nat
      /\ DOMAIN l.trail = 1..Len(l.trail) /\ DOMAIN new.trail = 1..Len(new.trail)
  BY <1>1 DEF Trails
<1>3. Len(l.trail) <= Len(new.trail) /\ \A n \in DOMAIN l.trail : new.trail[n] = l.trail[n]
  BY DEF Grows
<1>4. DOMAIN l.trail \subseteq DOMAIN new.trail
  BY <1>2, <1>3
<1> QED
  BY <1>3, <1>4 DEF Filed

LEMMA ReadsStand ==
    ASSUME NEW l, NEW new, IsReviewed(l), IsReviewed(new), Grows(l, new),
           NEW figure, NEW trail, WasRead(figure, trail, l)
    PROVE  WasRead(figure, trail, new)
<1>1. /\ IsReport(l) /\ IsReport(new)
      /\ IsTable(figure) /\ AreApart(figure) /\ trail \in Trails
  BY DEF IsReviewed, WasRead
<1>2. /\ l.trail \in Trails /\ new.trail \in Trails /\ l.last \in Nat /\ new.last \in Nat
      /\ DOMAIN figure \subseteq Nat
  BY <1>1 DEF IsReport, IsTable
<1>3. /\ Len(l.trail) \in Nat /\ Len(new.trail) \in Nat /\ Len(trail) \in Nat
      /\ DOMAIN trail = 1..Len(trail) /\ DOMAIN l.trail = 1..Len(l.trail)
  BY <1>1, <1>2 DEF Trails
<1>4. /\ Filed(l.trail) \subseteq Filed(new.trail)
  BY <1>1, FiledStays
<1>5. /\ Len(trail) <= Len(l.trail)
      /\ \A n \in DOMAIN trail : l.trail[n] = trail[n]
  BY DEF WasRead
<1>6. /\ Len(l.trail) <= Len(new.trail)
      /\ \A n \in DOMAIN l.trail : new.trail[n] = l.trail[n]
      /\ l.last <= new.last
  BY DEF Grows
<1>7. /\ Len(trail) <= Len(new.trail)
      /\ \A n \in DOMAIN trail : new.trail[n] = trail[n]
  BY <1>3, <1>5, <1>6
<1>8. ASSUME NEW i \in DOMAIN figure
      PROVE  /\ i <= new.last
             /\ i \in DOMAIN new.figure => new.figure[i].identity = figure[i].identity
             /\ Decided(figure[i]) =>
                  /\ i \in DOMAIN new.figure /\ Decided(new.figure[i])
                  /\ \/ new.figure[i].decision = figure[i].decision
                     \/ <<i, figure[i].decision>> \in Filed(new.trail)
  <2>1. /\ i \in Nat /\ i <= l.last
        /\ i \in DOMAIN l.figure => l.figure[i].identity = figure[i].identity
        /\ Decided(figure[i]) =>
             /\ i \in DOMAIN l.figure /\ Decided(l.figure[i])
             /\ \/ l.figure[i].decision = figure[i].decision
                \/ <<i, figure[i].decision>> \in Filed(l.trail)
    BY <1>2 DEF WasRead
  <2>2. i <= new.last
    BY <1>2, <1>6, <2>1
  <2>3. i \in DOMAIN new.figure => new.figure[i].identity = figure[i].identity
    BY <2>1 DEF Grows
  <2>4. ASSUME Decided(figure[i])
        PROVE  /\ i \in DOMAIN new.figure /\ Decided(new.figure[i])
               /\ \/ new.figure[i].decision = figure[i].decision
                  \/ <<i, figure[i].decision>> \in Filed(new.trail)
    BY <1>4, <2>1, <2>4 DEF Grows
  <2> QED
    BY <2>2, <2>3, <2>4
<1> QED
  BY <1>1, <1>7, <1>8 DEF WasRead

LEMMA SaidStays ==
    ASSUME NEW l, NEW new, IsReviewed(l), IsReviewed(new), Grows(l, new),
           NEW identity, NEW d
    PROVE  /\ d # Undecided /\ Says(l, identity, d) => Says(new, identity, d)
           /\ HasSaid(l, identity, d) => HasSaid(new, identity, d)
<1>1. IsReport(l) /\ IsReport(new)
  BY DEF IsReviewed
<1>2. Filed(l.trail) \subseteq Filed(new.trail) /\ DOMAIN l.trail \subseteq DOMAIN new.trail
  BY <1>1, FiledStays
<1>3. DOMAIN l.figure \subseteq 1..l.last /\ l.last \in Nat
  BY <1>1 DEF IsReport
<1>4. ASSUME NEW i \in DOMAIN l.figure, Decided(l.figure[i])
      PROVE  /\ i \in DOMAIN new.figure /\ new.figure[i].identity = l.figure[i].identity
             /\ \/ new.figure[i].decision = l.figure[i].decision
                \/ <<i, l.figure[i].decision>> \in Filed(new.trail)
  <2>1. i \in DOMAIN new.figure
    BY <1>4 DEF Grows
  <2>2. i \in 1..l.last
    BY <1>3
  <2>3. i <= l.last
    BY <1>3, <2>2
  <2>4. i \in DOMAIN new.figure /\ i <= l.last
    BY <2>1, <2>3
  <2> QED
    BY <1>4, <2>4 DEF Grows
<1>5. ASSUME d # Undecided, Says(l, identity, d)
      PROVE  Says(new, identity, d)
  <2>1. PICK i \in DOMAIN l.figure : /\ l.figure[i].identity = identity
                                     /\ l.figure[i].decision = d \/ <<i, d>> \in Filed(l.trail)
    BY <1>5 DEF Says
  <2>2. CASE l.figure[i].decision = d
    <3>1. Decided(l.figure[i])
      BY <1>5, <2>2 DEF Decided
    <3> QED
      BY <1>4, <2>1, <2>2, <3>1 DEF Says
  <2>3. CASE <<i, d>> \in Filed(l.trail)
    <3>1. PICK n \in DOMAIN l.trail : l.trail[n] = <<i, d>>
      BY <2>3 DEF Filed
    <3>2. l.trail[n][1] = i
      BY <3>1
    <3>3. Decided(l.figure[i])
      BY <3>2 DEF IsReviewed
    <3> QED
      BY <1>2, <1>4, <2>1, <2>3, <3>3 DEF Says
  <2> QED
    BY <2>1, <2>2, <2>3
<1>6. ASSUME HasSaid(l, identity, d)
      PROVE  HasSaid(new, identity, d)
  <2>1. PICK n \in DOMAIN l.trail : /\ l.trail[n][1] \in DOMAIN l.figure
                                    /\ l.figure[l.trail[n][1]].identity = identity
                                    /\ l.trail[n][2] = d
    BY <1>6 DEF HasSaid
  <2>2. Decided(l.figure[l.trail[n][1]])
    BY DEF IsReviewed
  <2>3. new.trail[n] = l.trail[n] /\ n \in DOMAIN new.trail
    BY <1>2 DEF Grows
  <2> QED
    BY <1>4, <2>1, <2>2, <2>3 DEF HasSaid
<1> QED
  BY <1>5, <1>6

\* What readers are told stays said, and a plan made can still be carried out.
LEMMA CopiesStand ==
    ASSUME NEW l, NEW new, IsReviewed(l), IsReviewed(new), Grows(l, new), NEW copy
    PROVE  /\ IsCopyOf(copy, l) => IsCopyOf(copy, new)
           /\ IsReaders(copy, l) => IsReaders(copy, new)
           /\ \A plan : IsPlanned(plan, copy, l) => IsPlanned(plan, copy, new)
<1>1. ASSUME IsCopyOf(copy, l)
      PROVE  IsCopyOf(copy, new)
  <2>1. ASSUME NEW i \in Lone(copy.figure), Decided(copy.figure[i])
        PROVE  Says(new, copy.figure[i].identity, copy.figure[i].decision)
    BY <1>1, <2>1, SaidStays DEF IsCopyOf, Decided
  <2>2. ASSUME NEW n \in OfLone(copy)
        PROVE  HasSaid(new, copy.figure[copy.trail[n][1]].identity, copy.trail[n][2])
    BY <1>1, SaidStays DEF IsCopyOf
  <2> QED
    BY <2>1, <2>2 DEF IsCopyOf
<1>2. ASSUME NEW plan, IsPlanned(plan, copy, l)
      PROVE  IsPlanned(plan, copy, new)
  <2>1. MayInsert(plan.insert, copy, new)
    BY <1>2, SaidStays DEF IsPlanned, MayInsert, Decided
  <2>2. MayUpdate(plan.update, copy, new)
    BY <1>2, SaidStays DEF IsPlanned, MayUpdate
  <2>3. MayFile(plan.history, copy, new)
    BY <1>2, SaidStays DEF IsPlanned, MayFile
  <2> QED
    BY <2>1, <2>2, <2>3 DEF IsPlanned
<1> QED
  BY <1>1, <1>2 DEF IsReaders

\* A table with the decisions there were, of figures there were, and of new ones
\* nobody has decided.
LEMMA EditsGrow ==
    ASSUME NEW l, NEW n, IsEdited(l, n), NEW figure, NEW last \in Nat,
           IsTable(figure), AreApart(figure), DOMAIN figure \subseteq 1..last, l.last <= last,
           \A i \in DOMAIN figure :
              /\ i <= l.last => /\ i \in DOMAIN l.figure
                                /\ figure[i].identity = l.figure[i].identity
                                /\ figure[i].decision = l.figure[i].decision
              /\ i > l.last => figure[i].decision = Undecided,
           \A i \in DOMAIN l.figure : Decided(l.figure[i]) => i \in DOMAIN figure
    PROVE  LET new == [figure |-> figure, trail |-> l.trail, last |-> last]
           IN  IsEdited(new, n + 1) /\ Grows(l, new)
<1>1. PICK new : new = [figure |-> figure, trail |-> l.trail, last |-> last]
  OBVIOUS
<1>2. new.figure = figure /\ new.trail = l.trail /\ new.last = last
  BY <1>1
<1>3. /\ IsReviewed(l) /\ n \in Nat
      /\ \A i \in DOMAIN l.figure : l.figure[i].decision.at <= n
      /\ \A m \in DOMAIN l.trail : l.trail[m][2].at <= n
  BY DEF IsEdited
<1>4. /\ IsReport(l) /\ FiledOnce(l.trail)
      /\ \A m \in DOMAIN l.trail : /\ l.trail[m][1] \in DOMAIN l.figure
                                   /\ Decided(l.figure[l.trail[m][1]])
                                   /\ l.figure[l.trail[m][1]].decision # l.trail[m][2]
  BY <1>3 DEF IsReviewed
<1>5. /\ IsTable(l.figure) /\ l.trail \in Trails /\ l.last \in Nat
      /\ DOMAIN l.figure \subseteq 1..l.last
  BY <1>4 DEF IsReport
<1>6. Len(l.trail) \in Nat /\ \A m \in DOMAIN l.trail : l.trail[m] \in Nat \X Decisions
  BY <1>5 DEF Trails
<1>7. IsReport(new)
  BY <1>1, <1>2, <1>5 DEF IsReport
<1>8. ASSUME NEW i \in DOMAIN l.figure, Decided(l.figure[i])
      PROVE  /\ i \in DOMAIN figure /\ figure[i].decision = l.figure[i].decision
             /\ Decided(figure[i])
  <2>1. i \in 1..l.last /\ i \in DOMAIN figure
    BY <1>5, <1>8
  <2>2. i <= l.last
    BY <1>5, <2>1
  <2> QED
    BY <1>8, <2>1, <2>2 DEF Decided
<1>9. ASSUME NEW m \in DOMAIN l.trail
      PROVE  /\ l.trail[m][1] \in DOMAIN figure /\ Decided(figure[l.trail[m][1]])
             /\ figure[l.trail[m][1]].decision # l.trail[m][2]
  BY <1>4, <1>8
<1>10. IsReviewed(new)
  BY <1>2, <1>4, <1>7, <1>9 DEF IsReviewed
<1>11. ASSUME NEW i \in DOMAIN figure
       PROVE  figure[i].decision.at <= n + 1
  <2>1. i \in Nat
    BY DEF IsTable
  <2>2. CASE i <= l.last
    <3>1. i \in DOMAIN l.figure /\ figure[i].decision = l.figure[i].decision
      BY <2>2
    <3>2. l.figure[i].decision \in Sayings
      BY <1>5, <3>1 DEF IsTable, Figure, Sayings
    <3>3. l.figure[i].decision.at \in Nat
      BY <3>2 DEF Sayings, Decisions, Undecided
    <3> QED
      BY <1>3, <3>1, <3>3
  <2>3. CASE i > l.last
    BY <1>3, <2>3 DEF Undecided
  <2> QED
    BY <1>5, <2>1, <2>2, <2>3
<1>12. ASSUME NEW m \in DOMAIN l.trail
       PROVE  l.trail[m][2].at <= n + 1
  <2>1. l.trail[m][2] \in Decisions
    BY <1>6
  <2>2. l.trail[m][2].at \in Nat
    BY <2>1 DEF Decisions
  <2> QED
    BY <1>3, <2>2
<1>13. IsEdited(new, n + 1)
  BY <1>2, <1>3, <1>10, <1>11, <1>12 DEF IsEdited
<1>14. Grows(l, new)
  <2>1. Len(l.trail) <= Len(new.trail) /\ \A m \in DOMAIN l.trail : new.trail[m] = l.trail[m]
    BY <1>2, <1>6
  <2>2. l.last <= new.last
    BY <1>2
  <2> QED
    BY <1>2, <1>8, <2>1, <2>2 DEF Grows
<1> QED
  BY <1>1, <1>13, <1>14

\* What a figure is made of.
LEMMA FigureIs ==
    ASSUME NEW f \in Figure, NEW d \in Sayings, NEW same \in Nat \cup {Null}
    PROVE  /\ [f EXCEPT !.decision = d] \in Figure
           /\ [f EXCEPT !.decision = d].identity = f.identity
           /\ [f EXCEPT !.decision = d].decision = d
           /\ [f EXCEPT !.same = same] \in Figure
           /\ [f EXCEPT !.same = same].identity = f.identity
           /\ [f EXCEPT !.same = same].decision = f.decision
           /\ [f EXCEPT !.same = same].same = same
           /\ f.identity \in Identities /\ f.decision \in Sayings /\ f.same \in Nat \cup {Null}
BY DEF Figure, Sayings

\* New figures are the old ones with one, new or rewritten.
IsWith(new, figure, i, f) ==
    /\ IsTable(new)
    /\ DOMAIN new = DOMAIN figure \cup {i}
    /\ new[i] = f
    /\ \A j \in DOMAIN figure : j # i => new[j] = figure[j]

LEMMA WithIs ==
    ASSUME NEW figure, IsTable(figure), NEW i \in Nat, NEW f \in Figure
    PROVE  IsWith(With(figure, i, f), figure, i, f)
<1>1. PICK new : new = With(figure, i, f)
  OBVIOUS
<1>2. new = [j \in DOMAIN figure \cup {i} |-> IF j = i THEN f ELSE figure[j]]
  BY <1>1 DEF With
<1>3. /\ DOMAIN new = DOMAIN figure \cup {i} /\ new[i] = f
      /\ \A j \in DOMAIN figure : j # i => new[j] = figure[j]
  BY <1>2
<1>4. IsFiniteSet(DOMAIN figure \cup {i})
  BY FS_AddElement DEF IsTable
<1>5. \A j \in DOMAIN new : new[j] \in Figure
  BY <1>3 DEF IsTable
<1>6. DOMAIN new \subseteq Nat
  BY <1>3 DEF IsTable
<1>7. new = [j \in DOMAIN new |-> new[j]]
  BY <1>2, <1>3
<1>8. IsTable(new)
  BY <1>3, <1>4, <1>5, <1>6, <1>7 DEF IsTable
<1> QED
  BY <1>1, <1>3, <1>8 DEF IsWith

LEMMA WithoutIs ==
    ASSUME NEW figure, IsTable(figure), NEW gone
    PROVE  /\ IsTable(Without(figure, gone))
           /\ DOMAIN Without(figure, gone) = DOMAIN figure \ gone
           /\ \A j \in DOMAIN figure \ gone :
                 /\ Without(figure, gone)[j].identity = figure[j].identity
                 /\ Without(figure, gone)[j].decision = figure[j].decision
<1>1. PICK new : new = Without(figure, gone)
  OBVIOUS
<1>2. new = [i \in DOMAIN figure \ gone |->
                [figure[i] EXCEPT !.same = IF figure[i].same \in gone THEN Null ELSE @]]
  BY <1>1 DEF Without
<1>3. ASSUME NEW j \in DOMAIN figure \ gone
      PROVE  /\ new[j] \in Figure /\ new[j].identity = figure[j].identity
             /\ new[j].decision = figure[j].decision
  <2>1. figure[j] \in Figure
    BY DEF IsTable
  <2>2. PICK same : same = IF figure[j].same \in gone THEN Null ELSE figure[j].same
    OBVIOUS
  <2>3. same \in Nat \cup {Null}
    BY <2>1, <2>2 DEF Figure
  <2>4. new[j] = [figure[j] EXCEPT !.same = same]
    BY <1>2, <2>2
  <2>5. PICK was \in Figure : was = figure[j]
    BY <2>1
  <2>6. /\ [was EXCEPT !.same = same] \in Figure
        /\ [was EXCEPT !.same = same].identity = was.identity
        /\ [was EXCEPT !.same = same].decision = was.decision
    BY <2>3 DEF Figure
  <2> QED
    BY <2>4, <2>5, <2>6
<1>4. DOMAIN new = DOMAIN figure \ gone
  BY <1>2
<1>5. IsFiniteSet(DOMAIN figure \ gone)
  BY FS_Difference DEF IsTable
<1>6. new = [j \in DOMAIN new |-> new[j]]
  BY <1>2, <1>4
<1>7. DOMAIN new \subseteq Nat
  BY <1>4 DEF IsTable
<1>8. IsTable(new)
  BY <1>3, <1>4, <1>5, <1>6, <1>7 DEF IsTable
<1> QED
  BY <1>1, <1>3, <1>4, <1>8

\* An edit that leaves the trail, and what is decided of every figure it keeps.
LEMMA TableEdits ==
    ASSUME IsEdited(source, edits), NEW figure, NEW last \in Nat,
           Edit(figure, source.trail, last),
           IsTable(figure), AreApart(figure), DOMAIN figure \subseteq 1..last, source.last <= last,
           \A i \in DOMAIN figure :
              /\ i <= source.last => /\ i \in DOMAIN source.figure
                                     /\ figure[i].identity = source.figure[i].identity
                                     /\ figure[i].decision = source.figure[i].decision
              /\ i > source.last => figure[i].decision = Undecided,
           \A i \in DOMAIN source.figure : Decided(source.figure[i]) => i \in DOMAIN figure
    PROVE  IsEdited(source', edits') /\ Grows(source, source')
<1>1. PICK l, n : l = source /\ n = edits
  OBVIOUS
<1>2. IsEdited([figure |-> figure, trail |-> l.trail, last |-> last], n + 1)
      /\ Grows(l, [figure |-> figure, trail |-> l.trail, last |-> last])
  BY <1>1, EditsGrow
<1>3. source' = [figure |-> figure, trail |-> l.trail, last |-> last] /\ edits' = n + 1
  BY <1>1 DEF Edit
<1> QED
  BY <1>1, <1>2, <1>3

LEMMA SourceIs ==
    ASSUME IsEdited(source, edits)
    PROVE  /\ IsTable(source.figure) /\ AreApart(source.figure)
           /\ source.last \in Nat /\ DOMAIN source.figure \subseteq 1..source.last
           /\ DOMAIN source.figure \subseteq Nat /\ edits \in Nat /\ source.trail \in Trails
           /\ \A i \in DOMAIN source.figure : i <= source.last /\ source.figure[i] \in Figure
BY DEF IsEdited, IsReviewed, IsReport, IsTable

LEMMA InsertSteps ==
    ASSUME IsEdited(source, edits), NEW identity \in Identities, Insert(identity)
    PROVE  IsEdited(source', edits') /\ Grows(source, source')
<1>1. /\ IsTable(source.figure) /\ AreApart(source.figure)
      /\ source.last \in Nat /\ DOMAIN source.figure \subseteq 1..source.last
      /\ \A i \in DOMAIN source.figure : i <= source.last /\ source.figure[i] \in Figure
  BY SourceIs
<1>2. PICK id, f : id = source.last + 1 /\ f = NewFigure(identity)
  OBVIOUS
<1>3. /\ f \in Figure /\ f.identity = identity /\ f.decision = Undecided /\ id \in Nat
      /\ id \notin DOMAIN source.figure
  BY <1>1, <1>2 DEF NewFigure, Figure
<1>4. PICK new : new = With(source.figure, id, f)
  OBVIOUS
<1>5. /\ IsTable(new) /\ DOMAIN new = DOMAIN source.figure \cup {id} /\ new[id] = f
      /\ \A j \in DOMAIN source.figure : j # id => new[j] = source.figure[j]
  <2>1. PICK was : was = source.figure
    OBVIOUS
  <2>2. IsTable(was) /\ new = With(was, id, f)
    BY <1>1, <1>4, <2>1
  <2>3. IsWith(With(was, id, f), was, id, f)
    BY <1>3, <2>2, WithIs
  <2> QED
    BY <2>1, <2>2, <2>3 DEF IsWith
<1>6. \A i \in DOMAIN source.figure : source.figure[i].identity # identity
  BY DEF Insert
<1>7. AreApart(new)
  BY <1>1, <1>3, <1>5, <1>6 DEF AreApart
<1>8. Edit(new, source.trail, id)
  BY <1>2, <1>4 DEF Insert
<1>9. DOMAIN new \subseteq 1..id /\ source.last <= id
  BY <1>1, <1>2, <1>5
<1>10. ASSUME NEW i \in DOMAIN new
       PROVE  /\ i <= source.last => /\ i \in DOMAIN source.figure
                                     /\ new[i].identity = source.figure[i].identity
                                     /\ new[i].decision = source.figure[i].decision
              /\ i > source.last => new[i].decision = Undecided
  <2>1. CASE i = id
    BY <1>1, <1>2, <1>3, <1>5, <2>1
  <2>2. CASE i \in DOMAIN source.figure
    <3>1. i <= source.last /\ new[i] = source.figure[i] /\ i \in Nat
      BY <1>1, <1>3, <1>5, <2>2
    <3> QED
      BY <1>1, <2>2, <3>1
  <2> QED
    BY <1>5, <2>1, <2>2
<1>11. \A i \in DOMAIN source.figure : Decided(source.figure[i]) => i \in DOMAIN new
  BY <1>5
<1> QED
  BY <1>3, <1>5, <1>7, <1>8, <1>9, <1>10, <1>11, TableEdits

\* The same for an edit that adds no figure and says nothing of one.
LEMMA KeptEdits ==
    ASSUME IsEdited(source, edits), NEW figure,
           Edit(figure, source.trail, source.last),
           IsTable(figure), DOMAIN figure \subseteq DOMAIN source.figure,
           \A i \in DOMAIN figure : /\ figure[i].identity = source.figure[i].identity
                                    /\ figure[i].decision = source.figure[i].decision,
           \A i \in DOMAIN source.figure : Decided(source.figure[i]) => i \in DOMAIN figure
    PROVE  IsEdited(source', edits') /\ Grows(source, source')
<1>1. /\ AreApart(source.figure)
      /\ source.last \in Nat /\ DOMAIN source.figure \subseteq 1..source.last
      /\ \A i \in DOMAIN source.figure : i <= source.last
  BY SourceIs
<1>2. AreApart(figure)
  BY <1>1 DEF AreApart
<1>3. DOMAIN figure \subseteq 1..source.last /\ source.last <= source.last
  BY <1>1
<1>4. ASSUME NEW i \in DOMAIN figure
      PROVE  ~(i > source.last) /\ i \in DOMAIN source.figure
  <2>1. i \in Nat /\ i <= source.last
    BY <1>1
  <2> QED
    BY <1>1, <2>1
<1> QED
  BY <1>1, <1>2, <1>3, <1>4, TableEdits

LEMMA RetireSteps ==
    ASSUME IsEdited(source, edits), NEW i \in DOMAIN source.figure, Retire(i)
    PROVE  IsEdited(source', edits') /\ Grows(source, source')
<1>1. PICK new : new = Without(source.figure, {i})
  OBVIOUS
<1>2. IsTable(source.figure)
  BY SourceIs
<1>3. /\ IsTable(new) /\ DOMAIN new = DOMAIN source.figure \ {i}
      /\ \A j \in DOMAIN source.figure \ {i} :
            /\ new[j].identity = source.figure[j].identity
            /\ new[j].decision = source.figure[j].decision
  <2>1. PICK was, gone : was = source.figure /\ gone = {i}
    OBVIOUS
  <2>2. IsTable(was) /\ new = Without(was, gone)
    BY <1>1, <1>2, <2>1
  <2>3. /\ IsTable(Without(was, gone)) /\ DOMAIN Without(was, gone) = DOMAIN was \ gone
        /\ \A j \in DOMAIN was \ gone : /\ Without(was, gone)[j].identity = was[j].identity
                                        /\ Without(was, gone)[j].decision = was[j].decision
    BY <2>2, WithoutIs
  <2> QED
    BY <2>1, <2>2, <2>3
<1>4. Edit(new, source.trail, source.last) /\ ~Decided(source.figure[i])
  BY <1>1 DEF Retire
<1> QED
  BY <1>3, <1>4, KeptEdits

LEMMA LinkSteps ==
    ASSUME IsEdited(source, edits), NEW i \in DOMAIN source.figure, NEW j \in DOMAIN source.figure,
           Link(i, j)
    PROVE  IsEdited(source', edits') /\ Grows(source, source')
<1>1. IsTable(source.figure) /\ i \in Nat /\ j \in Nat /\ source.figure[i] \in Figure
  BY SourceIs
<1>2. PICK f : f = [source.figure[i] EXCEPT !.same = j]
  OBVIOUS
<1>3. f \in Figure /\ f.identity = source.figure[i].identity
      /\ f.decision = source.figure[i].decision
  BY <1>1, <1>2 DEF Figure
<1>4. PICK new : new = With(source.figure, i, f)
  OBVIOUS
<1>5. /\ IsTable(new) /\ DOMAIN new = DOMAIN source.figure \cup {i} /\ new[i] = f
      /\ \A k \in DOMAIN source.figure : k # i => new[k] = source.figure[k]
  <2>1. PICK was : was = source.figure
    OBVIOUS
  <2>2. IsTable(was) /\ new = With(was, i, f)
    BY <1>1, <1>4, <2>1
  <2>3. IsWith(With(was, i, f), was, i, f)
    BY <1>1, <1>3, <2>2, WithIs
  <2> QED
    BY <2>1, <2>2, <2>3 DEF IsWith
<1>6. Edit(new, source.trail, source.last)
  BY <1>2, <1>4 DEF Link
<1>7. \A k \in DOMAIN new : /\ new[k].identity = source.figure[k].identity
                            /\ new[k].decision = source.figure[k].decision
  BY <1>3, <1>5
<1>8. DOMAIN new = DOMAIN source.figure
  BY <1>5
<1> QED
  BY <1>5, <1>6, <1>7, <1>8, KeptEdits

LEMMA UnlinkSteps ==
    ASSUME IsEdited(source, edits), Unlink
    PROVE  IsEdited(source', edits') /\ Grows(source, source')
<1>1. IsTable(source.figure)
  BY SourceIs
<1>2. PICK new : new = [i \in DOMAIN source.figure |-> [source.figure[i] EXCEPT !.same = Null]]
  OBVIOUS
<1>3. Edit(new, source.trail, source.last)
  BY <1>2 DEF Unlink
<1>4. DOMAIN new = DOMAIN source.figure
  BY <1>2
<1>5. ASSUME NEW i \in DOMAIN new
      PROVE  /\ new[i] \in Figure /\ new[i].identity = source.figure[i].identity
             /\ new[i].decision = source.figure[i].decision
  <2>1. source.figure[i] \in Figure
    BY <1>1, <1>4 DEF IsTable
  <2>2. new[i] = [source.figure[i] EXCEPT !.same = Null]
    BY <1>2, <1>4
  <2> QED
    BY <2>1, <2>2 DEF Figure
<1>6. IsTable(new)
  <2>1. new = [i \in DOMAIN new |-> new[i]]
    BY <1>2, <1>4
  <2>2. DOMAIN new \subseteq Nat /\ IsFiniteSet(DOMAIN new)
    BY <1>1, <1>4 DEF IsTable
  <2> QED
    BY <1>5, <2>1, <2>2 DEF IsTable
<1> QED
  BY <1>3, <1>4, <1>5, <1>6, KeptEdits

\* A first decision, or one instead of another, which is filed.
LEMMA DecideSteps ==
    ASSUME IsEdited(source, edits), NEW i \in DOMAIN source.figure,
           NEW status \in {"verified", "rejected"}, Decide(i, status)
    PROVE  IsEdited(source', edits') /\ Grows(source, source')
<1>1. PICK l, n, f, d : /\ l = source /\ n = edits /\ f = l.figure[i]
                        /\ d = [status |-> status, at |-> n + 1]
  OBVIOUS
<1>2. /\ IsReviewed(l) /\ n \in Nat
      /\ \A j \in DOMAIN l.figure : l.figure[j].decision.at <= n
      /\ \A m \in DOMAIN l.trail : l.trail[m][2].at <= n
  BY <1>1 DEF IsEdited
<1>3. /\ IsReport(l) /\ AreApart(l.figure) /\ FiledOnce(l.trail)
      /\ \A m \in DOMAIN l.trail : /\ l.trail[m][1] \in DOMAIN l.figure
                                   /\ Decided(l.figure[l.trail[m][1]])
                                   /\ l.figure[l.trail[m][1]].decision # l.trail[m][2]
  BY <1>2 DEF IsReviewed
<1>4. /\ IsTable(l.figure) /\ l.trail \in Trails /\ l.last \in Nat
      /\ DOMAIN l.figure \subseteq 1..l.last
  BY <1>3 DEF IsReport
<1>5. i \in Nat /\ i \in DOMAIN l.figure /\ f \in Figure
  BY <1>1, <1>4 DEF IsTable
<1>6. /\ d \in Decisions /\ d \in Sayings /\ d # Undecided /\ d.at = n + 1
  <2>1. n + 1 \in Nat \ {0}
    BY <1>2
  <2>2. d.at = n + 1 /\ Undecided.at = 0
    BY <1>1 DEF Undecided
  <2> QED
    BY <1>1, <2>1, <2>2 DEF Decisions, Sayings
<1>7. PICK anew : anew = [f EXCEPT !.decision = d]
  OBVIOUS
<1>8. anew \in Figure /\ anew.identity = f.identity /\ anew.decision = d /\ Decided(anew)
  BY <1>5, <1>6, <1>7 DEF Figure, Decided, Sayings
<1>9. PICK figure : figure = With(l.figure, i, anew)
  OBVIOUS
<1>10. /\ IsTable(figure) /\ DOMAIN figure = DOMAIN l.figure /\ figure[i] = anew
       /\ \A j \in DOMAIN l.figure : j # i => figure[j] = l.figure[j]
  <2>1. PICK was : was = l.figure
    OBVIOUS
  <2>2. IsTable(was) /\ figure = With(was, i, anew)
    BY <1>4, <1>9, <2>1
  <2>3. i \in Nat /\ anew \in Figure
    BY <1>5, <1>8
  <2>4. IsWith(With(was, i, anew), was, i, anew)
    BY <2>2, <2>3, WithIs
  <2> QED
    BY <1>5, <2>1, <2>2, <2>4 DEF IsWith
<1>11. PICK past, trail : /\ past = <<i, f.decision>>
                          /\ trail = IF Decided(f) THEN Append(l.trail, past) ELSE l.trail
  OBVIOUS
<1>12. PICK new : new = [figure |-> figure, trail |-> trail, last |-> l.last]
  OBVIOUS
<1>13. new.figure = figure /\ new.trail = trail /\ new.last = l.last
  BY <1>12
<1>14. source' = new /\ edits' = n + 1
  BY <1>1, <1>7, <1>9, <1>11, <1>12 DEF Decide, Edit
<1>15. ASSUME Decided(f)
       PROVE  /\ past \in Nat \X Decisions /\ past[1] = i /\ past[2] = f.decision
              /\ f.decision \in Decisions
  BY <1>5, <1>11, <1>15 DEF Decided, Figure
<1>16. /\ trail \in Trails /\ Len(l.trail) \in Nat /\ DOMAIN l.trail = 1..Len(l.trail)
       /\ DOMAIN trail = IF Decided(f) THEN 1..Len(l.trail) + 1 ELSE 1..Len(l.trail)
       /\ Len(trail) = IF Decided(f) THEN Len(l.trail) + 1 ELSE Len(l.trail)
       /\ \A m \in DOMAIN l.trail : trail[m] = l.trail[m]
       /\ Decided(f) => trail[Len(l.trail) + 1] = past
  BY <1>4, <1>11, <1>15 DEF Trails
<1>17. \A m \in DOMAIN l.trail : l.trail[m] \in Nat \X Decisions
  BY <1>4 DEF Trails
<1>18. ASSUME NEW m \in DOMAIN trail
       PROVE  \/ m \in DOMAIN l.trail /\ trail[m] = l.trail[m]
              \/ Decided(f) /\ m = Len(l.trail) + 1 /\ trail[m] = past
  <2>1. CASE m \in DOMAIN l.trail
    BY <1>16, <2>1
  <2>2. CASE m \notin DOMAIN l.trail
    BY <1>16, <2>2
  <2> QED
    BY <2>1, <2>2
<1>19. \A m \in DOMAIN l.trail : Decided(f) => l.trail[m] # past
  <2> SUFFICES ASSUME NEW m \in DOMAIN l.trail, Decided(f), l.trail[m] = past
               PROVE  FALSE
    OBVIOUS
  <2>1. l.trail[m][1] = i /\ l.trail[m][2] = f.decision
    BY <1>15
  <2> QED
    BY <1>1, <1>3, <2>1
<1>20. FiledOnce(trail)
  <2> SUFFICES ASSUME NEW m \in DOMAIN trail, NEW k \in DOMAIN trail, trail[m] = trail[k]
               PROVE  m = k
    BY DEF FiledOnce
  <2> QED
    BY <1>3, <1>18, <1>19 DEF FiledOnce
<1>21. ASSUME NEW m \in DOMAIN trail
       PROVE  /\ trail[m][1] \in DOMAIN figure /\ Decided(figure[trail[m][1]])
              /\ figure[trail[m][1]].decision # trail[m][2]
              /\ trail[m][2].at <= n /\ trail[m][2].at \in Nat
  <2>1. CASE m \in DOMAIN l.trail /\ trail[m] = l.trail[m]
    <3>1. /\ l.trail[m][2].at <= n /\ l.trail[m][2].at \in Nat
      BY <1>2, <1>17, <2>1 DEF Decisions
    <3>2. CASE l.trail[m][1] = i
      <4>1. d # l.trail[m][2]
        BY <1>2, <1>6, <3>1
      <4> QED
        BY <1>5, <1>8, <1>10, <2>1, <3>1, <3>2, <4>1
    <3>3. CASE l.trail[m][1] # i
      <4>1. figure[l.trail[m][1]] = l.figure[l.trail[m][1]] /\ l.trail[m][1] \in DOMAIN figure
        BY <1>3, <1>10, <2>1, <3>3
      <4> QED
        BY <1>3, <2>1, <3>1, <4>1
    <3> QED
      BY <3>2, <3>3
  <2>2. CASE Decided(f) /\ trail[m] = past
    <3>1. f.decision.at <= n /\ f.decision.at \in Nat
      BY <1>1, <1>2, <1>15, <2>2 DEF Decisions
    <3>2. trail[m][1] = i /\ trail[m][2] = f.decision /\ d # f.decision
      BY <1>2, <1>6, <1>15, <2>2, <3>1
    <3> QED
      BY <1>5, <1>8, <1>10, <3>1, <3>2
  <2> QED
    BY <1>18, <2>1, <2>2
<1>22. AreApart(figure)
  <2>1. \A j \in DOMAIN figure : figure[j].identity = l.figure[j].identity
    BY <1>1, <1>8, <1>10
  <2> QED
    BY <1>3, <1>10, <2>1 DEF AreApart
<1>23. IsReport(new)
  BY <1>4, <1>10, <1>12, <1>13, <1>16 DEF IsReport
<1>24. IsReviewed(new)
  BY <1>13, <1>20, <1>21, <1>22, <1>23 DEF IsReviewed
<1>25. ASSUME NEW j \in DOMAIN figure
       PROVE  figure[j].decision.at <= n + 1
  <2>1. CASE j = i
    BY <1>2, <1>6, <1>8, <1>10, <2>1
  <2>2. CASE j # i
    <3>1. figure[j] = l.figure[j] /\ l.figure[j] \in Figure
      BY <1>4, <1>10, <2>2 DEF IsTable
    <3>2. l.figure[j].decision.at \in Nat /\ l.figure[j].decision.at <= n
      BY <1>2, <1>10, <3>1 DEF Figure, Decisions, Undecided
    <3> QED
      BY <1>2, <3>1, <3>2
  <2> QED
    BY <2>1, <2>2
<1>26. \A m \in DOMAIN trail : trail[m][2].at <= n + 1
  BY <1>2, <1>21
<1>27. IsEdited(new, n + 1)
  BY <1>2, <1>13, <1>24, <1>25, <1>26 DEF IsEdited
<1>28. ASSUME NEW j \in DOMAIN l.figure, Decided(l.figure[j])
       PROVE  /\ j \in DOMAIN figure /\ Decided(figure[j])
              /\ \/ figure[j].decision = l.figure[j].decision
                 \/ <<j, l.figure[j].decision>> \in Filed(trail)
  <2>1. CASE j = i
    <3>1. Decided(f) /\ Len(l.trail) + 1 \in DOMAIN trail /\ trail[Len(l.trail) + 1] = past
      BY <1>1, <1>16, <1>28, <2>1
    <3>2. past \in Filed(trail)
      BY <3>1 DEF Filed
    <3> QED
      BY <1>1, <1>8, <1>10, <1>11, <2>1, <3>2
  <2>2. CASE j # i
    BY <1>10, <1>28, <2>2
  <2> QED
    BY <2>1, <2>2
<1>29. Grows(l, new)
  <2>1. Len(l.trail) <= Len(trail) /\ l.last <= l.last
    BY <1>4, <1>16
  <2>2. \A j \in DOMAIN figure : j \in DOMAIN l.figure /\ figure[j].identity = l.figure[j].identity
    BY <1>1, <1>8, <1>10
  <2> QED
    BY <1>13, <1>16, <1>28, <2>1, <2>2 DEF Grows
<1> QED
  BY <1>1, <1>14, <1>27, <1>29

LEMMA SourceSteps ==
    ASSUME IsEdited(source, edits), ReviewOrParse
    PROVE  /\ IsEdited(source', edits') /\ Grows(source, source')
           /\ UNCHANGED <<target, lock, run>>
<1>1. \/ \E i \in DOMAIN source.figure :
            \/ \E status \in {"verified", "rejected"} : Decide(i, status)
            \/ Retire(i)
            \/ \E j \in DOMAIN source.figure : Link(i, j)
      \/ \E identity \in Identities : Insert(identity)
      \/ Unlink
  BY DEF ReviewOrParse
<1>2. CASE \E i \in DOMAIN source.figure, status \in {"verified", "rejected"} : Decide(i, status)
  BY <1>2, DecideSteps DEF Decide, Edit
<1>3. CASE \E i \in DOMAIN source.figure : Retire(i)
  BY <1>3, RetireSteps DEF Retire, Edit
<1>4. CASE \E i \in DOMAIN source.figure, j \in DOMAIN source.figure : Link(i, j)
  BY <1>4, LinkSteps DEF Link, Edit
<1>5. CASE \E identity \in Identities : Insert(identity)
  BY <1>5, InsertSteps DEF Insert, Edit
<1>6. CASE Unlink
  BY <1>6, UnlinkSteps DEF Unlink, Edit
<1> QED
  BY <1>1, <1>2, <1>3, <1>4, <1>5, <1>6

-----------------------------------------------------------------------------
(* Each step keeps every run on its track.                                   *)

AtRest == {"idle", "put", "count", "begin"}
Refreshing == {"sourceTrail", "targetFigures", "targetTrail", "apply", "check", "checkTrail"}

\* While the source goes on, what a run knows of it stays so.
LEMMA TracksStand ==
    ASSUME NEW l, NEW new, IsReviewed(l), IsReviewed(new), Grows(l, new),
           NEW p, NEW r, NEW tgt, NEW held, IsOnTrack(p, r, l, tgt, held)
    PROVE  IsOnTrack(p, r, new, tgt, held)
<1>1. l.trail \in Trails /\ new.trail \in Trails
  BY DEF IsReviewed, IsReport
<1>2. Len(l.trail) \in Nat /\ Len(new.trail) \in Nat /\ Len(l.trail) <= Len(new.trail)
      /\ DOMAIN l.trail = 1..Len(l.trail)
  BY <1>1 DEF Trails, Grows
<1>3. ASSUME r.pc \in {"begin", "figures", "history", "compare"}
      PROVE  r.expected[3] \in 0..Len(new.trail)
  <2>1. r.expected[3] \in 0..Len(l.trail)
    BY <1>3 DEF IsOnTrack
  <2> QED
    BY <1>2, <2>1
<1>4. ASSUME r.pc \in {"history", "compare", "checkTrail"}
      PROVE  IsReviewed(r.asRead) /\ WasRead(r.asRead.figure, r.asRead.trail, new)
  <2>1. IsReviewed(r.asRead) /\ WasRead(r.asRead.figure, r.asRead.trail, l)
    BY <1>4 DEF IsOnTrack
  <2> QED
    BY <2>1, ReadsStand
<1>5. ASSUME r.pc = "compare"
      PROVE  IsCopied(r.work, r.asRead.figure, new) /\ Len(r.asRead.trail) <= Len(r.work.trail)
  <2>1. IsCopied(r.work, r.asRead.figure, l) /\ Len(r.asRead.trail) <= Len(r.work.trail)
    BY <1>5 DEF IsOnTrack
  <2>2. /\ IsReport(r.work) /\ r.work.figure = Remapped(r.asRead.figure)
        /\ Len(r.work.trail) <= Len(l.trail)
        /\ \A n \in DOMAIN r.work.trail :
              /\ l.trail[n][1] \in DOMAIN r.asRead.figure
              /\ r.work.trail[n] = <<Rank(DOMAIN r.asRead.figure, l.trail[n][1]), l.trail[n][2]>>
    BY <2>1 DEF IsCopied
  <2>3. r.work.trail \in Trails
    BY <2>2 DEF IsReport
  <2>4. Len(r.work.trail) \in Nat /\ DOMAIN r.work.trail = 1..Len(r.work.trail)
    BY <2>3 DEF Trails
  <2>5. \A n \in DOMAIN r.work.trail : n \in DOMAIN l.trail
    BY <1>2, <2>2, <2>4
  <2>6. \A n \in DOMAIN r.work.trail : new.trail[n] = l.trail[n]
    BY <2>5 DEF Grows
  <2>7. Len(r.work.trail) <= Len(new.trail)
    BY <1>2, <2>2, <2>4
  <2> QED
    BY <2>1, <2>2, <2>6, <2>7 DEF IsCopied
<1>6. r.pc = "sourceTrail" => WasRead(r.figure, <<>>, new)
  BY ReadsStand DEF IsOnTrack
<1>7. r.pc \in {"targetFigures", "targetTrail"} => WasRead(r.figure, r.trail, new)
  BY ReadsStand DEF IsOnTrack
<1>8. r.pc = "apply" => IsPlanned(r.plan, tgt, new)
  BY CopiesStand DEF IsOnTrack
<1>9. r.pc \in {"check", "checkTrail"} => held = p /\ IsReaders(r.work, new) /\ KeepsTarget(r.work, tgt)
  BY CopiesStand DEF IsOnTrack
<1>10. /\ r.pc \in Pcs
       /\ r.pc \in {"figures", "history", "compare"} => tgt = Null /\ held = p
       /\ r.pc \in {"history", "compare"} =>
             /\ r.expected[3] <= Len(r.asRead.trail)
             /\ \A i \in DOMAIN r.asRead.figure : r.asRead.figure[i].identity \notin Scanned
       /\ r.pc \in Refreshing => tgt # Null
       /\ r.pc = "targetTrail" => r.held = tgt.figure
       /\ r.pc = "checkTrail" => IsCopyOf(r.work, r.asRead) /\ IsCopyOf(tgt, r.asRead)
  BY DEF IsOnTrack, Refreshing
<1> QED
  BY <1>3, <1>4, <1>5, <1>6, <1>7, <1>8, <1>9, <1>10 DEF IsOnTrack, Refreshing

\* The lock is another's business but its holder's.
LEMMA LockPasses ==
    ASSUME NEW p, NEW r, NEW l, NEW tgt, NEW held, NEW other, IsOnTrack(p, r, l, tgt, held),
           held = p => other = p
    PROVE  IsOnTrack(p, r, l, tgt, other)
BY DEF IsOnTrack

\* A run that has neither written nor begun to refresh knows next to nothing.
LEMMA RestsOnTrack ==
    ASSUME NEW p, NEW r, NEW l, NEW tgt, NEW held, NEW to, NEW other,
           IsOnTrack(p, r, l, tgt, held), r.pc \in AtRest
    PROVE  IsOnTrack(p, r, l, to, other)
BY DEF IsOnTrack, AtRest, Pcs

LEMMA AtRestOnTrack ==
    ASSUME NEW p, NEW l, NEW tgt, NEW held, NEW pc \in {"idle", "put", "count"}
    PROVE  IsOnTrack(p, [pc |-> pc], l, tgt, held)
<1>1. PICK r : r = [pc |-> pc]
  OBVIOUS
<1>2. r.pc = pc
  BY <1>1
<1> QED
  BY <1>1, <1>2 DEF IsOnTrack, Pcs

LEMMA EditsKeep == ASSUME PromotionInv, ReviewOrParse PROVE PromotionInv'
<1>1. /\ IsEdited(source', edits') /\ Grows(source, source')
      /\ UNCHANGED <<target, lock, run>>
  BY SourceSteps DEF PromotionInv
<1>2. PICK l, new : l = source /\ new = source'
  OBVIOUS
<1>3. IsReviewed(l) /\ IsReviewed(new) /\ Grows(l, new)
  BY <1>1, <1>2 DEF PromotionInv, IsEdited
<1>4. ASSUME target # Null
      PROVE  IsToldNow(target, new)
  <2>1. IsToldNow(target, l)
    BY <1>2, <1>4 DEF PromotionInv
  <2> QED
    BY <1>3, <2>1, CopiesStand DEF IsToldNow
<1>5. ASSUME NEW p \in Runs
      PROVE  IsOnTrack(p, run[p], new, target, lock)
  <2>1. IsOnTrack(p, run[p], l, target, lock)
    BY <1>2 DEF PromotionInv
  <2> QED
    BY <1>3, <2>1, TracksStand
<1>6. OneRefreshes'
  BY <1>1 DEF PromotionInv, OneRefreshes, IsRefreshing
<1>7. (run = [p \in Runs |-> run[p]])'
  BY <1>1 DEF PromotionInv
<1> QED
  BY <1>1, <1>2, <1>4, <1>5, <1>6, <1>7 DEF PromotionInv

\* A step of one run that commits nothing.
LEMMA RunKeeps ==
    ASSUME PromotionInv, NEW p \in Runs, NEW now, Goes(p, now),
           UNCHANGED <<source, target, edits>>,
           \A q \in Runs : q # p => (lock = q => lock' = q),
           IsOnTrack(p, now, source, target, lock'),
           now.pc \in Refreshing => IsRefreshing(p) \/ \A q \in Runs : ~IsRefreshing(q)
    PROVE  PromotionInv'
<1>1. /\ run' = [q \in Runs |-> run'[q]] /\ run'[p] = now
      /\ \A q \in Runs : q # p => run'[q] = run[q]
  BY DEF PromotionInv, Goes
<1>2. ASSUME NEW q \in Runs
      PROVE  IsOnTrack(q, run'[q], source, target, lock')
  <2>1. CASE q = p
    BY <1>1, <2>1
  <2>2. CASE q # p
    <3>1. IsOnTrack(q, run[q], source, target, lock)
      BY DEF PromotionInv
    <3>2. lock = q => lock' = q
      BY <2>2
    <3> QED
      BY <1>1, <2>2, <3>1, <3>2, LockPasses
  <2> QED
    BY <2>1, <2>2
<1>3. ASSUME NEW q \in Runs, IsRefreshing(q)'
      PROVE  \/ IsRefreshing(q) 
             \/ q = p /\ \A o \in Runs : ~IsRefreshing(o)
  <2>1. run'[q].pc \in Refreshing
    BY <1>3 DEF IsRefreshing, Refreshing
  <2>2. CASE q = p
    BY <1>1, <2>1, <2>2
  <2>3. CASE q # p
    BY <1>1, <2>1, <2>3 DEF IsRefreshing, Refreshing
  <2> QED
    BY <2>2, <2>3
<1>4. OneRefreshes'
  <2>1. \A q, o \in Runs : IsRefreshing(q) /\ IsRefreshing(o) => q = o
    BY DEF PromotionInv, OneRefreshes
  <2>2. \A q, o \in Runs : IsRefreshing(q)' /\ IsRefreshing(o)' => q = o
    BY <1>3, <2>1
  <2> QED
    BY <2>2 DEF OneRefreshes
<1>5. IsEdited(source', edits')
  BY DEF PromotionInv
<1>6. target' # Null => IsToldNow(target', source')
  BY DEF PromotionInv
<1>7. \A q \in Runs : IsOnTrack(q, run'[q], source', target', lock')
  BY <1>2
<1> QED
  BY <1>1, <1>4, <1>5, <1>6, <1>7 DEF PromotionInv

\* A step of one run that commits, while no other has written or begun to refresh.
LEMMA CommitKeeps ==
    ASSUME PromotionInv, NEW p \in Runs, Goes(p, Idle), UNCHANGED <<source, edits>>,
           \A q \in Runs : q # p => run[q].pc \in AtRest,
           IsToldNow(target', source)
    PROVE  PromotionInv'
<1>1. /\ run' = [q \in Runs |-> run'[q]] /\ run'[p] = Idle
      /\ \A q \in Runs : q # p => run'[q] = run[q]
  BY DEF PromotionInv, Goes
<1>2. ASSUME NEW q \in Runs
      PROVE  IsOnTrack(q, run'[q], source, target', lock') /\ run'[q].pc \in AtRest
  <2>1. CASE q = p
    <3>1. IsOnTrack(q, [pc |-> "idle"], source, target', lock')
      BY AtRestOnTrack
    <3> QED
      BY <1>1, <2>1, <3>1 DEF Idle, AtRest
  <2>2. CASE q # p
    <3>1. IsOnTrack(q, run[q], source, target, lock)
      BY DEF PromotionInv
    <3>2. run[q].pc \in AtRest
      BY <2>2
    <3> QED
      BY <1>1, <2>2, <3>1, <3>2, RestsOnTrack
  <2> QED
    BY <2>1, <2>2
<1>3. \A q \in Runs : ~IsRefreshing(q)'
  BY <1>2 DEF IsRefreshing, AtRest
<1>4. OneRefreshes'
  BY <1>3 DEF OneRefreshes
<1>5. IsEdited(source', edits')
  BY DEF PromotionInv
<1> QED
  BY <1>1, <1>2, <1>4, <1>5 DEF PromotionInv

\* Figures numbered anew are the same figures, linked as they were.
LEMMA RemappedIs ==
    ASSUME NEW figure, IsTable(figure)
    PROVE  /\ IsTable(Remapped(figure))
           /\ Cardinality(DOMAIN figure) \in Nat
           /\ DOMAIN Remapped(figure) = 1..Cardinality(DOMAIN figure)
           /\ \A i \in DOMAIN figure : Rank(DOMAIN figure, i) \in DOMAIN Remapped(figure)
           /\ \A i, j \in DOMAIN figure : Rank(DOMAIN figure, i) = Rank(DOMAIN figure, j) => i = j
           /\ \A n \in DOMAIN Remapped(figure) : \E i \in DOMAIN figure : n = Rank(DOMAIN figure, i)
           /\ \A i \in DOMAIN figure :
                 LET f == Remapped(figure)[Rank(DOMAIN figure, i)]
                 IN  /\ f.identity = figure[i].identity /\ f.decision = figure[i].decision
                     /\ f.same = IF figure[i].same \in DOMAIN figure
                                 THEN Rank(DOMAIN figure, figure[i].same) ELSE Null
<1>1. PICK ids, N, rows, new : /\ ids = DOMAIN figure /\ N = Cardinality(ids)
                               /\ rows = InOrder(figure, ids) /\ new = Remapped(figure)
  OBVIOUS
<1>2. ids \in SUBSET Nat /\ IsFiniteSet(ids) /\ \A i \in ids : figure[i] \in Figure
  BY <1>1 DEF IsTable
<1>3. /\ N \in Nat /\ DOMAIN rows = 1..N
      /\ \A n \in 1..N : /\ NthOf(ids, n) \in ids /\ Rank(ids, NthOf(ids, n)) = n
                         /\ rows[n] = figure[NthOf(ids, n)]
      /\ \A i \in ids : Rank(ids, i) \in 1..N /\ NthOf(ids, Rank(ids, i)) = i
  BY <1>1, <1>2, InOrderIs
<1>4. \A i, j \in ids : Rank(ids, i) = Rank(ids, j) => i = j
  BY <1>2, PlacesAreTaken
<1>5. new = [n \in 1..N |-> [rows[n] EXCEPT !.same = IF rows[n].same \in ids
                                                     THEN Rank(ids, rows[n].same) ELSE Null]]
  BY <1>1, <1>3 DEF Remapped
<1>6. DOMAIN new = 1..N
  BY <1>5
<1>7. ASSUME NEW n \in 1..N
      PROVE  /\ new[n] \in Figure
             /\ new[n].identity = figure[NthOf(ids, n)].identity
             /\ new[n].decision = figure[NthOf(ids, n)].decision
             /\ new[n].same = IF figure[NthOf(ids, n)].same \in ids
                              THEN Rank(ids, figure[NthOf(ids, n)].same) ELSE Null
  <2>1. PICK f : f = figure[NthOf(ids, n)]
    OBVIOUS
  <2>2. f \in Figure /\ rows[n] = f
    BY <1>2, <1>3, <2>1
  <2>3. PICK same : same = IF f.same \in ids THEN Rank(ids, f.same) ELSE Null
    OBVIOUS
  <2>4. same \in Nat \cup {Null}
    BY <1>3, <2>3
  <2>5. new[n] = [f EXCEPT !.same = same]
    BY <1>5, <2>2, <2>3
  <2>6. new[n] \in Figure /\ new[n].identity = f.identity /\ new[n].decision = f.decision
        /\ new[n].same = same
    BY <2>2, <2>4, <2>5 DEF Figure
  <2> QED
    BY <2>1, <2>3, <2>6
<1>8. IsTable(new)
  <2>1. new = [n \in DOMAIN new |-> new[n]]
    BY <1>5, <1>6
  <2>2. IsFiniteSet(1..N)
    BY <1>3, FS_Interval
  <2>3. DOMAIN new \subseteq Nat
    BY <1>3, <1>6
  <2> QED
    BY <1>6, <1>7, <2>1, <2>2, <2>3 DEF IsTable
<1>9. ASSUME NEW i \in ids
      PROVE  /\ new[Rank(ids, i)].identity = figure[i].identity
             /\ new[Rank(ids, i)].decision = figure[i].decision
             /\ new[Rank(ids, i)].same = IF figure[i].same \in ids
                                         THEN Rank(ids, figure[i].same) ELSE Null
  <2>1. PICK n : n = Rank(ids, i)
    OBVIOUS
  <2>2. n \in 1..N /\ NthOf(ids, n) = i
    BY <1>3, <2>1
  <2> QED
    BY <1>7, <2>1, <2>2
<1>10. \A n \in 1..N : \E i \in ids : n = Rank(ids, i)
  <2> SUFFICES ASSUME NEW n \in 1..N
               PROVE  \E i \in ids : n = Rank(ids, i)
    OBVIOUS
  <2> QED
    BY <1>3
<1> QED
  BY <1>1, <1>3, <1>4, <1>6, <1>8, <1>9, <1>10

HasTrailOf(work, was) ==
    /\ DOMAIN work.trail = DOMAIN was.trail
    /\ \A n \in DOMAIN was.trail :
          /\ was.trail[n][1] \in DOMAIN was.figure
          /\ work.trail[n][1] = Rank(DOMAIN was.figure, was.trail[n][1])
          /\ work.trail[n][2] = was.trail[n][2]

\* A copy of what was read of a reviewed ledger may be told.
LEMMA CopiedIsTold ==
    ASSUME NEW l, NEW was, NEW work, IsReviewed(l), IsReviewed(was),
           WasRead(was.figure, was.trail, l), IsCopied(work, was.figure, l),
           \A i \in DOMAIN was.figure : was.figure[i].identity \notin Scanned,
           Len(work.trail) = Len(was.trail)
    PROVE  IsToldNow(work, l) /\ HasTrailOf(work, was)
<1> DEFINE rank(i) == Rank(DOMAIN was.figure, i)
<1>1. /\ IsReport(work) /\ work.figure = Remapped(was.figure)
      /\ \A n \in DOMAIN work.trail : /\ l.trail[n][1] \in DOMAIN was.figure
                                      /\ work.trail[n] = <<rank(l.trail[n][1]), l.trail[n][2]>>
  BY DEF IsCopied
<1>2. IsTable(was.figure) /\ AreApart(was.figure) /\ was.trail \in Trails
  BY DEF WasRead
<1>3. /\ \A i \in DOMAIN was.figure : rank(i) \in DOMAIN work.figure
      /\ \A i, j \in DOMAIN was.figure : rank(i) = rank(j) => i = j
      /\ \A n \in DOMAIN work.figure : \E i \in DOMAIN was.figure : n = rank(i)
      /\ \A i \in DOMAIN was.figure : /\ work.figure[rank(i)].identity = was.figure[i].identity
                                      /\ work.figure[rank(i)].decision = was.figure[i].decision
  <2>1. PICK figure, new : figure = was.figure /\ new = Remapped(figure)
    OBVIOUS
  <2>2. IsTable(figure)
    BY <1>2, <2>1
  <2>3. /\ \A i \in DOMAIN figure : Rank(DOMAIN figure, i) \in DOMAIN new
        /\ \A i, j \in DOMAIN figure : Rank(DOMAIN figure, i) = Rank(DOMAIN figure, j) => i = j
        /\ \A n \in DOMAIN new : \E i \in DOMAIN figure : n = Rank(DOMAIN figure, i)
    BY <2>1, <2>2, RemappedIs
  <2>4. \A i \in DOMAIN figure : /\ new[Rank(DOMAIN figure, i)].identity = figure[i].identity
                                /\ new[Rank(DOMAIN figure, i)].decision = figure[i].decision
    BY <2>1, <2>2, RemappedIs
  <2> QED
    BY <1>1, <2>1, <2>3, <2>4
<1> HIDE DEF rank
<1>4. work.trail \in Trails /\ l.trail \in Trails
  BY <1>1 DEF IsReport, IsReviewed
<1>5. /\ DOMAIN work.trail = 1..Len(work.trail) /\ DOMAIN was.trail = 1..Len(was.trail)
      /\ Len(was.trail) \in Nat /\ Len(l.trail) \in Nat /\ DOMAIN l.trail = 1..Len(l.trail)
  BY <1>2, <1>4 DEF Trails
<1>6. DOMAIN work.trail = DOMAIN was.trail
  BY <1>5
<1>7. ASSUME NEW n \in DOMAIN was.trail
      PROVE  /\ n \in DOMAIN l.trail /\ l.trail[n] = was.trail[n]
             /\ l.trail[n] \in Nat \X Decisions /\ was.trail[n][1] \in DOMAIN was.figure
             /\ work.trail[n][1] = rank(was.trail[n][1]) /\ work.trail[n][2] = was.trail[n][2]
  <2>1. l.trail[n] = was.trail[n] /\ Len(was.trail) <= Len(l.trail)
    BY DEF WasRead
  <2>2. n \in DOMAIN l.trail
    BY <1>5, <2>1
  <2>3. l.trail[n] \in Nat \X Decisions
    BY <1>4, <1>5, <2>2 DEF Trails
  <2>4. was.trail[n][1] \in DOMAIN was.figure
    BY <1>1, <1>6, <2>1
  <2>5. work.trail[n] = <<rank(was.trail[n][1]), was.trail[n][2]>>
    BY <1>1, <1>6, <2>1
  <2> QED
    BY <2>1, <2>2, <2>3, <2>4, <2>5
<1>8. AreApart(work.figure)
  <2> SUFFICES ASSUME NEW n \in DOMAIN work.figure, NEW m \in DOMAIN work.figure,
                      work.figure[n].identity \notin Shared,
                      work.figure[n].identity = work.figure[m].identity
               PROVE  n = m
    BY DEF AreApart
  <2>1. PICK i \in DOMAIN was.figure, j \in DOMAIN was.figure : n = rank(i) /\ m = rank(j)
    BY <1>3
  <2>2. was.figure[i].identity = was.figure[j].identity /\ was.figure[i].identity \notin Shared
    BY <1>3, <2>1
  <2> QED
    BY <1>2, <2>1, <2>2 DEF AreApart
<1>9. FiledOnce(work.trail)
  <2> SUFFICES ASSUME NEW n \in DOMAIN was.trail, NEW m \in DOMAIN was.trail,
                      work.trail[n] = work.trail[m]
               PROVE  n = m
    BY <1>6 DEF FiledOnce
  <2>1. was.trail[n][1] = was.trail[m][1] /\ was.trail[n][2] = was.trail[m][2]
    BY <1>3, <1>7
  <2>2. was.trail[n] \in Nat \X Decisions /\ was.trail[m] \in Nat \X Decisions
    BY <1>7
  <2>3. was.trail[n] = was.trail[m]
    BY <2>1, <2>2
  <2>4. FiledOnce(was.trail)
    BY DEF IsReviewed
  <2> QED
    BY <2>3, <2>4 DEF FiledOnce
<1>10. \A n \in DOMAIN work.figure : work.figure[n].identity \notin Scanned
  BY <1>3
<1>11. \A n \in DOMAIN work.trail : work.trail[n][1] \in DOMAIN work.figure
  BY <1>3, <1>6, <1>7
<1>12. ASSUME NEW n \in DOMAIN work.figure, Decided(work.figure[n])
       PROVE  Says(l, work.figure[n].identity, work.figure[n].decision)
  <2>1. PICK i \in DOMAIN was.figure : n = rank(i)
    BY <1>3
  <2>2. /\ work.figure[n].identity = was.figure[i].identity
        /\ work.figure[n].decision = was.figure[i].decision
    BY <1>3, <2>1
  <2>3. Decided(was.figure[i])
    BY <1>12, <2>2 DEF Decided
  <2>4. /\ i \in DOMAIN l.figure /\ l.figure[i].identity = was.figure[i].identity
        /\ \/ l.figure[i].decision = was.figure[i].decision
           \/ <<i, was.figure[i].decision>> \in Filed(l.trail)
    BY <2>3 DEF WasRead
  <2> QED
    BY <2>2, <2>4 DEF Says
<1>13. ASSUME NEW n \in DOMAIN work.trail
       PROVE  /\ HasSaid(l, work.figure[work.trail[n][1]].identity, work.trail[n][2])
              /\ Decided(work.figure[work.trail[n][1]])
  <2>1. PICK i : i = was.trail[n][1]
    OBVIOUS
  <2>2. /\ n \in DOMAIN was.trail /\ n \in DOMAIN l.trail /\ l.trail[n][1] = i
        /\ i \in DOMAIN was.figure /\ work.trail[n][1] = rank(i)
        /\ work.trail[n][2] = l.trail[n][2]
    BY <1>6, <1>7, <2>1
  <2>3. i \in DOMAIN l.figure
    BY <2>2 DEF IsReviewed
  <2>4. l.figure[i].identity = was.figure[i].identity
    BY <2>2, <2>3 DEF WasRead
  <2>5. HasSaid(l, was.figure[i].identity, l.trail[n][2])
    BY <2>2, <2>3, <2>4 DEF HasSaid
  <2>6. Decided(was.figure[i])
    BY <2>1, <2>2 DEF IsReviewed
  <2> QED
    BY <1>3, <2>2, <2>5, <2>6 DEF Decided
<1>14. IsToldNow(work, l)
  BY <1>1, <1>8, <1>9, <1>10, <1>11, <1>12, <1>13
     DEF IsToldNow, IsReaders, IsCopyOf, FiledOnce, LoneOnce, Lone, OfLone
<1> QED
  BY <1>6, <1>7, <1>14 DEF rank, HasTrailOf

LEMMA LookKeeps == ASSUME PromotionInv, NEW p \in Runs, LookForReport(p) PROVE PromotionInv'
<1>1. PICK now : now = [pc |-> "put"]
  OBVIOUS
<1>2. now.pc = "put" /\ Goes(p, now) /\ UNCHANGED <<source, target, lock, edits>>
  BY <1>1 DEF LookForReport
<1>3. IsOnTrack(p, now, source, target, lock')
  BY <1>1, AtRestOnTrack
<1> QED
  BY <1>2, <1>3, RunKeeps DEF Refreshing

LEMMA PutKeeps == ASSUME PromotionInv, NEW p \in Runs, PutBytes(p) PROVE PromotionInv'
<1>1. PICK now : now = [pc |-> "count"]
  OBVIOUS
<1>2. now.pc = "count" /\ Goes(p, now) /\ UNCHANGED <<source, target, lock, edits>>
  BY <1>1 DEF PutBytes
<1>3. IsOnTrack(p, now, source, target, lock')
  BY <1>1, AtRestOnTrack
<1> QED
  BY <1>2, <1>3, RunKeeps DEF Refreshing

LEMMA CountKeeps == ASSUME PromotionInv, NEW p \in Runs, ReadCounts(p) PROVE PromotionInv'
<1>1. PICK counted : counted = Counts(source.figure, source.trail)
  OBVIOUS
<1>2. PICK now : now = [pc |-> "begin", expected |-> counted]
  OBVIOUS
<1>3. now.pc = "begin" /\ now.expected = counted /\ counted[3] = Len(source.trail)
  BY <1>1, <1>2 DEF Counts
<1>4. Goes(p, now) /\ UNCHANGED <<source, target, lock, edits>>
  BY <1>1, <1>2 DEF ReadCounts
<1>5. Len(source.trail) \in Nat
  BY SourceIs DEF PromotionInv, Trails
<1>6. counted[3] \in 0..Len(source.trail)
  BY <1>3, <1>5
<1>7. IsOnTrack(p, now, source, target, lock')
  BY <1>3, <1>6 DEF IsOnTrack, Pcs
<1> QED
  BY <1>3, <1>4, <1>7, RunKeeps DEF Refreshing

LEMMA InsertKeeps == ASSUME PromotionInv, NEW p \in Runs, InsertReport(p) PROVE PromotionInv'
<1>1. /\ run[p].pc = "begin" /\ lock = Null /\ UNCHANGED <<source, target, edits>>
      /\ \A q \in Runs : lock # q
  BY PromotionAssumption DEF InsertReport
<1>2. CASE target = Null
  <2>1. PICK now : now = [pc |-> "figures", expected |-> run[p].expected]
    OBVIOUS
  <2>2. now.pc = "figures" /\ now.expected = run[p].expected /\ Goes(p, now) /\ lock' = p
    BY <1>2, <2>1 DEF InsertReport
  <2>3. run[p].expected[3] \in 0..Len(source.trail)
    BY <1>1 DEF PromotionInv, IsOnTrack
  <2>4. IsOnTrack(p, now, source, target, lock')
    BY <1>2, <2>2, <2>3 DEF IsOnTrack, Pcs
  <2> QED
    BY <1>1, <2>2, <2>4, RunKeeps DEF Refreshing
<1>3. CASE target # Null
  <2>1. PICK now : now = Idle
    OBVIOUS
  <2>2. now.pc = "idle" /\ Goes(p, now) /\ lock' = lock
    BY <1>3, <2>1 DEF InsertReport, Idle
  <2>3. IsOnTrack(p, now, source, target, lock')
    BY <2>1, AtRestOnTrack DEF Idle
  <2> QED
    BY <1>1, <2>2, <2>3, RunKeeps DEF Refreshing
<1> QED
  BY <1>2, <1>3

\* The source, as it is, was read just now.
LEMMA ReadNow ==
    ASSUME NEW l, IsReviewed(l)
    PROVE  WasRead(l.figure, l.trail, l) /\ WasRead(l.figure, <<>>, l)
<1>1. /\ IsReport(l) /\ AreApart(l.figure) /\ l.trail \in Trails /\ IsTable(l.figure)
      /\ l.last \in Nat /\ DOMAIN l.figure \subseteq 1..l.last
  BY DEF IsReviewed, IsReport
<1>2. Len(l.trail) \in Nat
  BY <1>1 DEF Trails
<1>3. \A i \in DOMAIN l.figure : i <= l.last
  BY <1>1
<1>4. <<>> \in Trails /\ Len(<<>>) = 0 /\ DOMAIN <<>> = {}
  BY DEF Trails
<1>5. WasRead(l.figure, l.trail, l)
  BY <1>1, <1>2, <1>3 DEF WasRead
<1>6. PICK none : none = <<>>
  OBVIOUS
<1>7. none \in Trails /\ Len(none) <= Len(l.trail) /\ DOMAIN none = {}
  BY <1>2, <1>4, <1>6
<1>8. WasRead(l.figure, none, l)
  BY <1>1, <1>3, <1>7 DEF WasRead
<1> QED
  BY <1>5, <1>6, <1>8

LEMMA CopyFiguresKeeps == ASSUME PromotionInv, NEW p \in Runs, CopyFigures(p) PROVE PromotionInv'
<1>1. PICK now, l : /\ l = source
                    /\ now = [pc |-> "history", expected |-> run[p].expected, asRead |-> l]
  OBVIOUS
<1>2. /\ now.pc = "history" /\ now.expected = run[p].expected /\ now.asRead = l
      /\ run[p].pc = "figures" /\ Goes(p, now) /\ UNCHANGED <<source, target, lock, edits>>
      /\ \A i \in DOMAIN l.figure : l.figure[i].identity \notin Scanned
  BY <1>1 DEF CopyFigures
<1>3. /\ run[p].expected[3] \in 0..Len(l.trail) /\ target = Null /\ lock = p
  BY <1>1, <1>2 DEF PromotionInv, IsOnTrack
<1>4. IsReviewed(l) /\ WasRead(l.figure, l.trail, l)
  BY <1>1, ReadNow DEF PromotionInv, IsEdited
<1>5. l.trail \in Trails
  BY <1>4 DEF WasRead
<1>6. Len(l.trail) \in Nat
  BY <1>5 DEF Trails
<1>7. run[p].expected[3] <= Len(l.trail)
  BY <1>3, <1>6
<1>8. IsOnTrack(p, now, l, target, lock)
  BY <1>2, <1>3, <1>4, <1>7 DEF IsOnTrack, Pcs
<1> QED
  BY <1>1, <1>2, <1>8, RunKeeps DEF Refreshing

LEMMA CopyHistoryKeeps == ASSUME PromotionInv, NEW p \in Runs, CopyHistory(p) PROVE PromotionInv'
<1>1. PICK l, was, work : l = source /\ was = run[p].asRead /\ work = Copied(was.figure, l.trail)
  OBVIOUS
<1>2. PICK now : now = [pc |-> "compare", expected |-> run[p].expected, asRead |-> was, work |-> work]
  OBVIOUS
<1>3. now.pc = "compare" /\ now.expected = run[p].expected /\ now.asRead = was /\ now.work = work
  BY <1>2
<1>4. /\ run[p].pc = "history" /\ Goes(p, now) /\ UNCHANGED <<source, target, lock, edits>>
      /\ \A n \in DOMAIN l.trail : l.trail[n][1] \in DOMAIN was.figure
  BY <1>1, <1>2 DEF CopyHistory
<1>5. /\ run[p].expected[3] \in 0..Len(l.trail) /\ target = Null /\ lock = p
      /\ IsReviewed(was) /\ WasRead(was.figure, was.trail, l)
      /\ run[p].expected[3] <= Len(was.trail)
      /\ \A i \in DOMAIN was.figure : was.figure[i].identity \notin Scanned
  BY <1>1, <1>4 DEF PromotionInv, IsOnTrack
<1>6. IsTable(was.figure) /\ Len(was.trail) <= Len(l.trail)
  BY <1>5 DEF WasRead
<1>7. l.trail \in Trails
  BY <1>1 DEF PromotionInv, IsEdited, IsReviewed, IsReport
<1>8. /\ Len(l.trail) \in Nat /\ DOMAIN l.trail = 1..Len(l.trail)
      /\ \A n \in DOMAIN l.trail : l.trail[n] \in Nat \X Decisions
  BY <1>7 DEF Trails
<1>9. PICK trail : trail = [n \in DOMAIN l.trail |-> <<Rank(DOMAIN was.figure, l.trail[n][1]), l.trail[n][2]>>]
  OBVIOUS
<1>10. /\ work.figure = Remapped(was.figure) /\ work.trail = trail
       /\ work.last = Cardinality(DOMAIN was.figure)
       /\ work = [figure |-> work.figure, trail |-> work.trail, last |-> work.last]
  BY <1>1, <1>9 DEF Copied
<1>11. /\ IsTable(work.figure) /\ work.last \in Nat /\ DOMAIN work.figure = 1..work.last
       /\ \A i \in DOMAIN was.figure : Rank(DOMAIN was.figure, i) \in Nat
  BY <1>6, <1>10, RemappedIs DEF IsTable
<1>12. trail \in Trails /\ Len(trail) = Len(l.trail)
  <2>1. \A n \in 1..Len(l.trail) : trail[n] \in Nat \X Decisions
    BY <1>4, <1>8, <1>9, <1>11
  <2>2. trail \in [1..Len(l.trail) -> Nat \X Decisions]
    BY <1>8, <1>9, <2>1
  <2> QED
    BY <1>8, <2>2 DEF Trails
<1>13. IsReport(work)
  BY <1>10, <1>11, <1>12 DEF IsReport
<1>14. IsCopied(work, was.figure, l) /\ Len(was.trail) <= Len(work.trail)
  <2>1. Len(work.trail) <= Len(l.trail) /\ Len(was.trail) <= Len(work.trail)
    BY <1>6, <1>8, <1>10, <1>12
  <2>2. DOMAIN work.trail = DOMAIN l.trail
    BY <1>9, <1>10
  <2>3. \A n \in DOMAIN work.trail :
           work.trail[n] = <<Rank(DOMAIN was.figure, l.trail[n][1]), l.trail[n][2]>>
    BY <1>9, <1>10
  <2> QED
    BY <1>4, <1>10, <1>13, <2>1, <2>2, <2>3 DEF IsCopied
<1>15. IsOnTrack(p, now, l, target, lock)
  BY <1>3, <1>5, <1>14 DEF IsOnTrack, Pcs
<1> QED
  BY <1>1, <1>3, <1>4, <1>15, RunKeeps DEF Refreshing

\* A promotion about to commit has copied the trail the figures were read with.
LEMMA ComparedIsTold ==
    ASSUME PromotionInv, NEW p \in Runs, run[p].pc = "compare", MayCommit(p)
    PROVE  LET was == run[p].asRead
               work == run[p].work
           IN  /\ IsReviewed(source) /\ IsReviewed(was) /\ WasRead(was.figure, was.trail, source)
               /\ IsCopied(work, was.figure, source)
               /\ \A i \in DOMAIN was.figure : was.figure[i].identity \notin Scanned
               /\ Len(work.trail) = Len(was.trail)
               /\ target = Null /\ lock = p
<1>1. PICK was, work, expected : /\ was = run[p].asRead /\ work = run[p].work
                                 /\ expected = run[p].expected
  OBVIOUS
<1>2. /\ IsReviewed(was) /\ WasRead(was.figure, was.trail, source)
      /\ IsCopied(work, was.figure, source) /\ Len(was.trail) <= Len(work.trail)
      /\ \A i \in DOMAIN was.figure : was.figure[i].identity \notin Scanned
      /\ expected[3] <= Len(was.trail) /\ target = Null /\ lock = p
  BY <1>1 DEF PromotionInv, IsOnTrack
<1>3. expected[3] = Len(work.trail)
  BY <1>1 DEF MayCommit, Counts
<1>4. was.trail \in Trails /\ work.trail \in Trails
  BY <1>2 DEF WasRead, IsCopied, IsReport
<1>5. Len(was.trail) \in Nat /\ Len(work.trail) \in Nat
  BY <1>4 DEF Trails
<1>6. Len(work.trail) = Len(was.trail)
  BY <1>2, <1>3, <1>5
<1>7. IsReviewed(source)
  BY DEF PromotionInv, IsEdited
<1> QED
  BY <1>1, <1>2, <1>6, <1>7

LEMMA CommitPromotionKeeps ==
    ASSUME PromotionInv, NEW p \in Runs, CommitPromotion(p) PROVE PromotionInv'
<1>1. run[p].pc = "compare" /\ MayCommit(p) /\ target' = run[p].work
      /\ Goes(p, Idle) /\ UNCHANGED <<source, edits>>
  BY DEF CommitPromotion
<1>2. PICK was, work : was = run[p].asRead /\ work = run[p].work
  OBVIOUS
<1>3. /\ IsReviewed(source) /\ IsReviewed(was) /\ WasRead(was.figure, was.trail, source)
      /\ IsCopied(work, was.figure, source)
      /\ \A i \in DOMAIN was.figure : was.figure[i].identity \notin Scanned
      /\ Len(work.trail) = Len(was.trail)
      /\ target = Null /\ lock = p
  BY <1>1, <1>2, ComparedIsTold
<1>4. IsToldNow(work, source)
  BY <1>3, CopiedIsTold
<1>5. ASSUME NEW q \in Runs, q # p
      PROVE  run[q].pc \in AtRest
  <2>1. PICK r : r = run[q]
    OBVIOUS
  <2>2. IsOnTrack(q, r, source, target, lock)
    BY <2>1 DEF PromotionInv
  <2>3. /\ r.pc \in Pcs
        /\ r.pc \notin {"figures", "history", "compare"}
        /\ r.pc \notin Refreshing
    BY <1>3, <1>5, <2>2 DEF IsOnTrack, Refreshing
  <2> QED
    BY <2>1, <2>3 DEF Pcs, AtRest, Refreshing
<1> QED
  BY <1>1, <1>2, <1>4, <1>5, CommitKeeps

LEMMA AbandonKeeps == ASSUME PromotionInv, NEW p \in Runs, Abandon(p) PROVE PromotionInv'
<1>1. PICK now : now = Idle
  OBVIOUS
<1>2. /\ now.pc = "idle" /\ Goes(p, now) /\ UNCHANGED <<source, target, edits>>
      /\ lock' = IF lock = p THEN Null ELSE lock
  BY <1>1 DEF Abandon, Idle
<1>3. IsOnTrack(p, now, source, target, lock')
  BY <1>1, AtRestOnTrack DEF Idle
<1>4. \A q \in Runs : q # p => (lock = q => lock' = q)
  BY <1>2
<1> QED
  BY <1>2, <1>3, <1>4, RunKeeps DEF Refreshing

-----------------------------------------------------------------------------
(* What a plan says.                                                         *)

LEMMA TextIs ==
    ASSUME NEW figure, IsTable(figure), AreApart(figure)
    PROVE  /\ IsTable(Text(figure)) /\ AreApart(Text(figure))
           /\ DOMAIN Text(figure) = {i \in DOMAIN figure : figure[i].identity \notin Scanned}
           /\ \A i \in DOMAIN Text(figure) : Text(figure)[i] = figure[i]
<1>1. PICK src : src = Text(figure)
  OBVIOUS
<1>2. /\ DOMAIN src = {i \in DOMAIN figure : figure[i].identity \notin Scanned}
      /\ \A i \in DOMAIN src : src[i] = figure[i]
      /\ src = [i \in DOMAIN src |-> src[i]]
  BY <1>1 DEF Text
<1>3. DOMAIN src \in SUBSET DOMAIN figure
  BY <1>2
<1>4. IsFiniteSet(DOMAIN src) /\ DOMAIN src \subseteq Nat
  BY <1>3, FS_Subset DEF IsTable
<1>5. \A i \in DOMAIN src : src[i] \in Figure
  BY <1>2 DEF IsTable
<1>6. IsTable(src)
  BY <1>2, <1>4, <1>5 DEF IsTable
<1>7. AreApart(src)
  BY <1>2 DEF AreApart
<1> QED
  BY <1>1, <1>2, <1>6, <1>7

\* Whoever has a key has the identity in it, and the other way round if none shares it.
LEMMA SameKeys ==
    ASSUME NEW src, NEW tgt, IsTable(src), AreApart(src), IsTable(tgt), AreApart(tgt),
           NEW i \in DOMAIN src
    PROVE  /\ KeyOf(src, i) \in Keys(src)
           /\ KeyOf(src, i) \in Keys(tgt) =>
                 /\ WithKey(tgt, KeyOf(src, i)) \in DOMAIN tgt
                 /\ tgt[WithKey(tgt, KeyOf(src, i))].identity = src[i].identity
           /\ src[i].identity \notin Shared =>
                 /\ KeyOf(src, i) = <<src[i].identity, 0>> /\ WithKey(src, KeyOf(src, i)) = i
                 /\ \A j \in DOMAIN tgt : tgt[j].identity = src[i].identity =>
                       KeyOf(src, i) \in Keys(tgt) /\ WithKey(tgt, KeyOf(src, i)) = j
<1>1. PICK k, identity : k = KeyOf(src, i) /\ identity = src[i].identity
  OBVIOUS
<1>2. /\ k \in Keys(src) /\ k[1] = identity
      /\ identity \notin Shared => k = <<identity, 0>> /\ WithKey(src, <<identity, 0>>) = i
  BY <1>1, KeysAre
<1>3. ASSUME k \in Keys(tgt)
      PROVE  WithKey(tgt, k) \in DOMAIN tgt /\ tgt[WithKey(tgt, k)].identity = identity
  <2>1. WithKey(tgt, k) \in DOMAIN tgt /\ k[1] = tgt[WithKey(tgt, k)].identity
    BY <1>3, KeysAre
  <2> QED
    BY <1>2, <2>1
<1>4. ASSUME identity \notin Shared, NEW j \in DOMAIN tgt, tgt[j].identity = identity
      PROVE  k \in Keys(tgt) /\ WithKey(tgt, k) = j
  <2>1. /\ KeyOf(tgt, j) = <<identity, 0>> /\ KeyOf(tgt, j) \in Keys(tgt)
        /\ WithKey(tgt, <<identity, 0>>) = j
    BY <1>4, KeysAre
  <2> QED
    BY <1>2, <1>4, <2>1
<1> QED
  BY <1>1, <1>2, <1>3, <1>4

Missing(src, tgt) == {i \in DOMAIN src : KeyOf(src, i) \notin Keys(tgt)}

LEMMA InsertsAre ==
    ASSUME NEW src, NEW tgt, IsTable(src), AreApart(src), IsTable(tgt), AreApart(tgt)
    PROVE  /\ ToInsert(src, tgt) \in Seq(Figure)
           /\ DOMAIN ToInsert(src, tgt) = {} => \A i \in DOMAIN src : KeyOf(src, i) \in Keys(tgt)
           /\ \A n \in DOMAIN ToInsert(src, tgt) :
                 /\ \E i \in DOMAIN src : /\ ToInsert(src, tgt)[n].identity = src[i].identity
                                          /\ ToInsert(src, tgt)[n].decision = src[i].decision
                 /\ ToInsert(src, tgt)[n].identity \notin Shared =>
                       /\ \A j \in DOMAIN tgt : tgt[j].identity # ToInsert(src, tgt)[n].identity
                       /\ \A m \in DOMAIN ToInsert(src, tgt) :
                             ToInsert(src, tgt)[n].identity = ToInsert(src, tgt)[m].identity => n = m
<1>1. PICK ids, rows, new : /\ ids = Missing(src, tgt) /\ rows = InOrder(src, ids)
                            /\ new = ToInsert(src, tgt)
  OBVIOUS
<1>2. ids \in SUBSET DOMAIN src
  BY <1>1 DEF Missing
<1>3. IsFiniteSet(DOMAIN src) /\ DOMAIN src \in SUBSET Nat /\ \A i \in DOMAIN src : src[i] \in Figure
  BY DEF IsTable
<1>4. ids \in SUBSET Nat /\ IsFiniteSet(ids)
  BY <1>2, <1>3, FS_Subset
<1>5. PICK N : N = Cardinality(ids)
  OBVIOUS
<1>6. /\ N \in Nat /\ DOMAIN rows = 1..N
      /\ \A n \in 1..N : /\ NthOf(ids, n) \in ids /\ Rank(ids, NthOf(ids, n)) = n
                         /\ rows[n] = src[NthOf(ids, n)]
  BY <1>1, <1>4, <1>5, InOrderIs
<1>7. new = [n \in 1..N |-> [rows[n] EXCEPT !.same = Null]]
  BY <1>1, <1>6 DEF ToInsert, Missing
<1>8. ASSUME NEW n \in 1..N
      PROVE  /\ new[n] \in Figure /\ NthOf(ids, n) \in DOMAIN src
             /\ new[n].identity = src[NthOf(ids, n)].identity
             /\ new[n].decision = src[NthOf(ids, n)].decision
  <2>1. PICK f : f = src[NthOf(ids, n)]
    OBVIOUS
  <2>2. f \in Figure /\ new[n] = [f EXCEPT !.same = Null] /\ NthOf(ids, n) \in DOMAIN src
    BY <1>2, <1>3, <1>6, <1>7, <2>1
  <2>3. new[n] \in Figure /\ new[n].identity = f.identity /\ new[n].decision = f.decision
    BY <2>2 DEF Figure
  <2> QED
    BY <2>1, <2>2, <2>3
<1>9. DOMAIN new = 1..N /\ new \in Seq(Figure)
  <2>1. DOMAIN new = 1..N /\ new \in [1..N -> Figure]
    BY <1>7, <1>8
  <2> QED
    BY <1>6, <2>1
<1>10. ASSUME DOMAIN new = {}, NEW i \in DOMAIN src
       PROVE  KeyOf(src, i) \in Keys(tgt)
  <2>1. DOMAIN InOrder(src, ids) = {}
    BY <1>1, <1>6, <1>9, <1>10
  <2>2. ids = {}
    BY <1>4, <2>1, NoneInOrder
  <2> QED
    BY <1>1, <2>2 DEF Missing
<1>11. ASSUME NEW n \in 1..N, new[n].identity \notin Shared, NEW j \in DOMAIN tgt
       PROVE  tgt[j].identity # new[n].identity
  <2>1. NthOf(ids, n) \in ids
    BY <1>6
  <2>2. NthOf(ids, n) \in DOMAIN src /\ KeyOf(src, NthOf(ids, n)) \notin Keys(tgt)
    BY <1>1, <2>1 DEF Missing
  <2> QED
    BY <1>8, <1>11, <2>2, SameKeys
<1>12. ASSUME NEW n \in 1..N, NEW m \in 1..N, new[n].identity = new[m].identity,
              new[n].identity \notin Shared
       PROVE  n = m
  <2>1. NthOf(ids, n) = NthOf(ids, m)
    BY <1>8, <1>12 DEF AreApart
  <2>2. Rank(ids, NthOf(ids, n)) = n /\ Rank(ids, NthOf(ids, m)) = m
    BY <1>6
  <2> QED
    BY <2>1, <2>2
<1> QED
  BY <1>1, <1>8, <1>9, <1>10, <1>11, <1>12

LEMMA UpdatesAre ==
    ASSUME NEW src, NEW tgt, IsTable(src), AreApart(src), IsTable(tgt), AreApart(tgt)
    PROVE  /\ \A u \in ToUpdate(src, tgt) :
                 /\ u[1] \in DOMAIN tgt
                 /\ \E i \in DOMAIN src : u[2] = src[i].decision /\ src[i].identity = tgt[u[1]].identity
           /\ ToUpdate(src, tgt) = {} =>
                 \A i \in DOMAIN src, j \in DOMAIN tgt :
                    src[i].identity \notin Shared /\ src[i].identity = tgt[j].identity =>
                       src[i].decision = tgt[j].decision
<1> DEFINE both == {k \in Keys(src) \cap Keys(tgt) :
                       src[WithKey(src, k)].decision # tgt[WithKey(tgt, k)].decision}
<1>1. ToUpdate(src, tgt) = {<<WithKey(tgt, k), src[WithKey(src, k)].decision>> : k \in both}
  BY DEF ToUpdate
<1>2. ASSUME NEW u \in ToUpdate(src, tgt)
      PROVE  /\ u[1] \in DOMAIN tgt
             /\ \E i \in DOMAIN src : u[2] = src[i].decision /\ src[i].identity = tgt[u[1]].identity
  <2>1. PICK k \in both : u = <<WithKey(tgt, k), src[WithKey(src, k)].decision>>
    BY <1>1
  <2>2. PICK i, j : i = WithKey(src, k) /\ j = WithKey(tgt, k)
    OBVIOUS
  <2>3. i \in DOMAIN src /\ k[1] = src[i].identity
    BY <2>2, KeysAre
  <2>4. j \in DOMAIN tgt /\ k[1] = tgt[j].identity
    BY <2>2, KeysAre
  <2>5. u[1] = j /\ u[2] = src[i].decision
    BY <2>1, <2>2
  <2>6. src[i].identity = tgt[j].identity
    BY <2>3, <2>4
  <2> QED
    BY <2>3, <2>4, <2>5, <2>6
<1>3. ASSUME ToUpdate(src, tgt) = {}, NEW i \in DOMAIN src, NEW j \in DOMAIN tgt,
             src[i].identity \notin Shared, src[i].identity = tgt[j].identity
      PROVE  src[i].decision = tgt[j].decision
  <2>1. PICK k : k = KeyOf(src, i)
    OBVIOUS
  <2>2. k \in Keys(src) /\ WithKey(src, k) = i /\ k \in Keys(tgt) /\ WithKey(tgt, k) = j
    BY <1>3, <2>1, SameKeys
  <2>3. k \notin both
    BY <1>1, <1>3
  <2> QED
    BY <2>2, <2>3
<1> QED
  BY <1>2, <1>3

There(tgt, held) == {<<KeyOf(tgt, held[n][1]), held[n][2]>> :
                        n \in {m \in DOMAIN held : held[m][1] \in DOMAIN tgt}}
Lacking(src, trail, tgt, held) ==
    {n \in DOMAIN trail : /\ trail[n][1] \in DOMAIN src
                          /\ <<KeyOf(src, trail[n][1]), trail[n][2]>> \notin There(tgt, held)}

LEMMA FilesAre ==
    ASSUME NEW src, NEW trail, NEW tgt, NEW held,
           IsTable(src), AreApart(src), IsTable(tgt), AreApart(tgt),
           trail \in Trails, FiledOnce(trail)
    PROVE  LET file == ToFile(src, trail, tgt, held)
           IN  /\ file \in Seq(Filings)
               /\ \A n \in DOMAIN file :
                     /\ \E m \in DOMAIN trail : /\ trail[m][1] \in DOMAIN src
                                                /\ file[n][1][1] = src[trail[m][1]].identity
                                                /\ file[n][2] = trail[m][2]
                     /\ file[n][1][1] \notin Shared =>
                           /\ \A k \in DOMAIN file : file[n] = file[k] => n = k
                           /\ \A m \in DOMAIN held :
                                 ~ /\ held[m][1] \in DOMAIN tgt /\ held[m][2] = file[n][2]
                                   /\ tgt[held[m][1]].identity = file[n][1][1]
               /\ DOMAIN file = {} =>
                     \A m \in DOMAIN trail : trail[m][1] \in DOMAIN src =>
                        \E k \in DOMAIN held : /\ held[k][1] \in DOMAIN tgt
                                               /\ held[k][2] = trail[m][2]
                                               /\ tgt[held[k][1]].identity = src[trail[m][1]].identity
<1>1. PICK ids, rows, file : /\ ids = Lacking(src, trail, tgt, held) /\ rows = InOrder(trail, ids)
                             /\ file = ToFile(src, trail, tgt, held)
  OBVIOUS
<1>2. Len(trail) \in Nat /\ DOMAIN trail = 1..Len(trail)
      /\ \A n \in DOMAIN trail : trail[n] \in Nat \X Decisions
  BY DEF Trails
<1>3. IsFiniteSet(DOMAIN trail) /\ DOMAIN trail \in SUBSET Nat
  BY <1>2, FS_Interval
<1>4. ids \in SUBSET DOMAIN trail
  BY <1>1 DEF Lacking
<1>5. ids \in SUBSET Nat /\ IsFiniteSet(ids)
  BY <1>3, <1>4, FS_Subset
<1>6. PICK N : N = Cardinality(ids)
  OBVIOUS
<1>7. /\ N \in Nat /\ DOMAIN rows = 1..N
      /\ \A n \in 1..N : /\ NthOf(ids, n) \in ids /\ Rank(ids, NthOf(ids, n)) = n
                         /\ rows[n] = trail[NthOf(ids, n)]
  BY <1>1, <1>5, <1>6, InOrderIs
<1>8. file = [n \in 1..N |-> <<KeyOf(src, rows[n][1]), rows[n][2]>>]
  BY <1>1, <1>7 DEF ToFile, Lacking, There
<1>9. \A i \in DOMAIN src :
          /\ KeyOf(src, i)[1] = src[i].identity
          /\ src[i].identity \notin Shared => KeyOf(src, i) = <<src[i].identity, 0>>
  BY KeysAre
<1>10. \A i \in DOMAIN tgt :
          /\ KeyOf(tgt, i)[1] = tgt[i].identity
          /\ tgt[i].identity \notin Shared => KeyOf(tgt, i) = <<tgt[i].identity, 0>>
  BY KeysAre
<1>11. ASSUME NEW n \in 1..N
      PROVE  LET m == NthOf(ids, n)
             IN  /\ m \in ids /\ m \in DOMAIN trail /\ trail[m][1] \in DOMAIN src
                 /\ file[n] = <<KeyOf(src, trail[m][1]), trail[m][2]>>
                 /\ file[n][1] = KeyOf(src, trail[m][1]) /\ file[n][2] = trail[m][2]
                 /\ file[n][1][1] = src[trail[m][1]].identity
                 /\ file[n] \notin There(tgt, held)
                 /\ file[n] \in Filings
  <2>1. PICK m : m = NthOf(ids, n)
    OBVIOUS
  <2>2. m \in ids /\ rows[n] = trail[m]
    BY <1>7, <2>1
  <2>3. /\ m \in DOMAIN trail /\ trail[m][1] \in DOMAIN src
        /\ <<KeyOf(src, trail[m][1]), trail[m][2]>> \notin There(tgt, held)
    BY <1>1, <2>2 DEF Lacking
  <2>4. PICK k, d : k = KeyOf(src, trail[m][1]) /\ d = trail[m][2]
    OBVIOUS
  <2>5. file[n] = <<k, d>>
    BY <1>8, <2>2, <2>4
  <2>6. k \in Identities \X Nat /\ k[1] = src[trail[m][1]].identity
    BY <2>3, <2>4, KeysAre
  <2>7. d \in Decisions
    BY <1>2, <2>3, <2>4
  <2>8. file[n][1] = k /\ file[n][2] = d /\ file[n] \in Filings
    BY <2>5, <2>6, <2>7 DEF Filings
  <2> QED
    BY <2>1, <2>2, <2>3, <2>4, <2>5, <2>6, <2>8
<1>12. DOMAIN file = 1..N /\ file \in Seq(Filings)
  <2>1. DOMAIN file = 1..N /\ file \in [1..N -> Filings]
    BY <1>8, <1>11
  <2> QED
    BY <1>7, <2>1
<1>13. ASSUME NEW n \in 1..N, file[n][1][1] \notin Shared, NEW k \in 1..N, file[n] = file[k]
       PROVE  n = k
  <2>1. PICK a, b : a = NthOf(ids, n) /\ b = NthOf(ids, k)
    OBVIOUS
  <2>2. /\ a \in DOMAIN trail /\ b \in DOMAIN trail
        /\ trail[a][1] \in DOMAIN src /\ trail[b][1] \in DOMAIN src
        /\ file[n][1][1] = src[trail[a][1]].identity /\ file[n][2] = trail[a][2]
        /\ file[k][1][1] = src[trail[b][1]].identity /\ file[k][2] = trail[b][2]
    BY <1>11, <2>1
  <2>3. src[trail[a][1]].identity = src[trail[b][1]].identity /\ trail[a][2] = trail[b][2]
    BY <1>13, <2>2
  <2>4. trail[a][1] = trail[b][1]
    BY <1>13, <2>2, <2>3 DEF AreApart
  <2>5. trail[a] = trail[b]
    BY <1>2, <2>2, <2>3, <2>4
  <2>6. a = b
    BY <2>2, <2>5 DEF FiledOnce
  <2>7. Rank(ids, a) = n /\ Rank(ids, b) = k
    BY <1>7, <2>1
  <2> QED
    BY <2>6, <2>7
<1>14. ASSUME NEW n \in 1..N
       PROVE  \E m \in DOMAIN trail : /\ trail[m][1] \in DOMAIN src
                                      /\ file[n][1][1] = src[trail[m][1]].identity
                                      /\ file[n][2] = trail[m][2]
  BY <1>11
<1>15. ASSUME NEW n \in 1..N, file[n][1][1] \notin Shared,
              NEW k \in DOMAIN held, held[k][1] \in DOMAIN tgt, held[k][2] = file[n][2],
              tgt[held[k][1]].identity = file[n][1][1]
       PROVE  FALSE
  <2>1. PICK m : m = NthOf(ids, n)
    OBVIOUS
  <2>2. /\ m \in DOMAIN trail /\ trail[m][1] \in DOMAIN src
        /\ file[n] = <<KeyOf(src, trail[m][1]), trail[m][2]>> /\ file[n][2] = trail[m][2]
        /\ file[n][1][1] = src[trail[m][1]].identity
        /\ file[n] \notin There(tgt, held)
    BY <1>11, <2>1
  <2>3. KeyOf(src, trail[m][1]) = <<file[n][1][1], 0>>
    BY <1>15, <1>9, <2>2
  <2>4. KeyOf(tgt, held[k][1]) = <<file[n][1][1], 0>>
    BY <1>15, <1>10
  <2>5. <<KeyOf(tgt, held[k][1]), held[k][2]>> = file[n]
    BY <1>15, <2>2, <2>3, <2>4
  <2>6. <<KeyOf(tgt, held[k][1]), held[k][2]>> \in There(tgt, held)
    BY <1>15 DEF There
  <2> QED
    BY <2>2, <2>5, <2>6
<1>16. ASSUME DOMAIN file = {}, NEW m \in DOMAIN trail, trail[m][1] \in DOMAIN src
       PROVE  \E k \in DOMAIN held : /\ held[k][1] \in DOMAIN tgt
                                     /\ held[k][2] = trail[m][2]
                                     /\ tgt[held[k][1]].identity = src[trail[m][1]].identity
  <2>1. DOMAIN InOrder(trail, ids) = {}
    BY <1>1, <1>7, <1>12, <1>16
  <2>2. ids = {}
    BY <1>5, <2>1, NoneInOrder
  <2>3. <<KeyOf(src, trail[m][1]), trail[m][2]>> \in There(tgt, held)
    BY <1>1, <1>16, <2>2 DEF Lacking
  <2>4. PICK k \in DOMAIN held :
           /\ held[k][1] \in DOMAIN tgt
           /\ <<KeyOf(src, trail[m][1]), trail[m][2]>> = <<KeyOf(tgt, held[k][1]), held[k][2]>>
    BY <2>3 DEF There
  <2>5. KeyOf(src, trail[m][1]) = KeyOf(tgt, held[k][1]) /\ trail[m][2] = held[k][2]
    BY <2>4
  <2>6. src[trail[m][1]].identity = tgt[held[k][1]].identity
    BY <1>16, <1>9, <1>10, <2>4, <2>5
  <2> QED
    BY <2>4, <2>5, <2>6
<1> QED
  BY <1>1, <1>12, <1>13, <1>14, <1>15, <1>16

LEMMA LinksAre ==
    ASSUME NEW src, NEW tgt, IsTable(src), AreApart(src), IsTable(tgt), AreApart(tgt),
           ToLink(src, tgt) = {}, NEW i \in DOMAIN src, NEW j \in DOMAIN tgt,
           src[i].identity \notin Shared, src[i].identity = tgt[j].identity
    PROVE  /\ src[i].same \in DOMAIN src <=> tgt[j].same \in DOMAIN tgt
           /\ src[i].same \in DOMAIN src => src[src[i].same].identity = tgt[tgt[j].same].identity
<1>1. PICK k : k = KeyOf(src, i)
  OBVIOUS
<1>2. /\ k \in Keys(src) /\ WithKey(src, k) = i
      /\ k \in Keys(tgt) /\ WithKey(tgt, k) = j
  BY <1>1, SameKeys
<1>3. LinkOf(tgt, k) = LinkOf(src, k)
  BY <1>2 DEF ToLink
<1>4. LinkOf(src, k) = IF src[i].same \in DOMAIN src THEN KeyOf(src, src[i].same) ELSE Null
  BY <1>2 DEF LinkOf
<1>5. LinkOf(tgt, k) = IF tgt[j].same \in DOMAIN tgt THEN KeyOf(tgt, tgt[j].same) ELSE Null
  BY <1>2 DEF LinkOf
<1>6. ASSUME src[i].same \in DOMAIN src
      PROVE  LinkOf(src, k) # Null /\ LinkOf(src, k)[1] = src[src[i].same].identity
  <2>1. /\ KeyOf(src, src[i].same) \in Identities \X Nat
        /\ KeyOf(src, src[i].same)[1] = src[src[i].same].identity
    BY <1>6, KeysAre
  <2> QED
    BY <1>4, <1>6, <2>1, PromotionAssumption
<1>7. ASSUME tgt[j].same \in DOMAIN tgt
      PROVE  LinkOf(tgt, k) # Null /\ LinkOf(tgt, k)[1] = tgt[tgt[j].same].identity
  <2>1. /\ KeyOf(tgt, tgt[j].same) \in Identities \X Nat
        /\ KeyOf(tgt, tgt[j].same)[1] = tgt[tgt[j].same].identity
    BY <1>7, KeysAre
  <2> QED
    BY <1>5, <1>7, <2>1, PromotionAssumption
<1> QED
  BY <1>3, <1>4, <1>5, <1>6, <1>7

LEMMA RetiresAre ==
    ASSUME NEW src, NEW tgt, IsTable(src), AreApart(src), IsTable(tgt), AreApart(tgt),
           ToRetire(src, tgt) = {}, NEW j \in DOMAIN tgt
    PROVE  Decided(tgt[j]) \/ \E i \in DOMAIN src : src[i].identity = tgt[j].identity
<1>1. CASE KeyOf(tgt, j) \in Keys(src)
  BY <1>1, SameKeys
<1>2. CASE KeyOf(tgt, j) \notin Keys(src)
  BY <1>2 DEF ToRetire
<1> QED
  BY <1>1, <1>2

\* Of a plan made from what was read of the ledger: nothing in it is what readers
\* are not to be told, or are told already.
LEMMA PlanIsSound ==
    ASSUME NEW l, NEW tgt, NEW figure, NEW trail, IsReviewed(l), IsReaders(tgt, l),
           WasRead(figure, trail, l)
    PROVE  IsPlanned(PlanRefresh(figure, trail, tgt.figure, tgt.trail), tgt, l)
<1>1. PICK src, held, plan : /\ src = Text(figure) /\ held = tgt.figure
                             /\ plan = PlanRefresh(figure, trail, tgt.figure, tgt.trail)
  OBVIOUS
<1>2. /\ plan.insert = ToInsert(src, held) /\ plan.update = ToUpdate(src, held)
      /\ plan.history = ToFile(src, trail, held, tgt.trail)
  BY <1>1 DEF PlanRefresh
<1>3. IsTable(figure) /\ AreApart(figure) /\ trail \in Trails
  BY DEF WasRead
<1>4. /\ IsTable(src) /\ AreApart(src)
      /\ \A i \in DOMAIN src : /\ i \in DOMAIN figure /\ src[i] = figure[i] /\ src[i] \in Figure
                               /\ figure[i].identity \notin Scanned
  <2>1. /\ IsTable(Text(figure)) /\ AreApart(Text(figure))
        /\ DOMAIN Text(figure) = {i \in DOMAIN figure : figure[i].identity \notin Scanned}
        /\ \A i \in DOMAIN Text(figure) : Text(figure)[i] = figure[i]
    BY <1>3, TextIs
  <2>2. /\ IsTable(src) /\ AreApart(src)
        /\ DOMAIN src = {i \in DOMAIN figure : figure[i].identity \notin Scanned}
        /\ \A i \in DOMAIN src : src[i] = figure[i]
    BY <1>1, <2>1
  <2>3. \A i \in DOMAIN src : src[i] \in Figure
    BY <2>2 DEF IsTable
  <2> QED
    BY <2>2, <2>3
<1>5. /\ IsTable(held) /\ AreApart(held)
      /\ \A n \in DOMAIN tgt.trail : tgt.trail[n][1] \in DOMAIN held
  BY <1>1 DEF IsReaders, IsReport
<1>6. ASSUME NEW i \in DOMAIN src, src[i].decision # Undecided
      PROVE  Says(l, src[i].identity, src[i].decision)
  <2>1. /\ i \in DOMAIN l.figure
        /\ l.figure[i].identity = figure[i].identity
        /\ \/ l.figure[i].decision = figure[i].decision
           \/ <<i, figure[i].decision>> \in Filed(l.trail)
    BY <1>4, <1>6 DEF WasRead, Decided
  <2> QED
    BY <1>4, <2>1 DEF Says
<1>7. FiledOnce(trail)
  <2> SUFFICES ASSUME NEW n \in DOMAIN trail, NEW m \in DOMAIN trail, trail[n] = trail[m]
               PROVE  n = m
    BY DEF FiledOnce
  <2>1. l.trail[n] = trail[n] /\ l.trail[m] = trail[m] /\ Len(trail) <= Len(l.trail)
    BY DEF WasRead
  <2>2. l.trail \in Trails
    BY DEF IsReviewed, IsReport
  <2>3. n \in 1..Len(trail) /\ m \in 1..Len(trail) /\ Len(trail) \in Nat
        /\ DOMAIN l.trail = 1..Len(l.trail) /\ Len(l.trail) \in Nat
    BY <1>3, <2>2 DEF Trails
  <2>4. n \in DOMAIN l.trail /\ m \in DOMAIN l.trail
    BY <2>1, <2>3
  <2> QED
    BY <2>1, <2>4 DEF IsReviewed, FiledOnce
<1>8. PICK insert : insert = plan.insert
  OBVIOUS
<1>9. /\ insert \in Seq(Figure)
      /\ \A n \in DOMAIN insert :
            /\ \E i \in DOMAIN src : /\ insert[n].identity = src[i].identity
                                     /\ insert[n].decision = src[i].decision
            /\ insert[n].identity \notin Shared =>
                  /\ \A j \in DOMAIN held : held[j].identity # insert[n].identity
                  /\ \A m \in DOMAIN insert : insert[n].identity = insert[m].identity => n = m
  BY <1>2, <1>4, <1>5, <1>8, InsertsAre
<1>10. ASSUME NEW n \in DOMAIN insert
       PROVE  /\ insert[n].identity \notin Scanned
              /\ Decided(insert[n]) => Says(l, insert[n].identity, insert[n].decision)
  <2>1. PICK i \in DOMAIN src : /\ insert[n].identity = src[i].identity
                                /\ insert[n].decision = src[i].decision
    BY <1>9
  <2>2. insert[n].identity \notin Scanned
    BY <1>4, <2>1
  <2>3. Decided(insert[n]) => Says(l, insert[n].identity, insert[n].decision)
    BY <1>6, <2>1 DEF Decided
  <2> QED
    BY <2>1, <2>2, <2>3
<1>11. PICK update : update = plan.update
  OBVIOUS
<1>12. ASSUME NEW u \in update
       PROVE  /\ u[1] \in DOMAIN held /\ u[2] \in Sayings
              /\ u[2] # Undecided => Says(l, held[u[1]].identity, u[2])
  <2>1. /\ u[1] \in DOMAIN held
        /\ \E i \in DOMAIN src : u[2] = src[i].decision /\ src[i].identity = held[u[1]].identity
    BY <1>2, <1>4, <1>5, <1>11, UpdatesAre
  <2>2. PICK i \in DOMAIN src : u[2] = src[i].decision /\ src[i].identity = held[u[1]].identity
    BY <2>1
  <2>3. u[2] \in Sayings
    BY <1>4, <2>2 DEF Figure, Sayings
  <2> QED
    BY <1>6, <2>1, <2>2, <2>3
<1>13. PICK history : history = plan.history
  OBVIOUS
<1>14. /\ history \in Seq(Filings)
       /\ \A n \in DOMAIN history :
             /\ \E m \in DOMAIN trail : /\ trail[m][1] \in DOMAIN src
                                        /\ history[n][1][1] = src[trail[m][1]].identity
                                        /\ history[n][2] = trail[m][2]
             /\ history[n][1][1] \notin Shared =>
                   /\ \A k \in DOMAIN history : history[n] = history[k] => n = k
                   /\ \A m \in DOMAIN tgt.trail :
                         ~ /\ tgt.trail[m][1] \in DOMAIN held /\ tgt.trail[m][2] = history[n][2]
                           /\ held[tgt.trail[m][1]].identity = history[n][1][1]
  <2>1. PICK past : past = tgt.trail
    OBVIOUS
  <2>2. history = ToFile(src, trail, held, past)
    BY <1>2, <1>13, <2>1
  <2>3. LET file == ToFile(src, trail, held, past)
        IN  /\ file \in Seq(Filings)
            /\ \A n \in DOMAIN file :
                  /\ \E m \in DOMAIN trail : /\ trail[m][1] \in DOMAIN src
                                             /\ file[n][1][1] = src[trail[m][1]].identity
                                             /\ file[n][2] = trail[m][2]
                  /\ file[n][1][1] \notin Shared =>
                        /\ \A k \in DOMAIN file : file[n] = file[k] => n = k
                        /\ \A m \in DOMAIN past :
                              ~ /\ past[m][1] \in DOMAIN held /\ past[m][2] = file[n][2]
                                /\ held[past[m][1]].identity = file[n][1][1]
    BY <1>3, <1>4, <1>5, <1>7, FilesAre
  <2> QED
    BY <2>1, <2>2, <2>3
<1>15. ASSUME NEW n \in DOMAIN history
       PROVE  /\ HasSaid(l, history[n][1][1], history[n][2])
              /\ history[n][1][1] \notin Shared =>
                    \A m \in DOMAIN tgt.trail :
                       ~ /\ held[tgt.trail[m][1]].identity = history[n][1][1]
                         /\ tgt.trail[m][2] = history[n][2]
  <2>1. PICK m \in DOMAIN trail : /\ trail[m][1] \in DOMAIN src
                                  /\ history[n][1][1] = src[trail[m][1]].identity
                                  /\ history[n][2] = trail[m][2]
    BY <1>14
  <2>2. l.trail[m] = trail[m] /\ Len(trail) <= Len(l.trail)
    BY DEF WasRead
  <2>3. l.trail \in Trails
    BY DEF IsReviewed, IsReport
  <2>4. m \in 1..Len(trail) /\ Len(trail) \in Nat
        /\ DOMAIN l.trail = 1..Len(l.trail) /\ Len(l.trail) \in Nat
    BY <1>3, <2>3 DEF Trails
  <2>5. m \in DOMAIN l.trail
    BY <2>2, <2>4
  <2>6. l.trail[m][1] \in DOMAIN l.figure
    BY <2>5 DEF IsReviewed
  <2>7. trail[m][1] \in DOMAIN figure /\ src[trail[m][1]] = figure[trail[m][1]]
    BY <1>4, <2>1
  <2>8. l.figure[trail[m][1]].identity = src[trail[m][1]].identity
    BY <2>2, <2>6, <2>7 DEF WasRead
  <2>9. HasSaid(l, history[n][1][1], history[n][2])
    BY <2>1, <2>2, <2>5, <2>6, <2>8 DEF HasSaid
  <2> QED
    BY <1>5, <1>14, <2>9
<1>16. MayInsert(insert, tgt, l)
  BY <1>1, <1>9, <1>10 DEF MayInsert
<1>17. MayUpdate(update, tgt, l)
  BY <1>1, <1>12 DEF MayUpdate
<1>18. MayFile(history, tgt, l)
  BY <1>1, <1>14, <1>15 DEF MayFile
<1>19. IsPlanned(plan, tgt, l)
  BY <1>8, <1>11, <1>13, <1>16, <1>17, <1>18 DEF IsPlanned
<1> QED
  BY <1>1, <1>19

\* Every figure read is held, decided and linked alike if it shares its identity with
\* none, with what is filed of it; what else is held is decided.
IsOneWith(text, trail, held, past) ==
    /\ \A i \in DOMAIN text : \E j \in DOMAIN held : held[j].identity = text[i].identity
    /\ \A i \in Lone(text), j \in DOMAIN held :
          held[j].identity = text[i].identity =>
             /\ held[j].decision = text[i].decision
             /\ text[i].same \in DOMAIN text <=> held[j].same \in DOMAIN held
             /\ text[i].same \in DOMAIN text =>
                   text[text[i].same].identity = held[held[j].same].identity
    /\ \A j \in DOMAIN held :
          Decided(held[j]) \/ \E i \in DOMAIN text : text[i].identity = held[j].identity
    /\ \A m \in DOMAIN trail : trail[m][1] \in DOMAIN text =>
          \E k \in DOMAIN past : /\ past[k][1] \in DOMAIN held /\ past[k][2] = trail[m][2]
                                 /\ held[past[k][1]].identity = text[trail[m][1]].identity

\* When nothing is left to do, readers are told what was read, and beside it only
\* what is decided.
LEMMA SettledIs ==
    ASSUME NEW figure, NEW trail, NEW held, NEW past,
           IsTable(figure), AreApart(figure), trail \in Trails, FiledOnce(trail),
           IsTable(held), AreApart(held),
           IsSettled(PlanRefresh(figure, trail, held, past))
    PROVE  IsOneWith(Text(figure), trail, held, past)
<1>1. PICK src, plan : src = Text(figure) /\ plan = PlanRefresh(figure, trail, held, past)
  OBVIOUS
<1>2. /\ plan.insert = ToInsert(src, held) /\ plan.update = ToUpdate(src, held)
      /\ plan.retire = ToRetire(src, held) /\ plan.history = ToFile(src, trail, held, past)
      /\ plan.links = ToLink(src, held)
  BY <1>1 DEF PlanRefresh
<1>3. /\ plan.insert = <<>> /\ plan.history = <<>>
      /\ plan.update = {} /\ plan.retire = {} /\ plan.links = {}
  BY <1>1 DEF IsSettled
<1>4. DOMAIN plan.insert = {} /\ DOMAIN plan.history = {}
  BY <1>3
<1>5. IsTable(src) /\ AreApart(src)
  BY <1>1, TextIs
<1>6. ASSUME NEW i \in DOMAIN src
      PROVE  \E j \in DOMAIN held : held[j].identity = src[i].identity
  <2>1. KeyOf(src, i) \in Keys(held)
    BY <1>2, <1>4, <1>5, InsertsAre
  <2> QED
    BY <1>5, <2>1, SameKeys
<1>7. ASSUME NEW i \in DOMAIN src, src[i].identity \notin Shared,
             NEW j \in DOMAIN held, held[j].identity = src[i].identity
      PROVE  /\ held[j].decision = src[i].decision
             /\ src[i].same \in DOMAIN src <=> held[j].same \in DOMAIN held
             /\ src[i].same \in DOMAIN src => src[src[i].same].identity = held[held[j].same].identity
  <2>1. held[j].decision = src[i].decision
    <3>1. ToUpdate(src, held) = {}
      BY <1>2, <1>3
    <3>2. \A m \in DOMAIN src, n \in DOMAIN held :
             src[m].identity \notin Shared /\ src[m].identity = held[n].identity =>
                src[m].decision = held[n].decision
      BY <1>5, <3>1, UpdatesAre
    <3> QED
      BY <1>7, <3>2
  <2>2. ToLink(src, held) = {}
    BY <1>2, <1>3
  <2> QED
    BY <1>5, <1>7, <2>1, <2>2, LinksAre
<1>8. ASSUME NEW j \in DOMAIN held
      PROVE  Decided(held[j]) \/ \E i \in DOMAIN src : src[i].identity = held[j].identity
  <2>1. ToRetire(src, held) = {}
    BY <1>2, <1>3
  <2> QED
    BY <1>5, <2>1, RetiresAre
<1>9. ASSUME NEW m \in DOMAIN trail, trail[m][1] \in DOMAIN src
      PROVE  \E k \in DOMAIN past : /\ past[k][1] \in DOMAIN held /\ past[k][2] = trail[m][2]
                                    /\ held[past[k][1]].identity = src[trail[m][1]].identity
  <2>1. DOMAIN ToFile(src, trail, held, past) = {}
    BY <1>2, <1>4
  <2> QED
    BY <1>5, <1>9, <2>1, FilesAre
<1> QED
  BY <1>1, <1>6, <1>7, <1>8, <1>9 DEF IsOneWith, Lone

-----------------------------------------------------------------------------
(* What applying a plan leaves.                                              *)

\* The figures: those readers are told of, as they were or as decided anew, and
\* those inserted.
LEMMA RefreshedIs ==
    ASSUME NEW l, NEW tgt, NEW plan, IsReaders(tgt, l), IsPlanned(plan, tgt, l)
    PROVE  LET figure == Refreshed(tgt, plan)
           IN  /\ IsTable(figure) /\ AreApart(figure)
               /\ tgt.last + Len(plan.insert) \in Nat
               /\ DOMAIN figure \subseteq 1..tgt.last + Len(plan.insert)
               /\ \A i \in DOMAIN figure :
                     /\ figure[i].identity \notin Scanned
                     /\ figure[i].identity \notin Shared /\ Decided(figure[i]) =>
                           Says(l, figure[i].identity, figure[i].decision)
               /\ \A i \in DOMAIN tgt.figure :
                     /\ Decided(tgt.figure[i]) => i \in DOMAIN figure
                     /\ i \in DOMAIN figure => figure[i].identity = tgt.figure[i].identity
<1>1. PICK old, gone, kept, N, last, insert, update :
         /\ old = tgt.figure
         /\ gone = {i \in DOMAIN tgt.figure : i \in plan.retire /\ ~Decided(tgt.figure[i])}
         /\ kept = Without(old, gone) /\ insert = plan.insert /\ N = Len(insert)
         /\ last = tgt.last /\ update = plan.update
  OBVIOUS
<1>2. PICK figure : figure = Refreshed(tgt, plan)
  OBVIOUS
<1>3. /\ IsTable(old) /\ AreApart(old) /\ last \in Nat /\ DOMAIN old \subseteq 1..last
      /\ \A i \in DOMAIN old : old[i].identity \notin Scanned
      /\ \A i \in DOMAIN old : old[i].identity \notin Shared /\ Decided(old[i]) =>
            Says(l, old[i].identity, old[i].decision)
  BY <1>1 DEF IsReaders, IsReport, IsCopyOf, Lone
<1>4. /\ insert \in Seq(Figure)
      /\ \A n \in DOMAIN insert :
            /\ insert[n].identity \notin Scanned
            /\ insert[n].identity \notin Shared =>
                  /\ \A i \in DOMAIN old : insert[n].identity # old[i].identity
                  /\ Decided(insert[n]) => Says(l, insert[n].identity, insert[n].decision)
                  /\ \A m \in DOMAIN insert : insert[n].identity = insert[m].identity => n = m
      /\ \A u \in update :
            /\ u[1] \in DOMAIN old /\ u[2] \in Sayings
            /\ old[u[1]].identity \notin Shared =>
                  (u[2] # Undecided => Says(l, old[u[1]].identity, u[2]))
  BY <1>1 DEF IsPlanned, MayInsert, MayUpdate
<1>5. /\ N \in Nat /\ DOMAIN insert = 1..N /\ \A n \in 1..N : insert[n] \in Figure
  BY <1>1, <1>4
<1>6. /\ IsTable(kept) /\ DOMAIN kept = DOMAIN old \ gone
      /\ \A j \in DOMAIN old \ gone : /\ kept[j].identity = old[j].identity
                                      /\ kept[j].decision = old[j].decision
  <2>1. /\ IsTable(Without(old, gone)) /\ DOMAIN Without(old, gone) = DOMAIN old \ gone
        /\ \A j \in DOMAIN old \ gone : /\ Without(old, gone)[j].identity = old[j].identity
                                        /\ Without(old, gone)[j].decision = old[j].decision
    BY <1>3, WithoutIs
  <2> QED
    BY <1>1, <2>1
<1>7. figure = [i \in DOMAIN kept \cup (last + 1..last + N) |->
                   IF i \in last + 1..last + N THEN insert[i - last]
                   ELSE IF \E u \in update : u[1] = i
                   THEN [kept[i] EXCEPT !.decision = (CHOOSE u \in update : u[1] = i)[2]]
                   ELSE kept[i]]
  BY <1>1, <1>2 DEF Refreshed
<1>8. DOMAIN figure = DOMAIN kept \cup (last + 1..last + N)
  BY <1>7
<1>9. ASSUME NEW i \in last + 1..last + N
      PROVE  i - last \in 1..N /\ figure[i] = insert[i - last] /\ i \notin DOMAIN old /\ i \in Nat
             /\ i \notin DOMAIN kept
  <2>1. i - last \in 1..N /\ i \in Nat /\ i > last
    BY <1>3, <1>5
  <2>2. i \notin DOMAIN old
    BY <1>3, <2>1
  <2> QED
    BY <1>6, <1>7, <1>8, <2>1, <2>2
<1>10. ASSUME NEW i \in DOMAIN kept
       PROVE  /\ i \in DOMAIN old /\ figure[i] \in Figure /\ i \in Nat /\ i <= last
              /\ figure[i].identity = old[i].identity
              /\ old[i].identity \notin Shared /\ Decided(figure[i]) =>
                    Says(l, old[i].identity, figure[i].decision)
  <2>1. i \in DOMAIN old /\ i \in 1..last
    BY <1>3, <1>6
  <2>2. i \in Nat /\ i <= last /\ i \notin last + 1..last + N
    BY <1>3, <1>5, <2>1
  <2>3. kept[i] \in Figure /\ kept[i].identity = old[i].identity /\ kept[i].decision = old[i].decision
    BY <1>6 DEF IsTable
  <2>4. CASE \E u \in update : u[1] = i
    <3>1. PICK u : u = CHOOSE v \in update : v[1] = i
      OBVIOUS
    <3>2. u \in update /\ u[1] = i
      BY <2>4, <3>1
    <3>3. /\ u[2] \in Sayings
          /\ old[i].identity \notin Shared => (u[2] # Undecided => Says(l, old[i].identity, u[2]))
      BY <1>4, <3>2
    <3>4. PICK f, d : f = kept[i] /\ d = u[2]
      OBVIOUS
    <3>5. figure[i] = [f EXCEPT !.decision = d]
      BY <1>7, <1>8, <2>2, <2>4, <3>1, <3>4
    <3>6. figure[i] \in Figure /\ figure[i].identity = f.identity /\ figure[i].decision = d
      BY <2>3, <3>3, <3>4, <3>5 DEF Figure, Sayings
    <3> QED
      BY <2>1, <2>2, <2>3, <3>3, <3>4, <3>6 DEF Decided
  <2>5. CASE ~\E u \in update : u[1] = i
    <3>1. figure[i] = kept[i]
      BY <1>7, <1>8, <2>2, <2>5
    <3>2. Decided(figure[i]) => Decided(old[i])
      BY <2>3, <3>1 DEF Decided
    <3> QED
      BY <1>3, <2>1, <2>2, <2>3, <3>1, <3>2
  <2> QED
    BY <2>4, <2>5
<1>11. \A i \in DOMAIN figure : figure[i] \in Figure /\ i \in Nat
  BY <1>5, <1>8, <1>9, <1>10
<1>12. IsTable(figure)
  <2>1. IsFiniteSet(DOMAIN kept)
    BY <1>6 DEF IsTable
  <2>2. last + 1 \in Int /\ last + N \in Int
    BY <1>3, <1>5
  <2>3. IsFiniteSet(last + 1..last + N)
    BY <2>2, FS_Interval
  <2>4. IsFiniteSet(DOMAIN figure)
    BY <1>8, <2>1, <2>3, FS_Union
  <2>5. figure = [i \in DOMAIN figure |-> figure[i]]
    BY <1>7, <1>8
  <2> QED
    BY <1>11, <2>4, <2>5 DEF IsTable
<1>13. AreApart(figure)
  <2> SUFFICES ASSUME NEW i \in DOMAIN figure, NEW j \in DOMAIN figure,
                      figure[i].identity \notin Shared, figure[i].identity = figure[j].identity
               PROVE  i = j
    BY DEF AreApart
  <2>1. CASE i \in DOMAIN kept /\ j \in DOMAIN kept
    <3>1. /\ old[i].identity = old[j].identity /\ old[i].identity \notin Shared
          /\ i \in DOMAIN old /\ j \in DOMAIN old
      BY <1>10, <2>1
    <3> QED
      BY <1>3, <3>1 DEF AreApart
  <2>2. CASE i \in DOMAIN kept /\ j \in last + 1..last + N
    <3>1. figure[j] = insert[j - last] /\ j - last \in DOMAIN insert
      BY <1>5, <1>9, <2>2
    <3>2. i \in DOMAIN old /\ figure[i].identity = old[i].identity
      BY <1>10, <2>2
    <3> QED
      BY <1>4, <3>1, <3>2
  <2>3. CASE j \in DOMAIN kept /\ i \in last + 1..last + N
    <3>1. figure[i] = insert[i - last] /\ i - last \in DOMAIN insert
      BY <1>5, <1>9, <2>3
    <3>2. j \in DOMAIN old /\ figure[j].identity = old[j].identity
      BY <1>10, <2>3
    <3> QED
      BY <1>4, <3>1, <3>2
  <2>4. CASE i \in last + 1..last + N /\ j \in last + 1..last + N
    <3>1. /\ figure[i] = insert[i - last] /\ i - last \in DOMAIN insert /\ i \in Nat
          /\ figure[j] = insert[j - last] /\ j - last \in DOMAIN insert /\ j \in Nat
      BY <1>5, <1>9, <2>4
    <3>2. i - last = j - last
      BY <1>4, <3>1
    <3> QED
      BY <1>3, <3>1, <3>2
  <2> QED
    BY <1>8, <2>1, <2>2, <2>3, <2>4
<1>14. ASSUME NEW i \in DOMAIN figure
       PROVE  /\ figure[i].identity \notin Scanned
              /\ figure[i].identity \notin Shared /\ Decided(figure[i]) =>
                    Says(l, figure[i].identity, figure[i].decision)
  <2>1. CASE i \in DOMAIN kept
    BY <1>3, <1>10, <2>1
  <2>2. CASE i \in last + 1..last + N
    <3>1. figure[i] = insert[i - last] /\ i - last \in DOMAIN insert
      BY <1>5, <1>9, <2>2
    <3> QED
      BY <1>4, <3>1
  <2> QED
    BY <1>8, <2>1, <2>2
<1>15. ASSUME NEW i \in DOMAIN old
       PROVE  /\ Decided(old[i]) => i \in DOMAIN figure
              /\ i \in DOMAIN figure => figure[i].identity = old[i].identity
  <2>1. Decided(old[i]) => i \notin gone
    BY <1>1
  <2>2. i \notin last + 1..last + N
    BY <1>9
  <2> QED
    BY <1>6, <1>8, <1>10, <2>1, <2>2
<1>16. last + N \in Nat /\ DOMAIN figure \subseteq 1..last + N
  <2>1. last + N \in Nat
    BY <1>3, <1>5
  <2>2. \A i \in DOMAIN kept : i \in 1..last
    BY <1>3, <1>6
  <2> QED
    BY <1>3, <1>5, <1>8, <2>1, <2>2
<1> QED
  BY <1>1, <1>2, <1>12, <1>13, <1>14, <1>15, <1>16

LEMMA LinkedIs ==
    ASSUME NEW figure, NEW links, IsTable(figure),
           \A k \in links : k[1] \in Keys(figure) /\ k[2] \in Keys(figure) \cup {Null}
    PROVE  /\ IsTable(Linked(figure, links)) /\ DOMAIN Linked(figure, links) = DOMAIN figure
           /\ \A i \in DOMAIN figure : /\ Linked(figure, links)[i].identity = figure[i].identity
                                       /\ Linked(figure, links)[i].decision = figure[i].decision
<1>1. PICK new : new = Linked(figure, links)
  OBVIOUS
<1>2. new = [i \in DOMAIN figure |->
                IF \E k \in links : k[1] = KeyOf(figure, i)
                THEN LET to == (CHOOSE k \in links : k[1] = KeyOf(figure, i))[2]
                     IN  [figure[i] EXCEPT !.same = IF to = Null THEN Null ELSE WithKey(figure, to)]
                ELSE figure[i]]
  BY <1>1 DEF Linked
<1>3. DOMAIN new = DOMAIN figure
  BY <1>2
<1>4. ASSUME NEW i \in DOMAIN figure
      PROVE  /\ new[i] \in Figure /\ new[i].identity = figure[i].identity
             /\ new[i].decision = figure[i].decision
  <2>1. PICK f : f = figure[i]
    OBVIOUS
  <2>2. f \in Figure
    BY <2>1 DEF IsTable
  <2>3. CASE \E k \in links : k[1] = KeyOf(figure, i)
    <3>1. PICK chosen : chosen = CHOOSE k \in links : k[1] = KeyOf(figure, i)
      OBVIOUS
    <3>2. chosen \in links
      BY <2>3, <3>1
    <3>3. PICK to : to = chosen[2]
      OBVIOUS
    <3>4. PICK same : same = IF to = Null THEN Null ELSE WithKey(figure, to)
      OBVIOUS
    <3>5. new[i] = [f EXCEPT !.same = same]
      BY <1>2, <2>1, <2>3, <3>1, <3>3, <3>4
    <3>6. same \in Nat \cup {Null}
      <4>1. CASE to = Null
        BY <3>4, <4>1
      <4>2. CASE to # Null
        <5>1. to \in Keys(figure)
          BY <3>2, <3>3, <4>2
        <5>2. WithKey(figure, to) \in DOMAIN figure
          BY <5>1 DEF Keys, WithKey
        <5> QED
          BY <3>4, <4>2, <5>2 DEF IsTable
      <4> QED
        BY <4>1, <4>2
    <3> QED
      BY <2>1, <2>2, <3>5, <3>6 DEF Figure
  <2>4. CASE ~\E k \in links : k[1] = KeyOf(figure, i)
    BY <1>2, <2>1, <2>2, <2>4
  <2> QED
    BY <2>3, <2>4
<1>5. IsTable(new)
  <2>1. new = [i \in DOMAIN new |-> new[i]]
    BY <1>2, <1>3
  <2>2. DOMAIN new \subseteq Nat /\ IsFiniteSet(DOMAIN new)
    BY <1>3 DEF IsTable
  <2> QED
    BY <1>3, <1>4, <2>1, <2>2 DEF IsTable
<1> QED
  BY <1>1, <1>3, <1>4, <1>5

Refiled(past, figure, history) ==
    InOrder(past, {n \in DOMAIN past : past[n][1] \in DOMAIN figure})
    \o [n \in DOMAIN history |-> <<WithKey(figure, history[n][1]), history[n][2]>>]

MayBeFiled(past, figure, history) ==
    /\ past \in Trails /\ history \in Seq(Filings)
    /\ \A n, m \in DOMAIN past :
          /\ past[n][1] \in DOMAIN figure /\ figure[past[n][1]].identity \notin Shared
          /\ past[n] = past[m]
          => n = m
    /\ \A n \in DOMAIN history :
          /\ history[n][1] \in Keys(figure)
          /\ history[n][1][1] \notin Shared =>
                /\ \A m \in DOMAIN history : history[n] = history[m] => n = m
                /\ \A m \in DOMAIN past : past[m][1] \in DOMAIN figure =>
                      ~ /\ figure[past[m][1]].identity = history[n][1][1]
                        /\ past[m][2] = history[n][2]

IsRefiled(trail, past, figure, history) ==
    /\ trail \in Trails
    /\ \A n \in DOMAIN past : past[n][1] \in DOMAIN figure => past[n] \in Filed(trail)
    /\ \A n \in DOMAIN trail :
          /\ trail[n][1] \in DOMAIN figure
          /\ figure[trail[n][1]].identity \notin Shared =>
                \A m \in DOMAIN trail : trail[n] = trail[m] => n = m
          /\ \/ \E m \in DOMAIN past : trail[n] = past[m]
             \/ \E m \in DOMAIN history : /\ figure[trail[n][1]].identity = history[m][1][1]
                                          /\ trail[n][2] = history[m][2]

\* The trail filed again: every entry there was of a figure still there, and those of
\* the plan, none of them twice if its figure shares its identity with none.
LEMMA TrailIs ==
    ASSUME NEW past, NEW figure, NEW history, IsTable(figure), AreApart(figure),
           MayBeFiled(past, figure, history)
    PROVE  IsRefiled(Refiled(past, figure, history), past, figure, history)
<1> PICK trail : trail = Refiled(past, figure, history)
  OBVIOUS
<1>1. /\ past \in Trails /\ history \in Seq(Filings)
      /\ \A n, m \in DOMAIN past :
            /\ past[n][1] \in DOMAIN figure /\ figure[past[n][1]].identity \notin Shared
            /\ past[n] = past[m]
            => n = m
      /\ \A n \in DOMAIN history :
            /\ history[n][1] \in Keys(figure)
            /\ history[n][1][1] \notin Shared =>
                  /\ \A m \in DOMAIN history : history[n] = history[m] => n = m
                  /\ \A m \in DOMAIN past : past[m][1] \in DOMAIN figure =>
                        ~ /\ figure[past[m][1]].identity = history[n][1][1]
                          /\ past[m][2] = history[n][2]
  BY DEF MayBeFiled
<1>2. PICK ids, kept, filed :
         /\ ids = {n \in DOMAIN past : past[n][1] \in DOMAIN figure}
         /\ kept = InOrder(past, ids)
         /\ filed = [n \in DOMAIN history |-> <<WithKey(figure, history[n][1]), history[n][2]>>]
  OBVIOUS
<1>3. PICK M, H : M = Cardinality(ids) /\ H = Len(history)
  OBVIOUS
<1>4. /\ H \in Nat /\ DOMAIN history = 1..H
      /\ \A n \in 1..H : history[n] \in Filings
  BY <1>1, <1>3
<1>5. /\ Len(past) \in Nat /\ DOMAIN past = 1..Len(past)
      /\ \A n \in DOMAIN past : past[n] \in Nat \X Decisions
  BY <1>1 DEF Trails
<1>6. IsFiniteSet(DOMAIN past) /\ DOMAIN past \in SUBSET Nat
  BY <1>5, FS_Interval
<1>7. ids \in SUBSET DOMAIN past
  BY <1>2
<1>8. ids \in SUBSET Nat /\ IsFiniteSet(ids)
  BY <1>6, <1>7, FS_Subset
<1>9. trail = kept \o filed
  BY <1>2 DEF Refiled
<1>10. /\ M \in Nat /\ kept = [n \in 1..M |-> past[NthOf(ids, n)]]
       /\ \A n \in 1..M : NthOf(ids, n) \in ids /\ Rank(ids, NthOf(ids, n)) = n
       /\ \A m \in ids : Rank(ids, m) \in 1..M /\ NthOf(ids, Rank(ids, m)) = m
  <2>1. /\ Cardinality(ids) \in Nat
        /\ InOrder(past, ids) = [n \in 1..Cardinality(ids) |-> past[NthOf(ids, n)]]
        /\ \A n \in 1..Cardinality(ids) : /\ NthOf(ids, n) \in ids
                                          /\ Rank(ids, NthOf(ids, n)) = n
        /\ \A i \in ids : Rank(ids, i) \in 1..Cardinality(ids) /\ NthOf(ids, Rank(ids, i)) = i
    BY <1>8, InOrderIs
  <2> QED
    BY <1>2, <1>3, <2>1
<1>11. ASSUME NEW n \in 1..M
       PROVE  /\ NthOf(ids, n) \in DOMAIN past /\ kept[n] = past[NthOf(ids, n)]
              /\ kept[n] \in Nat \X Decisions /\ kept[n][1] \in DOMAIN figure
  BY <1>2, <1>5, <1>10
<1>12. ASSUME NEW n \in 1..H
       PROVE  /\ filed[n][1] \in DOMAIN figure /\ filed[n] \in Nat \X Decisions
              /\ history[n] = <<KeyOf(figure, filed[n][1]), filed[n][2]>>
              /\ history[n][1][1] = figure[filed[n][1]].identity /\ history[n][2] = filed[n][2]
  <2>1. PICK key, d : key \in Identities \X Nat /\ d \in Decisions /\ history[n] = <<key, d>>
    BY <1>4 DEF Filings
  <2>2. key \in Keys(figure) /\ history[n][1] = key /\ history[n][2] = d
    <3>1. history[n][1] = key /\ history[n][2] = d
      BY <2>1
    <3>2. \A m \in 1..H : history[m][1] \in Keys(figure)
      BY <1>1, <1>4
    <3> QED
      BY <3>1, <3>2
  <2>3. /\ WithKey(figure, key) \in DOMAIN figure
        /\ KeyOf(figure, WithKey(figure, key)) = key
        /\ key[1] = figure[WithKey(figure, key)].identity
    BY <2>2, KeysAre
  <2>4. filed[n] = <<WithKey(figure, key), d>>
    BY <1>2, <1>4, <2>2
  <2>5. filed[n][1] = WithKey(figure, key) /\ filed[n][2] = d
    BY <2>4
  <2>6. filed[n][1] \in DOMAIN figure /\ filed[n][1] \in Nat
    BY <2>3, <2>5 DEF IsTable
  <2>7. filed[n] \in Nat \X Decisions
    BY <2>1, <2>4, <2>5, <2>6
  <2> QED
    BY <2>1, <2>2, <2>3, <2>5, <2>6, <2>7
<1>13. kept \in Trails /\ Len(kept) = M
  <2>1. kept \in [1..M -> Nat \X Decisions]
    BY <1>10, <1>11
  <2> QED
    BY <1>10, <2>1 DEF Trails
<1>14. filed \in Trails /\ Len(filed) = H
  <2>1. PICK all : all = Nat \X Decisions
    OBVIOUS
  <2>2. filed \in [1..H -> all]
    BY <1>2, <1>4, <1>12, <2>1
  <2>3. filed \in Seq(all) /\ Len(filed) = H
    BY <1>4, <2>2
  <2> QED
    BY <2>1, <2>3 DEF Trails
<1>15. /\ trail \in Trails /\ DOMAIN trail = 1..M + H
       /\ \A n \in 1..M : trail[n] = kept[n]
       /\ \A n \in M + 1..M + H : trail[n] = filed[n - M]
  <2>1. PICK all : all = Nat \X Decisions
    OBVIOUS
  <2>2. kept \in Seq(all) /\ filed \in Seq(all)
    BY <1>13, <1>14, <2>1 DEF Trails
  <2>3. /\ kept \o filed \in Seq(all) /\ Len(kept \o filed) = Len(kept) + Len(filed)
        /\ \A n \in 1..Len(kept) + Len(filed) :
              (kept \o filed)[n] = IF n <= Len(kept) THEN kept[n] ELSE filed[n - Len(kept)]
    BY <2>2, ConcatProperties
  <2>4. /\ trail \in Seq(all) /\ Len(trail) = M + H
        /\ \A n \in 1..M + H : trail[n] = IF n <= M THEN kept[n] ELSE filed[n - M]
    BY <1>9, <1>13, <1>14, <2>3
  <2>5. trail \in Trails /\ DOMAIN trail = 1..M + H
    BY <2>1, <2>4 DEF Trails
  <2>6. \A n \in 1..M : n \in 1..M + H /\ n <= M
    BY <1>4, <1>10
  <2>7. \A n \in M + 1..M + H : n \in 1..M + H /\ ~(n <= M)
    BY <1>4, <1>10
  <2> QED
    BY <2>4, <2>5, <2>6, <2>7
<1>16. ASSUME NEW n \in DOMAIN trail
       PROVE  \/ n \in 1..M /\ trail[n] = kept[n]
              \/ n \in M + 1..M + H /\ n - M \in 1..H /\ trail[n] = filed[n - M]
  <2>1. n \in Int /\ (n \in 1..M \/ n \in M + 1..M + H)
    BY <1>4, <1>10, <1>15
  <2>2. n \in M + 1..M + H => n - M \in 1..H
    BY <1>4, <1>10
  <2> QED
    BY <1>15, <2>1, <2>2
<1>17. ASSUME NEW n \in 1..M, NEW m \in 1..H, figure[kept[n][1]].identity \notin Shared
       PROVE  kept[n] # filed[m]
  <2> SUFFICES ASSUME kept[n] = filed[m] PROVE FALSE
    OBVIOUS
  <2>1. PICK k : k \in DOMAIN past /\ kept[n] = past[k] /\ past[k][1] \in DOMAIN figure
    BY <1>11
  <2>2. /\ m \in DOMAIN history
        /\ history[m][1][1] = figure[filed[m][1]].identity /\ history[m][2] = filed[m][2]
    BY <1>4, <1>12
  <2>3. filed[m] = past[k] /\ figure[past[k][1]].identity \notin Shared
    BY <1>17, <2>1
  <2> QED
    BY <1>1, <2>1, <2>2, <2>3
<1>18. ASSUME NEW n \in 1..M, NEW m \in 1..M, kept[n] = kept[m],
              figure[kept[n][1]].identity \notin Shared
       PROVE  n = m
  <2>1. PICK j, k : j = NthOf(ids, n) /\ k = NthOf(ids, m)
    OBVIOUS
  <2>2. /\ j \in DOMAIN past /\ k \in DOMAIN past /\ past[j] = past[k] /\ kept[n] = past[j]
        /\ past[j][1] \in DOMAIN figure
    BY <1>11, <1>18, <2>1
  <2>3. j = k
    BY <1>1, <1>18, <2>2
  <2> QED
    BY <1>10, <2>1, <2>3
<1>19. ASSUME NEW n \in 1..H, NEW m \in 1..H, filed[n] = filed[m],
              figure[filed[n][1]].identity \notin Shared
       PROVE  n = m
  <2>1. PICK f : f = filed[n]
    OBVIOUS
  <2>2. history[n] = <<KeyOf(figure, f[1]), f[2]>> /\ history[n][1][1] \notin Shared
    BY <1>12, <1>19, <2>1
  <2>3. history[m] = <<KeyOf(figure, f[1]), f[2]>>
    BY <1>12, <1>19, <2>1
  <2>4. n \in DOMAIN history /\ m \in DOMAIN history
    BY <1>4
  <2>5. history[n] = history[m]
    BY <2>2, <2>3
  <2> QED
    BY <1>1, <2>2, <2>4, <2>5
<1>20. ASSUME NEW n \in DOMAIN trail, NEW m \in DOMAIN trail, trail[n] = trail[m],
              figure[trail[n][1]].identity \notin Shared
       PROVE  n = m
  <2>1. CASE n \in 1..M /\ trail[n] = kept[n]
    <3>1. m \in 1..M /\ trail[m] = kept[m]
      BY <1>16, <1>17, <1>20, <2>1
    <3> QED
      BY <1>18, <1>20, <2>1, <3>1
  <2>2. CASE n \in M + 1..M + H /\ n - M \in 1..H /\ trail[n] = filed[n - M]
    <3>1. m \in M + 1..M + H /\ m - M \in 1..H /\ trail[m] = filed[m - M]
      <4>1. ~(m \in 1..M /\ trail[m] = kept[m])
        BY <1>17, <1>20, <2>2
      <4> QED
        BY <1>16, <4>1
    <3>2. n - M = m - M
      BY <1>19, <1>20, <2>2, <3>1
    <3> QED
      BY <1>10, <2>2, <3>1, <3>2
  <2> QED
    BY <1>16, <2>1, <2>2
<1>21. ASSUME NEW m \in DOMAIN past, past[m][1] \in DOMAIN figure
       PROVE  past[m] \in Filed(trail)
  <2>1. PICK n : n = Rank(ids, m)
    OBVIOUS
  <2>2. m \in ids
    BY <1>2, <1>21
  <2>3. n \in 1..M /\ NthOf(ids, n) = m
    BY <1>10, <2>1, <2>2
  <2>4. kept[n] = past[m] /\ trail[n] = kept[n]
    BY <1>11, <1>15, <2>3
  <2>5. n \in 1..M + H
    BY <1>4, <1>10, <2>3
  <2>6. n \in DOMAIN trail /\ trail[n] = past[m]
    BY <1>15, <2>4, <2>5
  <2> QED
    BY <2>6, Zenon DEF Filed
<1>22. ASSUME NEW n \in DOMAIN trail
       PROVE  /\ trail[n][1] \in DOMAIN figure
              /\ \/ \E m \in DOMAIN past : trail[n] = past[m]
                 \/ \E m \in DOMAIN history : /\ figure[trail[n][1]].identity = history[m][1][1]
                                              /\ trail[n][2] = history[m][2]
  <2>1. CASE n \in 1..M /\ trail[n] = kept[n]
    <3>1. PICK k : k \in DOMAIN past /\ kept[n] = past[k] /\ kept[n][1] \in DOMAIN figure
      BY <1>11, <2>1
    <3> QED
      BY <2>1, <3>1
  <2>2. CASE n \in M + 1..M + H /\ n - M \in 1..H /\ trail[n] = filed[n - M]
    <3>1. PICK k : k = n - M
      OBVIOUS
    <3>2. k \in 1..H /\ trail[n] = filed[k]
      BY <2>2, <3>1
    <3>3. /\ filed[k][1] \in DOMAIN figure /\ k \in DOMAIN history
          /\ history[k][1][1] = figure[filed[k][1]].identity /\ history[k][2] = filed[k][2]
      BY <1>4, <1>12, <3>2
    <3> QED
      BY <3>2, <3>3
  <2> QED
    BY <1>16, <2>1, <2>2
<1> QED
  BY <1>15, <1>20, <1>21, <1>22 DEF IsRefiled

\* What is written is told as the ledger tells it, and keeps what the target told.
LEMMA AppliedIs ==
    ASSUME NEW l, NEW tgt, NEW plan, IsToldNow(tgt, l), IsPlanned(plan, tgt, l),
           Fits(Refreshed(tgt, plan), plan)
    PROVE  IsReaders(Applied(tgt, plan), l) /\ KeepsTarget(Applied(tgt, plan), tgt)
<1>1. PICK figure, linked, old, past, history, links, trail, last :
         /\ figure = Refreshed(tgt, plan) /\ links = plan.links /\ linked = Linked(figure, links)
         /\ old = tgt.figure /\ past = tgt.trail /\ history = plan.history
         /\ trail = Refiled(past, figure, history)
         /\ last = tgt.last + Len(plan.insert)
  OBVIOUS
<1>2. PICK work : work = Applied(tgt, plan)
  OBVIOUS
<1>3. work = [figure |-> linked, trail |-> trail, last |-> last]
  BY <1>1, <1>2 DEF Applied, Refiled
<1>4. work.figure = linked /\ work.trail = trail /\ work.last = last
  BY <1>3
<1>5. IsReaders(tgt, l) /\ \A n \in OfLone(tgt) : Decided(old[past[n][1]])
  BY <1>1 DEF IsToldNow
<1>6. /\ IsTable(figure) /\ AreApart(figure) /\ last \in Nat /\ DOMAIN figure \subseteq 1..last
      /\ \A i \in DOMAIN figure :
            /\ figure[i].identity \notin Scanned
            /\ figure[i].identity \notin Shared /\ Decided(figure[i]) =>
                  Says(l, figure[i].identity, figure[i].decision)
      /\ \A i \in DOMAIN old :
            /\ Decided(old[i]) => i \in DOMAIN figure
            /\ i \in DOMAIN figure => figure[i].identity = old[i].identity
  BY <1>1, <1>5, RefreshedIs
<1>7. /\ \A n \in DOMAIN history : history[n][1] \in Keys(figure)
      /\ \A k \in links : k[1] \in Keys(figure) /\ k[2] \in Keys(figure) \cup {Null}
  BY <1>1 DEF Fits
<1>8. /\ IsTable(linked) /\ DOMAIN linked = DOMAIN figure
      /\ \A i \in DOMAIN figure : /\ linked[i].identity = figure[i].identity
                                  /\ linked[i].decision = figure[i].decision
  <2>1. /\ IsTable(Linked(figure, links)) /\ DOMAIN Linked(figure, links) = DOMAIN figure
        /\ \A i \in DOMAIN figure : /\ Linked(figure, links)[i].identity = figure[i].identity
                                    /\ Linked(figure, links)[i].decision = figure[i].decision
    BY <1>6, <1>7, LinkedIs
  <2> QED
    BY <1>1, <2>1
<1>9. /\ past \in Trails /\ \A n \in DOMAIN past : past[n][1] \in DOMAIN old
      /\ \A n \in DOMAIN past : old[past[n][1]].identity \notin Shared =>
            /\ n \in OfLone(tgt)
            /\ HasSaid(l, old[past[n][1]].identity, past[n][2])
            /\ \A m \in DOMAIN past : past[n] = past[m] => n = m
  BY <1>1, <1>5 DEF IsReaders, IsReport, IsCopyOf, LoneOnce, Lone, OfLone
<1>10. \A n \in DOMAIN past :
          /\ past[n][1] \in DOMAIN figure =>
                figure[past[n][1]].identity = old[past[n][1]].identity
          /\ old[past[n][1]].identity \notin Shared => past[n][1] \in DOMAIN figure
  BY <1>5, <1>6, <1>9
<1>11. /\ history \in Seq(Filings)
       /\ \A n \in DOMAIN history : history[n][1][1] \notin Shared =>
             /\ \A m \in DOMAIN history : history[n] = history[m] => n = m
             /\ HasSaid(l, history[n][1][1], history[n][2])
             /\ \A m \in DOMAIN past : ~ /\ old[past[m][1]].identity = history[n][1][1]
                                         /\ past[m][2] = history[n][2]
  BY <1>1 DEF IsPlanned, MayFile
<1>12. \A n, m \in DOMAIN past :
          /\ past[n][1] \in DOMAIN figure /\ figure[past[n][1]].identity \notin Shared
          /\ past[n] = past[m]
          => n = m
  BY <1>9, <1>10
<1>13. MayBeFiled(past, figure, history)
  BY <1>7, <1>9, <1>10, <1>11, <1>12 DEF MayBeFiled
<1>14. /\ trail \in Trails
       /\ \A n \in DOMAIN past : past[n][1] \in DOMAIN figure => past[n] \in Filed(trail)
       /\ \A n \in DOMAIN trail :
             /\ trail[n][1] \in DOMAIN figure
             /\ figure[trail[n][1]].identity \notin Shared =>
                   \A m \in DOMAIN trail : trail[n] = trail[m] => n = m
             /\ \/ \E m \in DOMAIN past : trail[n] = past[m]
                \/ \E m \in DOMAIN history : /\ figure[trail[n][1]].identity = history[m][1][1]
                                             /\ trail[n][2] = history[m][2]
  <2>1. IsRefiled(Refiled(past, figure, history), past, figure, history)
    BY <1>6, <1>13, TrailIs
  <2> QED
    BY <1>1, <2>1 DEF IsRefiled
<1>15. ASSUME NEW n \in DOMAIN trail, linked[trail[n][1]].identity \notin Shared
       PROVE  HasSaid(l, linked[trail[n][1]].identity, trail[n][2])
  <2>1. trail[n][1] \in DOMAIN figure /\ linked[trail[n][1]].identity = figure[trail[n][1]].identity
    BY <1>8, <1>14
  <2>2. CASE \E m \in DOMAIN past : trail[n] = past[m]
    <3>1. PICK m : m \in DOMAIN past /\ trail[n] = past[m]
      BY <2>2
    <3>2. /\ figure[past[m][1]].identity = old[past[m][1]].identity
          /\ HasSaid(l, old[past[m][1]].identity, past[m][2])
      BY <1>9, <1>10, <1>15, <2>1, <3>1
    <3> QED
      BY <1>8, <2>1, <3>1, <3>2
  <2>3. CASE \E m \in DOMAIN history : /\ figure[trail[n][1]].identity = history[m][1][1]
                                       /\ trail[n][2] = history[m][2]
    BY <1>8, <1>11, <1>15, <2>1, <2>3
  <2> QED
    BY <1>14, <2>2, <2>3
<1>16. IsReport(work)
  BY <1>3, <1>4, <1>6, <1>8, <1>14 DEF IsReport
<1>17. AreApart(linked)
  BY <1>6, <1>8 DEF AreApart
<1>18. \A i \in DOMAIN linked :
          /\ linked[i].identity \notin Scanned
          /\ linked[i].identity \notin Shared /\ Decided(linked[i]) =>
                Says(l, linked[i].identity, linked[i].decision)
  BY <1>6, <1>8 DEF Decided
<1>19. \A n \in OfLone(work) :
          /\ n \in DOMAIN trail /\ linked[trail[n][1]].identity \notin Shared
          /\ figure[trail[n][1]].identity \notin Shared
  BY <1>4, <1>8 DEF Lone, OfLone
<1>20. LoneOnce(work)
  <2>1. \A n \in OfLone(work), m \in DOMAIN trail : trail[n] = trail[m] => n = m
    BY <1>14, <1>19
  <2> QED
    BY <1>4, <1>19, <2>1 DEF LoneOnce
<1>21. IsCopyOf(work, l)
  <2>1. \A n \in OfLone(work) : HasSaid(l, linked[trail[n][1]].identity, trail[n][2])
    BY <1>15, <1>19
  <2>2. \A i \in Lone(linked) : Decided(linked[i]) => Says(l, linked[i].identity, linked[i].decision)
    BY <1>18 DEF Lone
  <2> QED
    BY <1>4, <2>1, <2>2 DEF IsCopyOf
<1>22. IsReaders(work, l)
  BY <1>4, <1>8, <1>14, <1>16, <1>17, <1>18, <1>20, <1>21 DEF IsReaders
<1>23. KeepsTarget(work, tgt)
  <2>1. \A n \in OfLone(tgt) : past[n] \in Filed(trail)
    BY <1>1, <1>10, <1>14 DEF Lone, OfLone
  <2> QED
    BY <1>1, <1>4, <1>6, <1>8, <2>1 DEF KeepsTarget
<1> QED
  BY <1>2, <1>22, <1>23

-----------------------------------------------------------------------------
(* Each step of a refresh keeps the invariant.                               *)

LEMMA FindKeeps ==
    ASSUME Apart, PromotionInv, NEW p \in Runs, FindPair(p) PROVE PromotionInv'
<1>1. PICK now, l : l = source /\ now = [pc |-> "sourceTrail", figure |-> l.figure]
  OBVIOUS
<1>2. /\ now.pc = "sourceTrail" /\ now.figure = l.figure /\ Goes(p, now)
      /\ UNCHANGED <<source, target, lock, edits>>
      /\ target # Null /\ \A q \in Runs : ~IsRefreshing(q)
  BY <1>1 DEF FindPair
<1>3. WasRead(l.figure, <<>>, l)
  BY <1>1, ReadNow DEF PromotionInv, IsEdited
<1>4. IsOnTrack(p, now, l, target, lock)
  BY <1>2, <1>3 DEF IsOnTrack, Pcs
<1> QED
  BY <1>1, <1>2, <1>4, RunKeeps

LEMMA ReadSourceKeeps ==
    ASSUME PromotionInv, NEW p \in Runs, ReadSourceTrail(p) PROVE PromotionInv'
<1>1. PICK l, figure : l = source /\ figure = run[p].figure
  OBVIOUS
<1>2. PICK now : now = [pc |-> "targetFigures", figure |-> figure, trail |-> l.trail]
  OBVIOUS
<1>3. /\ now.pc = "targetFigures" /\ now.figure = figure /\ now.trail = l.trail /\ Goes(p, now)
      /\ UNCHANGED <<source, target, lock, edits>> /\ run[p].pc = "sourceTrail"
  BY <1>1, <1>2 DEF ReadSourceTrail
<1>4. target # Null /\ WasRead(figure, <<>>, l)
  BY <1>1, <1>3 DEF PromotionInv, IsOnTrack
<1>5. l.trail \in Trails
  BY <1>1 DEF PromotionInv, IsEdited, IsReviewed, IsReport
<1>6. Len(l.trail) <= Len(l.trail)
  BY <1>5 DEF Trails
<1>7. WasRead(figure, l.trail, l)
  BY <1>4, <1>5, <1>6 DEF WasRead
<1>8. IsOnTrack(p, now, l, target, lock)
  BY <1>3, <1>4, <1>7 DEF IsOnTrack, Pcs
<1> QED
  BY <1>1, <1>3, <1>8, RunKeeps DEF IsRefreshing

LEMMA ReadTargetKeeps ==
    ASSUME PromotionInv, NEW p \in Runs, ReadTargetFigures(p) PROVE PromotionInv'
<1>1. PICK figure, trail : figure = run[p].figure /\ trail = run[p].trail
  OBVIOUS
<1>2. PICK now : now = [pc |-> "targetTrail", figure |-> figure, trail |-> trail, held |-> target.figure]
  OBVIOUS
<1>3. /\ now.pc = "targetTrail" /\ now.figure = figure /\ now.trail = trail
      /\ now.held = target.figure /\ Goes(p, now)
      /\ UNCHANGED <<source, target, lock, edits>> /\ run[p].pc = "targetFigures"
  BY <1>1, <1>2 DEF ReadTargetFigures
<1>4. target # Null /\ WasRead(figure, trail, source)
  BY <1>1, <1>3 DEF PromotionInv, IsOnTrack
<1>5. IsOnTrack(p, now, source, target, lock)
  BY <1>3, <1>4 DEF IsOnTrack, Pcs
<1> QED
  BY <1>3, <1>5, RunKeeps DEF IsRefreshing

LEMMA PlanKeeps ==
    ASSUME PromotionInv, NEW p \in Runs, ReadTargetTrail(p) PROVE PromotionInv'
<1>1. PICK l, tgt, figure, trail, held :
         /\ l = source /\ tgt = target
         /\ figure = run[p].figure /\ trail = run[p].trail /\ held = run[p].held
  OBVIOUS
<1>2. PICK plan : plan = PlanRefresh(figure, trail, held, tgt.trail)
  OBVIOUS
<1>3. /\ run[p].pc = "targetTrail" /\ UNCHANGED <<source, target, lock, edits>>
      /\ Goes(p, IF IsSettled(plan) THEN Idle ELSE [pc |-> "apply", plan |-> plan])
  BY <1>1, <1>2 DEF ReadTargetTrail
<1>4. tgt # Null /\ WasRead(figure, trail, l) /\ held = tgt.figure
  BY <1>1, <1>3 DEF PromotionInv, IsOnTrack
<1>5. IsReviewed(l) /\ IsReaders(tgt, l)
  BY <1>1, <1>4 DEF PromotionInv, IsEdited, IsToldNow
<1>6. IsPlanned(plan, tgt, l)
  BY <1>2, <1>4, <1>5, PlanIsSound
<1>7. IsRefreshing(p)
  BY <1>3 DEF IsRefreshing
<1>8. CASE IsSettled(plan)
  <2>1. PICK now : now = Idle
    OBVIOUS
  <2>2. now.pc = "idle" /\ Goes(p, now)
    BY <1>3, <1>8, <2>1 DEF Idle
  <2>3. IsOnTrack(p, now, l, tgt, lock)
    BY <2>1, AtRestOnTrack DEF Idle
  <2> QED
    BY <1>1, <1>3, <1>7, <2>2, <2>3, RunKeeps
<1>9. CASE ~IsSettled(plan)
  <2>1. PICK now : now = [pc |-> "apply", plan |-> plan]
    OBVIOUS
  <2>2. now.pc = "apply" /\ now.plan = plan /\ Goes(p, now)
    BY <1>3, <1>9, <2>1
  <2>3. IsOnTrack(p, now, l, tgt, lock)
    BY <1>4, <1>6, <2>2 DEF IsOnTrack, Pcs
  <2> QED
    BY <1>1, <1>3, <1>7, <2>2, <2>3, RunKeeps
<1> QED
  BY <1>8, <1>9

LEMMA ApplyKeeps ==
    ASSUME PromotionInv, NEW p \in Runs, Apply(p) PROVE PromotionInv'
<1>1. PICK l, tgt, plan : l = source /\ tgt = target /\ plan = run[p].plan
  OBVIOUS
<1>2. PICK work : work = Applied(tgt, plan)
  OBVIOUS
<1>3. PICK now : now = [pc |-> "check", work |-> work]
  OBVIOUS
<1>4. /\ now.pc = "check" /\ now.work = work /\ Goes(p, now) /\ run[p].pc = "apply"
      /\ UNCHANGED <<source, target, edits>> /\ lock = Null /\ lock' = p
      /\ Fits(Refreshed(tgt, plan), plan)
  BY <1>1, <1>2, <1>3 DEF Apply
<1>5. tgt # Null /\ IsPlanned(plan, tgt, l)
  BY <1>1, <1>4 DEF PromotionInv, IsOnTrack
<1>6. IsToldNow(tgt, l)
  BY <1>1, <1>5 DEF PromotionInv
<1>7. IsReaders(work, l) /\ KeepsTarget(work, tgt)
  BY <1>2, <1>4, <1>5, <1>6, AppliedIs
<1>8. IsOnTrack(p, now, l, tgt, p)
  BY <1>4, <1>5, <1>7 DEF IsOnTrack, Pcs
<1>9. \A q \in Runs : q # p => (lock = q => lock' = q)
  BY <1>4, PromotionAssumption
<1> QED
  BY <1>1, <1>4, <1>8, <1>9, RunKeeps DEF IsRefreshing

LEMMA ReadAgainKeeps ==
    ASSUME PromotionInv, NEW p \in Runs, ReadFiguresAgain(p) PROVE PromotionInv'
<1>1. PICK l, work : l = source /\ work = run[p].work
  OBVIOUS
<1>2. PICK now : now = [pc |-> "checkTrail", work |-> work, asRead |-> l]
  OBVIOUS
<1>3. /\ now.pc = "checkTrail" /\ now.work = work /\ now.asRead = l /\ Goes(p, now)
      /\ UNCHANGED <<source, target, lock, edits>> /\ run[p].pc = "check"
  BY <1>1, <1>2 DEF ReadFiguresAgain
<1>4. target # Null /\ lock = p /\ IsReaders(work, l) /\ KeepsTarget(work, target)
  BY <1>1, <1>3 DEF PromotionInv, IsOnTrack
<1>5. IsReviewed(l) /\ IsToldNow(target, l)
  BY <1>1, <1>4 DEF PromotionInv, IsEdited
<1>6. WasRead(l.figure, l.trail, l) /\ IsCopyOf(work, l) /\ IsCopyOf(target, l)
  BY <1>4, <1>5, ReadNow DEF IsToldNow, IsReaders
<1>7. IsOnTrack(p, now, l, target, lock)
  BY <1>3, <1>4, <1>5, <1>6 DEF IsOnTrack, Pcs
<1> QED
  BY <1>1, <1>3, <1>7, RunKeeps DEF IsRefreshing

\* A refresh about to commit: what it has written, what it read, and that these agree.
LEMMA CheckedIsTold ==
    ASSUME PromotionInv, NEW p \in Runs, run[p].pc = "checkTrail", Agrees(p, source.trail)
    PROVE  LET was == run[p].asRead
               work == run[p].work
           IN  /\ target # Null /\ lock = p
               /\ IsReviewed(source) /\ IsReviewed(was) /\ WasRead(was.figure, was.trail, source)
               /\ IsReaders(work, source) /\ KeepsTarget(work, target)
               /\ IsCopyOf(work, was) /\ IsCopyOf(target, was) /\ IsToldNow(target, source)
               /\ IsSettled(PlanRefresh(was.figure, source.trail, work.figure, work.trail))
BY DEF PromotionInv, IsEdited, IsOnTrack, Agrees

\* Of what a ledger has said, what it says now.
LEMMA SaidIsDecided ==
    ASSUME NEW was, IsReviewed(was), NEW identity, NEW d, HasSaid(was, identity, d),
           identity \notin Scanned
    PROVE  \E i \in DOMAIN Text(was.figure) : /\ Text(was.figure)[i].identity = identity
                                              /\ Decided(Text(was.figure)[i])
<1>1. PICK n \in DOMAIN was.trail : /\ was.trail[n][1] \in DOMAIN was.figure
                                    /\ was.figure[was.trail[n][1]].identity = identity
  BY DEF HasSaid
<1>2. PICK i : i = was.trail[n][1]
  OBVIOUS
<1>3. i \in DOMAIN was.figure /\ was.figure[i].identity = identity /\ Decided(was.figure[i])
  BY <1>1, <1>2 DEF IsReviewed
<1>4. i \in DOMAIN Text(was.figure) /\ Text(was.figure)[i] = was.figure[i]
  BY <1>3 DEF Text
<1> QED
  BY <1>3, <1>4

LEMMA CommitRefreshKeeps ==
    ASSUME PromotionInv, NEW p \in Runs, CommitRefresh(p) PROVE PromotionInv'
<1>1. /\ run[p].pc = "checkTrail" /\ Agrees(p, source.trail) /\ target' = run[p].work
      /\ Goes(p, Idle) /\ UNCHANGED <<source, edits>>
  BY DEF CommitRefresh
<1>2. PICK was, work, l : was = run[p].asRead /\ work = run[p].work /\ l = source
  OBVIOUS
<1>3. /\ target # Null
      /\ IsReviewed(l) /\ IsReviewed(was) /\ IsReaders(work, l) /\ IsCopyOf(work, was)
      /\ IsSettled(PlanRefresh(was.figure, l.trail, work.figure, work.trail))
  BY <1>1, <1>2, CheckedIsTold
<1>4. /\ IsTable(was.figure) /\ AreApart(was.figure) /\ l.trail \in Trails /\ FiledOnce(l.trail)
      /\ IsTable(work.figure) /\ AreApart(work.figure)
  BY <1>3 DEF IsReviewed, IsReaders, IsReport
<1>5. PICK text : text = Text(was.figure)
  OBVIOUS
<1>6. \A i \in Lone(text), j \in DOMAIN work.figure :
         work.figure[j].identity = text[i].identity => work.figure[j].decision = text[i].decision
  <2>1. IsOneWith(Text(was.figure), l.trail, work.figure, work.trail)
    BY <1>3, <1>4, SettledIs
  <2> QED
    BY <1>5, <2>1 DEF IsOneWith
<1>7. ASSUME NEW n \in OfLone(work)
      PROVE  Decided(work.figure[work.trail[n][1]])
  <2>1. PICK j : j = work.trail[n][1]
    OBVIOUS
  <2>2. /\ j \in DOMAIN work.figure /\ work.figure[j].identity \notin Scanned
        /\ work.figure[j].identity \notin Shared
        /\ HasSaid(was, work.figure[j].identity, work.trail[n][2])
    BY <1>3, <2>1 DEF IsReaders, IsCopyOf, Lone, OfLone
  <2>3. PICK i : /\ i \in DOMAIN text /\ text[i].identity = work.figure[j].identity
                 /\ Decided(text[i])
    BY <1>3, <1>5, <2>2, SaidIsDecided
  <2>4. i \in Lone(text)
    BY <2>2, <2>3 DEF Lone
  <2> QED
    BY <1>6, <2>1, <2>2, <2>3, <2>4 DEF Decided
<1>8. IsToldNow(work, l)
  BY <1>3, <1>7 DEF IsToldNow
<1>9. ASSUME NEW q \in Runs, q # p
      PROVE  run[q].pc \in AtRest
  <2>1. PICK r : r = run[q]
    OBVIOUS
  <2>2. IsOnTrack(q, r, source, target, lock)
    BY <2>1 DEF PromotionInv
  <2>3. r.pc \in Pcs /\ r.pc \notin {"figures", "history", "compare"}
    BY <1>3, <2>2 DEF IsOnTrack
  <2>4. IsRefreshing(p)
    BY <1>1 DEF IsRefreshing
  <2>5. ~IsRefreshing(q)
    BY <1>9, <2>4 DEF PromotionInv, OneRefreshes
  <2>6. r.pc \notin Refreshing
    BY <2>1, <2>5 DEF IsRefreshing, Refreshing
  <2> QED
    BY <2>1, <2>3, <2>6 DEF Pcs, AtRest, Refreshing
<1> QED
  BY <1>1, <1>2, <1>8, <1>9, CommitKeeps

-----------------------------------------------------------------------------
(* What a commit carries, and what it keeps.                                 *)

\* One figure told of twice, of the same decisions and the same link.
LEMMA SameTale ==
    ASSUME NEW figure, NEW trail, NEW i, NEW held, NEW past, NEW j,
           held[j].identity = figure[i].identity, held[j].decision = figure[i].decision,
           \A n \in DOMAIN trail : trail[n][1] = i =>
              \E m \in DOMAIN past : past[m][1] = j /\ past[m][2] = trail[n][2],
           \A m \in DOMAIN past : past[m][1] = j =>
              \E n \in DOMAIN trail : trail[n][1] = i /\ trail[n][2] = past[m][2],
           figure[i].same \in DOMAIN figure <=> held[j].same \in DOMAIN held,
           figure[i].same \in DOMAIN figure =>
              figure[figure[i].same].identity = held[held[j].same].identity
    PROVE  Tale(figure, trail, i) = Tale(held, past, j)
<1>1. PICK before, after :
         /\ before = {trail[n][2] : n \in {m \in DOMAIN trail : trail[m][1] = i}}
         /\ after = {past[n][2] : n \in {m \in DOMAIN past : past[m][1] = j}}
  OBVIOUS
<1>2. before = after
  <2>1. ASSUME NEW d \in before
        PROVE  d \in after
    <3>1. PICK n : n \in DOMAIN trail /\ trail[n][1] = i /\ trail[n][2] = d
      BY <1>1
    <3>2. PICK m : m \in DOMAIN past /\ past[m][1] = j /\ past[m][2] = d
      BY <3>1
    <3> QED
      BY <1>1, <3>2
  <2>2. ASSUME NEW d \in after
        PROVE  d \in before
    <3>1. PICK m : m \in DOMAIN past /\ past[m][1] = j /\ past[m][2] = d
      BY <1>1
    <3>2. PICK n : n \in DOMAIN trail /\ trail[n][1] = i /\ trail[n][2] = d
      BY <3>1
    <3> QED
      BY <1>1, <3>2
  <2> QED
    BY <2>1, <2>2
<1>3. (IF figure[i].same \in DOMAIN figure THEN figure[figure[i].same].identity ELSE Null)
      = (IF held[j].same \in DOMAIN held THEN held[held[j].same].identity ELSE Null)
  OBVIOUS
<1> QED
  BY <1>1, <1>2, <1>3 DEF Tale

\* A promotion about to commit tells what the source told as its figures were read.
LEMMA CopiedTells ==
    ASSUME PromotionInv, NEW p \in Runs, run[p].pc = "compare", MayCommit(p)
    PROVE  Tales(Text(run[p].asRead.figure), run[p].asRead.trail)
           = Tales(run[p].work.figure, run[p].work.trail)
<1>1. PICK was, work, figure, held, trail, past :
         /\ was = run[p].asRead /\ work = run[p].work
         /\ figure = was.figure /\ held = work.figure /\ trail = was.trail /\ past = work.trail
  OBVIOUS
<1>2. /\ IsReviewed(source) /\ IsReviewed(was) /\ WasRead(was.figure, was.trail, source)
      /\ IsCopied(work, was.figure, source)
      /\ \A i \in DOMAIN was.figure : was.figure[i].identity \notin Scanned
      /\ Len(work.trail) = Len(was.trail)
  BY <1>1, ComparedIsTold
<1>3. /\ DOMAIN past = DOMAIN trail
      /\ \A n \in DOMAIN trail : /\ trail[n][1] \in DOMAIN figure
                                 /\ past[n][1] = Rank(DOMAIN figure, trail[n][1])
                                 /\ past[n][2] = trail[n][2]
  <2>1. PICK l : l = source
    OBVIOUS
  <2>2. /\ IsReviewed(l) /\ IsReviewed(was) /\ WasRead(was.figure, was.trail, l)
        /\ IsCopied(work, was.figure, l)
        /\ \A i \in DOMAIN was.figure : was.figure[i].identity \notin Scanned
        /\ Len(work.trail) = Len(was.trail)
    BY <1>2, <2>1
  <2>3. HasTrailOf(work, was)
    BY <2>2, CopiedIsTold
  <2> QED
    BY <1>1, <2>3 DEF HasTrailOf
<1>4. IsTable(figure) /\ held = Remapped(figure)
  BY <1>1, <1>2 DEF WasRead, IsCopied
<1>5. /\ \A i \in DOMAIN figure : Rank(DOMAIN figure, i) \in DOMAIN held
      /\ \A i, j \in DOMAIN figure : Rank(DOMAIN figure, i) = Rank(DOMAIN figure, j) => i = j
      /\ \A n \in DOMAIN held : \E i \in DOMAIN figure : n = Rank(DOMAIN figure, i)
      /\ \A i \in DOMAIN figure :
            /\ held[Rank(DOMAIN figure, i)].identity = figure[i].identity
            /\ held[Rank(DOMAIN figure, i)].decision = figure[i].decision
            /\ held[Rank(DOMAIN figure, i)].same =
                  IF figure[i].same \in DOMAIN figure
                  THEN Rank(DOMAIN figure, figure[i].same) ELSE Null
      /\ IsTable(held)
  BY <1>4, RemappedIs
<1>6. Text(figure) = figure
  <2>1. {j \in DOMAIN figure : figure[j].identity \notin Scanned} = DOMAIN figure
    BY <1>1, <1>2
  <2>2. figure = [i \in DOMAIN figure |-> figure[i]]
    BY <1>4 DEF IsTable
  <2> QED
    BY <2>1, <2>2 DEF Text
<1>7. ASSUME NEW i \in DOMAIN figure
      PROVE  Tale(figure, trail, i) = Tale(held, past, Rank(DOMAIN figure, i))
  <2>1. PICK j : j = Rank(DOMAIN figure, i)
    OBVIOUS
  <2>2. /\ j \in DOMAIN held /\ held[j].identity = figure[i].identity
        /\ held[j].decision = figure[i].decision
        /\ held[j].same = IF figure[i].same \in DOMAIN figure
                          THEN Rank(DOMAIN figure, figure[i].same) ELSE Null
    BY <1>5, <2>1
  <2>3. \A n \in DOMAIN trail : trail[n][1] = i <=> past[n][1] = j
    BY <1>3, <1>5, <2>1
  <2>4. Null \notin DOMAIN held
    BY <1>5, PromotionAssumption DEF IsTable
  <2>5. figure[i].same \in DOMAIN figure <=> held[j].same \in DOMAIN held
    BY <1>5, <2>2, <2>4
  <2>6. figure[i].same \in DOMAIN figure =>
           figure[figure[i].same].identity = held[held[j].same].identity
    BY <1>5, <2>2
  <2>7. \A n \in DOMAIN trail : trail[n][1] = i =>
           \E m \in DOMAIN past : past[m][1] = j /\ past[m][2] = trail[n][2]
    BY <1>3, <2>3
  <2>8. \A m \in DOMAIN past : past[m][1] = j =>
           \E n \in DOMAIN trail : trail[n][1] = i /\ trail[n][2] = past[m][2]
    BY <1>3, <2>3
  <2>9. Tale(figure, trail, i) = Tale(held, past, j)
    BY <2>2, <2>5, <2>6, <2>7, <2>8, SameTale
  <2> QED
    BY <2>1, <2>9
<1>8. Tales(figure, trail) = Tales(held, past)
  <2>1. ASSUME NEW t \in Tales(figure, trail)
        PROVE  t \in Tales(held, past)
    <3>1. PICK i : i \in Lone(figure) /\ t = Tale(figure, trail, i)
      BY Zenon DEF Tales
    <3>2. PICK j : j = Rank(DOMAIN figure, i)
      OBVIOUS
    <3>3. j \in Lone(held) /\ t = Tale(held, past, j)
      BY <1>5, <1>7, <3>1, <3>2 DEF Lone
    <3> QED
      BY <3>3, Zenon DEF Tales
  <2>2. ASSUME NEW t \in Tales(held, past)
        PROVE  t \in Tales(figure, trail)
    <3>1. PICK j : j \in Lone(held) /\ t = Tale(held, past, j)
      BY Zenon DEF Tales
    <3>2. PICK i : i \in DOMAIN figure /\ j = Rank(DOMAIN figure, i)
      BY <1>5, <3>1 DEF Lone
    <3>3. i \in Lone(figure)
      BY <1>5, <3>1, <3>2 DEF Lone
    <3>4. t = Tale(figure, trail, i)
      BY <1>7, <3>1, <3>2
    <3> QED
      BY <3>3, <3>4, Zenon DEF Tales
  <2> QED
    BY <2>1, <2>2
<1> QED
  BY <1>1, <1>6, <1>8

\* A refresh about to commit tells it of every figure the source then had.
LEMMA CheckedTells ==
    ASSUME PromotionInv, NEW p \in Runs, run[p].pc = "checkTrail", Agrees(p, source.trail),
           NEW i \in Lone(Text(run[p].asRead.figure)), NEW j \in DOMAIN run[p].work.figure,
           run[p].work.figure[j].identity = Text(run[p].asRead.figure)[i].identity
    PROVE  Tale(Text(run[p].asRead.figure), run[p].asRead.trail, i)
           = Tale(run[p].work.figure, run[p].work.trail, j)
<1>1. PICK was, work, l, text, held, trail, past :
         /\ was = run[p].asRead /\ work = run[p].work /\ l = source
         /\ text = Text(was.figure) /\ held = work.figure /\ trail = was.trail /\ past = work.trail
  OBVIOUS
<1>2. /\ IsReviewed(l) /\ IsReviewed(was) /\ WasRead(was.figure, was.trail, l)
      /\ IsReaders(work, l) /\ IsCopyOf(work, was)
      /\ IsSettled(PlanRefresh(was.figure, l.trail, held, past))
  BY <1>1, CheckedIsTold
<1>3. /\ IsTable(was.figure) /\ AreApart(was.figure) /\ l.trail \in Trails /\ FiledOnce(l.trail)
      /\ IsTable(held) /\ AreApart(held) /\ trail \in Trails
      /\ Len(trail) <= Len(l.trail) /\ \A n \in DOMAIN trail : l.trail[n] = trail[n]
  BY <1>1, <1>2 DEF IsReviewed, IsReaders, IsReport, WasRead
<1>4. /\ i \in Lone(text) /\ i \in DOMAIN text /\ text[i].identity \notin Shared
      /\ j \in DOMAIN held /\ held[j].identity = text[i].identity
  BY <1>1 DEF Lone
<1>5. /\ held[j].decision = text[i].decision
      /\ text[i].same \in DOMAIN text <=> held[j].same \in DOMAIN held
      /\ text[i].same \in DOMAIN text =>
            text[text[i].same].identity = held[held[j].same].identity
      /\ \A m \in DOMAIN l.trail : l.trail[m][1] \in DOMAIN text =>
            \E k \in DOMAIN past : /\ past[k][1] \in DOMAIN held /\ past[k][2] = l.trail[m][2]
                                   /\ held[past[k][1]].identity = text[l.trail[m][1]].identity
  <2>1. IsOneWith(Text(was.figure), l.trail, held, past)
    BY <1>2, <1>3, SettledIs
  <2>2. IsOneWith(text, l.trail, held, past)
    BY <1>1, <2>1
  <2>3. /\ \A a \in Lone(text), b \in DOMAIN held :
              held[b].identity = text[a].identity =>
                 /\ held[b].decision = text[a].decision
                 /\ text[a].same \in DOMAIN text <=> held[b].same \in DOMAIN held
                 /\ text[a].same \in DOMAIN text =>
                       text[text[a].same].identity = held[held[b].same].identity
        /\ \A m \in DOMAIN l.trail : l.trail[m][1] \in DOMAIN text =>
              \E k \in DOMAIN past : /\ past[k][1] \in DOMAIN held /\ past[k][2] = l.trail[m][2]
                                     /\ held[past[k][1]].identity = text[l.trail[m][1]].identity
    BY <2>2, Zenon DEF IsOneWith
  <2> QED
    BY <1>4, <2>3
<1>6. /\ DOMAIN text \subseteq DOMAIN was.figure
      /\ \A a \in DOMAIN text : text[a] = was.figure[a]
  BY <1>1, <1>3, TextIs
<1>7. ASSUME NEW n \in DOMAIN trail, trail[n][1] = i
      PROVE  \E m \in DOMAIN past : past[m][1] = j /\ past[m][2] = trail[n][2]
  <2>1. n \in DOMAIN l.trail /\ l.trail[n] = trail[n]
    BY <1>3 DEF Trails
  <2>2. PICK k : /\ k \in DOMAIN past /\ past[k][1] \in DOMAIN held /\ past[k][2] = trail[n][2]
                 /\ held[past[k][1]].identity = text[i].identity
    BY <1>4, <1>5, <1>7, <2>1
  <2>3. past[k][1] = j
    BY <1>3, <1>4, <2>2 DEF AreApart
  <2> QED
    BY <2>2, <2>3
<1>8. ASSUME NEW m \in DOMAIN past, past[m][1] = j
      PROVE  \E n \in DOMAIN trail : trail[n][1] = i /\ trail[n][2] = past[m][2]
  <2>1. HasSaid(was, held[j].identity, past[m][2])
    <3>1. m \in OfLone(work) /\ work.figure[work.trail[m][1]].identity = held[j].identity
      BY <1>1, <1>4, <1>8 DEF OfLone, Lone
    <3> QED
      BY <1>1, <1>2, <3>1 DEF IsCopyOf
  <2>2. PICK n : /\ n \in DOMAIN trail /\ trail[n][1] \in DOMAIN was.figure
                 /\ was.figure[trail[n][1]].identity = held[j].identity
                 /\ trail[n][2] = past[m][2]
    BY <1>1, <2>1 DEF HasSaid
  <2>3. i \in DOMAIN was.figure /\ was.figure[i].identity = held[j].identity
    BY <1>4, <1>6
  <2>4. trail[n][1] = i
    BY <1>3, <1>4, <2>2, <2>3 DEF AreApart
  <2> QED
    BY <2>2, <2>4
<1>9. Tale(text, trail, i) = Tale(held, past, j)
  BY <1>4, <1>5, <1>7, <1>8, SameTale
<1> QED
  BY <1>1, <1>9

LEMMA CarriedIsTold == PromotionInv => CarriesOneState
<1> SUFFICES ASSUME PromotionInv, NEW p \in Runs, AboutToCommit(p)
             PROVE  LET then == Tales(Text(run[p].asRead.figure), run[p].asRead.trail)
                        now == Tales(run[p].work.figure, run[p].work.trail)
                    IN  /\ then \subseteq now
                        /\ \A t \in now \ then :
                              /\ t.decision # Undecided
                              /\ t.identity \notin {f.identity : f \in then}
  BY DEF CarriesOneState
<1>1. CASE run[p].pc = "compare" /\ MayCommit(p)
  BY <1>1, CopiedTells
<1>2. CASE run[p].pc = "checkTrail" /\ Agrees(p, source.trail)
  <2>1. PICK was, work, l, text, held, trail, past, then, now :
           /\ was = run[p].asRead /\ work = run[p].work /\ l = source
           /\ text = Text(was.figure) /\ held = work.figure /\ trail = was.trail /\ past = work.trail
           /\ then = Tales(text, trail) /\ now = Tales(held, past)
    OBVIOUS
  <2>2. /\ IsReviewed(l) /\ IsReviewed(was) /\ IsReaders(work, l)
        /\ IsSettled(PlanRefresh(was.figure, l.trail, held, past))
    BY <1>2, <2>1, CheckedIsTold
  <2>3. /\ IsTable(was.figure) /\ AreApart(was.figure) /\ l.trail \in Trails /\ FiledOnce(l.trail)
        /\ IsTable(held) /\ AreApart(held)
    BY <2>1, <2>2 DEF IsReviewed, IsReaders, IsReport
  <2>4. /\ \A i \in DOMAIN text : \E j \in DOMAIN held : held[j].identity = text[i].identity
        /\ \A j \in DOMAIN held :
              Decided(held[j]) \/ \E i \in DOMAIN text : text[i].identity = held[j].identity
    <3>1. IsOneWith(Text(was.figure), l.trail, held, past)
      BY <2>2, <2>3, SettledIs
    <3>2. IsOneWith(text, l.trail, held, past)
      BY <2>1, <3>1
    <3> QED
      BY <3>2, Zenon DEF IsOneWith
  <2>5. \A i \in Lone(text), j \in DOMAIN held : held[j].identity = text[i].identity =>
           Tale(text, trail, i) = Tale(held, past, j)
    BY <1>2, <2>1, CheckedTells
  <2>6. ASSUME NEW t \in then
        PROVE  t \in now /\ \E i \in DOMAIN text : t.identity = text[i].identity
    <3>1. PICK i : i \in Lone(text) /\ t = Tale(text, trail, i)
      BY <2>1, Zenon DEF Tales
    <3>2. i \in DOMAIN text /\ text[i].identity \notin Shared
      BY <3>1 DEF Lone
    <3>3. PICK j : j \in DOMAIN held /\ held[j].identity = text[i].identity
      BY <2>4, <3>2
    <3>4. j \in Lone(held)
      BY <3>2, <3>3 DEF Lone
    <3>5. t = Tale(held, past, j)
      BY <2>5, <3>1, <3>3
    <3>6. t \in now
      BY <2>1, <3>4, <3>5, Zenon DEF Tales
    <3>7. t.identity = text[i].identity
      BY <3>1 DEF Tale
    <3> QED
      BY <3>6, <3>7, <3>2
  <2>7. ASSUME NEW t \in now, t \notin then
        PROVE  t.decision # Undecided /\ t.identity \notin {f.identity : f \in then}
    <3>1. PICK j : j \in Lone(held) /\ t = Tale(held, past, j)
      BY <2>1, Zenon DEF Tales
    <3>2. j \in DOMAIN held /\ held[j].identity \notin Shared /\ t = Tale(held, past, j)
      BY <3>1 DEF Lone
    <3>3. t.identity = held[j].identity /\ t.decision = held[j].decision
      BY <3>2 DEF Tale
    <3>4. ASSUME NEW i \in DOMAIN text
          PROVE  text[i].identity # t.identity
      <4> SUFFICES ASSUME held[j].identity = text[i].identity
                   PROVE  FALSE
        BY <3>3
      <4>1. i \in Lone(text)
        BY <3>2 DEF Lone
      <4>2. t = Tale(text, trail, i)
        BY <2>5, <3>2, <4>1
      <4>3. t \in then
        BY <2>1, <4>2, <4>1, Zenon DEF Tales
      <4> QED
        BY <2>7, <4>3
    <3>5. t.decision # Undecided
      BY <2>4, <3>2, <3>3, <3>4 DEF Decided
    <3> QED
      BY <2>6, <3>4, <3>5
  <2> QED
    BY <2>1, <2>6, <2>7
<1> QED
  BY <1>1, <1>2 DEF AboutToCommit

\* A refresh that commits keeps every decision the target tells of a figure that
\* shares its identity with none.
LEMMA CommitKeepsTrail ==
    ASSUME PromotionInv, NEW p \in Runs, CommitRefresh(p)
    PROVE  /\ \A i \in Lone(target.figure) : Decided(target.figure[i]) =>
                 /\ i \in DOMAIN target'.figure
                 /\ \/ target'.figure[i].decision = target.figure[i].decision
                    \/ <<i, target.figure[i].decision>> \in Filed(target'.trail)
           /\ \A n \in OfLone(target) : target.trail[n] \in Filed(target'.trail)
           /\ \A n, m \in OfLone(target') : target'.trail[n] = target'.trail[m] => n = m
<1>1. run[p].pc = "checkTrail" /\ Agrees(p, source.trail) /\ target' = run[p].work
  BY DEF CommitRefresh
<1>2. PICK was, work, l, text, old, held, trail, past :
         /\ was = run[p].asRead /\ work = run[p].work /\ l = source /\ old = target.figure
         /\ text = Text(was.figure) /\ held = work.figure /\ trail = was.trail /\ past = work.trail
  OBVIOUS
<1>3. /\ IsReviewed(l) /\ IsReviewed(was) /\ WasRead(was.figure, was.trail, l)
      /\ IsReaders(work, l) /\ IsReaders(target, l) /\ IsCopyOf(target, was)
      /\ KeepsTarget(work, target)
      /\ IsSettled(PlanRefresh(was.figure, l.trail, held, past))
  BY <1>1, <1>2, CheckedIsTold DEF IsToldNow
<1>4. /\ IsTable(was.figure) /\ AreApart(was.figure) /\ l.trail \in Trails /\ FiledOnce(l.trail)
      /\ IsTable(held) /\ AreApart(held) /\ past \in Trails /\ LoneOnce(work)
      /\ trail \in Trails
      /\ Len(trail) <= Len(l.trail) /\ \A n \in DOMAIN trail : l.trail[n] = trail[n]
  BY <1>2, <1>3 DEF IsReviewed, IsReaders, IsReport, WasRead
<1>5. /\ \A i \in Lone(text), j \in DOMAIN held :
            held[j].identity = text[i].identity => held[j].decision = text[i].decision
      /\ \A m \in DOMAIN l.trail : l.trail[m][1] \in DOMAIN text =>
            \E k \in DOMAIN past : /\ past[k][1] \in DOMAIN held /\ past[k][2] = l.trail[m][2]
                                   /\ held[past[k][1]].identity = text[l.trail[m][1]].identity
  <2>1. IsOneWith(Text(was.figure), l.trail, held, past)
    BY <1>3, <1>4, SettledIs
  <2>2. IsOneWith(text, l.trail, held, past)
    BY <1>2, <2>1
  <2>3. /\ \A i \in Lone(text), j \in DOMAIN held :
              held[j].identity = text[i].identity =>
                 /\ held[j].decision = text[i].decision
                 /\ text[i].same \in DOMAIN text <=> held[j].same \in DOMAIN held
                 /\ text[i].same \in DOMAIN text =>
                       text[text[i].same].identity = held[held[j].same].identity
        /\ \A m \in DOMAIN l.trail : l.trail[m][1] \in DOMAIN text =>
              \E k \in DOMAIN past : /\ past[k][1] \in DOMAIN held /\ past[k][2] = l.trail[m][2]
                                     /\ held[past[k][1]].identity = text[l.trail[m][1]].identity
    BY <2>2, Zenon DEF IsOneWith
  <2> QED
    BY <2>3, Zenon
<1>6. ASSUME NEW i \in Lone(old), Decided(old[i])
      PROVE  /\ i \in DOMAIN held
             /\ held[i].decision = old[i].decision \/ <<i, old[i].decision>> \in Filed(past)
  <2>1. PICK identity, d : identity = old[i].identity /\ d = old[i].decision
    OBVIOUS
  <2>2. i \in DOMAIN old /\ identity \notin Shared
    BY <2>1 DEF Lone
  <2>3. i \in DOMAIN held /\ held[i].identity = identity
    BY <1>2, <1>3, <1>6, <2>2, <2>1 DEF KeepsTarget
  <2>4. identity \notin Scanned /\ Says(was, identity, d)
    BY <1>2, <1>3, <1>6, <2>2, <2>1 DEF IsReaders, IsCopyOf
  <2>5. PICK a : /\ a \in DOMAIN was.figure /\ was.figure[a].identity = identity
                 /\ was.figure[a].decision = d \/ <<a, d>> \in Filed(was.trail)
    BY <2>4 DEF Says
  <2>6. a \in DOMAIN text /\ text[a] = was.figure[a]
    BY <1>2, <1>4, <2>4, <2>5, TextIs
  <2>7. a \in Lone(text) /\ a \in DOMAIN text /\ text[a] = was.figure[a]
    BY <2>2, <2>5, <2>6 DEF Lone
  <2>8. CASE was.figure[a].decision = d
    BY <1>5, <2>1, <2>3, <2>5, <2>7, <2>8
  <2>9. CASE <<a, d>> \in Filed(was.trail)
    <3>1. PICK n : n \in DOMAIN trail /\ trail[n] = <<a, d>>
      BY <1>2, <2>9, Zenon DEF Filed
    <3>2. n \in DOMAIN l.trail /\ l.trail[n] = <<a, d>>
      <4>1. trail \in Seq(Nat \X Decisions) /\ l.trail \in Seq(Nat \X Decisions)
        BY <1>4 DEF Trails
      <4>2. n \in 1..Len(trail) /\ Len(trail) \in Nat /\ Len(l.trail) \in Nat
        BY <3>1, <4>1
      <4>3. n \in 1..Len(l.trail)
        BY <1>4, <4>2
      <4>4. n \in DOMAIN l.trail
        BY <4>1, <4>3
      <4> QED
        BY <1>4, <3>1, <4>4
    <3>3. l.trail[n][1] = a /\ l.trail[n][2] = d
      BY <3>2
    <3>4. PICK k : /\ k \in DOMAIN past /\ past[k][1] \in DOMAIN held /\ past[k][2] = d
                   /\ held[past[k][1]].identity = identity
      BY <1>5, <2>5, <2>7, <3>2, <3>3
    <3>5. past[k][1] = i
      BY <1>4, <2>2, <2>3, <3>4 DEF AreApart
    <3>6. past[k] \in Nat \X Decisions
      BY <1>4, <3>4 DEF Trails
    <3>7. past[k] = <<i, d>>
      BY <3>4, <3>5, <3>6
    <3> QED
      BY <2>1, <2>3, <3>4, <3>7 DEF Filed
  <2> QED
    BY <2>5, <2>8, <2>9
<1>7. \A n \in OfLone(target) : target.trail[n] \in Filed(past)
  BY <1>2, <1>3 DEF KeepsTarget
<1> QED
  BY <1>1, <1>2, <1>4, <1>6, <1>7 DEF LoneOnce

-----------------------------------------------------------------------------
(* The theorems.                                                             *)

LEMMA PromotionStarts == Init => PromotionInv
<1> SUFFICES ASSUME Init PROVE PromotionInv
  OBVIOUS
<1>1. PICK figure, N : /\ figure = [i \in DOMAIN FirstFigures |-> NewFigure(FirstFigures[i])]
                       /\ N = Len(FirstFigures)
  OBVIOUS
<1>2. /\ source = [figure |-> figure, trail |-> <<>>, last |-> N]
      /\ target = Null /\ run = [p \in Runs |-> Idle] /\ edits = 0
  BY <1>1 DEF Init
<1>3. /\ N \in Nat /\ DOMAIN FirstFigures = 1..N
      /\ \A i \in 1..N : FirstFigures[i] \in Identities
  BY <1>1, PromotionAssumption
<1>4. \A i \in 1..N : /\ figure[i] \in Figure /\ figure[i].identity = FirstFigures[i]
                      /\ figure[i].decision = Undecided /\ figure[i].decision.at = 0
  BY <1>1, <1>3 DEF NewFigure, Figure, Undecided
<1>5. DOMAIN figure = 1..N
  BY <1>1, <1>3
<1>6. IsTable(figure)
  <2>1. IsFiniteSet(1..N)
    BY <1>3, FS_Interval
  <2>2. figure = [i \in DOMAIN figure |-> figure[i]]
    BY <1>1
  <2>3. \A i \in 1..N : i \in Nat
    BY <1>3
  <2> QED
    BY <1>4, <1>5, <2>1, <2>2, <2>3 DEF IsTable
<1>7. AreApart(figure)
  <2> SUFFICES ASSUME NEW i \in 1..N, NEW j \in 1..N, i # j, FirstFigures[i] = FirstFigures[j]
               PROVE  FirstFigures[i] \in Shared
    BY <1>4, <1>5 DEF AreApart
  <2> QED
    BY <1>3 DEF Shared
<1>8. PICK l, none : l = source /\ none = <<>>
  OBVIOUS
<1>9. l.figure = figure /\ l.trail = none /\ l.last = N
      /\ l = [figure |-> l.figure, trail |-> l.trail, last |-> l.last]
  BY <1>2, <1>8
<1>10. none \in Trails /\ DOMAIN none = {}
  BY <1>8 DEF Trails
<1>11. IsReviewed(l)
  BY <1>3, <1>5, <1>6, <1>7, <1>9, <1>10 DEF IsReviewed, IsReport, FiledOnce
<1>12. IsEdited(l, 0)
  BY <1>4, <1>5, <1>9, <1>10, <1>11 DEF IsEdited
<1>13. ASSUME NEW p \in Runs
       PROVE  run[p] = Idle /\ IsOnTrack(p, run[p], source, target, lock) /\ ~IsRefreshing(p)
  <2>1. run[p] = Idle
    BY <1>2
  <2>2. IsOnTrack(p, [pc |-> "idle"], source, target, lock)
    BY AtRestOnTrack
  <2>3. run[p].pc = "idle"
    BY <2>1 DEF Idle
  <2> QED
    BY <2>1, <2>2, <2>3 DEF Idle, IsRefreshing
<1>14. OneRefreshes
  BY <1>13 DEF OneRefreshes
<1> QED
  BY <1>2, <1>8, <1>12, <1>13, <1>14 DEF PromotionInv

LEMMA PromotionSteps ==
    Apart /\ PromotionInv /\ [Next]_vars =>
       /\ PromotionInv'
       /\ target' # target => \E p \in Runs : CommitPromotion(p) \/ CommitRefresh(p)
<1> SUFFICES ASSUME Apart, PromotionInv, [Next]_vars
             PROVE  /\ PromotionInv'
                    /\ target' # target => \E p \in Runs : CommitPromotion(p) \/ CommitRefresh(p)
  OBVIOUS
<1>1. CASE ReviewOrParse
  BY <1>1, EditsKeep, SourceSteps DEF PromotionInv
<1>2. ASSUME NEW p \in Runs, Promote(p)
      PROVE  /\ PromotionInv'
             /\ target' = target \/ CommitPromotion(p)
  <2>1. CASE LookForReport(p)
    BY <2>1, LookKeeps DEF LookForReport
  <2>2. CASE PutBytes(p)
    BY <2>2, PutKeeps DEF PutBytes
  <2>3. CASE ReadCounts(p)
    BY <2>3, CountKeeps DEF ReadCounts
  <2>4. CASE InsertReport(p)
    BY <2>4, InsertKeeps DEF InsertReport
  <2>5. CASE CopyFigures(p)
    BY <2>5, CopyFiguresKeeps DEF CopyFigures
  <2>6. CASE CopyHistory(p)
    BY <2>6, CopyHistoryKeeps DEF CopyHistory
  <2>7. CASE CommitPromotion(p)
    BY <2>7, CommitPromotionKeeps
  <2> QED
    BY <1>2, <2>1, <2>2, <2>3, <2>4, <2>5, <2>6, <2>7 DEF Promote
<1>3. ASSUME NEW p \in Runs, Refresh(p)
      PROVE  /\ PromotionInv'
             /\ target' = target \/ CommitRefresh(p)
  <2>1. CASE FindPair(p)
    BY <2>1, FindKeeps DEF FindPair
  <2>2. CASE ReadSourceTrail(p)
    BY <2>2, ReadSourceKeeps DEF ReadSourceTrail
  <2>3. CASE ReadTargetFigures(p)
    BY <2>3, ReadTargetKeeps DEF ReadTargetFigures
  <2>4. CASE ReadTargetTrail(p)
    BY <2>4, PlanKeeps DEF ReadTargetTrail
  <2>5. CASE Apply(p)
    BY <2>5, ApplyKeeps DEF Apply
  <2>6. CASE ReadFiguresAgain(p)
    BY <2>6, ReadAgainKeeps DEF ReadFiguresAgain
  <2>7. CASE CommitRefresh(p)
    BY <2>7, CommitRefreshKeeps
  <2> QED
    BY <1>3, <2>1, <2>2, <2>3, <2>4, <2>5, <2>6, <2>7 DEF Refresh
<1>4. ASSUME NEW p \in Runs, Abandon(p)
      PROVE  PromotionInv' /\ target' = target
  BY <1>4, AbandonKeeps DEF Abandon
<1>5. CASE UNCHANGED vars
  BY <1>5 DEF vars, PromotionInv, OneRefreshes, IsRefreshing
<1> QED
  BY <1>1, <1>2, <1>3, <1>4, <1>5 DEF Next

\* What is committed to the readers' database tells of every figure, but one that
\* shares its identity with others, what the source told of it at one moment, where the
\* operator runs one refresh at a time (promote.ts:30-32, promote-refresh.ts:29-34).
THEOREM ReportsAreCarriedWhole == Apart => (Spec => []CarriesOneState)
<1> SUFFICES ASSUME Apart PROVE Spec => []CarriesOneState
  OBVIOUS
<1>1. Init => PromotionInv
  BY PromotionStarts
<1>2. PromotionInv /\ [Next]_vars => PromotionInv'
  BY PromotionSteps
<1>3. PromotionInv => CarriesOneState
  BY CarriedIsTold
<1> QED
  BY <1>1, <1>2, <1>3, PTL DEF Spec

\* Under the same condition the target never loses a decision of such a figure: it
\* stands, or is filed once among the past ones (promote-refresh.ts, the trigger off as
\* it writes).
THEOREM DecisionsAreKept == Apart => (Spec => TargetTrailIsKept)
<1> SUFFICES ASSUME Apart PROVE Spec => TargetTrailIsKept
  OBVIOUS
<1>1. Init => PromotionInv
  BY PromotionStarts
<1>2. PromotionInv /\ [Next]_vars => PromotionInv'
  BY PromotionSteps
<1>3. PromotionInv /\ [Next]_vars =>
         [target # Null =>
            /\ \A i \in Lone(target.figure) : Decided(target.figure[i]) =>
                  /\ i \in DOMAIN target'.figure
                  /\ \/ target'.figure[i].decision = target.figure[i].decision
                     \/ <<i, target.figure[i].decision>> \in Filed(target'.trail)
            /\ \A n \in OfLone(target) : target.trail[n] \in Filed(target'.trail)
            /\ \A n, m \in OfLone(target') : target'.trail[n] = target'.trail[m] => n = m]_target
  <2> SUFFICES ASSUME PromotionInv, [Next]_vars, target' # target, target # Null
               PROVE  /\ \A i \in Lone(target.figure) : Decided(target.figure[i]) =>
                            /\ i \in DOMAIN target'.figure
                            /\ \/ target'.figure[i].decision = target.figure[i].decision
                               \/ <<i, target.figure[i].decision>> \in Filed(target'.trail)
                      /\ \A n \in OfLone(target) : target.trail[n] \in Filed(target'.trail)
                      /\ \A n, m \in OfLone(target') :
                            target'.trail[n] = target'.trail[m] => n = m
    OBVIOUS
  <2>1. PICK p \in Runs : CommitPromotion(p) \/ CommitRefresh(p)
    BY PromotionSteps
  <2>2. ~CommitPromotion(p)
    BY ComparedIsTold DEF CommitPromotion
  <2> QED
    BY <2>1, <2>2, CommitKeepsTrail
<1> QED
  BY <1>1, <1>2, <1>3, PTL DEF Spec, TargetTrailIsKept

-----------------------------------------------------------------------------
(* What a notice's page and a listing's row are read as (NoticeReading).     *)

\* The first place from i on whose mark is of another class.
IsBeyond(b, page, i, class) ==
    /\ b \in i..(Len(page) + 1) /\ Mark(page, b) \notin class
    /\ \A k \in i..(b - 1) : k \in 1..Len(page) /\ page[k] = Mark(page, k) /\ page[k] \in class

LEMMA LeastIs ==
    ASSUME NEW S, S \subseteq Nat, S # {}
    PROVE  Least(S) \in S /\ \A k \in S : Least(S) <= k
BY LeastOf DEF Least

LEMMA GreatestIs ==
    ASSUME NEW S, S \subseteq Nat, IsFiniteSet(S), S # {}
    PROVE  Greatest(S) \in S /\ \A k \in S : k <= Greatest(S)
BY GreatestOf DEF Greatest

LEMMA MarkIs ==
    ASSUME NEW M, NEW page \in Seq(M)
    PROVE  /\ Len(page) \in Nat /\ DOMAIN page = 1..Len(page)
           /\ \A i \in 1..Len(page) : Mark(page, i) = page[i]
           /\ \A i : Mark(page, i) # "end" => i \in 1..Len(page)
           /\ Mark(page, Len(page) + 1) = "end"
<1>1. Len(page) \in Nat /\ DOMAIN page = 1..Len(page)
  OBVIOUS
<1>2. Len(page) + 1 \notin 1..Len(page)
  BY <1>1
<1> QED
  BY <1>1, <1>2 DEF Mark

LEMMA BeyondIs ==
    ASSUME NEW M, NEW page \in Seq(M), NEW i \in 1..(Len(page) + 1), NEW class, "end" \notin class
    PROVE  IsBeyond(Beyond(page, i, class), page, i, class)
<1> DEFINE N == Len(page)
           S == {j \in i..(N + 1) : Mark(page, j) \notin class}
<1>1. N \in Nat /\ i \in Nat /\ i <= N + 1
  OBVIOUS
<1>2. N + 1 \in S
  <2>1. Mark(page, N + 1) = "end"
    BY MarkIs
  <2> QED
    BY <1>1, <2>1
<1>3. S \subseteq Nat
  BY <1>1
<1>4. PICK b : b = Beyond(page, i, class)
  OBVIOUS
<1>5. b = Least(S)
  BY <1>4 DEF Beyond
<1>6. b \in S /\ \A k \in S : b <= k
  <2> HIDE DEF S
  <2> QED
    BY <1>2, <1>3, <1>5, LeastIs
<1>7. ASSUME NEW k \in i..(b - 1)
      PROVE  k \in 1..Len(page) /\ page[k] = Mark(page, k) /\ page[k] \in class
  <2>1. k \in 1..N /\ k \in i..(N + 1) /\ ~(b <= k)
    BY <1>1, <1>6
  <2>2. Mark(page, k) \in class
    BY <1>6, <2>1
  <2> QED
    BY <2>1, <2>2, MarkIs
<1> QED
  BY <1>4, <1>6, <1>7 DEF IsBeyond

\* A text of n marks without its white space, the first m of which are none.
IsUnspaced(kept, text, n, m) ==
    /\ kept \in Seq(STRING) /\ Len(kept) <= n
    /\ n <= m => Len(kept) = n
    /\ m <= n => m <= Len(kept)
    /\ \A j \in 1..m : j <= n => kept[j] = text[j]
    /\ n > 0 /\ text[n] \notin Space => Len(kept) > 0 /\ kept[Len(kept)] = text[n]

\* Each of its marks is one of the text's.
IsDrawn(kept, text, n) ==
    \A j \in 1..Len(kept) : \E k \in 1..n : kept[j] = text[k] /\ text[k] \notin Space

LEMMA UnspacedIs ==
    ASSUME NEW text \in Seq(STRING), NEW m \in 0..Len(text), \A j \in 1..m : text[j] \notin Space
    PROVE  /\ IsUnspaced(Unspaced(text), text, Len(text), m)
           /\ IsDrawn(Unspaced(text), text, Len(text))
<1> DEFINE N == Len(text)
           S == Seq(STRING)
           Then(x, n) == IF text[n] \in Space THEN x ELSE Append(x, text[n])
           Equation(g) == g = [n \in 0..N |->
                                  IF n = 0 THEN <<>>
                                  ELSE IF text[n] \in Space THEN g[n - 1] ELSE Append(g[n - 1], text[n])]
           kept == CHOOSE g : Equation(g)
<1>1. N \in Nat /\ m \in Nat /\ m <= N /\ \A n \in 1..N : text[n] \in STRING
  OBVIOUS
<1>2. \E g : Equation(g)
  <2> DEFINE step == [n \in 1..N |-> [x \in S |-> Then(x, n)]]
  <2>1. step \in [1..N -> [S -> S]]
    <3>1. ASSUME NEW n \in 1..N, NEW x \in S
          PROVE  Then(x, n) \in S
      <4>1. text[n] \in STRING /\ x \in Seq(STRING)
        BY <1>1
      <4>2. Append(x, text[n]) \in Seq(STRING)
        BY <4>1, AppendProperties
      <4> QED
        BY <4>1, <4>2
    <3> HIDE DEF Then, S
    <3> QED
      BY <3>1
  <2>2. PICK h : IsListOf(h, S, <<>>, N, step)
    <3>1. <<>> \in S
      OBVIOUS
    <3> HIDE DEF step, N, S
    <3> QED
      BY <1>1, <2>1, <3>1, StepsExist
  <2> HIDE DEF step
  <2>3. h \in [0..N -> S] /\ h[0] = <<>> /\ \A n \in 1..N : h[n] = step[n][h[n - 1]]
    BY <2>2 DEF IsListOf
  <2>4. \A n \in 1..N : h[n] = Then(h[n - 1], n)
    <3> SUFFICES ASSUME NEW n \in 1..N
                 PROVE  h[n] = Then(h[n - 1], n)
      OBVIOUS
    <3>1. n - 1 \in 0..N
      BY <1>1
    <3> HIDE DEF S, N
    <3>2. h[n - 1] \in S
      BY <2>3, <3>1
    <3>3. step[n] = [x \in S |-> Then(x, n)]
      BY DEF step
    <3> HIDE DEF Then
    <3> QED
      BY <2>3, <3>2, <3>3
  <2>5. ASSUME NEW n \in 0..N
        PROVE  h[n] = IF n = 0 THEN <<>>
                      ELSE IF text[n] \in Space THEN h[n - 1] ELSE Append(h[n - 1], text[n])
    <3>1. CASE n = 0
      BY <2>3, <3>1
    <3>2. CASE n # 0
      <4>1. n \in 1..N
        BY <1>1, <3>2
      <4> QED
        BY <2>4, <3>2, <4>1
    <3> QED
      BY <3>1, <3>2
  <2>6. Equation(h)
    <3> HIDE DEF S
    <3> QED
      BY <2>3, <2>5
  <2> QED
    BY <2>6
<1>3. Equation(kept)
  BY <1>2
<1>4. kept[0] = <<>> /\ \A n \in 1..N : kept[n] = Then(kept[n - 1], n)
  <2> HIDE DEF kept
  <2>1. \A n \in 0..N : kept[n] = IF n = 0 THEN <<>>
                                  ELSE IF text[n] \in Space THEN kept[n - 1] ELSE Append(kept[n - 1], text[n])
    BY <1>3
  <2>2. 0 \in 0..N /\ \A n \in 1..N : n \in 0..N /\ n # 0
    BY <1>1
  <2> QED
    BY <2>1, <2>2
<1>5. Unspaced(text) = kept[N]
  BY DEF Unspaced
<1> HIDE DEF kept
<1> DEFINE G == {n \in 0..N : IsUnspaced(kept[n], text, n, m) /\ IsDrawn(kept[n], text, n)}
<1>6. 0 \in G
  <2>1. PICK x : x = kept[0]
    OBVIOUS
  <2>2. x = <<>> /\ x \in Seq(STRING) /\ Len(x) = 0
    BY <1>4, <2>1
  <2>3. IsUnspaced(x, text, 0, m)
    BY <1>1, <2>2 DEF IsUnspaced
  <2>4. IsDrawn(x, text, 0)
    <3>1. 1..Len(x) = {}
      BY <2>2
    <3> QED
      BY <3>1 DEF IsDrawn
  <2> QED
    BY <1>1, <2>1, <2>3, <2>4
<1>7. ASSUME NEW n \in 1..N, n - 1 \in G
      PROVE  n \in G
  <2>1. PICK old, new : old = kept[n - 1] /\ new = kept[n]
    OBVIOUS
  <2>2. IsUnspaced(old, text, n - 1, m) /\ IsDrawn(old, text, n - 1) /\ new = Then(old, n)
    BY <1>4, <1>7, <2>1
  <2>3. n \in Nat /\ n > 0 /\ text[n] \in STRING
    BY <1>1
  <2>4. /\ old \in Seq(STRING) /\ Len(old) \in Nat /\ Len(old) <= n - 1
        /\ n - 1 <= m => Len(old) = n - 1
        /\ m <= n - 1 => m <= Len(old)
        /\ \A j \in 1..m : j <= n - 1 => old[j] = text[j]
    BY <2>2 DEF IsUnspaced
  <2>5. CASE text[n] \in Space
    <3>1. new = old /\ ~(n <= m)
      BY <1>1, <2>2, <2>3, <2>5
    <3>2. IsUnspaced(old, text, n, m)
      <4>1. Len(old) <= n /\ m <= n - 1
        BY <1>1, <2>3, <2>4, <3>1
      <4>2. \A j \in 1..m : j <= n - 1
        BY <1>1, <2>3, <4>1
      <4> QED
        BY <2>3, <2>4, <2>5, <3>1, <4>1, <4>2 DEF IsUnspaced
    <3>3. IsDrawn(old, text, n)
      <4>1. \A k \in 1..(n - 1) : k \in 1..n
        BY <2>3
      <4> QED
        BY <2>2, <4>1 DEF IsDrawn
    <3>4. n \in 0..N
      BY <1>1
    <3>5. kept[n] = old
      BY <2>1, <3>1
    <3> QED
      BY <3>2, <3>3, <3>4, <3>5
  <2>6. CASE text[n] \notin Space
    <3>1. new = Append(old, text[n])
      BY <2>2, <2>6
    <3>2. /\ new \in Seq(STRING) /\ Len(new) = Len(old) + 1
          /\ \A j \in 1..Len(old) : new[j] = old[j]
          /\ new[Len(new)] = text[n]
      BY <2>3, <2>4, <3>1
    <3>3. Len(new) \in Nat /\ Len(new) <= n /\ Len(new) > 0
      BY <2>3, <2>4, <3>2
    <3>4. (n <= m => Len(new) = n) /\ (m <= n => m <= Len(new))
      BY <1>1, <2>3, <2>4, <3>2
    <3>5. ASSUME NEW j \in 1..m, j <= n
          PROVE  new[j] = text[j]
      <4>1. CASE j <= n - 1
        <5>1. j \in 1..Len(old)
          BY <1>1, <2>3, <2>4, <4>1
        <5> QED
          BY <2>4, <3>2, <4>1, <5>1
      <4>2. CASE ~(j <= n - 1)
        <5>1. j = n /\ Len(new) = n
          BY <1>1, <2>3, <3>4, <3>5, <4>2
        <5> QED
          BY <3>2, <5>1
      <4> QED
        BY <4>1, <4>2
    <3>6. IsUnspaced(new, text, n, m)
      BY <3>2, <3>3, <3>4, <3>5 DEF IsUnspaced
    <3>7. IsDrawn(new, text, n)
      <4>1. ASSUME NEW j \in 1..Len(new)
            PROVE  \E k \in 1..n : new[j] = text[k] /\ text[k] \notin Space
        <5>1. CASE j \in 1..Len(old)
          <6>1. PICK k \in 1..(n - 1) : old[j] = text[k] /\ text[k] \notin Space
            BY <2>2, <5>1 DEF IsDrawn
          <6>2. k \in 1..n
            BY <2>3
          <6> QED
            BY <3>2, <5>1, <6>1, <6>2
        <5>2. CASE j \notin 1..Len(old)
          <6>1. j = Len(new) /\ n \in 1..n
            BY <2>3, <2>4, <3>2, <5>2
          <6> QED
            BY <2>6, <3>2, <6>1
        <5> QED
          BY <5>1, <5>2
      <4> QED
        BY <4>1 DEF IsDrawn
    <3>8. n \in 0..N
      BY <1>1
    <3> QED
      BY <2>1, <3>6, <3>7, <3>8
  <2> QED
    BY <2>5, <2>6
<1>8. 0..N \subseteq G
  <2> HIDE DEF G, N
  <2> QED
    BY <1>1, <1>6, <1>7, StepByStep
<1> QED
  BY <1>1, <1>5, <1>8

\* A date and the field it is read as on the portal's form: the label ends just
\* before e, and nothing but white space stands between.
IsFormDate(r, page, e) ==
    /\ e \in 2..(Len(page) + 1) /\ e < r.start /\ IsBeyond(r.start, page, e, Space)
    /\ Mark(page, r.start) = "when"
    /\ \/ r.field = "publish" /\ page[e - 1] = "publish"
       \/ r.field = "bid_opening" /\ page[e - 1] = "opening" /\ ~LooksBack(page, e - 1)
       \/ /\ r.field = "financial_bid_opening" /\ page[e - 1] = "opening"
          /\ \E p \in DOMAIN page : /\ page[p] = "financial" /\ p + 1 < e - 1
                                    /\ IsBeyond(e - 1, page, p + 1, Space)
                                    /\ Beyond(page, p + 1, Space) = e - 1

LEMMA FormDateIs ==
    ASSUME NEW M, NEW page \in Seq(M), NEW r \in FormDates(page)
    PROVE  \E e : IsFormDate(r, page, e)
<1> DEFINE At(l) == Beyond(page, l.end, Space)
<1>1. PICK l \in DateLabels(page) : /\ r = Spot(l.field, At(l), At(l) + 1, "when")
                                    /\ At(l) > l.end /\ Mark(page, At(l)) = "when"
  BY DEF FormDates
<1>2. PICK e, field, start : e = l.end /\ field = l.field /\ start = Beyond(page, e, Space)
  OBVIOUS
<1>3. r.field = field /\ r.start = start /\ start > e /\ Mark(page, start) = "when"
  BY <1>1, <1>2 DEF Spot
<1>4. Len(page) \in Nat /\ DOMAIN page = 1..Len(page) /\ "end" \notin Space
  BY DEF Space
<1>5. /\ e \in 2..(Len(page) + 1)
      /\ \/ field = "publish" /\ page[e - 1] = "publish"
         \/ field = "bid_opening" /\ page[e - 1] = "opening" /\ ~LooksBack(page, e - 1)
         \/ /\ field = "financial_bid_opening" /\ page[e - 1] = "opening"
            /\ \E p \in DOMAIN page : /\ page[p] = "financial" /\ p + 1 < e - 1
                                      /\ IsBeyond(e - 1, page, p + 1, Space)
                                      /\ Beyond(page, p + 1, Space) = e - 1
  <2>1. CASE l \in {[field |-> "publish", end |-> p + 1] : p \in Found(page, "publish")}
    <3>1. PICK p \in DOMAIN page : page[p] = "publish" /\ l = [field |-> "publish", end |-> p + 1]
      BY <2>1 DEF Found
    <3>2. field = "publish" /\ e = p + 1 /\ p \in 1..Len(page)
      BY <1>2, <1>4, <3>1
    <3>3. e - 1 = p /\ e \in 2..(Len(page) + 1)
      BY <1>4, <3>2
    <3> QED
      BY <3>1, <3>2, <3>3
  <2>2. CASE l \in {[field |-> "bid_opening", end |-> p + 1] :
                       p \in {x \in Found(page, "opening") : ~LooksBack(page, x)}}
    <3>1. PICK p \in DOMAIN page : /\ page[p] = "opening" /\ ~LooksBack(page, p)
                                   /\ l = [field |-> "bid_opening", end |-> p + 1]
      BY <2>2 DEF Found
    <3>2. field = "bid_opening" /\ e = p + 1 /\ p \in 1..Len(page)
      BY <1>2, <1>4, <3>1
    <3>3. e - 1 = p /\ e \in 2..(Len(page) + 1)
      BY <1>4, <3>2
    <3> QED
      BY <3>1, <3>2, <3>3
  <2>3. CASE l \in {[field |-> "financial_bid_opening", end |-> Beyond(page, p + 1, Space) + 1] :
                       p \in {x \in Found(page, "financial") :
                                 LET q == Beyond(page, x + 1, Space)
                                 IN  q > x + 1 /\ Mark(page, q) = "opening"}}
    <3>1. PICK p \in DOMAIN page :
             /\ page[p] = "financial"
             /\ Beyond(page, p + 1, Space) > p + 1 /\ Mark(page, Beyond(page, p + 1, Space)) = "opening"
             /\ l = [field |-> "financial_bid_opening", end |-> Beyond(page, p + 1, Space) + 1]
      BY <2>3 DEF Found
    <3>2. PICK q : q = Beyond(page, p + 1, Space)
      OBVIOUS
    <3>3. p \in 1..Len(page) /\ p + 1 \in 1..(Len(page) + 1)
      BY <1>4
    <3>4. IsBeyond(q, page, p + 1, Space)
      BY <1>4, <3>2, <3>3, BeyondIs
    <3>5. q > p + 1 /\ Mark(page, q) = "opening" /\ field = "financial_bid_opening" /\ e = q + 1
      BY <1>2, <3>1, <3>2
    <3>6. q \in 1..Len(page) /\ page[q] = "opening"
      <4>1. "opening" # "end"
        OBVIOUS
      <4> QED
        BY <3>5, <4>1, MarkIs
    <3>7. e - 1 = q /\ e \in 2..(Len(page) + 1) /\ p + 1 < q
      BY <1>4, <3>3, <3>5, <3>6
    <3> QED
      BY <3>1, <3>2, <3>4, <3>5, <3>6, <3>7
  <2> QED
    BY <1>1, <2>1, <2>2, <2>3 DEF DateLabels
<1>6. IsBeyond(start, page, e, Space)
  <2>1. e \in 1..(Len(page) + 1)
    BY <1>4, <1>5
  <2> QED
    BY <1>2, <1>4, <2>1, BeyondIs
<1> QED
  BY <1>3, <1>5, <1>6 DEF IsFormDate

\* Two labels that end before one date end at one place.
LEMMA OneFormDate ==
    ASSUME NEW M, NEW page \in Seq(M), NEW r, NEW q, NEW e, NEW f,
           IsFormDate(r, page, e), IsFormDate(q, page, f), r.start = q.start
    PROVE  r.field = q.field \/ MayBeShared(page, r.start)
<1>1. PICK s : s = r.start /\ s = q.start
  OBVIOUS
<1>2. Len(page) \in Nat /\ DOMAIN page = 1..Len(page)
  OBVIOUS
<1>3. /\ e \in 2..(Len(page) + 1) /\ e < s /\ s \in Int
      /\ \A k \in e..(s - 1) : page[k] \in Space
      /\ page[e - 1] \in {"publish", "opening"}
  BY <1>1, <1>2 DEF IsFormDate, IsBeyond
<1>4. /\ f \in 2..(Len(page) + 1) /\ f < s
      /\ \A k \in f..(s - 1) : page[k] \in Space
      /\ page[f - 1] \in {"publish", "opening"}
  BY <1>1, <1>2 DEF IsFormDate, IsBeyond
<1>5. "publish" \notin Space /\ "opening" \notin Space
  BY DEF Space
<1>6. e = f
  <2>1. CASE e < f
    <3>1. f - 1 \in e..(s - 1)
      BY <1>2, <1>3, <1>4, <2>1
    <3> QED
      BY <1>3, <1>4, <1>5, <3>1
  <2>2. CASE f < e
    <3>1. e - 1 \in f..(s - 1)
      BY <1>2, <1>3, <1>4, <2>2
    <3> QED
      BY <1>3, <1>4, <1>5, <3>1
  <2> QED
    BY <1>2, <1>3, <1>4, <2>1, <2>2
<1>7. ASSUME NEW p \in DOMAIN page, page[p] = "financial", p + 1 < e - 1,
             IsBeyond(e - 1, page, p + 1, Space), Beyond(page, p + 1, Space) = e - 1,
             ~LooksBack(page, e - 1)
      PROVE  MayBeShared(page, s)
  <2>1. p \in Nat /\ p \in 1..Len(page) /\ e \in Int
    BY <1>2, <1>3
  <2>2. CASE e - 1 = p + 2
    <3>1. e - 2 = p + 1 /\ e - 3 = p /\ p + 1 \in (p + 1)..(e - 1 - 1)
      BY <2>1, <2>2
    <3>2. p + 1 \in 1..Len(page) /\ Mark(page, p + 1) \in Space
      BY <1>7, <3>1 DEF IsBeyond
    <3>3. Mark(page, p) = "financial"
      BY <1>7, <2>1, MarkIs
    <3>4. e - 1 - 1 = p + 1 /\ e - 1 - 2 = p
      BY <2>1, <2>2
    <3>5. LooksBack(page, e - 1)
      BY <3>2, <3>3, <3>4 DEF LooksBack
    <3> QED
      BY <1>7, <3>5
  <2>3. CASE e - 1 # p + 2
    <3>1. e - 1 > p + 2 /\ p < s
      BY <1>3, <1>7, <2>1, <2>3
    <3>2. p \in Found(page, "financial")
      BY <1>7 DEF Found
    <3> QED
      BY <1>7, <3>1, <3>2 DEF MayBeShared
  <2> QED
    BY <2>2, <2>3
<1>8. \/ r.field = "publish" /\ page[e - 1] = "publish"
      \/ r.field = "bid_opening" /\ page[e - 1] = "opening" /\ ~LooksBack(page, e - 1)
      \/ /\ r.field = "financial_bid_opening" /\ page[e - 1] = "opening"
         /\ \E p \in DOMAIN page : /\ page[p] = "financial" /\ p + 1 < e - 1
                                   /\ IsBeyond(e - 1, page, p + 1, Space)
                                   /\ Beyond(page, p + 1, Space) = e - 1
  BY DEF IsFormDate
<1>9. \/ q.field = "publish" /\ page[e - 1] = "publish"
      \/ q.field = "bid_opening" /\ page[e - 1] = "opening" /\ ~LooksBack(page, e - 1)
      \/ /\ q.field = "financial_bid_opening" /\ page[e - 1] = "opening"
         /\ \E p \in DOMAIN page : /\ page[p] = "financial" /\ p + 1 < e - 1
                                   /\ IsBeyond(e - 1, page, p + 1, Space)
                                   /\ Beyond(page, p + 1, Space) = e - 1
  BY <1>6 DEF IsFormDate
<1>10. CASE r.field = q.field
  BY <1>10
<1>11. CASE r.field # q.field
  <2>1. /\ ~LooksBack(page, e - 1)
        /\ \E p \in DOMAIN page : /\ page[p] = "financial" /\ p + 1 < e - 1
                                  /\ IsBeyond(e - 1, page, p + 1, Space)
                                  /\ Beyond(page, p + 1, Space) = e - 1
    <3>1. page[e - 1] = "publish" => page[e - 1] # "opening"
      OBVIOUS
    <3> QED
      BY <1>8, <1>9, <1>11, <3>1
  <2>2. PICK p \in DOMAIN page : /\ page[p] = "financial" /\ p + 1 < e - 1
                                 /\ IsBeyond(e - 1, page, p + 1, Space)
                                 /\ Beyond(page, p + 1, Space) = e - 1
    BY <2>1
  <2>3. MayBeShared(page, s)
    BY <1>7, <2>1, <2>2
  <2> QED
    BY <1>1, <2>3
<1> QED
  BY <1>10, <1>11

\* A date of the issuer's letter follows its label.
LEMMA LetterDateIs ==
    ASSUME NEW M, NEW page \in Seq(M), NEW r \in LetterDates(page)
    PROVE  /\ r.field \in {"last", "meeting"} /\ Mark(page, r.start) = "date"
           /\ r.field = "last" => \E p \in Found(page, "last") : p < r.start
<1>1. PICK p \in DOMAIN page : /\ page[p] \in {"last", "meeting"}
                               /\ Mark(page, DateAfter(page, p)) = "date"
                               /\ r = Spot(page[p], DateAfter(page, p), DateAfter(page, p) + 1, "date")
  BY DEF LetterDates
<1>2. PICK s : s = DateAfter(page, p)
  OBVIOUS
<1>3. r.field = page[p] /\ r.start = s /\ Mark(page, s) = "date"
  BY <1>1, <1>2 DEF Spot
<1>4. ASSUME page[p] = "last"
      PROVE  p \in Found(page, "last") /\ p < s
  <2> DEFINE S == {j \in p..(Len(page) + 1) : Mark(page, j) \in {"digit", "date", "line", "end"}}
  <2>1. Len(page) \in Nat /\ p \in 1..Len(page)
    OBVIOUS
  <2>2. s = Least(S)
    BY <1>2, <1>4 DEF DateAfter
  <2>3. S \subseteq Nat
    BY <2>1
  <2>4. Len(page) + 1 \in S
    <3>1. Mark(page, Len(page) + 1) = "end"
      BY MarkIs
    <3> QED
      BY <2>1, <3>1
  <2>5. s \in S
    <3> HIDE DEF S
    <3> QED
      BY <2>2, <2>3, <2>4, LeastIs
  <2>6. s \in Nat /\ p <= s
    BY <2>1, <2>5
  <2>7. Mark(page, p) = "last"
    BY <1>4, <2>1, MarkIs
  <2>8. s # p
    BY <1>3, <2>7
  <2> QED
    BY <1>4, <2>1, <2>6, <2>8 DEF Found
<1> QED
  BY <1>1, <1>3, <1>4

LEMMA DatesAreOfOneField ==
    ASSUME NoticePage \in Seq(STRING)
    PROVE  OneDateOneField
<1>1. PICK page : page = NoticePage
  OBVIOUS
<1>2. page \in Seq(STRING)
  BY <1>1
<1>3. ASSUME NEW r \in FormDates(page) \cup LetterDates(page), NEW q \in FormDates(page) \cup LetterDates(page),
             r.start = q.start
      PROVE  r.field = q.field \/ MayBeShared(page, r.start)
  <2>1. CASE r \in FormDates(page) /\ q \in FormDates(page)
    <3>1. PICK e : IsFormDate(r, page, e)
      BY <1>2, <2>1, FormDateIs
    <3>2. PICK f : IsFormDate(q, page, f)
      BY <1>2, <2>1, FormDateIs
    <3> QED
      BY <1>2, <1>3, <3>1, <3>2, OneFormDate
  <2>2. CASE r \in LetterDates(page) /\ q \in LetterDates(page)
    <3>1. /\ r.field \in {"last", "meeting"}
          /\ r.field = "last" => \E p \in Found(page, "last") : p < r.start
      BY <1>2, <2>2, LetterDateIs
    <3>2. /\ q.field \in {"last", "meeting"}
          /\ q.field = "last" => \E p \in Found(page, "last") : p < q.start
      BY <1>2, <2>2, LetterDateIs
    <3> QED
      BY <1>3, <3>1, <3>2 DEF MayBeShared
  <2>3. ASSUME NEW x \in FormDates(page), NEW y \in LetterDates(page)
        PROVE  x.start # y.start
    <3>1. PICK e : IsFormDate(x, page, e)
      BY <1>2, FormDateIs
    <3>2. Mark(page, x.start) = "when"
      BY <3>1 DEF IsFormDate
    <3>3. Mark(page, y.start) = "date"
      BY <1>2, LetterDateIs
    <3> QED
      BY <3>2, <3>3
  <2> QED
    BY <1>3, <2>1, <2>2, <2>3
<1> QED
  BY <1>1, <1>3 DEF OneDateOneField

\* The hour an hour of twelve is on a clock of twenty-four.
LEMMA HoursAreRead ==
    ASSUME NEW hour \in 1..12
    PROVE  /\ hour % 12 \in 0..11 /\ (hour % 12) % 12 = hour % 12
           /\ (hour % 12) + 12 \in 12..23 /\ ((hour % 12) + 12) % 12 = hour % 12
           /\ (hour + 12) % 12 = hour % 12
<1>1. hour = 12 => hour % 12 = 0
  OBVIOUS
<1>2. hour # 12 => hour % 12 = hour /\ hour \in 1..11
  OBVIOUS
<1> QED
  BY <1>1, <1>2

LEMMA StampsAreCertain ==
    ASSUME NEW s \in Stamps
    PROVE  LET read == StampReading(s)
           IN  /\ (read.date # Illegible /\ ~read.ambiguous /\ s.script # "form")
                     => IsoDate(s.year, s.day, s.month) \in {Illegible, read.date}
               /\ (read.hour # Illegible /\ s.script # "letter")
                     => read.hour \in HoursOf(s.part) /\ read.hour % 12 = s.hour % 12
<1>1. PICK day, month, year, part, hour, minute :
         /\ day = s.day /\ month = s.month /\ year = s.year
         /\ part = s.part /\ hour = s.hour /\ minute = s.minute
  OBVIOUS
<1>2. /\ {day, month, year, hour, minute} \subseteq Nat /\ s.script \in {"form", "letter", "schedule"}
      /\ s.script = "form" => part \in {"AM", "PM"}
      /\ s.script = "schedule" => part \in {"none", "morning", "afternoon", "evening", "night"}
  BY <1>1, NoticesAssumption DEF Dates
<1>3. PICK date, otherwise : date = IsoDate(year, month, day) /\ otherwise = IsoDate(year, day, month)
  OBVIOUS
<1>4. date # Illegible /\ ~IsAmbiguous(s) => otherwise \in {Illegible, date}
  <2> SUFFICES ASSUME date # Illegible, ~IsAmbiguous(s)
               PROVE  otherwise \in {Illegible, date}
    OBVIOUS
  <2>1. ~(day <= 12) \/ day = month
    BY <1>1 DEF IsAmbiguous
  <2>2. CASE day = month
    BY <1>3, <2>2
  <2>3. CASE ~(day <= 12)
    <3>1. day \notin 1..12
      BY <1>2, <2>3
    <3> QED
      BY <1>3, <3>1 DEF IsoDate, OnCalendar
  <2> QED
    BY <2>1, <2>2, <2>3
<1>5. PICK read : read = StampReading(s)
  OBVIOUS
<1>6. CASE s.script = "form"
  <2>1. read = FormDateTime(s)
    BY <1>5, <1>6 DEF StampReading
  <2>2. PICK clock : clock = TwentyFourHour(hour, minute, part)
    OBVIOUS
  <2>3. read.hour = Illegible \/ read.hour = clock
    BY <1>1, <2>1, <2>2 DEF FormDateTime, Dated
  <2>4. ASSUME clock # Illegible
        PROVE  clock \in HoursOf(part) /\ clock % 12 = hour % 12
    <3>1. hour \in 1..12 /\ clock = (hour % 12) + (IF part = "PM" THEN 12 ELSE 0)
      BY <2>2, <2>4 DEF TwentyFourHour
    <3>2. CASE part = "PM"
      <4>1. clock = (hour % 12) + 12
        BY <3>1, <3>2
      <4> QED
        BY <3>1, <3>2, <4>1, HoursAreRead DEF HoursOf
    <3>3. CASE part = "AM"
      <4>1. clock = hour % 12
        BY <3>1, <3>3, HoursAreRead
      <4> QED
        BY <3>1, <3>3, <4>1, HoursAreRead DEF HoursOf
    <3> QED
      BY <1>2, <1>6, <3>2, <3>3
  <2> QED
    BY <1>1, <1>5, <1>6, <2>3, <2>4
<1>7. CASE s.script = "letter"
  <2>1. read = LetterDate(s)
    BY <1>5, <1>7 DEF StampReading
  <2>2. read.date = date /\ read.ambiguous = IsAmbiguous(s)
    BY <1>1, <1>3, <2>1 DEF LetterDate, Dated
  <2> QED
    BY <1>1, <1>3, <1>4, <1>5, <1>7, <2>2
<1>8. CASE s.script = "schedule"
  <2>1. read = MarathiDate(s)
    BY <1>5, <1>8 DEF StampReading
  <2>2. read.date = date /\ read.ambiguous = IsAmbiguous(s)
    BY <1>1, <1>3, <2>1 DEF MarathiDate, Dated
  <2>3. read.hour # Illegible => part # "none" /\ read.hour = MarathiHour(part, hour)
    BY <1>1, <2>1 DEF MarathiDate, Dated
  <2>4. ASSUME read.hour # Illegible
        PROVE  read.hour \in HoursOf(part) /\ read.hour % 12 = hour % 12
    <3>1. part \in {"morning", "afternoon", "evening", "night"} /\ read.hour = MarathiHour(part, hour)
      BY <1>2, <1>8, <2>3, <2>4
    <3>2. hour \in 1..12
      BY <2>4, <3>1 DEF MarathiHour
    <3>3. CASE part = "morning"
      <4>1. read.hour = hour % 12
        BY <3>1, <3>2, <3>3 DEF MarathiHour
      <4> QED
        BY <3>2, <3>3, <4>1, HoursAreRead DEF HoursOf
    <3>4. CASE part = "afternoon"
      <4>1. (read.hour = 12 /\ hour = 12) \/ (read.hour = hour + 12 /\ hour <= 6)
        BY <2>4, <3>1, <3>2, <3>4 DEF MarathiHour
      <4>2. read.hour \in 12..18
        BY <3>2, <4>1
      <4> QED
        BY <3>2, <3>4, <4>1, <4>2, HoursAreRead DEF HoursOf
    <3>5. CASE part = "evening"
      <4>1. read.hour = hour + 12 /\ hour < 12
        BY <2>4, <3>1, <3>2, <3>5 DEF MarathiHour
      <4>2. read.hour \in 13..23
        BY <3>2, <4>1
      <4> QED
        BY <3>2, <3>5, <4>1, <4>2, HoursAreRead DEF HoursOf
    <3>6. CASE part = "night"
      <4>1. read.hour = hour + 12 /\ hour \in 7..11
        BY <2>4, <3>1, <3>2, <3>6 DEF MarathiHour
      <4>2. read.hour \in 19..23
        BY <3>2, <4>1
      <4> QED
        BY <3>2, <3>6, <4>1, <4>2, HoursAreRead DEF HoursOf
    <3> QED
      BY <3>1, <3>3, <3>4, <3>5, <3>6
  <2> QED
    BY <1>1, <1>3, <1>4, <1>5, <2>2, <2>4
<1> QED
  BY <1>2, <1>6, <1>7, <1>8

\* A listing's date that is read can mean one day.
LEMMA CellsMeanOneDay ==
    ASSUME NEW s \in Dates, s.part = "sept" => s.month = 9
    PROVE  /\ MhadaDate(s) # Illegible => Meant(s) = {MhadaDate(s)}
           /\ MsidcDate(s) # Illegible => Meant(s) = {MsidcDate(s)}
<1>1. PICK day, month, year, part : day = s.day /\ month = s.month /\ year = s.year /\ part = s.part
  OBVIOUS
<1>2. ASSUME part # "digits", OnCalendar(year, month, day)
      PROVE  Meant(s) = {<<year, month, day>>}
  <2>1. PICK d : d = <<year, month, day>>
    OBVIOUS
  <2>2. d[1] = year /\ d[2] = month /\ d[3] = day
    BY <2>1
  <2>3. Meant(s) = {x \in {<<year, m, day>> : m \in {month}} : OnCalendar(x[1], x[2], x[3])}
    BY <1>1, <1>2 DEF Meant
  <2>4. {<<year, m, day>> : m \in {month}} = {d}
    BY <2>1
  <2>5. OnCalendar(d[1], d[2], d[3])
    BY <1>2, <2>2
  <2>6. Meant(s) = {d}
    BY <2>3, <2>4, <2>5
  <2> QED
    BY <2>1, <2>6
<1>3. ASSUME MhadaDate(s) # Illegible
      PROVE  Meant(s) = {MhadaDate(s)}
  <2>1. part = "full" /\ OnCalendar(year, month, day) /\ MhadaDate(s) = <<year, month, day>>
    BY <1>1, <1>3 DEF MhadaDate
  <2> QED
    BY <1>2, <2>1
<1>4. ASSUME MsidcDate(s) # Illegible
      PROVE  Meant(s) = {MsidcDate(s)}
  <2>1. PICK named : named = MonthOf(s)
    OBVIOUS
  <2>2. OnCalendar(year, named, day) /\ MsidcDate(s) = <<year, named, day>>
    BY <1>1, <1>4, <2>1 DEF MsidcDate
  <2>3. named \in 1..12
    BY <2>2 DEF OnCalendar
  <2>4. part \in {"full", "short", "sept"} /\ named = month
    <3>1. CASE part \in {"full", "short"}
      BY <1>1, <2>1, <3>1 DEF MonthOf
    <3>2. CASE part = "sept"
      BY <1>1, <2>1, <3>2 DEF MonthOf
    <3>3. CASE part \notin {"full", "short", "sept"}
      <4>1. named = 0
        BY <1>1, <2>1, <3>3 DEF MonthOf
      <4> QED
        BY <2>3, <4>1
    <3> QED
      BY <3>1, <3>2, <3>3
  <2> QED
    BY <1>2, <2>2, <2>4
<1> QED
  BY <1>3, <1>4

LEMMA RowsAreRead ==
    ASSUME row = Illegible \/ row \in Rows
    PROVE  RowsAreReadAsPrinted
<1> SUFFICES ASSUME row # Illegible
             PROVE  RowsAreReadAsPrinted
  BY DEF RowsAreReadAsPrinted
<1>1. row.agency \in {"mhada", "msidc"} /\ row \in Rows
  BY NoticesAssumption
<1>2. PICK one, two : one = row.published /\ two = row.closing
  OBVIOUS
<1>3. /\ one \in Dates /\ (one.part = "sept" => one.month = 9)
      /\ two \in Dates /\ (two.part = "sept" => two.month = 9)
  BY <1>1, <1>2, NoticesAssumption
<1>4. PICK read : read = RowReading(row)
  OBVIOUS
<1>5. /\ read.publishedOn # Illegible => Meant(one) = {read.publishedOn}
      /\ read.closingOn # Illegible => Meant(two) = {read.closingOn}
  <2>1. CASE row.agency = "mhada"
    <3>1. read.publishedOn = MhadaDate(one) /\ read.closingOn = MhadaDate(two)
      BY <1>2, <1>4, <2>1 DEF RowReading, RowOfMhada
    <3> QED
      BY <1>3, <3>1, CellsMeanOneDay
  <2>2. CASE row.agency = "msidc"
    <3>1. read.publishedOn = MsidcDate(one) /\ read.closingOn = MsidcDate(two)
      BY <1>2, <1>4, <2>2 DEF RowReading, RowOfMsidc
    <3> QED
      BY <1>3, <3>1, CellsMeanOneDay
  <2> QED
    BY <1>1, <2>1, <2>2
<1>6. read.late # Illegible =>
         /\ read.publishedOn # Illegible /\ read.closingOn # Illegible
         /\ read.late = IF IsBefore(read.closingOn, read.publishedOn) THEN "yes" ELSE "no"
  <2>1. CASE row.agency = "mhada"
    BY <1>4, <2>1 DEF RowReading, RowOfMhada
  <2>2. CASE row.agency = "msidc"
    <3>1. PICK publishedOn, closingOn : /\ publishedOn = MsidcDate(one) /\ closingOn = MsidcDate(two)
      OBVIOUS
    <3>2. /\ read.publishedOn = publishedOn /\ read.closingOn = closingOn
          /\ read.late = IF Illegible \in {publishedOn, closingOn} THEN Illegible
                         ELSE IF IsBefore(closingOn, publishedOn) THEN "yes" ELSE "no"
      BY <1>2, <1>4, <2>2, <3>1 DEF RowReading, RowOfMsidc
    <3> QED
      BY <3>2
  <2> QED
    BY <1>1, <2>1, <2>2
<1>7. read.late # Illegible =>
         \A p \in Meant(one), c \in Meant(two) : read.late = IF IsBefore(c, p) THEN "yes" ELSE "no"
  BY <1>5, <1>6
<1> QED
  BY <1>2, <1>4, <1>5, <1>7 DEF RowsAreReadAsPrinted

\* Where a reference may end, after the year at y.
LEMMA ReferenceEndIs ==
    ASSUME NEW M, NEW page \in Seq(M), NEW y \in Found(page, "year"), ReferenceEnd(page, y) > 0
    PROVE  LET e == ReferenceEnd(page, y)
               next == Beyond(page, e, Space)
           IN  /\ e \in (y + 1)..(Len(page) + 1) /\ page[e - 1] \in {"year", "range", "call"}
               /\ (Mark(page, next) = "call" /\ page[e - 1] # "call")
                     => Mark(page, next + 1) \in {"digit", "slash"}
               /\ Mark(page, next) = "slash" => next > e
<1> DEFINE N == Len(page)
           Ended(e) == Mark(page, e) \notin {"digit", "slash"}
<1>1. N \in Nat /\ DOMAIN page = 1..N /\ y \in 1..N /\ page[y] = "year" /\ "end" \notin Space
  BY DEF Found, Space
<1>2. PICK a : a = Beyond(page, y + 1, Space)
  OBVIOUS
<1>3. PICK range : range = IF Mark(page, a) = "range" THEN a + 1 ELSE y + 1
  OBVIOUS
<1>4. PICK b : b = Beyond(page, range, Space)
  OBVIOUS
<1>5. PICK call : call = IF Mark(page, b) = "call" THEN b + 1 ELSE range
  OBVIOUS
<1>6. PICK allowed : allowed = {e \in {y + 1, range, call} : Ended(e)}
  OBVIOUS
<1>7. PICK e : e = ReferenceEnd(page, y)
  OBVIOUS
<1>8. e = IF allowed = {} THEN 0 ELSE Greatest(allowed)
  BY <1>2, <1>3, <1>4, <1>5, <1>6, <1>7 DEF ReferenceEnd
<1>9. y + 1 \in 1..(N + 1) /\ IsBeyond(a, page, y + 1, Space)
  <2>1. y + 1 \in 1..(N + 1)
    BY <1>1
  <2> QED
    BY <1>1, <1>2, <2>1, BeyondIs
<1>10. /\ range \in (y + 1)..(N + 1) /\ page[range - 1] \in {"year", "range"}
       /\ range = y + 1 \/ Mark(page, a) = "range"
  <2>1. CASE Mark(page, a) = "range"
    <3>1. a \in 1..N /\ page[a] = "range" /\ range = a + 1
      BY <1>3, <2>1, MarkIs
    <3>2. a >= y + 1
      BY <1>9 DEF IsBeyond
    <3>3. range - 1 = a /\ range \in (y + 1)..(N + 1)
      BY <1>1, <3>1, <3>2
    <3> QED
      BY <2>1, <3>1, <3>3
  <2>2. CASE Mark(page, a) # "range"
    <3>1. range = y + 1
      BY <1>3, <2>2
    <3>2. range - 1 = y /\ range \in (y + 1)..(N + 1)
      BY <1>1, <3>1
    <3> QED
      BY <1>1, <3>1, <3>2
  <2> QED
    BY <2>1, <2>2
<1>11. range \in 1..(N + 1) /\ IsBeyond(b, page, range, Space)
  <2>1. range \in 1..(N + 1)
    BY <1>1, <1>10
  <2> QED
    BY <1>1, <1>4, <2>1, BeyondIs
<1>12. /\ call \in (y + 1)..(N + 1)
       /\ call = range \/ page[call - 1] = "call"
       /\ Mark(page, b) = "call" => call = b + 1 /\ b >= range
  <2>1. CASE Mark(page, b) = "call"
    <3>1. b \in 1..N /\ page[b] = "call" /\ call = b + 1
      BY <1>5, <2>1, MarkIs
    <3>2. b >= range
      BY <1>11 DEF IsBeyond
    <3>3. call - 1 = b /\ call \in (y + 1)..(N + 1)
      BY <1>1, <1>10, <3>1, <3>2
    <3> QED
      BY <3>1, <3>2, <3>3
  <2>2. CASE Mark(page, b) # "call"
    BY <1>5, <1>10, <2>2
  <2> QED
    BY <2>1, <2>2
<1>13. e \in allowed /\ \A k \in allowed : k <= e
  <2>1. allowed # {} /\ e = Greatest(allowed)
    BY <1>7, <1>8
  <2>2. allowed \subseteq 0..(N + 1)
    BY <1>1, <1>6, <1>9, <1>10, <1>12
  <2>3. allowed \subseteq Nat /\ IsFiniteSet(allowed)
    <3>1. IsFiniteSet(0..(N + 1))
      BY <1>1, FS_Interval
    <3>2. IsFiniteSet(allowed)
      BY <2>2, <3>1, FS_Subset
    <3> QED
      BY <1>1, <2>2, <3>2
  <2> QED
    BY <2>1, <2>3, GreatestIs
<1>14. e \in {y + 1, range, call} /\ Ended(e) /\ e \in (y + 1)..(N + 1)
  BY <1>1, <1>6, <1>10, <1>12, <1>13
<1>15. page[e - 1] \in {"year", "range", "call"}
  <2>1. CASE e = y + 1
    <3>1. e - 1 = y
      BY <1>1, <2>1
    <3> QED
      BY <1>1, <3>1
  <2>2. CASE e = range
    BY <1>10, <2>2
  <2>3. CASE e = call /\ e # range
    BY <1>12, <2>3
  <2> QED
    BY <1>14, <2>1, <2>2, <2>3
<1>16. PICK next : next = Beyond(page, e, Space)
  OBVIOUS
<1>17. IsBeyond(next, page, e, Space)
  <2>1. e \in 1..(N + 1)
    BY <1>1, <1>14
  <2> QED
    BY <1>1, <1>16, <2>1, BeyondIs
<1>18. ASSUME Mark(page, next) = "call", page[e - 1] # "call"
       PROVE  Mark(page, next + 1) \in {"digit", "slash"}
  <2>1. e = range
    <3>1. CASE e = y + 1
      <4>1. next = a
        BY <1>2, <1>16, <3>1
      <4>2. Mark(page, a) # "range"
        BY <1>18, <4>1
      <4> QED
        BY <1>10, <3>1, <4>2
    <3>2. CASE e = call /\ e # range
      BY <1>12, <1>18, <3>2
    <3> QED
      BY <1>14, <3>1, <3>2
  <2>2. next = b /\ Mark(page, b) = "call"
    BY <1>4, <1>16, <1>18, <2>1
  <2>3. call = next + 1 /\ next >= e /\ next \in Int
    BY <1>12, <1>17, <2>1, <2>2 DEF IsBeyond
  <2>4. ~(call <= e)
    BY <1>1, <1>14, <2>3
  <2>5. call \notin allowed
    BY <1>13, <2>4
  <2>6. ~Ended(call)
    BY <1>6, <2>5
  <2> QED
    BY <2>3, <2>6
<1>19. Mark(page, next) = "slash" => next > e
  <2>1. next \in Int /\ e \in Int /\ next >= e
    BY <1>1, <1>14, <1>17 DEF IsBeyond
  <2>2. Mark(page, e) # "slash"
    BY <1>14
  <2> QED
    BY <2>1, <2>2
<1> QED
  BY <1>7, <1>14, <1>15, <1>16, <1>18, <1>19

\* The fields of what is read, by the pattern that reads it.
LEMMA FieldsAre ==
    ASSUME NEW M, NEW page \in Seq(M)
    PROVE  /\ \A r \in FormAmounts(page) : r.field \in {"emd", "tender_fee", "total_fee"}
           /\ \A r \in FormDates(page) : r.field \in {"publish", "bid_opening", "financial_bid_opening"}
           /\ \A r \in LetterAmounts(page) : r.field \in {"emd", "tender_fee", "tender_fee_before_gst"}
           /\ \A r \in LetterDates(page) : r.field \in {"last", "meeting"}
           /\ \A r \in LetterReferences(page) : r.field = "issuer_reference"
<1>1. ASSUME NEW r \in FormAmounts(page)
      PROVE  r.field \in {"emd", "tender_fee", "total_fee"}
  BY DEF FormAmounts, Spot
<1>2. ASSUME NEW r \in FormDates(page)
      PROVE  r.field \in {"publish", "bid_opening", "financial_bid_opening"}
  <2>1. PICK e : IsFormDate(r, page, e)
    BY FormDateIs
  <2> QED
    BY <2>1 DEF IsFormDate
<1>3. ASSUME NEW r \in LetterAmounts(page)
      PROVE  r.field \in {"emd", "tender_fee", "tender_fee_before_gst"}
  BY DEF LetterAmounts, Spot, FeeField
<1>4. ASSUME NEW r \in LetterDates(page)
      PROVE  r.field \in {"last", "meeting"}
  BY LetterDateIs
<1>5. ASSUME NEW r \in LetterReferences(page)
      PROVE  r.field = "issuer_reference"
  <2>1. \E start, end, value : r = Spot("issuer_reference", start, end, value)
    BY DEF LetterReferences
  <2> QED
    BY <2>1 DEF Spot
<1> QED
  BY <1>1, <1>2, <1>3, <1>4, <1>5

LEMMA ReferenceIs ==
    ASSUME NEW page \in Seq(STRING), NEW r \in LetterReferences(page)
    PROVE  \E y \in Found(page, "year") :
              /\ ReferenceEnd(page, y) > 0 /\ r.end = ReferenceEnd(page, y)
              /\ r.value[Len(r.value)] = page[r.end - 1]
<1> DEFINE Begins(p) == \/ page[p] = "refno"
                        \/ page[p] = "no" /\ Mark(page, p - 1) \in {"line", "end"}
           Years(m) == {y \in Found(page, "year") : y > m /\ Leads(page, m, y) /\ ReferenceEnd(page, y) > 0}
           Heads == {Beyond(page, p + 1, Space) : p \in {x \in DOMAIN page : Begins(x)}}
           Read(m) == LET y == Least(Years(m))
                          text == SubSeq(page, m, ReferenceEnd(page, y) - 1)
                      IN  Spot("issuer_reference", m, ReferenceEnd(page, y), Unspaced(text))
<1>1. PICK m \in Heads : Mark(page, m) = "msidc" /\ Years(m) # {} /\ r = Read(m)
  BY DEF LetterReferences
<1>2. Len(page) \in Nat /\ DOMAIN page = 1..Len(page) /\ m \in 1..Len(page)
  <2>1. "msidc" # "end"
    OBVIOUS
  <2> QED
    BY <1>1, <2>1, MarkIs
<1>3. PICK y : y = Least(Years(m))
  OBVIOUS
<1>4. y \in Years(m)
  <2>1. Years(m) \subseteq Nat /\ Years(m) # {}
    BY <1>1, <1>2 DEF Found
  <2> HIDE DEF Years
  <2> QED
    BY <1>3, <2>1, LeastIs
<1>5. y \in Found(page, "year") /\ y > m /\ ReferenceEnd(page, y) > 0 /\ y \in 1..Len(page)
  BY <1>2, <1>4 DEF Found
<1>6. PICK e : e = ReferenceEnd(page, y)
  OBVIOUS
<1>7. e \in (y + 1)..(Len(page) + 1) /\ page[e - 1] \in {"year", "range", "call"}
  BY <1>5, <1>6, ReferenceEndIs
<1>8. PICK text : text = SubSeq(page, m, e - 1)
  OBVIOUS
<1>9. r.end = e /\ r.value = Unspaced(text)
  <2>1. r = Spot("issuer_reference", m, e, Unspaced(text))
    BY <1>1, <1>3, <1>6, <1>8
  <2> QED
    BY <2>1 DEF Spot
<1>10. text \in Seq(STRING) /\ Len(text) \in Nat /\ Len(text) > 0 /\ text[Len(text)] = page[e - 1]
  <2>1. m \in Int /\ e - 1 \in Int /\ m <= e - 1 /\ \A i \in m..(e - 1) : page[i] \in STRING
    BY <1>2, <1>5, <1>7
  <2>2. /\ text \in Seq(STRING) /\ Len(text) = e - 1 - m + 1
        /\ \A i \in 1..(e - 1 - m + 1) : text[i] = page[m + i - 1]
    BY <1>8, <2>1, SubSeqProperties
  <2>3. e - 1 - m + 1 \in 1..(e - 1 - m + 1) /\ m + (e - 1 - m + 1) - 1 = e - 1
    BY <2>1
  <2> QED
    BY <2>2, <2>3
<1>11. IsUnspaced(Unspaced(text), text, Len(text), 0)
  <2>1. 0 \in 0..Len(text)
    BY <1>10
  <2> QED
    BY <1>10, <2>1, UnspacedIs
<1>12. text[Len(text)] \notin Space
  BY <1>7, <1>10 DEF Space
<1>13. r.value[Len(r.value)] = page[e - 1]
  BY <1>9, <1>10, <1>11, <1>12 DEF IsUnspaced
<1> QED
  BY <1>5, <1>6, <1>9, <1>13

LEMMA ReferencesAreWhole ==
    ASSUME NoticePage \in Seq(STRING)
    PROVE  ReferencesEndAtTheirYear
<1>1. PICK page : page = NoticePage
  OBVIOUS
<1>2. page \in Seq(STRING)
  BY <1>1
<1>3. ASSUME NEW r \in ReadingsOf(page), r.field = "issuer_reference"
      PROVE  LET next == Beyond(page, r.end, Space)
             IN  /\ r.value[Len(r.value)] \in {"year", "range", "call"}
                 /\ (Mark(page, next) = "call" /\ r.value[Len(r.value)] # "call")
                       => Mark(page, next + 1) \in {"digit", "slash"}
                 /\ Mark(page, next) = "slash" => next > r.end
  <2>1. r \in LetterReferences(page)
    <3>1. \/ r \in FormAmounts(page) \/ r \in FormDates(page) \/ r \in LetterReferences(page)
          \/ r \in LetterAmounts(page) \/ r \in LetterDates(page)
      BY DEF ReadingsOf
    <3> QED
      BY <1>2, <1>3, <3>1, FieldsAre
  <2>2. PICK y \in Found(page, "year") :
           /\ ReferenceEnd(page, y) > 0 /\ r.end = ReferenceEnd(page, y)
           /\ r.value[Len(r.value)] = page[r.end - 1]
    BY <1>2, <2>1, ReferenceIs
  <2>3. PICK e, last : e = r.end /\ last = r.value[Len(r.value)]
    OBVIOUS
  <2>4. e = ReferenceEnd(page, y) /\ last = page[e - 1]
    BY <2>2, <2>3
  <2>5. /\ last \in {"year", "range", "call"}
        /\ (Mark(page, Beyond(page, e, Space)) = "call" /\ last # "call")
              => Mark(page, Beyond(page, e, Space) + 1) \in {"digit", "slash"}
        /\ Mark(page, Beyond(page, e, Space)) = "slash" => Beyond(page, e, Space) > e
    BY <1>2, <2>2, <2>4, ReferenceEndIs
  <2> QED
    BY <2>3, <2>5
<1> QED
  BY <1>1, <1>3 DEF ReferencesEndAtTheirYear

\* Where a run of marks of a class ends, from the first mark on.
LEMMA BeyondAll ==
    ASSUME NEW M, NEW text \in Seq(M), NEW class, "end" \notin class, NEW k \in 0..Len(text),
           \A j \in 1..k : text[j] \in class, Mark(text, k + 1) \notin class
    PROVE  Beyond(text, 1, class) = k + 1
<1>1. PICK b : b = Beyond(text, 1, class)
  OBVIOUS
<1>2. Len(text) \in Nat /\ k \in Nat /\ k <= Len(text) /\ 1 \in 1..(Len(text) + 1)
  OBVIOUS
<1>3. IsBeyond(b, text, 1, class)
  BY <1>1, <1>2, BeyondIs
<1>4. b \in 1..(Len(text) + 1) /\ Mark(text, b) \notin class /\ \A j \in 1..(b - 1) : Mark(text, j) \in class
  BY <1>3 DEF IsBeyond
<1>5. CASE b < k + 1
  <2>1. b \in 1..k /\ b \in 1..Len(text)
    BY <1>2, <1>4, <1>5
  <2>2. Mark(text, b) = text[b]
    BY <2>1, MarkIs
  <2> QED
    BY <1>4, <2>1, <2>2
<1>6. CASE b > k + 1
  <2>1. k + 1 \in 1..(b - 1)
    BY <1>2, <1>4, <1>6
  <2> QED
    BY <1>4, <2>1
<1> QED
  BY <1>1, <1>2, <1>4, <1>5, <1>6

\* An amount that begins at i: its whole figure ends at w, and it ends at e.
IsAmountEnd(e, page, i, w, b) ==
    /\ w \in (i + 1)..b /\ b \in i..(Len(page) + 1) /\ e \in w..(Len(page) + 1)
    /\ \A k \in i..(w - 1) : page[k] \in {"digit", "comma"}
    /\ Mark(page, w) \notin {"digit", "comma"}
    /\ \A k \in i..(b - 1) : page[k] \in {"digit", "comma"} \cup Space
    /\ e # w => Mark(page, w) = "point" /\ b = w /\ w \in 1..Len(page) /\ page[w] = "point"

LEMMA AmountEndIs ==
    ASSUME NEW page \in Seq(STRING), NEW i \in 1..Len(page), page[i] = "digit"
    PROVE  IsAmountEnd(AmountEnd(page, i), page, i, Beyond(page, i, {"digit", "comma"}),
                       Beyond(page, i, {"digit", "comma"} \cup Space))
<1> DEFINE N == Len(page)
           DC == {"digit", "comma"}
           All == {"digit", "comma"} \cup Space
<1>1. N \in Nat /\ i \in Nat /\ i >= 1 /\ i <= N /\ i \in 1..(N + 1)
  OBVIOUS
<1>2. "end" \notin DC /\ "end" \notin All /\ "point" \notin All /\ DC \subseteq All
  BY DEF Space
<1>3. PICK w, b : w = Beyond(page, i, DC) /\ b = Beyond(page, i, All)
  OBVIOUS
<1>4. IsBeyond(w, page, i, DC) /\ IsBeyond(b, page, i, All)
  <2> HIDE DEF DC, All
  <2> QED
    BY <1>1, <1>2, <1>3, BeyondIs
<1>5. /\ w \in i..(N + 1) /\ Mark(page, w) \notin DC
      /\ \A k \in i..(w - 1) : page[k] = Mark(page, k) /\ page[k] \in DC
      /\ b \in i..(N + 1) /\ Mark(page, b) \notin All
      /\ \A k \in i..(b - 1) : page[k] = Mark(page, k) /\ page[k] \in All
  <2> HIDE DEF DC, All
  <2> QED
    BY <1>4 DEF IsBeyond
<1>6. w \in (i + 1)..b
  <2>1. w # i
    <3>1. Mark(page, i) = "digit"
      BY <1>1, MarkIs
    <3> QED
      BY <1>5, <3>1
  <2>2. CASE b < w
    <3>1. b \in i..(w - 1)
      BY <1>1, <1>5, <2>2
    <3>2. Mark(page, b) \in DC
      BY <1>5, <3>1
    <3> QED
      BY <1>2, <1>5, <3>2
  <2> QED
    BY <1>1, <1>5, <2>1, <2>2
<1>7. PICK e : e = AmountEnd(page, i)
  OBVIOUS
<1>8. e = IF Mark(page, w) = "point" /\ Mark(page, w + 1) = "digit"
          THEN IF Mark(page, w + 2) = "digit" THEN w + 3 ELSE w + 2
          ELSE w
  BY <1>3, <1>7 DEF AmountEnd
<1>9. CASE e = w
  <2>1. e \in w..(N + 1)
    BY <1>1, <1>5, <1>9
  <2>2. IsAmountEnd(e, page, i, w, b)
    BY <1>5, <1>6, <1>9, <2>1 DEF IsAmountEnd
  <2> QED
    BY <1>3, <1>7, <2>2
<1>10. CASE e # w
  <2>1. Mark(page, w) = "point" /\ Mark(page, w + 1) = "digit"
    BY <1>8, <1>10
  <2>2. w \in 1..N /\ w + 1 \in 1..N
    <3>1. "point" # "end" /\ "digit" # "end"
      OBVIOUS
    <3> QED
      BY <2>1, <3>1, MarkIs
  <2>3. page[w] = "point"
    BY <2>1, <2>2, MarkIs
  <2>4. e \in w..(N + 1)
    <3>1. CASE Mark(page, w + 2) = "digit"
      <4>1. w + 2 \in 1..N
        <5>1. "digit" # "end"
          OBVIOUS
        <5> QED
          BY <3>1, <5>1, MarkIs
      <4>2. e = w + 3
        BY <1>8, <2>1, <3>1
      <4> QED
        BY <1>1, <2>2, <4>1, <4>2
    <3>2. CASE Mark(page, w + 2) # "digit"
      <4>1. e = w + 2
        BY <1>8, <2>1, <3>2
      <4> QED
        BY <1>1, <2>2, <4>1
    <3> QED
      BY <3>1, <3>2
  <2>5. b = w
    <3>1. CASE w < b
      <4>1. w \in i..(b - 1)
        BY <1>1, <1>5, <1>6, <3>1
      <4> QED
        BY <1>2, <1>5, <2>3, <4>1
    <3> QED
      BY <1>1, <1>5, <1>6, <3>1
  <2> QED
    BY <1>1, <1>3, <1>5, <1>6, <1>7, <2>1, <2>2, <2>3, <2>4, <2>5 DEF IsAmountEnd
<1> QED
  BY <1>9, <1>10

\* A figure cut after a comma is not grouped, where what was typed is.
LEMMA CutIsNotGrouped ==
    ASSUME NEW figure \in Seq(STRING), NEW typed \in Seq(STRING), NEW inner,
           Len(figure) < Len(typed),
           \A j \in 1..Len(figure) : figure[j] = typed[j],
           \A j \in 1..Len(typed) : typed[j] \in {"digit", "comma"},
           \E j \in 1..Len(figure) : figure[j] = "comma",
           IsGrouped(typed, 2)
    PROVE  ~IsGrouped(figure, inner)
<1> DEFINE DC == {"digit", "comma"}
           n == Len(figure)
           m == Len(typed)
           C == Commas(figure)
           D == Commas(typed)
<1>1. n \in Nat /\ m \in Nat /\ n < m
  OBVIOUS
<1>2. Beyond(figure, 1, DC) = n + 1 /\ Beyond(typed, 1, DC) = m + 1
  <2>1. "end" \notin DC /\ n \in 0..n /\ m \in 0..m
    BY <1>1
  <2>2. Mark(figure, n + 1) \notin DC /\ Mark(typed, m + 1) \notin DC
    BY <2>1, MarkIs
  <2>3. \A j \in 1..n : figure[j] \in DC
    BY <1>1
  <2>4. \A j \in 1..m : typed[j] \in DC
    OBVIOUS
  <2> HIDE DEF DC
  <2>5. Beyond(figure, 1, DC) = n + 1
    BY <2>1, <2>2, <2>3, BeyondAll
  <2>6. Beyond(typed, 1, DC) = m + 1
    BY <2>1, <2>2, <2>4, BeyondAll
  <2> QED
    BY <2>5, <2>6
<1>3. C = {j \in 1..n : figure[j] = "comma"} /\ D = {j \in 1..m : typed[j] = "comma"}
  <2>1. (n + 1) - 1 = n /\ (m + 1) - 1 = m
    BY <1>1
  <2> QED
    BY <1>2, <2>1 DEF Commas
<1>4. C # {} /\ C \subseteq D /\ C \subseteq 1..n
  BY <1>1, <1>3
<1>5. SUFFICES ASSUME IsGrouped(figure, inner)
               PROVE  FALSE
  OBVIOUS
<1> HIDE DEF C, D
<1>6. PICK c : c = Greatest(C)
  OBVIOUS
<1>7. c \in C /\ \A k \in C : k <= c
  <2>1. IsFiniteSet(1..n)
    BY <1>1, FS_Interval
  <2>2. C \subseteq Nat /\ IsFiniteSet(C)
    <3>1. C \subseteq Nat
      BY <1>1, <1>4
    <3>2. IsFiniteSet(C)
      BY <1>4, <2>1, FS_Subset
    <3> QED
      BY <3>1, <3>2
  <2> QED
    BY <1>4, <1>6, <2>2, GreatestIs
<1>8. c = (n + 1) - 4
  BY <1>2, <1>4, <1>5, <1>6 DEF IsGrouped, C
<1>9. \A d \in D : d = (m + 1) - 4 \/ d + 2 + 1 \in D
  <2>1. D # {}
    BY <1>4
  <2> QED
    BY <1>2, <2>1 DEF IsGrouped, D
<1>10. c \in D /\ c # (m + 1) - 4
  BY <1>1, <1>4, <1>7, <1>8
<1>11. c + 2 + 1 \in D
  BY <1>9, <1>10
<1>12. c + 2 + 1 = n /\ n \in 1..n /\ ~(n <= c)
  BY <1>1, <1>4, <1>7, <1>8
<1>13. n \in C
  BY <1>3, <1>11, <1>12
<1> QED
  BY <1>7, <1>12, <1>13

\* What is read where a figure stands, against what was typed there.
LEMMA AmountIsRead ==
    ASSUME NEW page \in Seq(STRING), NEW i \in 1..Len(page), page[i] = "digit"
    PROVE  LET e == AmountEnd(page, i)
               typed == Typed(page, i)
               cut == e < Beyond(page, i, {"digit", "comma"} \cup Space) /\ Len(typed) > e - i
           IN  /\ (cut /\ (\E j \in i..(e - 1) : page[j] = "comma") /\ IsGrouped(typed, 2))
                     => AmountAt(page, i) = Illegible
               /\ (~cut /\ AmountAt(page, i) # Illegible)
                     => AmountAt(page, i).digits = Cardinality({j \in DOMAIN typed : typed[j] = "digit"})
<1> DEFINE N == Len(page)
           DC == {"digit", "comma"}
           All == {"digit", "comma"} \cup Space
<1>1. N \in Nat /\ i \in Nat /\ i >= 1 /\ i <= N
  OBVIOUS
<1>2. PICK e, w, b : e = AmountEnd(page, i) /\ w = Beyond(page, i, DC) /\ b = Beyond(page, i, All)
  OBVIOUS
<1>3. IsAmountEnd(e, page, i, w, b)
  BY <1>2, AmountEndIs
<1>4. /\ w \in (i + 1)..b /\ b \in i..(N + 1) /\ e \in w..(N + 1)
      /\ \A k \in i..(w - 1) : page[k] \in DC
      /\ Mark(page, w) \notin DC
      /\ \A k \in i..(b - 1) : page[k] \in All
      /\ e # w => b = w /\ w \in 1..N /\ page[w] = "point"
  BY <1>3 DEF IsAmountEnd
<1>5. PICK figure, text, typed : /\ figure = SubSeq(page, i, e - 1)
                                 /\ text = SubSeq(page, i, b - 1)
                                 /\ typed = Unspaced(text)
  OBVIOUS
<1>6. Typed(page, i) = typed /\ AmountAt(page, i) = PrintedRupeesToPaise(figure)
  BY <1>2, <1>5 DEF Typed, AmountAt
<1> DEFINE n == w - i
<1>7. n \in Nat /\ n >= 1 /\ n <= b - i /\ n <= e - i /\ e - i \in Nat /\ b - i \in Nat /\ w \in Int
  BY <1>1, <1>4
<1>8. figure \in Seq(STRING) /\ Len(figure) = e - i /\ \A j \in 1..(e - i) : figure[j] = page[i + j - 1]
  <2>1. i \in Int /\ e - 1 \in Int /\ i <= e - 1 + 1 /\ \A k \in i..(e - 1) : page[k] \in STRING
    BY <1>1, <1>4, <1>7
  <2>2. e - 1 - i + 1 = e - i /\ i <= e - 1
    BY <1>1, <1>4, <1>7
  <2> QED
    BY <1>5, <2>1, <2>2, SubSeqProperties
<1>9. text \in Seq(STRING) /\ Len(text) = b - i /\ \A j \in 1..(b - i) : text[j] = page[i + j - 1]
  <2>1. i \in Int /\ b - 1 \in Int /\ i <= b - 1 + 1 /\ \A k \in i..(b - 1) : page[k] \in STRING
    BY <1>1, <1>4, <1>7
  <2>2. b - 1 - i + 1 = b - i /\ i <= b - 1
    BY <1>1, <1>4, <1>7
  <2> QED
    BY <1>5, <2>1, <2>2, SubSeqProperties
<1>10. \A j \in 1..n : /\ i + j - 1 \in i..(w - 1) /\ j \in 1..(e - i) /\ j \in 1..(b - i)
                       /\ figure[j] = text[j] /\ figure[j] \in DC
  <2> SUFFICES ASSUME NEW j \in 1..n
               PROVE  /\ i + j - 1 \in i..(w - 1) /\ j \in 1..(e - i) /\ j \in 1..(b - i)
                      /\ figure[j] = text[j] /\ figure[j] \in DC
    OBVIOUS
  <2>1. i + j - 1 \in i..(w - 1) /\ j \in 1..(e - i) /\ j \in 1..(b - i)
    BY <1>1, <1>7
  <2>2. figure[j] = page[i + j - 1] /\ text[j] = page[i + j - 1]
    BY <1>8, <1>9, <2>1
  <2> HIDE DEF DC, n
  <2> QED
    BY <1>4, <2>1, <2>2
<1>11. /\ typed \in Seq(STRING) /\ Len(typed) \in Nat /\ n <= Len(typed) /\ Len(typed) <= b - i
       /\ n = b - i => Len(typed) = n
       /\ \A j \in 1..n : typed[j] = figure[j]
       /\ \A j \in 1..Len(typed) : typed[j] \in DC
  <2>1. IsUnspaced(typed, text, b - i, n) /\ IsDrawn(typed, text, b - i)
    <3>1. n \in 0..Len(text)
      BY <1>7, <1>9
    <3>2. \A j \in 1..n : text[j] \notin Space
      BY <1>10 DEF Space
    <3> HIDE DEF n
    <3> QED
      BY <1>5, <1>9, <3>1, <3>2, UnspacedIs
  <2>2. /\ typed \in Seq(STRING) /\ Len(typed) <= b - i /\ n <= Len(typed)
        /\ n = b - i => Len(typed) = n
        /\ \A j \in 1..n : typed[j] = text[j]
    BY <1>7, <2>1 DEF IsUnspaced
  <2>3. ASSUME NEW j \in 1..Len(typed)
        PROVE  typed[j] \in DC
    <3>1. PICK k \in 1..(b - i) : typed[j] = text[k] /\ text[k] \notin Space
      BY <2>1 DEF IsDrawn
    <3>2. i + k - 1 \in i..(b - 1) /\ text[k] = page[i + k - 1]
      BY <1>1, <1>4, <1>7, <1>9
    <3>3. text[k] \in All
      BY <1>4, <3>2
    <3> QED
      BY <3>1, <3>3
  <2> QED
    BY <1>10, <2>2, <2>3
<1>12. Beyond(figure, 1, DC) = n + 1
  <2>1. "end" \notin DC /\ n \in 0..Len(figure) /\ \A j \in 1..n : figure[j] \in DC
    BY <1>7, <1>8, <1>10
  <2>2. Mark(figure, n + 1) \notin DC
    <3>1. CASE e = w
      <4>1. n + 1 = Len(figure) + 1
        BY <1>8, <3>1
      <4>2. Mark(figure, n + 1) = "end"
        BY <1>8, <4>1, MarkIs
      <4> QED
        BY <4>2
    <3>2. CASE e # w
      <4>1. n + 1 \in 1..(e - i) /\ i + (n + 1) - 1 = w
        BY <1>1, <1>4, <1>7, <3>2
      <4>2. figure[n + 1] = "point"
        BY <1>4, <1>8, <3>2, <4>1
      <4>3. Mark(figure, n + 1) = "point"
        BY <1>8, <4>1, <4>2, MarkIs
      <4> QED
        BY <4>3
    <3> QED
      BY <3>1, <3>2
  <2> HIDE DEF DC, n
  <2> QED
    BY <1>8, <2>1, <2>2, BeyondAll
<1> DEFINE cut == e < b /\ Len(typed) > e - i
<1>13. ASSUME cut, \E j \in i..(e - 1) : page[j] = "comma", IsGrouped(typed, 2)
       PROVE  PrintedRupeesToPaise(figure) = Illegible
  <2>1. e = w
    BY <1>4, <1>7, <1>13
  <2>2. Len(figure) < Len(typed) /\ Len(figure) = n
    BY <1>8, <1>13, <2>1
  <2>3. \E j \in 1..Len(figure) : figure[j] = "comma"
    <3>1. PICK k \in i..(e - 1) : page[k] = "comma"
      BY <1>13
    <3>2. k - i + 1 \in 1..(e - i) /\ i + (k - i + 1) - 1 = k
      BY <1>1, <1>4, <1>7
    <3>3. figure[k - i + 1] = "comma"
      BY <1>8, <3>1, <3>2
    <3> QED
      BY <1>8, <3>2, <3>3
  <2>4. \A j \in 1..Len(figure) : figure[j] = typed[j]
    BY <1>11, <2>2
  <2>5. ~IsGrouped(figure, 2) /\ ~IsGrouped(figure, 3)
    <3> HIDE DEF n
    <3> QED
      BY <1>8, <1>11, <1>13, <2>2, <2>3, <2>4, CutIsNotGrouped
  <2> QED
    BY <2>5 DEF PrintedRupeesToPaise
<1>14. ASSUME ~cut, PrintedRupeesToPaise(figure) # Illegible
       PROVE  PrintedRupeesToPaise(figure).digits = Cardinality({j \in DOMAIN typed : typed[j] = "digit"})
  <2>1. Len(typed) = n
    <3>1. CASE e # w
      <4>1. n = b - i
        BY <1>4, <3>1
      <4> QED
        BY <1>11, <4>1
    <3>2. CASE e = w /\ ~(e < b)
      <4>1. n = b - i
        BY <1>4, <1>7, <3>2
      <4> QED
        BY <1>11, <4>1
    <3>3. CASE e = w /\ ~(Len(typed) > e - i)
      BY <1>7, <1>11, <3>3
    <3> QED
      BY <1>14, <3>1, <3>2, <3>3
  <2>2. PrintedRupeesToPaise(figure).digits = Cardinality({j \in 1..((n + 1) - 1) : figure[j] = "digit"})
    BY <1>12, <1>14 DEF PrintedRupeesToPaise, AmountIn
  <2>3. (n + 1) - 1 = n /\ DOMAIN typed = 1..n
    BY <1>7, <1>11, <2>1
  <2>4. {j \in 1..n : figure[j] = "digit"} = {j \in 1..n : typed[j] = "digit"}
    BY <1>11
  <2> QED
    BY <2>2, <2>3, <2>4
<1> QED
  BY <1>2, <1>6, <1>13, <1>14

\* An amount that is read: its figure begins at i.
LEMMA AmountStarts ==
    ASSUME NEW page \in Seq(STRING), NEW r \in ReadingsOf(page), IsAmount(r)
    PROVE  \E i \in 1..Len(page) :
              /\ page[i] = "digit" /\ r.end = AmountEnd(page, i) /\ r.value = AmountAt(page, i)
              /\ i = IF Mark(page, r.start) = "digit" THEN r.start ELSE LetterFigure(page, r.start)
<1>1. r \in FormAmounts(page) \/ r \in LetterAmounts(page)
  <2>1. \/ r \in FormAmounts(page) \/ r \in FormDates(page) \/ r \in LetterReferences(page)
        \/ r \in LetterAmounts(page) \/ r \in LetterDates(page)
    BY DEF ReadingsOf
  <2>2. r.field \in {"emd", "tender_fee", "tender_fee_before_gst", "total_fee"}
    BY DEF IsAmount
  <2> QED
    BY <2>1, <2>2, FieldsAre
<1>2. "digit" # "end" /\ DOMAIN page = 1..Len(page)
  OBVIOUS
<1>3. CASE r \in FormAmounts(page)
  <2>1. PICK p \in DOMAIN page :
           /\ Mark(page, FormFigure(page, p)) = "digit"
           /\ r = Spot(page[p], FormFigure(page, p), AmountEnd(page, FormFigure(page, p)),
                       AmountAt(page, FormFigure(page, p)))
    BY <1>3 DEF FormAmounts
  <2>2. PICK i : i = FormFigure(page, p)
    OBVIOUS
  <2>3. Mark(page, i) = "digit" /\ r = Spot(page[p], i, AmountEnd(page, i), AmountAt(page, i))
    BY <2>1, <2>2
  <2>4. i \in 1..Len(page) /\ page[i] = "digit"
    BY <1>2, <2>3, MarkIs
  <2>5. r.start = i /\ r.end = AmountEnd(page, i) /\ r.value = AmountAt(page, i)
    BY <2>3 DEF Spot
  <2> QED
    BY <2>3, <2>4, <2>5
<1>4. CASE r \in LetterAmounts(page)
  <2>1. PICK p \in DOMAIN page :
           /\ page[p] \in {"deposit", "fee"} /\ Mark(page, LetterFigure(page, p)) = "digit"
           /\ \E field : r = Spot(field, p, AmountEnd(page, LetterFigure(page, p)),
                                  AmountAt(page, LetterFigure(page, p)))
    BY <1>4 DEF LetterAmounts
  <2>2. PICK i : i = LetterFigure(page, p)
    OBVIOUS
  <2>3. PICK field : r = Spot(field, p, AmountEnd(page, i), AmountAt(page, i))
    BY <2>1, <2>2
  <2>4. i \in 1..Len(page) /\ page[i] = "digit"
    BY <1>2, <2>1, <2>2, MarkIs
  <2>5. r.start = p /\ r.end = AmountEnd(page, i) /\ r.value = AmountAt(page, i)
    BY <2>3 DEF Spot
  <2>6. Mark(page, p) # "digit"
    <3>1. Mark(page, p) = page[p]
      BY <1>2, MarkIs
    <3> QED
      BY <2>1, <3>1
  <2> QED
    BY <2>2, <2>4, <2>5, <2>6
<1> QED
  BY <1>1, <1>3, <1>4

LEMMA DamagedStaysUnread ==
    ASSUME NoticePage \in Seq(STRING)
    PROVE  DamagedIsUnread
<1>1. PICK page : page = NoticePage
  OBVIOUS
<1>2. page \in Seq(STRING)
  BY <1>1
<1>3. ASSUME NEW r \in ReadingsOf(page), IsAmount(r)
      PROVE  LET i == IF Mark(page, r.start) = "digit" THEN r.start ELSE LetterFigure(page, r.start)
                 typed == Typed(page, i)
                 cut == AmountEnd(page, i) < Beyond(page, i, {"digit", "comma"} \cup Space)
                        /\ Len(typed) > r.end - i
             IN  /\ (cut /\ (\E j \in i..(r.end - 1) : page[j] = "comma") /\ IsGrouped(typed, 2))
                       => r.value = Illegible
                 /\ (~cut /\ r.value # Illegible)
                       => r.value.digits = Cardinality({j \in DOMAIN typed : typed[j] = "digit"})
  <2>1. PICK i \in 1..Len(page) :
           /\ page[i] = "digit" /\ r.end = AmountEnd(page, i) /\ r.value = AmountAt(page, i)
           /\ i = IF Mark(page, r.start) = "digit" THEN r.start ELSE LetterFigure(page, r.start)
    BY <1>2, <1>3, AmountStarts
  <2>2. PICK e, value, typed, b : /\ e = AmountEnd(page, i) /\ value = AmountAt(page, i) /\ typed = Typed(page, i)
                                  /\ b = Beyond(page, i, {"digit", "comma"} \cup Space)
    OBVIOUS
  <2>3. /\ ((e < b /\ Len(typed) > e - i) /\ (\E j \in i..(e - 1) : page[j] = "comma") /\ IsGrouped(typed, 2))
              => value = Illegible
        /\ (~(e < b /\ Len(typed) > e - i) /\ value # Illegible)
              => value.digits = Cardinality({j \in DOMAIN typed : typed[j] = "digit"})
    BY <1>2, <2>1, <2>2, AmountIsRead
  <2> QED
    BY <2>1, <2>2, <2>3
<1> QED
  BY <1>1, <1>3 DEF DamagedIsUnread

\* A page is a text, and what is printed on its own is a date or a row.
NoticesInv ==
    /\ strips = [layout |-> strips.layout, count |-> strips.count, page |-> strips.page]
    /\ NoticePage \in Seq(STRING)
    /\ stamp = Illegible \/ stamp \in Stamps
    /\ row = Illegible \/ row \in Rows

LEMMA NoticesStart == NoticeInit => NoticesInv
<1> SUFFICES ASSUME NoticeInit
             PROVE  NoticesInv
  OBVIOUS
<1>1. strips = [layout |-> "none", count |-> 0, page |-> <<>>] /\ stamp = Illegible /\ row = Illegible
  BY DEF NoticeInit
<1>2. <<>> \in Seq(STRING)
  OBVIOUS
<1> QED
  BY <1>1, <1>2 DEF NoticesInv, NoticePage

LEMMA NoticesStep == NoticesInv /\ [NoticeNext]_noticing => NoticesInv'
<1> SUFFICES ASSUME NoticesInv, [NoticeNext]_noticing
             PROVE  NoticesInv'
  OBVIOUS
<1>1. CASE PrintStrip
  <2>1. PICK layout \in DOMAIN Layouts : \E strip \in Layouts[layout] :
           strips' = [layout |-> layout, count |-> strips.count + 1, page |-> strips.page \o strip]
    BY <1>1 DEF PrintStrip
  <2>2. PICK strip \in Layouts[layout] :
           strips' = [layout |-> layout, count |-> strips.count + 1, page |-> strips.page \o strip]
    BY <2>1
  <2>3. strip \in Seq(STRING) /\ strips.page \in Seq(STRING)
    BY <2>1, <2>2, NoticesAssumption DEF NoticesInv, NoticePage
  <2>4. PICK page : page = strips.page \o strip
    OBVIOUS
  <2>5. page \in Seq(STRING)
    BY <2>3, <2>4, ConcatProperties
  <2>6. stamp' = stamp /\ row' = row
    BY <1>1 DEF PrintStrip
  <2> QED
    BY <2>2, <2>4, <2>5, <2>6 DEF NoticesInv, NoticePage
<1>2. CASE PrintStamp
  BY <1>2 DEF PrintStamp, NoticesInv, NoticePage
<1>3. CASE PrintRow
  BY <1>3 DEF PrintRow, NoticesInv, NoticePage
<1>4. CASE UNCHANGED noticing
  BY <1>4 DEF noticing, NoticesInv, NoticePage
<1> QED
  BY <1>1, <1>2, <1>3, <1>4 DEF NoticeNext

\* A notice's page, a printed date and a listing's row are read as they are
\* printed, or not at all: one date is one field's, a cut figure has no value, a
\* reference ends at its year, and a day is read only where it can be one
\* (notice-facts.ts, mhada.ts, msidc.ts).
THEOREM NoticesAreReadRightly == NoticeSpec => []NoticesAreReadAsPrinted
<1>1. NoticeInit => NoticesInv
  BY NoticesStart
<1>2. NoticesInv /\ [NoticeNext]_noticing => NoticesInv'
  BY NoticesStep
<1>3. NoticesInv => NoticesAreReadAsPrinted
  <2> SUFFICES ASSUME NoticesInv
               PROVE  NoticesAreReadAsPrinted
    OBVIOUS
  <2>1. NoticePage \in Seq(STRING) /\ (stamp = Illegible \/ stamp \in Stamps) /\ (row = Illegible \/ row \in Rows)
    BY DEF NoticesInv
  <2>2. OneDateOneField /\ DamagedIsUnread /\ ReferencesEndAtTheirYear /\ RowsAreReadAsPrinted
    BY <2>1, DatesAreOfOneField, DamagedStaysUnread, ReferencesAreWhole, RowsAreRead
  <2>3. DatesAreCertain
    <3> SUFFICES ASSUME stamp # Illegible
                 PROVE  DatesAreCertain
      BY DEF DatesAreCertain
    <3>1. stamp \in Stamps
      BY <2>1
    <3> QED
      BY <3>1, StampsAreCertain DEF DatesAreCertain
  <2> QED
    BY <2>2, <2>3 DEF NoticesAreReadAsPrinted
<1> QED
  BY <1>1, <1>2, <1>3, PTL DEF NoticeSpec

=============================================================================
