----------------------------- MODULE Inductions -----------------------------
(***************************************************************************)
(* What the proofs need of numbers and of what is computed step by step: a *)
(* set of numbers has a least one, what each step hands on holds at every  *)
(* step, and a function that says how to go on from the last step exists.  *)
(***************************************************************************)
EXTENDS Integers, Sequences, FiniteSetTheorems, WellFoundedInduction, TLAPS

\* The least number of a set that has any.
LEMMA LeastOf ==
    ASSUME NEW S, S \subseteq Nat, S # {}
    PROVE  \E n \in S : \A k \in S : n <= k
<1> DEFINE Below(n) == {k \in Nat : k < n}
           T == {Below(n) : n \in S}
<1>1. T \subseteq FiniteSubsetsOf(Nat) /\ T # {}
  <2> SUFFICES ASSUME NEW n \in S
               PROVE  Below(n) \in FiniteSubsetsOf(Nat)
    OBVIOUS
  <2>1. n \in Nat /\ Below(n) \in SUBSET Nat /\ \A k \in Below(n) : k <= n
    OBVIOUS
  <2>2. IsFiniteSet(Below(n))
    BY <2>1, FS_BoundedSetOfNaturals
  <2> QED
    BY <2>1, <2>2 DEF FiniteSubsetsOf
<1>2. PICK x \in T : \A y \in T : <<y, x>> \notin StrictSubsetOrdering(Nat)
  BY <1>1, FS_StrictSubsetOrderingWellFounded, WFMin
<1>3. PICK n \in S : x = Below(n)
  OBVIOUS
<1>4. \A k \in S : n <= k
  <2> SUFFICES ASSUME NEW k \in S, k < n
               PROVE  FALSE
    OBVIOUS
  <2>1. k \in Below(n) /\ k \notin Below(k) /\ Below(k) \subseteq Below(n)
    OBVIOUS
  <2>2. <<Below(k), Below(n)>> \in StrictSubsetOrdering(Nat)
    BY <2>1 DEF StrictSubsetOrdering
  <2> QED
    BY <1>2, <1>3, <2>2
<1> QED
  BY <1>4

\* The greatest of a finite set: of the parts of it that have none, no part is
\* the smallest.
LEMMA GreatestOf ==
    ASSUME NEW S, S \subseteq Nat, IsFiniteSet(S), S # {}
    PROVE  \E n \in S : \A k \in S : k <= n
<1> DEFINE Topped(R) == \E n \in R : \A k \in R : k <= n
           T == {R \in SUBSET S : R # {} /\ ~Topped(R)}
<1>1. ASSUME T # {}
      PROVE  FALSE
  <2>1. T \subseteq FiniteSubsetsOf(S)
    BY FS_FiniteSubsetsOfFinite
  <2>2. PICK R \in T : \A Q \in T : <<Q, R>> \notin StrictSubsetOrdering(S)
    BY <1>1, <2>1, FS_StrictSubsetOrderingWellFounded, WFMin
  <2>3. PICK n \in R : TRUE
    OBVIOUS
  <2>4. R \ {n} \notin T
    <3>1. <<R \ {n}, R>> \in StrictSubsetOrdering(S)
      BY DEF StrictSubsetOrdering
    <3> QED
      BY <2>2, <3>1
  <2>5. R # {n}
    <3>1. n \in Nat
      OBVIOUS
    <3>2. Topped({n})
      BY <3>1
    <3> QED
      BY <3>2
  <2>6. PICK m \in R \ {n} : \A k \in R \ {n} : k <= m
    BY <2>4, <2>5
  <2>7. \A k \in R : k \in Nat
    OBVIOUS
  <2>8. CASE n <= m
    BY <2>6, <2>8
  <2>9. CASE m <= n
    BY <2>6, <2>7, <2>9
  <2> QED
    BY <2>6, <2>7, <2>8, <2>9
<1>2. Topped(S)
  BY <1>1
<1> QED
  BY <1>2

\* What holds at first and is handed on by each step holds at every step.
LEMMA StepByStep ==
    ASSUME NEW N \in Nat, NEW G, 0 \in G, \A n \in 1..N : n - 1 \in G => n \in G
    PROVE  0..N \subseteq G
<1> DEFINE Bad == {n \in 0..N : n \notin G}
<1> SUFFICES ASSUME Bad # {}
             PROVE  FALSE
  OBVIOUS
<1>1. PICK m \in Bad : \A k \in Bad : m <= k
  <2>1. Bad \subseteq Nat
    OBVIOUS
  <2> HIDE DEF Bad
  <2> QED
    BY <2>1, LeastOf
<1>2. m \in 1..N /\ m - 1 \in 0..N /\ m - 1 \notin Bad
  BY <1>1
<1> QED
  BY <1>1, <1>2

\* What n steps compute, from the base on.
IsListOf(h, S, base, n, step) ==
    h \in [0..n -> S] /\ h[0] = base /\ \A k \in 1..n : h[k] = step[k][h[k - 1]]

\* What is computed step by step can be listed with what it is computed from.
LEMMA StepsExist ==
    ASSUME NEW S, NEW base \in S, NEW N \in Nat, NEW step \in [1..N -> [S -> S]]
    PROVE  \E h : IsListOf(h, S, base, N, step)
<1> DEFINE Listed(m) == \E h \in [0..m -> S] : /\ h[0] = base
                                               /\ \A n \in 1..m : h[n] = step[n][h[n - 1]]
           G == {m \in 0..N : Listed(m)}
<1>1. 0 \in G
  <2>1. PICK h : h = [n \in 0..0 |-> base]
    OBVIOUS
  <2>2. h \in [0..0 -> S] /\ h[0] = base /\ 1..0 = {}
    BY <2>1
  <2> QED
    BY <2>2
<1>2. ASSUME NEW m \in 1..N, m - 1 \in G
      PROVE  m \in G
  <2>1. PICK h \in [0..(m - 1) -> S] : /\ h[0] = base
                                       /\ \A n \in 1..(m - 1) : h[n] = step[n][h[n - 1]]
    BY <1>2
  <2>2. PICK last \in S : last = step[m][h[m - 1]]
    <3>1. h[m - 1] \in S /\ step[m] \in [S -> S]
      OBVIOUS
    <3> QED
      BY <3>1
  <2>3. PICK g : g = [n \in 0..m |-> IF n = m THEN last ELSE h[n]]
    OBVIOUS
  <2>4. g \in [0..m -> S]
    BY <2>3
  <2>5. g[0] = base /\ \A n \in 1..m : g[n] = step[n][g[n - 1]]
    <3>1. \A n \in 0..(m - 1) : g[n] = h[n]
      BY <2>3
    <3>2. g[m] = last
      BY <2>3
    <3> SUFFICES ASSUME NEW n \in 1..m
                 PROVE  g[n] = step[n][g[n - 1]]
      BY <2>1, <3>1
    <3>3. CASE n = m
      BY <3>1, <3>2, <3>3, <2>2
    <3>4. CASE n # m
      BY <3>1, <3>4, <2>1
    <3> QED
      BY <3>3, <3>4
  <2> QED
    BY <2>4, <2>5
<1>3. 0..N \subseteq G
  <2> HIDE DEF G
  <2> QED
    BY <1>1, <1>2, StepByStep
<1> QED
  BY <1>3 DEF IsListOf
=============================================================================
