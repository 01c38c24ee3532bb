------------------------------ MODULE Induction ------------------------------
(***************************************************************************)
(* Induction and recursion over the natural numbers, and powers of two, in *)
(* a form that can be cited: what is proved by induction is given as the   *)
(* set of the numbers it holds of, and what a recursive function computes  *)
(* in a step as a function of the number of the step.                      *)
(***************************************************************************)
EXTENDS Integers, FiniteSets, FunctionTheorems, FiniteSetTheorems,
        WellFoundedInduction, TLAPS

\* A set of numbers that is not empty has a least one: the least of the
\* intervals from zero that end in it.
LEMMA Least ==
    ASSUME NEW S \in SUBSET Nat, S # {}
    PROVE  \E n \in S : \A m \in S : n <= m
<1> DEFINE T == {0..n : n \in S}
<1>1. T \subseteq FiniteSubsetsOf(Nat) /\ T # {}
  <2>1. \A n \in S : IsFiniteSet(0..n) /\ 0..n \in SUBSET Nat
    BY FS_Interval
  <2> QED
    BY <2>1 DEF FiniteSubsetsOf
<1>2. \E x \in T : \A y \in T : ~ (<<y, x>> \in StrictSubsetOrdering(Nat))
  <2> HIDE DEF T
  <2> QED
    BY <1>1, WFMin, FS_StrictSubsetOrderingWellFounded
<1>3. PICK n \in S : \A m \in S : ~ (<<0..m, 0..n>> \in StrictSubsetOrdering(Nat))
  BY <1>2
<1>4. ASSUME NEW m \in S, m < n
      PROVE  FALSE
  <2>1. 0..m \subseteq 0..n /\ n \in 0..n /\ n \notin 0..m
    BY <1>4
  <2>2. <<0..m, 0..n>> \in StrictSubsetOrdering(Nat)
    BY <2>1 DEF StrictSubsetOrdering
  <2> QED
    BY <1>3, <2>2
<1> QED
  BY <1>4

LEMMA Induction ==
    ASSUME NEW S, 0 \in S, \A n \in Nat : n \in S => n + 1 \in S
    PROVE  \A n \in Nat : n \in S
<1> DEFINE T == Nat \ S
<1>1. ASSUME T # {}
      PROVE  FALSE
  <2>1. PICK n \in T : \A m \in T : n <= m
    BY <1>1, Least
  <2>2. n - 1 \in Nat /\ n - 1 \notin T
    BY <2>1
  <2> QED
    BY <2>1, <2>2
<1> QED
  BY <1>1

\* The same up to some number.
LEMMA InductionUpTo ==
    ASSUME NEW n \in Nat, NEW S, 0 \in S, \A k \in 1..n : k - 1 \in S => k \in S
    PROVE  \A k \in 0..n : k \in S
<1> DEFINE T == {k \in Nat : k <= n => k \in S}
<1>1. 0 \in T
  OBVIOUS
<1>2. ASSUME NEW k \in Nat, k \in T
      PROVE  k + 1 \in T
  <2>1. CASE k + 1 <= n
    <3>1. k + 1 \in 1..n /\ (k + 1) - 1 = k /\ k \in S
      BY <1>2, <2>1
    <3> QED
      BY <3>1
  <2>2. CASE ~ (k + 1 <= n)
    BY <2>2
  <2> QED
    BY <2>1, <2>2
<1>3. \A k \in Nat : k \in T
  <2> HIDE DEF T
  <2> QED
    BY <1>1, <1>2, Induction
<1> QED
  BY <1>3

-----------------------------------------------------------------------------

\* g starts with a and takes the steps up to the nth.
Upto(g, a, A, step, n) ==
    g \in [0..n -> A] /\ g[0] = a /\ \A k \in 1..n : g[k] = step[k][g[k - 1]]

\* There is exactly one such function.
LEMMA UptoUnique ==
    ASSUME NEW A, NEW a \in A, NEW step \in [Nat -> [A -> A]]
    PROVE  \A n \in Nat : \E g : Upto(g, a, A, step, n) /\ \A h : Upto(h, a, A, step, n) => h = g
<1> DEFINE U(g, n) == Upto(g, a, A, step, n)
           S == {n \in Nat : \E g : U(g, n) /\ \A h : U(h, n) => h = g}
<1>1. 0 \in S
  <2> DEFINE g == [k \in 0..0 |-> a]
  <2>1. U(g, 0)
    BY DEF Upto
  <2>2. \A h : U(h, 0) => h = g
    BY DEF Upto
  <2> QED
    BY <2>1, <2>2
<1>2. ASSUME NEW n \in Nat, n \in S
      PROVE  n + 1 \in S
  <2>1. PICK g : U(g, n) /\ \A h : U(h, n) => h = g
    BY <1>2
  <2> DEFINE g1 == [k \in 0..n + 1 |-> IF k = n + 1 THEN step[n + 1][g[n]] ELSE g[k]]
  <2>2. U(g1, n + 1)
    <3>1. g \in [0..n -> A] /\ g[0] = a /\ \A k \in 1..n : g[k] = step[k][g[k - 1]]
      BY <2>1 DEF Upto
    <3>2. \A k \in 0..n : g1[k] = g[k]
      OBVIOUS
    <3>3. g1[n + 1] = step[n + 1][g[n]]
      OBVIOUS
    <3>4. g1 \in [0..n + 1 -> A]
      BY <3>1
    <3> HIDE DEF g1
    <3>5. ASSUME NEW k \in 1..n + 1
          PROVE  g1[k] = step[k][g1[k - 1]]
      <4>1. CASE k = n + 1
        BY <3>2, <3>3, <4>1
      <4>2. CASE k # n + 1
        BY <3>1, <3>2, <4>2
      <4> QED
        BY <4>1, <4>2
    <3>6. g1[0] = a
      BY <3>1, <3>2
    <3> QED
      BY <3>4, <3>5, <3>6 DEF Upto
  <2>3. ASSUME NEW h, U(h, n + 1)
        PROVE  h = g1
    <3> DEFINE c == [k \in 0..n |-> h[k]]
    <3>1. h \in [0..n + 1 -> A] /\ h[0] = a /\ \A k \in 1..n + 1 : h[k] = step[k][h[k - 1]]
      BY <2>3 DEF Upto
    <3>2. c \in [0..n -> A] /\ c[0] = a
      BY <3>1
    <3>3. \A k \in 1..n : c[k] = step[k][c[k - 1]]
      BY <3>1
    <3>4. c = g
      <4> HIDE DEF c
      <4>1. U(c, n)
        BY <3>2, <3>3 DEF Upto
      <4> QED
        BY <2>1, <4>1
    <3>5. \A k \in 0..n : h[k] = g[k]
      BY <3>4
    <3>6. h[n + 1] = step[n + 1][h[(n + 1) - 1]] /\ (n + 1) - 1 = n
      BY <3>1
    <3> QED
      BY <3>1, <3>5, <3>6
  <2> HIDE DEF g1, U
  <2> QED
    BY <2>2, <2>3
<1> HIDE DEF S
<1>3. \A n \in Nat : n \in S
  BY <1>1, <1>2, Induction
<1> QED
  BY <1>3 DEF S

\* The function that a recursive definition over 0..n chooses exists.
LEMMA Recursion ==
    ASSUME NEW n \in Nat, NEW A, NEW a \in A, NEW step \in [Nat -> [A -> A]]
    PROVE  \E g : Upto(g, a, A, step, n)
BY UptoUnique

\* v does so as long as it stays in A.
Takes(v, a, A, step, n) == v[0] = a /\ \A k \in 1..n : v[k - 1] \in A => v[k] = step[k][v[k - 1]]

\* It stays there.
LEMMA StaysIn ==
    ASSUME NEW n \in Nat, NEW A, NEW a \in A, NEW step \in [Nat -> [A -> A]],
           NEW v, Takes(v, a, A, step, n)
    PROVE  \A k \in 0..n : v[k] \in A
<1> DEFINE S == {k \in 0..n : v[k] \in A}
<1>1. 0 \in S
  BY DEF Takes
<1>2. ASSUME NEW k \in 1..n, k - 1 \in S
      PROVE  k \in S
  BY <1>2 DEF Takes
<1>3. \A k \in 0..n : k \in S
  <2> HIDE DEF S
  <2> QED
    BY <1>1, <1>2, InductionUpTo
<1> QED
  BY <1>3

-----------------------------------------------------------------------------

\* The subsets of a disjoint union.
LEMMA PowerSum ==
    ASSUME NEW a \in Nat, NEW b \in Nat
    PROVE  2^a \in Nat \ {0} /\ 2^(a + b) = 2^a * 2^b
<1> DEFINE S == 1..a
           T == a + 1..a + b
           both == [U \in SUBSET (S \cup T) |-> <<U \cap S, U \cap T>>]
<1>1. /\ IsFiniteSet(S) /\ Cardinality(S) = a
      /\ IsFiniteSet(T) /\ Cardinality(T) = b
      /\ IsFiniteSet(S \cup T) /\ Cardinality(S \cup T) = a + b
  <2>1. S \cup T = 1..a + b
    OBVIOUS
  <2>2. IsFiniteSet(1..a) /\ Cardinality(1..a) = a
    BY FS_Interval
  <2>3. IsFiniteSet(1..a + b) /\ Cardinality(1..a + b) = a + b
    <3>1. \A c \in Nat : IsFiniteSet(1..c) /\ Cardinality(1..c) = c
      BY FS_Interval
    <3> QED
      BY <3>1
  <2>4. IsFiniteSet(a + 1..a + b) /\ Cardinality(a + 1..a + b) = b
    BY FS_Interval
  <2> QED
    BY <2>1, <2>2, <2>3, <2>4
<1>2. S \cap T = {}
  OBVIOUS
<1> HIDE DEF S, T
<1>3. /\ IsFiniteSet(SUBSET S) /\ Cardinality(SUBSET S) = 2^a
      /\ IsFiniteSet(SUBSET T) /\ Cardinality(SUBSET T) = 2^b
      /\ IsFiniteSet(SUBSET (S \cup T)) /\ Cardinality(SUBSET (S \cup T)) = 2^(a + b)
  BY <1>1, FS_SUBSET
<1>4. both \in Bijection(SUBSET (S \cup T), (SUBSET S) \X (SUBSET T))
  <2>1. both \in [SUBSET (S \cup T) -> (SUBSET S) \X (SUBSET T)]
    OBVIOUS
  <2>2. ASSUME NEW U \in SUBSET (S \cup T), NEW V \in SUBSET (S \cup T), both[U] = both[V]
        PROVE  U = V
    <3>1. U \cap S = V \cap S /\ U \cap T = V \cap T
      BY <2>2
    <3> QED
      BY <3>1
  <2>3. ASSUME NEW p \in (SUBSET S) \X (SUBSET T)
        PROVE  \E U \in SUBSET (S \cup T) : both[U] = p
    <3>1. PICK V \in SUBSET S, W \in SUBSET T : p = <<V, W>>
      BY <2>3
    <3>2. (V \cup W) \cap S = V /\ (V \cup W) \cap T = W /\ V \cup W \in SUBSET (S \cup T)
      BY <1>2, <3>1
    <3>3. both[V \cup W] = <<(V \cup W) \cap S, (V \cup W) \cap T>>
      BY <3>2
    <3> QED
      BY <3>1, <3>2, <3>3
  <2> HIDE DEF both
  <2> QED
    BY <2>1, <2>2, <2>3, Fun_IsBij
<1>5. Cardinality(SUBSET (S \cup T)) = Cardinality((SUBSET S) \X (SUBSET T))
  <2>1. ExistsBijection(SUBSET (S \cup T), (SUBSET S) \X (SUBSET T))
    BY <1>4 DEF ExistsBijection
  <2> QED
    BY <1>3, <2>1, FS_Bijection
<1>6. Cardinality((SUBSET S) \X (SUBSET T)) = 2^a * 2^b
  <2> DEFINE P == SUBSET S
             Q == SUBSET T
  <2>1. IsFiniteSet(P) /\ Cardinality(P) = 2^a /\ IsFiniteSet(Q) /\ Cardinality(Q) = 2^b
    BY <1>3
  <2> HIDE DEF P, Q
  <2>2. Cardinality(P \X Q) = Cardinality(P) * Cardinality(Q)
    BY <2>1, FS_Product
  <2> QED
    BY <2>1, <2>2 DEF P, Q
<1>7. 2^a \in Nat /\ 2^a # 0
  <2>1. {} \in SUBSET S
    OBVIOUS
  <2> QED
    BY <1>3, <2>1, FS_CardinalityType, FS_EmptySet
<1> QED
  BY <1>3, <1>5, <1>6, <1>7

LEMMA PowerStep ==
    ASSUME NEW n \in Nat
    PROVE  2^0 = 1 /\ 2^(n + 1) = 2 * 2^n
<1>1. 2^0 = 1 /\ 2^1 = 2
  OBVIOUS
<1>2. 2^n \in Nat /\ 2^(n + 1) = 2^n * 2^1
  BY PowerSum
<1> QED
  BY <1>1, <1>2
=============================================================================
