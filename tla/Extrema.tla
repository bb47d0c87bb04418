-------------------------------- MODULE Extrema --------------------------------
(* Least and greatest elements of sets of numbers, for the modules of proofs: what *)
(* the CHOOSE of a first or a last place needs, induction over the numbers by the   *)
(* least counterexample, and what follows from it: a function applied over and over *)
(* and the elements of a set counted off.                                           *)
EXTENDS Integers, FiniteSetTheorems, WellFoundedInduction, TLAPS

LEMMA LeastExists ==
  ASSUME NEW S \in SUBSET Nat, S # {}
  PROVE  \E x \in S : \A y \in S : x <= y
  <1> DEFINE R == {ss \in Nat \X Nat : ss[1] < ss[2]}
  <1>1. IsWellFoundedOn(R, Nat)
    BY NatLessThanWellFounded DEF OpToRel
  <1>2. PICK x \in S : \A y \in S : <<y, x>> \notin R
    <2> HIDE DEF R
    <2> QED
      BY <1>1, WFMin
  <1>3. \A y \in S : ~(y < x)
    BY <1>2
  <1> QED
    BY <1>3

\* Induction: a set that has 0 and, with a number, the next has all of them.
LEMMA SetInduction ==
  ASSUME NEW S \in SUBSET Nat, 0 \in S, \A n \in S : n + 1 \in S
  PROVE  S = Nat
  <1> SUFFICES ASSUME Nat \ S # {} PROVE FALSE
    OBVIOUS
  <1>1. PICK x \in Nat \ S : \A y \in Nat \ S : x <= y
    <2> DEFINE T == Nat \ S
    <2>1. T \in SUBSET Nat /\ T # {}
      OBVIOUS
    <2> HIDE DEF T
    <2>2. \E x \in T : \A y \in T : x <= y
      BY <2>1, LeastExists
    <2> QED
      BY <2>2 DEF T
  <1>2. x # 0 /\ x - 1 \in Nat
    BY <1>1
  <1>3. x - 1 \in S
    BY <1>1, <1>2
  <1>4. x - 1 + 1 = x
    BY <1>1
  <1> QED
    BY <1>1, <1>3, <1>4

LEMMA GreatestExists ==
  ASSUME NEW S \in SUBSET Nat, S # {}, NEW n \in Nat, \A x \in S : x <= n
  PROVE  \E x \in S : \A y \in S : y <= x
  <1> DEFINE T == {m \in Nat : \E x \in S : m = n - x}
  <1>1. T \in SUBSET Nat /\ T # {}
    <2>1. PICK x \in S : TRUE
      OBVIOUS
    <2>2. n - x \in T
      BY <2>1
    <2> QED
      BY <2>2
  <1>2. PICK m \in T : \A k \in T : m <= k
    <2> HIDE DEF T
    <2> QED
      BY <1>1, LeastExists
  <1>3. PICK x \in S : m = n - x
    BY <1>2
  <1>4. ASSUME NEW y \in S PROVE y <= x
    <2>1. n - y \in T
      OBVIOUS
    <2> HIDE DEF T
    <2>2. m <= n - y
      BY <1>2, <2>1
    <2> QED
      BY <1>3, <2>2
  <1> QED
    BY <1>4

\* f lists d, g[d], g[g[d]] and so on, n times.
Iterates(f, D, g, d, n) ==
  f \in [0 .. n -> D] /\ f[0] = d /\ \A w \in 1 .. n : f[w] = g[f[w - 1]]

\* A function can be applied over and over.
LEMMA IterateExists ==
  ASSUME NEW D, NEW g \in [D -> D], NEW d \in D, NEW n \in Nat
  PROVE  \E f : Iterates(f, D, g, d, n)
  <1> DEFINE S == {m \in Nat : \E f : Iterates(f, D, g, d, m)}
  <1>1. 0 \in S
    <2> DEFINE f == [w \in 0 .. 0 |-> d]
    <2>1. Iterates(f, D, g, d, 0)
      BY DEF Iterates
    <2> QED
      BY <2>1
  <1>2. ASSUME NEW m \in S PROVE m + 1 \in S
    <2>1. PICK f : Iterates(f, D, g, d, m)
      OBVIOUS
    <2> DEFINE h == [w \in 0 .. m + 1 |-> IF w = m + 1 THEN g[f[m]] ELSE f[w]]
    <2>2. m \in Nat /\ f[m] \in D
      BY <2>1 DEF Iterates
    <2>3. h \in [0 .. m + 1 -> D] /\ h[0] = d
      BY <2>1, <2>2 DEF Iterates
    <2>4. ASSUME NEW w \in 1 .. m + 1 PROVE h[w] = g[h[w - 1]]
      <3>1. CASE w = m + 1
        BY <2>2, <3>1
      <3>2. CASE w # m + 1
        BY <2>1, <2>2, <3>2 DEF Iterates
      <3> QED
        BY <3>1, <3>2
    <2>5. Iterates(h, D, g, d, m + 1)
      BY <2>3, <2>4 DEF Iterates
    <2> HIDE DEF h
    <2> QED
      BY <2>2, <2>5
  <1>3. S \in SUBSET Nat
    OBVIOUS
  <1> HIDE DEF S
  <1>4. n \in S
    BY <1>1, <1>2, <1>3, SetInduction
  <1> QED
    BY <1>4 DEF S

\* The elements of a finite set of numbers can be counted off from the least one.
LEMMA RankExists ==
  ASSUME NEW S \in SUBSET Nat, IsFiniteSet(S), NEW k \in Nat, k < Cardinality(S)
  PROVE  \E x \in S : Cardinality({y \in S : y < x}) = k
  <1> DEFINE Below(x) == {y \in S : y < x}
             R == {n \in Nat : n < Cardinality(S) => \E x \in S : Cardinality(Below(x)) = n}
  <1>c. Cardinality(S) \in Nat /\ \A x : IsFiniteSet(Below(x))
    BY FS_CardinalityType, FS_Subset
  <1>1. 0 \in R
    <2> SUFFICES ASSUME 0 < Cardinality(S) PROVE \E x \in S : Cardinality(Below(x)) = 0
      OBVIOUS
    <2>1. S # {}
      BY FS_EmptySet
    <2>2. PICK x \in S : \A y \in S : x <= y
      BY <2>1, LeastExists
    <2>3. \A y \in S : ~(y < x)
      BY <2>2
    <2>4. Below(x) = {}
      BY <2>3
    <2> QED
      BY <2>4, FS_EmptySet
  <1>2. ASSUME NEW n \in R PROVE n + 1 \in R
    <2> SUFFICES ASSUME n + 1 < Cardinality(S)
                 PROVE  \E x \in S : Cardinality(Below(x)) = n + 1
      OBVIOUS
    <2>1. PICK x \in S : Cardinality(Below(x)) = n
      BY <1>c
    <2> DEFINE T == Below(x) \cup {x}
               U == S \ T
    <2>2. Cardinality(T) = n + 1
      <3>1. x \notin Below(x)
        OBVIOUS
      <3> HIDE DEF Below
      <3> QED
        BY <1>c, <2>1, <3>1, FS_AddElement
    <2>3. U # {}
      BY <2>2
    <2>4. U \in SUBSET Nat
      OBVIOUS
    <2>5. PICK z \in U : \A y \in U : z <= y
      <3> HIDE DEF U
      <3> QED
        BY <2>3, <2>4, LeastExists
    <2>6. Below(z) = T
      <3>1. z \in S /\ z \in Nat /\ x \in Nat /\ z > x
        BY <2>5
      <3>2. ASSUME NEW y \in S PROVE y < z <=> y \in T
        <4>1. CASE y \in U
          BY <2>5, <4>1
        <4>2. CASE y \notin U
          BY <3>1, <4>2
        <4> QED
          BY <4>1, <4>2
      <3> QED
        BY <3>2
    <2> QED
      BY <2>2, <2>5, <2>6
  <1>3. R \in SUBSET Nat
    OBVIOUS
  <1> HIDE DEF R
  <1>4. k \in R
    BY <1>1, <1>2, <1>3, SetInduction
  <1> QED
    BY <1>4 DEF R
=============================================================================
