----------------------------- MODULE Induction ------------------------------
(***************************************************************************)
(* The least-number principle and induction over the natural numbers,      *)
(* stated for sets of numbers: a proof forms the set of the numbers for    *)
(* which its formula holds.  (The theorems of NaturalsInduction are stated *)
(* for operators.)  They follow from the library's theorem that the finite *)
(* sets are well-founded under inclusion.  With them, a function exists    *)
(* that is defined by recursion over the numbers up to some n.             *)
(***************************************************************************)
EXTENDS Naturals, FiniteSetTheorems, WellFoundedInduction, TLAPS

\* Every set of numbers that is not empty has a smallest one: the one with the
\* smallest set of numbers below it.
LEMMA NatMin ==
    ASSUME NEW S \in SUBSET Nat, S # {}
    PROVE  \E x \in S : \A y \in S : x <= y
  <1> DEFINE below(x) == {m \in Nat : m < x}
             T == {below(x) : x \in S}
             R == StrictSubsetOrdering(Nat)
             F == FiniteSubsetsOf(Nat)
  <1>1. T \subseteq F /\ T # {}
    <2>1. ASSUME NEW x \in S PROVE below(x) \in SUBSET Nat /\ IsFiniteSet(below(x))
      <3>1. x \in Nat /\ below(x) \in SUBSET Nat /\ \A s \in below(x) : s <= x
        OBVIOUS
      <3> HIDE DEF below
      <3> QED
        BY <3>1, FS_BoundedSetOfNaturals
    <2> HIDE DEF below
    <2> QED
      BY <2>1 DEF FiniteSubsetsOf
  <1> HIDE DEF T, F, R, below
  <1>2. IsWellFoundedOn(R, F)
    BY FS_StrictSubsetOrderingWellFounded DEF R, F
  <1>3. PICK t \in T : \A u \in T : ~(<<u, t>> \in R)
    BY <1>1, <1>2, WFMin
  <1>4. PICK x \in S : t = below(x)
    BY <1>3 DEF T
  <1>5. ASSUME NEW y \in S, y < x PROVE FALSE
    <2>1. below(y) \in T
      BY DEF T
    <2>2. below(y) \in SUBSET Nat /\ below(x) \in SUBSET Nat /\ below(y) \subseteq below(x)
      BY <1>5 DEF below
    <2>3. y \in below(x) /\ y \notin below(y)
      BY <1>5 DEF below
    <2>4. <<below(y), below(x)>> \in R
      BY <2>2, <2>3 DEF R, StrictSubsetOrdering
    <2> QED
      BY <1>3, <1>4, <2>1, <2>4
  <1>6. \A y \in S : x <= y
    BY <1>5
  <1> QED
    BY <1>6

\* A set that has 0, and n + 1 with every n, has all numbers: the smallest one
\* it lacks would have one before it.
LEMMA NatInduct ==
    ASSUME NEW S, 0 \in S, \A n \in Nat : n \in S => n + 1 \in S
    PROVE  \A n \in Nat : n \in S
  <1> DEFINE T == {n \in Nat : n \notin S}
  <1>1. ASSUME T # {} PROVE FALSE
    <2>1. PICK x \in T : \A y \in T : x <= y
      BY <1>1, NatMin
    <2>2. x \in Nat /\ x # 0
      BY <2>1
    <2>3. x - 1 \in Nat /\ x - 1 \notin T
      BY <2>1, <2>2
    <2>4. x - 1 \in S /\ (x - 1) + 1 = x
      BY <2>2, <2>3
    <2> QED
      BY <2>1, <2>3, <2>4
  <1> QED
    BY <1>1

\* f has the value b for 0, and each value comes from the one before by a step.
Follows(f, T, b, n, step) ==
    f \in [0..n -> T] /\ f[0] = b /\ \A i \in 1..n : f[i] = step[i][f[i - 1]]

\* Such a function exists.
LEMMA Recursion ==
    ASSUME NEW T, NEW b \in T, NEW n \in Nat, NEW step \in [1..n -> [T -> T]]
    PROVE  \E f : Follows(f, T, b, n, step)
  <1> DEFINE S == {k \in Nat : k <= n => \E f : Follows(f, T, b, k, step)}
  <1>1. 0 \in S
    <2>1. Follows([i \in 0..0 |-> b], T, b, 0, step)
      BY DEF Follows
    <2> QED
      BY <2>1
  <1>2. ASSUME NEW k \in Nat, k \in S PROVE k + 1 \in S
    <2> SUFFICES ASSUME k + 1 <= n PROVE \E f : Follows(f, T, b, k + 1, step)
      BY <1>2
    <2>1. PICK f : Follows(f, T, b, k, step)
      BY <1>2
    <2> USE DEF Follows
    <2> DEFINE v == step[k + 1][f[k]]
               g == [i \in 0..(k + 1) |-> IF i = k + 1 THEN v ELSE f[i]]
    <2>2. v \in T
      <3>1. step[k + 1] \in [T -> T] /\ f[k] \in T
        BY <2>1
      <3> QED
        BY <3>1
    <2>3. ASSUME NEW i \in 1..(k + 1) PROVE g[i] = step[i][g[i - 1]]
      <3>1. CASE i \in 1..k
        BY <2>1, <3>1
      <3>2. CASE i = k + 1
        BY <3>2
      <3> QED
        BY <3>1, <3>2
    <2>4. g \in [0..(k + 1) -> T] /\ g[0] = b
      BY <2>1, <2>2
    <2>5. Follows(g, T, b, k + 1, step)
      BY <2>3, <2>4
    <2> HIDE DEF Follows
    <2> QED
      BY <2>5
  <1>3. n \in S
    <2> HIDE DEF S
    <2> QED
      BY <1>1, <1>2, NatInduct
  <1> QED
    BY <1>3
=============================================================================
