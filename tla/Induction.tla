----------------------------- MODULE Induction -----------------------------
(***************************************************************************)
(* Induction over the natural numbers for sets and functions, which the    *)
(* proofs about lists, trees and repeated steps use.                       *)
(***************************************************************************)
EXTENDS Integers, FiniteSets, FiniteSetTheorems, TLAPS

\* Induction over the numbers, for a property given by the set of those that
\* have it: the least interval 0..n of which the end is outside of the set
\* would have a lesser one.
LEMMA NatSetInduction ==
  ASSUME NEW S, 0 \in S, \A n \in Nat : n \in S => n + 1 \in S
  PROVE  Nat \subseteq S
<1> SUFFICES ASSUME NEW n0 \in Nat, n0 \notin S PROVE FALSE
  OBVIOUS
<1> DEFINE T == {0..n : n \in Nat \ S}
           R == StrictSubsetOrdering(Nat)
<1>1. IsWellFoundedOn(R, FiniteSubsetsOf(Nat))
  BY FS_StrictSubsetOrderingWellFounded
<1>2. T \subseteq FiniteSubsetsOf(Nat) /\ T # {}
  <2>1. \A n \in Nat : 0..n \in SUBSET Nat /\ IsFiniteSet(0..n)
    BY FS_Interval
  <2>2. T \subseteq FiniteSubsetsOf(Nat)
    BY <2>1 DEF FiniteSubsetsOf
  <2> QED BY <2>2
<1>3. PICK x \in T : \A y \in T : ~(<<y, x>> \in R)
  <2> HIDE DEF R, T
  <2> QED BY <1>1, <1>2, WFMin
<1>4. PICK n \in Nat \ S : x = 0..n
  OBVIOUS
<1>5. n - 1 \in Nat /\ n - 1 \notin S
  <2>1. n # 0 OBVIOUS
  <2>2. n - 1 \in Nat BY <2>1
  <2>3. (n - 1) + 1 = n BY <2>1
  <2> QED BY <2>2, <2>3
<1>6. 0..(n - 1) \in T
  BY <1>5
<1>7. 0..(n - 1) \in SUBSET Nat /\ 0..n \in SUBSET Nat /\ 0..(n - 1) \subseteq 0..n
  BY <1>5
<1>8. 0..(n - 1) # 0..n
  BY <1>5
<1>9. <<0..(n - 1), x>> \in R
  BY <1>4, <1>7, <1>8 DEF StrictSubsetOrdering
<1> QED BY <1>3, <1>6, <1>9

\* A function on 0..n may be defined by its first value and the step from one
\* value to the next.
StaysIn(S, F, n) == \A i \in 1..n, x \in S : F[<<i, x>>] \in S
Follows(f, x0, F, n) == f[0] = x0 /\ \A i \in 1..n : f[i] = F[<<i, f[i - 1]>>]

LEMMA RecursiveFunction ==
  ASSUME NEW S, NEW x0 \in S, NEW F, NEW n \in Nat, StaysIn(S, F, n)
  PROVE  \E f \in [0..n -> S] : Follows(f, x0, F, n)
<1> USE DEF StaysIn, Follows
<1> DEFINE Is(f, k) ==
             /\ f \in [0..k -> S]
             /\ f[0] = x0
             /\ \A i \in 1..k : f[i] = F[<<i, f[i - 1]>>]
           Good == {k \in Nat : k <= n => \E f : Is(f, k)}
<1>1. 0 \in Good
  <2>1. Is([i \in 0..0 |-> x0], 0)
    OBVIOUS
  <2> QED BY <2>1
<1>2. \A k \in Nat : k \in Good => k + 1 \in Good
  <2> SUFFICES ASSUME NEW k \in Nat, k \in Good
               PROVE  k + 1 <= n => \E f : Is(f, k + 1)
    <3> HIDE DEF Is
    <3> QED OBVIOUS
  <2> HAVE k + 1 <= n
  <2>1. PICK f : Is(f, k)
    <3> HIDE DEF Is
    <3> QED OBVIOUS
  <2> DEFINE g == [i \in 0..(k + 1) |-> IF i = k + 1 THEN F[<<k + 1, f[k]>>] ELSE f[i]]
  <2>2. f[k] \in S /\ F[<<k + 1, f[k]>>] \in S
    BY <2>1
  <2>3. g \in [0..(k + 1) -> S] /\ g[0] = x0
    BY <2>1, <2>2
  <2>4. \A i \in 1..(k + 1) : g[i] = F[<<i, g[i - 1]>>]
    <3> SUFFICES ASSUME NEW i \in 1..(k + 1) PROVE g[i] = F[<<i, g[i - 1]>>]
      OBVIOUS
    <3>1. CASE i = k + 1
      <4>1. g[i - 1] = f[k]
        BY <3>1
      <4>2. g[i] = F[<<k + 1, f[k]>>]
        BY <3>1
      <4> QED BY <3>1, <4>1, <4>2
    <3>2. CASE i # k + 1
      <4>1. i \in 1..k /\ g[i] = f[i] /\ g[i - 1] = f[i - 1]
        BY <3>2
      <4> QED BY <4>1, <2>1
    <3> QED BY <3>1, <3>2
  <2>5. Is(g, k + 1)
    BY <2>3, <2>4
  <2> QED BY <2>5
<1>3. \E f : Is(f, n)
  <2> HIDE DEF Is
  <2>1. Nat \subseteq Good
    BY <1>1, <1>2, NatSetInduction
  <2> QED BY <2>1
<1> QED BY <1>3
=============================================================================
