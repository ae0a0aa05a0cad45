-------------------------- MODULE RecursionLemmas --------------------------
(***************************************************************************)
(* Induction for proofs about recursive functions: that a function defined *)
(* by recursion over the naturals or a sequence exists, and is the only    *)
(* one.  Sets stand for the predicates of the usual theorems.              *)
(***************************************************************************)
EXTENDS Integers, Sequences, WellFoundedInduction, TLAPS

(* A nonempty set of naturals has a least element.                         *)
LEMMA Least ==
    ASSUME NEW S, S \subseteq Nat, S # {}
    PROVE  \E k \in S : \A m \in S : k <= m
<1> DEFINE R == OpToRel(<, Nat)
<1>1. IsWellFoundedOn(R, Nat)
  BY NatLessThanWellFounded
<1>2. \A i, j \in Nat : <<i, j>> \in R <=> i < j
  BY DEF OpToRel
<1> HIDE DEF R
<1>3. PICK k \in S : \A m \in S : ~(<<m, k>> \in R)
  BY <1>1, WFMin
<1>4. \A m \in S : m \in Nat /\ k \in Nat /\ ~(m < k)
  BY <1>2, <1>3
<1>5. \A m \in S : k <= m
  BY <1>4
<1> QED
  BY <1>5

(* Induction over the naturals.                                            *)
LEMMA SetInduction ==
    ASSUME NEW T, 0 \in T, \A n \in Nat : n \in T => n + 1 \in T
    PROVE  Nat \subseteq T
<1> SUFFICES ASSUME Nat \ T # {} PROVE FALSE
  OBVIOUS
<1>1. PICK m \in Nat \ T : \A k \in Nat \ T : m <= k
  BY Least
<1>2. m # 0 /\ m - 1 \in Nat /\ ~(m <= m - 1)
  BY <1>1
<1>3. m - 1 \in T
  BY <1>1, <1>2
<1> QED
  BY <1>1, <1>2, <1>3

(* A recursion over a sequence of length n, whose steps are in T.          *)
Steps(n, T) == [(1..n) \X T -> T]
Recursion(f, n, T, b, step) == /\ f \in [0..n -> T] /\ f[0] = b
                               /\ \A i \in 1..n : f[i] = step[<<i, f[i - 1]>>]

LEMMA RecursionExists ==
    ASSUME NEW n \in Nat, NEW T, NEW b \in T, NEW step \in Steps(n, T)
    PROVE  \E f : Recursion(f, n, T, b, step)
<1> DEFINE Good(k, f) == /\ f \in [0..k -> T] /\ f[0] = b
                         /\ \A i \in 1..k : f[i] = step[<<i, f[i - 1]>>]
           G == {k \in Nat : k <= n => \E f : Good(k, f)}
<1>1. 0 \in G
  <2> DEFINE f == [i \in 0..0 |-> b]
  <2>1. Good(0, f)
    OBVIOUS
  <2> QED
    BY <2>1
<1>2. ASSUME NEW k \in Nat, k \in G PROVE k + 1 \in G
  <2> SUFFICES ASSUME k + 1 <= n PROVE \E f : Good(k + 1, f)
    OBVIOUS
  <2>1. PICK f : Good(k, f)
    BY <1>2
  <2> DEFINE v == step[<<k + 1, f[k]>>]
             g == [i \in 0..(k + 1) |-> IF i = k + 1 THEN v ELSE f[i]]
  <2>2. f[k] \in T /\ k + 1 \in 1..n /\ step \in [(1..n) \X T -> T]
    BY <2>1 DEF Steps
  <2>3. v \in T
    BY <2>2
  <2>4. /\ g \in [0..(k + 1) -> T] /\ g[k + 1] = v
        /\ \A i \in 0..k : g[i] = f[i]
    <3> HIDE DEF v
    <3> QED
      BY <2>1, <2>3
  <2>5. ASSUME NEW i \in 1..(k + 1) PROVE g[i] = step[<<i, g[i - 1]>>]
    <3>1. CASE i = k + 1
      <4>1. i - 1 = k /\ k \in 0..k
        BY <3>1
      <4> HIDE DEF g
      <4> QED
        BY <2>4, <3>1, <4>1
    <3>2. CASE i # k + 1
      <4>1. i \in 1..k /\ i - 1 \in 0..k /\ i \in 0..k
        BY <3>2
      <4> HIDE DEF g
      <4> QED
        BY <2>1, <2>4, <4>1
    <3> QED
      BY <3>1, <3>2
  <2>6. g[0] = b
    BY <2>1, <2>4
  <2> HIDE DEF g
  <2>7. Good(k + 1, g)
    BY <2>4, <2>5, <2>6
  <2> QED
    BY <2>7
<1> HIDE DEF G
<1>3. n \in G
  BY <1>1, <1>2, SetInduction
<1> QED
  BY <1>3 DEF G, Recursion

(* Two that begin alike and go on alike are alike.                         *)
StepsAlike(f, g, n) ==
    f[0] = g[0] /\ \A i \in 1..n : f[i - 1] = g[i - 1] => f[i] = g[i]
LEMMA RecursionUnique ==
    ASSUME NEW n \in Nat, NEW f, NEW g, StepsAlike(f, g, n)
    PROVE  \A i \in 0..n : f[i] = g[i]
<1> DEFINE G == {i \in Nat : i <= n => f[i] = g[i]}
<1>1. 0 \in G
  BY DEF StepsAlike
<1>2. ASSUME NEW k \in Nat, k \in G PROVE k + 1 \in G
  <2> SUFFICES ASSUME k + 1 <= n PROVE f[k + 1] = g[k + 1]
    OBVIOUS
  <2>1. f[k] = g[k] /\ k + 1 \in 1..n /\ (k + 1) - 1 = k
    BY <1>2
  <2> QED
    BY <2>1 DEF StepsAlike
<1> HIDE DEF G
<1>3. Nat \subseteq G
  BY <1>1, <1>2, SetInduction
<1> QED
  BY <1>3 DEF G
=============================================================================
