----------------------------- MODULE OrderLemmas -----------------------------
(* Least and greatest elements of sets of integers, for Min and Max, and      *)
(* induction: the least natural number a formula fails for is a member of a   *)
(* set, so that no theorem with an operator parameter is needed.              *)
EXTENDS Integers, FiniteSetsExt, WellFoundedInduction, TLAPS

\* A set of natural numbers that is not empty has a least one.
LEMMA LeastNatural ==
  ASSUME NEW T \in SUBSET Nat, T # {}
  PROVE  \E x \in T : \A y \in T : x <= y
<1>1. PICK x \in T : \A y \in T : ~ (<<y, x>> \in OpToRel(<, Nat))
  BY WFMin, NatLessThanWellFounded, Zenon
<1>2. \A y \in T : y < x => <<y, x>> \in OpToRel(<, Nat)
  BY DEF OpToRel
<1>3. \A y \in T : ~ (y < x)
  BY <1>1, <1>2
<1>4. \A y \in T : y \in Nat /\ x \in Nat
  OBVIOUS
<1>5. \A y \in T : x <= y
  BY <1>3, <1>4
<1>. QED
  BY <1>5

\* Min is the least member of a set that is bounded below.
LEMMA MinIsLeast ==
  ASSUME NEW T \in SUBSET Int, T # {}, NEW m \in Int, \A y \in T : m <= y
  PROVE  Min(T) \in T /\ \A y \in T : Min(T) <= y
<1>. DEFINE N == { n \in Nat : m + n \in T }
<1>1. \A y \in T : y - m \in N /\ m + (y - m) = y
  <2>1. TAKE y \in T
  <2>2. y - m \in Nat /\ m + (y - m) = y
    OBVIOUS
  <2>. QED
    BY <2>2
<1>2. N \in SUBSET Nat /\ \A n \in N : m + n \in T
  OBVIOUS
<1>. HIDE DEF N
<1>3. PICK n \in N : \A k \in N : n <= k
  BY <1>1, <1>2, LeastNatural
<1>4. m + n \in T /\ \A y \in T : m + n <= y
  <2>1. \A y \in T : n <= y - m
    BY <1>1, <1>3
  <2>2. n \in Nat /\ \A y \in T : y \in Int
    BY <1>2
  <2>. QED
    BY <1>2, <2>1, <2>2
<1>. QED
  BY <1>4 DEF Min

\* Max is the greatest member of a set that is bounded above.
LEMMA MaxIsGreatest ==
  ASSUME NEW T \in SUBSET Int, T # {}, NEW m \in Int, \A y \in T : y <= m
  PROVE  Max(T) \in T /\ \A y \in T : y <= Max(T)
<1>. DEFINE N == { n \in Nat : m - n \in T }
<1>1. \A y \in T : m - y \in N /\ m - (m - y) = y
  <2>1. TAKE y \in T
  <2>2. m - y \in Nat /\ m - (m - y) = y
    OBVIOUS
  <2>. QED
    BY <2>2
<1>2. N \in SUBSET Nat /\ \A n \in N : m - n \in T
  OBVIOUS
<1>. HIDE DEF N
<1>3. PICK n \in N : \A k \in N : n <= k
  BY <1>1, <1>2, LeastNatural
<1>4. m - n \in T /\ \A y \in T : y <= m - n
  <2>1. \A y \in T : n <= m - y
    BY <1>1, <1>3
  <2>2. n \in Nat /\ \A y \in T : y \in Int
    BY <1>2
  <2>. QED
    BY <1>2, <2>1, <2>2
<1>. QED
  BY <1>4 DEF Max

\* A set that holds 0 and the successor of each of its members holds every
\* natural number.
LEMMA SetInduction ==
  ASSUME NEW S, 0 \in S, \A n \in Nat : n \in S => n + 1 \in S
  PROVE  Nat \subseteq S
<1>. SUFFICES ASSUME Nat \ S # {} PROVE FALSE
  OBVIOUS
<1>1. PICK x \in Nat \ S : \A y \in Nat \ S : x <= y
  BY LeastNatural
<1>2. x \in Nat /\ x \notin S /\ x # 0
  BY <1>1
<1>3. x - 1 \in Nat /\ ~(x <= x - 1) /\ (x - 1) + 1 = x
  BY <1>2
<1>4. x - 1 \in S
  BY <1>1, <1>3
<1>. QED
  BY <1>2, <1>3, <1>4
\* A recursive function over 0 .. m exists: one loop that runs m times, from
\* v, and in turn n makes step[<<x, n>>] of x.
Loop(f, m, v, step) == f = [ n \in 0 .. m |-> IF n = 0 THEN v ELSE step[<<f[n - 1], n>>] ]

LEMMA LoopExists ==
  ASSUME NEW V, NEW v \in V, NEW m \in Nat, NEW step \in [V \X (1 .. m) -> V]
  PROVE  \E f \in [0 .. m -> V] : Loop(f, m, v, step)
<1>. DEFINE S == { k \in Nat : k <= m => \E f \in [0 .. k -> V] : Loop(f, k, v, step) }
<1>1. 0 \in S
  <2>. DEFINE f == [ n \in 0 .. 0 |-> v ]
  <2>1. f \in [0 .. 0 -> V] /\ Loop(f, 0, v, step)
    BY DEF Loop
  <2>. QED
    BY <2>1
<1>2. ASSUME NEW k \in Nat, k \in S, k + 1 <= m
      PROVE  \E f \in [0 .. k + 1 -> V] : Loop(f, k + 1, v, step)
  <2>1. PICK h \in [0 .. k -> V] : Loop(h, k, v, step)
    BY <1>2
  <2>. DEFINE f == [ n \in 0 .. k + 1 |-> IF n = k + 1 THEN step[<<h[k], k + 1>>] ELSE h[n] ]
  <2>2. step[<<h[k], k + 1>>] \in V
    BY <1>2
  <2>3. f \in [0 .. k + 1 -> V]
    BY <2>2
  <2>4. ASSUME NEW n \in 0 .. k + 1
        PROVE  f[n] = IF n = 0 THEN v ELSE step[<<f[n - 1], n>>]
    <3>1. CASE n = k + 1
      <4>1. n # 0 /\ n - 1 = k /\ f[n - 1] = h[k]
        BY <3>1
      <4>. QED
        BY <3>1, <4>1
    <3>2. CASE n # k + 1 /\ n # 0
      <4>1. n \in 0 .. k /\ n - 1 \in 0 .. k /\ f[n] = h[n] /\ f[n - 1] = h[n - 1]
        BY <3>2
      <4>2. h[n] = step[<<h[n - 1], n>>]
        BY <2>1, <3>2, <4>1 DEF Loop
      <4>. QED
        BY <3>2, <4>1, <4>2
    <3>3. CASE n = 0
      <4>1. n \in 0 .. k /\ f[n] = h[n] /\ h[0] = v
        BY <2>1, <3>3 DEF Loop
      <4>. QED
        BY <3>3, <4>1
    <3>. QED
      BY <3>1, <3>2, <3>3
  <2>5. Loop(f, k + 1, v, step)
    <3>1. f = [ n \in 0 .. k + 1 |-> f[n] ]
      OBVIOUS
    <3>. HIDE DEF f
    <3>. QED
      BY <2>4, <3>1 DEF Loop
  <2>. QED
    BY <2>3, <2>5
<1>3. \A k \in Nat : k \in S => k + 1 \in S
  <2>1. ASSUME NEW k \in Nat, k \in S PROVE k + 1 \in S
    <3>1. CASE k + 1 <= m
      BY <1>2, <2>1, <3>1
    <3>2. CASE ~(k + 1 <= m)
      BY <2>1, <3>2
    <3>. QED
      BY <3>1, <3>2
  <2>. QED
    BY <2>1
<1>4. m \in S
  <2>. HIDE DEF S
  <2>. QED
    BY <1>1, <1>3, SetInduction
<1>. QED
  BY <1>4

=============================================================================
