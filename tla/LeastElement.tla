--------------------------- MODULE LeastElement ---------------------------
(***************************************************************************)
(* Every non-empty set of natural numbers has a least element.  The proofs *)
(* use it where an induction would need an operator as a parameter: they   *)
(* take the least counterexample.  Induction for a given set of numbers,   *)
(* and functions defined by recursion, follow.                             *)
(***************************************************************************)
EXTENDS Integers, FiniteSetTheorems, TLAPS

\* The order on T is the inclusion order on the segments 0 .. n, n \in T, and
\* inclusion of finite sets is well founded.
LEMMA LeastOfNats ==
  ASSUME NEW T \in SUBSET Nat, T # {}
  PROVE  \E x \in T : \A y \in T : x <= y
<1> DEFINE Segments == {0 .. n : n \in T}
<1>1. \A n \in T : IsFiniteSet(0 .. n) /\ 0 .. n \in SUBSET Nat
  BY FS_Interval
<1>2. Segments \subseteq FiniteSubsetsOf(Nat)
  <2>1. SUFFICES ASSUME NEW s \in Segments PROVE s \in FiniteSubsetsOf(Nat)
    OBVIOUS
  <2>2. PICK n \in T : s = 0 .. n
    BY Zenon
  <2>3. IsFiniteSet(s) /\ s \in SUBSET Nat
    BY <1>1, <2>2, Zenon
  <2> QED BY <2>3, Zenon DEF FiniteSubsetsOf
<1>3. Segments # {}
  BY Zenon
<1>4. \E s \in Segments : \A u \in Segments : ~ (<<u, s>> \in StrictSubsetOrdering(Nat))
  BY <1>2, <1>3, FS_StrictSubsetOrderingWellFounded, WFMin, Zenon
<1>5. PICK x \in T : \A y \in T : ~ (<<0 .. y, 0 .. x>> \in StrictSubsetOrdering(Nat))
  BY <1>4, Zenon
<1>6. ASSUME NEW y \in T, y < x PROVE FALSE
  <2>1. 0 .. y \subseteq 0 .. x
    BY <1>6
  <2>2. x \in 0 .. x /\ x \notin 0 .. y
    BY <1>6
  <2>3. <<0 .. y, 0 .. x>> \in (SUBSET Nat) \X (SUBSET Nat)
    BY <1>1
  <2>4. <<0 .. y, 0 .. x>> \in StrictSubsetOrdering(Nat)
    BY <2>1, <2>2, <2>3, Zenon DEF StrictSubsetOrdering
  <2> QED BY <1>5, <2>4
<1> QED BY <1>6

\* Induction over the places of a text, for a set of places.
LEMMA Upward ==
  ASSUME NEW n \in Nat, NEW Good, 0 \in Good, \A i \in 1 .. n : i - 1 \in Good => i \in Good
  PROVE  \A i \in 0 .. n : i \in Good
<1> DEFINE Bad == {i \in 0 .. n : i \notin Good}
<1>1. ASSUME Bad # {} PROVE FALSE
  <2>1. Bad \in SUBSET Nat
    OBVIOUS
  <2>2. \E i \in Bad : \A j \in Bad : i <= j
    <3> HIDE DEF Bad
    <3> QED BY <1>1, <2>1, LeastOfNats
  <2>3. PICK i \in Bad : \A j \in Bad : i <= j
    BY <2>2
  <2>4. i \in 1 .. n /\ i \notin Good
    BY <2>3
  <2>5. i - 1 \in 0 .. n /\ ~(i <= i - 1)
    BY <2>4
  <2>6. i - 1 \notin Bad
    BY <2>3, <2>5
  <2> QED BY <2>4, <2>5, <2>6
<1> QED BY <1>1

LEMMA Downward ==
  ASSUME NEW n \in Nat, NEW Good, n + 1 \in Good, \A i \in 1 .. n : i + 1 \in Good => i \in Good
  PROVE  \A i \in 1 .. n + 1 : i \in Good
<1> DEFINE Up == {j \in 0 .. n : n + 1 - j \in Good}
<1>1. 0 \in Up
  BY n + 1 - 0 = n + 1
<1>2. ASSUME NEW j \in 1 .. n, j - 1 \in Up PROVE j \in Up
  <2>1. n + 1 - j \in 1 .. n /\ n + 1 - (j - 1) = (n + 1 - j) + 1 /\ j \in 0 .. n
    OBVIOUS
  <2> QED BY <1>2, <2>1
<1>3. \A j \in 0 .. n : j \in Up
  <2> HIDE DEF Up
  <2> QED BY <1>1, <1>2, Upward
<1>4. ASSUME NEW i \in 1 .. n + 1 PROVE i \in Good
  <2>1. n + 1 - i \in 0 .. n /\ n + 1 - (n + 1 - i) = i
    OBVIOUS
  <2> QED BY <1>3, <2>1
<1> QED BY <1>4

\* A function defined by its value at 0 and by what it is one step further.
Iteration(f, n, S, a, step) ==
  /\ f[0] = a
  /\ \A i \in 0 .. n : f[i] \in S
  /\ \A i \in 1 .. n : f[i] = step[<<i, f[i - 1]>>]

LEMMA Iterated ==
  ASSUME NEW n \in Nat, NEW S, NEW a \in S, NEW step \in [(1 .. n) \X S -> S]
  PROVE  \E f : Iteration(f, n, S, a, step)
<1> DEFINE Goes(f, k) == /\ f[0] = a
                         /\ \A i \in 0 .. k : f[i] \in S
                         /\ \A i \in 1 .. k : f[i] = step[<<i, f[i - 1]>>]
           Good == {k \in 0 .. n : \E f : Goes(f, k)}
<1>1. 0 \in Good
  <2>1. Goes([i \in {0} |-> a], 0) /\ 0 \in 0 .. n
    OBVIOUS
  <2> QED BY <2>1, Zenon
<1>2. ASSUME NEW k \in 1 .. n, k - 1 \in Good PROVE k \in Good
  <2>1. PICK f : Goes(f, k - 1)
    BY <1>2
  <2> DEFINE v == step[<<k, f[k - 1]>>]
             g == [i \in 0 .. k |-> IF i = k THEN v ELSE f[i]]
  <2>2. k - 1 \in 0 .. k - 1 /\ 0 \in 0 .. k - 1 /\ k # 0 /\ 0 \in 0 .. k
    OBVIOUS
  <2>3. v \in S
    BY <2>1, <2>2
  <2> HIDE DEF v
  <2>4. g[k] = v /\ \A i \in 0 .. k - 1 : g[i] = f[i]
    BY <2>2
  <2>5. \A i \in 0 .. k : i = k \/ i \in 0 .. k - 1
    OBVIOUS
  <2> HIDE DEF g
  <2>6. ASSUME NEW i \in 1 .. k PROVE g[i] = step[<<i, g[i - 1]>>]
    <3>1. i - 1 \in 0 .. k - 1 /\ (i = k \/ i \in 1 .. k - 1) /\ (i \in 1 .. k - 1 => i \in 0 .. k - 1)
      OBVIOUS
    <3>2. CASE i = k
      BY <2>4, <3>1, <3>2 DEF v
    <3>3. CASE i \in 1 .. k - 1
      BY <2>1, <2>4, <3>1, <3>3
    <3> QED BY <3>1, <3>2, <3>3
  <2>7. Goes(g, k)
    BY <2>1, <2>2, <2>3, <2>4, <2>5, <2>6
  <2> QED BY <2>7
<1>3. \A k \in 0 .. n : k \in Good
  <2> HIDE DEF Good
  <2> QED BY <1>1, <1>2, Upward
<1>4. n \in Good
  <2> HIDE DEF Good
  <2> QED BY <1>3, n \in 0 .. n
<1> QED BY <1>4 DEF Iteration
=============================================================================
