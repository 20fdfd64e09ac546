---------------------------- MODULE RecursionLemmas ----------------------------
(***************************************************************************)
(* Lemmas about recursion that the proofs of several components share.     *)
(* The loops of the code are modelled by recursive functions on an initial *)
(* segment of the numbers (the starts of the keys in KeySchedule).         *)
(* Induction over them is a proof by least counterexample: the set of      *)
(* numbers for which a claim fails has a least element.                    *)
(***************************************************************************)
EXTENDS Integers, Sequences, WellFoundedInduction, TLAPS

\* A set of natural numbers that is not empty has a least element.
LEMMA LeastNat ==
  ASSUME NEW T \in SUBSET Nat, T # {}
  PROVE  \E m \in T : \A n \in T : m <= n
<1>1. \E x \in T : \A y \in T : ~ (<<y, x>> \in OpToRel(<, Nat))
  BY NatLessThanWellFounded, WFMin, Zenon
<1>2. PICK x \in T : \A y \in T : ~ (<<y, x>> \in OpToRel(<, Nat))
  BY <1>1, Zenon
<1>3. \A y \in T : ~ (y < x)
  BY <1>2, ZenonT(30) DEF OpToRel
<1> QED BY <1>3

\* A set of numbers that holds 0 and with a number below n its successor holds
\* all numbers up to n.
LEMMA InductionUpTo ==
  ASSUME NEW n \in Nat, NEW P, 0 \in P, \A k \in 0 .. n - 1 : k \in P => k + 1 \in P
  PROVE  \A k \in 0 .. n : k \in P
<1> DEFINE T == (0 .. n) \ P
<1>1. SUFFICES ASSUME T # {} PROVE FALSE
  OBVIOUS
<1>2. T \in SUBSET Nat
  OBVIOUS
<1>3. PICK k \in T : \A j \in T : k <= j
  BY <1>1, <1>2, LeastNat, Zenon
<1>4. k # 0 /\ k - 1 \in 0 .. n - 1
  OBVIOUS
<1>5. k - 1 \notin T
  BY <1>3, <1>4
<1>6. k - 1 \in P
  BY <1>4, <1>5
<1>7. (k - 1) + 1 \in P
  BY <1>4, <1>6
<1> QED BY <1>4, <1>7

\* The function that a loop computes, with the value a after its first round and
\* g[i][x] after round i when x was the value before it.
Loop(f, n, a, g) == f = [i \in 1 .. n |-> IF i = 1 THEN a ELSE g[i][f[i - 1]]]

\* There is such a function: a recursive definition of it is no empty choice.
LEMMA LoopExists ==
  ASSUME NEW n \in Nat, NEW D, NEW a \in D, NEW g \in [1 .. n -> [D -> D]]
  PROVE  \E f \in [1 .. n -> D] : Loop(f, n, a, g)
<1> DEFINE P == {k \in Nat : \E f \in [1 .. k -> D] : Loop(f, k, a, g)}
<1>1. 0 \in P
  <2>1. <<>> \in [1 .. 0 -> D] /\ Loop(<<>>, 0, a, g)
    BY DEF Loop
  <2> QED BY <2>1, Zenon
<1>2. ASSUME NEW k \in 0 .. n - 1, k \in P
      PROVE  k + 1 \in P
  <2>1. PICK f \in [1 .. k -> D] : Loop(f, k, a, g)
    BY <1>2
  <2> DEFINE h == [i \in 1 .. k + 1 |-> IF i <= k THEN f[i] ELSE IF i = 1 THEN a ELSE g[i][f[k]]]
  <2>2. k \in Nat /\ k + 1 \in 1 .. n /\ k + 1 \in Nat
    OBVIOUS
  <2>3. DOMAIN h = 1 .. k + 1 /\ \A i \in 1 .. k : h[i] = f[i]
    BY <2>2
  <2>4. h[k + 1] = IF k = 0 THEN a ELSE g[k + 1][f[k]]
    BY <2>2
  <2>5. h = [i \in DOMAIN h |-> h[i]]
    OBVIOUS
  <2> HIDE DEF h
  <2>6. \A i \in 1 .. k : f[i] = IF i = 1 THEN a ELSE g[i][f[i - 1]]
    BY <2>1 DEF Loop
  <2>7. h[k + 1] \in D
    <3>1. CASE k = 0
      BY <2>4, <3>1
    <3>2. CASE k # 0
      <4>1. f[k] \in D
        BY <2>2, <3>2
      <4> QED BY <4>1, <2>2, <2>4, <3>2
    <3> QED BY <3>1, <3>2
  <2>8. h \in [1 .. k + 1 -> D]
    <3>1. \A i \in 1 .. k + 1 : i \in 1 .. k \/ i = k + 1
      BY <2>2
    <3> QED BY <2>3, <2>5, <2>7, <3>1
  <2>9. ASSUME NEW i \in 1 .. k + 1
        PROVE  h[i] = IF i = 1 THEN a ELSE g[i][h[i - 1]]
    <3>1. CASE i = k + 1
      <4>1. CASE k = 0
        BY <2>4, <3>1, <4>1
      <4>2. CASE k # 0
        <5>1. h[k] = f[k] /\ i # 1 /\ i - 1 = k
          BY <2>2, <2>3, <3>1, <4>2
        <5> QED BY <2>4, <3>1, <4>2, <5>1
      <4> QED BY <4>1, <4>2
    <3>2. CASE i # k + 1
      <4>1. i \in 1 .. k /\ h[i] = f[i]
        BY <2>2, <2>3, <3>2
      <4>2. i # 1 => i - 1 \in 1 .. k /\ h[i - 1] = f[i - 1]
        BY <2>2, <2>3, <3>2
      <4> QED BY <4>1, <4>2, <2>6
    <3> QED BY <3>1, <3>2
  <2>10. h = [i \in 1 .. k + 1 |-> IF i = 1 THEN a ELSE g[i][h[i - 1]]]
    BY <2>3, <2>5, <2>9
  <2>11. Loop(h, k + 1, a, g)
    BY <2>10 DEF Loop
  <2> QED BY <2>2, <2>8, <2>11
<1> HIDE DEF P
<1>3. n \in P
  <2>1. \A k \in 0 .. n : k \in P
    BY <1>1, <1>2, InductionUpTo, SMTT(60)
  <2> QED BY <2>1
<1> QED BY <1>3 DEF P
==============================================================================
