------------------------------- MODULE Recursion -------------------------------
(***************************************************************************)
(* Recursive functions over 0 .. n, for proofs about loops: such a function*)
(* has the values its equation says (RunExists), and what holds of the     *)
(* first and is kept by each step holds of all of them (UpTo).  Both come  *)
(* from the smallest element of a set of numbers.                          *)
(***************************************************************************)
EXTENDS Integers, WellFoundedInduction, TLAPS

(* The smallest of some numbers.                                           *)
LEMMA Smallest ==
    ASSUME NEW S \in SUBSET Nat, S # {}
    PROVE  \E m \in S : \A k \in S : m <= k
<1>1. PICK m \in S : \A k \in S : ~(<<k, m>> \in OpToRel(<, Nat))
  BY NatLessThanWellFounded, WFMin
<1>2. \A k \in S : ~(k < m)
  BY <1>1 DEF OpToRel
<1> QED
  BY <1>2

(* Induction up to n, and the runs of a recursive function over 0 .. n.     *)
LEMMA UpTo ==
    ASSUME NEW n \in Nat, NEW S, 0 \in S, \A i \in 1 .. n : i - 1 \in S => i \in S
    PROVE  0 .. n \subseteq S
<1> DEFINE Bad == {i \in 0 .. n : i \notin S}
<1> SUFFICES ASSUME Bad # {} PROVE FALSE
  OBVIOUS
<1>0. Bad \in SUBSET Nat
  OBVIOUS
<1>1. PICK m \in Bad : \A k \in Bad : m <= k
  <2> HIDE DEF Bad
  <2> QED
    BY <1>0, Smallest
<1>2. m \in 1 .. n /\ m - 1 \in 0 .. n
  BY <1>1
<1>3. m - 1 \in S
  BY <1>1, <1>2
<1> QED
  BY <1>1, <1>2, <1>3

IsRun(h, n, x0, G) == h = [i \in 0 .. n |-> IF i = 0 THEN x0 ELSE G[<<h[i - 1], i>>]]

LEMMA RunExists ==
    ASSUME NEW X, NEW n \in Nat, NEW x0 \in X, NEW G \in [X \X (1 .. n) -> X]
    PROVE  \E h \in [0 .. n -> X] : IsRun(h, n, x0, G)
<1> DEFINE Run(k, h) == h \in [0 .. k -> X] /\ \A i \in 0 .. k : h[i] = IF i = 0 THEN x0 ELSE G[<<h[i - 1], i>>]
           S == {k \in 0 .. n : \E h : Run(k, h)}
<1>1. 0 \in S
  <2> DEFINE h == [i \in 0 .. 0 |-> x0]
  <2>1. Run(0, h)
    OBVIOUS
  <2>2. 0 \in 0 .. n
    OBVIOUS
  <2> HIDE DEF h, Run
  <2> QED
    BY <2>1, <2>2
<1>2. ASSUME NEW k \in 1 .. n, k - 1 \in S PROVE k \in S
  <2>1. PICK f : Run(k - 1, f)
    BY <1>2
  <2> DEFINE h == [i \in 0 .. k |-> IF i = k THEN G[<<f[k - 1], k>>] ELSE f[i]]
  <2>2. h \in [0 .. k -> X]
    <3>1. f[k - 1] \in X /\ \A i \in 0 .. k : i # k => f[i] \in X
      BY <2>1
    <3>2. G[<<f[k - 1], k>>] \in X
      BY <3>1
    <3> QED
      BY <3>1, <3>2
  <2>3. ASSUME NEW i \in 0 .. k PROVE h[i] = IF i = 0 THEN x0 ELSE G[<<h[i - 1], i>>]
    <3>1. CASE i = k
      <4>1. h[i - 1] = f[k - 1] /\ h[i] = G[<<f[k - 1], k>>] /\ i # 0
        BY <3>1
      <4> QED
        BY <3>1, <4>1
    <3>2. CASE i # k
      <4>1. i \in 0 .. k - 1 /\ h[i] = f[i]
        BY <3>2
      <4>2. i # 0 => h[i - 1] = f[i - 1]
        BY <4>1
      <4>3. f[i] = IF i = 0 THEN x0 ELSE G[<<f[i - 1], i>>]
        BY <2>1, <4>1
      <4> HIDE DEF h
      <4> QED
        BY <4>1, <4>2, <4>3
    <3> QED
      BY <3>1, <3>2
  <2> HIDE DEF h
  <2>4. Run(k, h)
    BY <2>2, <2>3
  <2> HIDE DEF Run
  <2> QED
    BY <2>4
<1>3. n \in S
  <2> HIDE DEF S
  <2> QED
    BY <1>1, <1>2, UpTo
<1>4. PICK h : Run(n, h)
  BY <1>3
<1>5. h = [i \in 0 .. n |-> h[i]]
  BY <1>4
<1>6. IsRun(h, n, x0, G)
  BY <1>4, <1>5 DEF IsRun
<1> QED
  BY <1>4, <1>6
=============================================================================
