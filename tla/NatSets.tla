------------------------------- MODULE NatSets -------------------------------
(***************************************************************************)
(* Induction over the natural numbers for the other proof modules, with a  *)
(* set where NaturalsInduction has an operator for what is to be shown.    *)
(***************************************************************************)
EXTENDS Integers, WellFoundedInduction, TLAPS

(* A set of numbers that is not empty has a least one.                     *)
LEMMA LeastNumber ==
  ASSUME NEW T \in SUBSET Nat, T # {}
  PROVE  \E m \in T : \A k \in T : m <= k
<1>1. \E m \in T : \A k \in T : <<k, m>> \notin OpToRel(<, Nat)
  BY NatLessThanWellFounded, WFMin
<1>2. \E m \in T : \A k \in T : ~(k < m)
  BY <1>1 DEF OpToRel
<1> QED
  BY <1>2

(* A set of numbers that has 0, and with each number the next, has all.    *)
LEMMA NatSetInduction ==
  ASSUME NEW S \in SUBSET Nat, 0 \in S, \A n \in S : n + 1 \in S
  PROVE  S = Nat
<1> SUFFICES ASSUME NEW n \in Nat, n \notin S PROVE FALSE
  OBVIOUS
<1>1. PICK m \in Nat \ S : \A k \in Nat \ S : m <= k
  BY LeastNumber
<1>2. m # 0 /\ m - 1 \in Nat /\ m - 1 \in S
  BY <1>1
<1>3. (m - 1) + 1 = m
  OBVIOUS
<1> QED
  BY <1>1, <1>2, <1>3

(* The same from 1 to n.                                                   *)
LEMMA IntervalInduction ==
  ASSUME NEW n \in Nat, NEW T,
         1 \in 1..n => 1 \in T,
         \A i \in 2..n : i - 1 \in T => i \in T
  PROVE  1..n \subseteq T
<1> DEFINE S == {i \in Nat : i + 1 \in 1..n => i + 1 \in T}
<1>1. 0 \in S
  OBVIOUS
<1>2. \A i \in S : i + 1 \in S
  <2> SUFFICES ASSUME NEW i \in S, i + 1 + 1 \in 1..n PROVE i + 1 + 1 \in T
    OBVIOUS
  <2>1. i + 1 \in T
    OBVIOUS
  <2>2. i + 1 + 1 \in 2..n /\ i + 1 + 1 - 1 = i + 1
    OBVIOUS
  <2> QED
    BY <2>1, <2>2
<1>3. S = Nat
  <2> HIDE DEF S
  <2>1. S \subseteq Nat
    BY DEF S
  <2> QED
    BY <1>1, <1>2, <2>1, NatSetInduction
<1>4. \A i \in 1..n : i \in T
  <2> TAKE i \in 1..n
  <2>1. i - 1 \in Nat /\ i - 1 + 1 = i
    OBVIOUS
  <2>2. i - 1 \in S
    <3> HIDE DEF S
    <3> QED
      BY <1>3, <2>1
  <2> QED
    BY <2>1, <2>2
<1> QED
  BY <1>4
=============================================================================
