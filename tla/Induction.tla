----------------------------- MODULE Induction -----------------------------
(***************************************************************************)
(* Induction over the natural numbers in the form the provers can use: a   *)
(* property is a set of numbers, and a counterexample has a least one.     *)
(***************************************************************************)
EXTENDS Integers, WellFoundedInduction, TLAPS

(* A set of numbers that is not empty has a least element.                 *)
LEMMA Least ==
  ASSUME NEW T, T \subseteq Nat, T # {}
  PROVE  \E x \in T : \A y \in T : x <= y
<1>1. IsWellFoundedOn(OpToRel(<, Nat), Nat)
  BY NatLessThanWellFounded
<1>2. PICK x \in T : \A y \in T : <<y, x>> \notin OpToRel(<, Nat)
  BY <1>1, WFMin
<1>3. \A y \in T : ~(y < x)
  BY <1>2 DEF OpToRel
<1> QED
  BY <1>3

(* Moves that only go forward: the places they reach from 0.               *)
LEMMA Reachable ==
  ASSUME NEW step \in [Nat -> Nat], \A q \in Nat : q < step[q]
  PROVE  \E S \in SUBSET Nat :
           \A p \in Nat : p \in S <=> p = 0 \/ \E q \in 0 .. p - 1 : q \in S /\ step[q] = p
<1> DEFINE Closed(T) == 0 \in T /\ \A q \in T : step[q] \in T
           S == {p \in Nat : \A T \in SUBSET Nat : Closed(T) => p \in T}
<1>1. 0 \in S
  OBVIOUS
<1>2. ASSUME NEW q \in S
      PROVE  step[q] \in S
  OBVIOUS
<1>3. ASSUME NEW p \in S, p # 0, \A q \in S : step[q] # p
      PROVE  FALSE
  <2>1. Closed(S \ {p})
    BY <1>1, <1>2, <1>3
  <2>2. S \ {p} \in SUBSET Nat
    OBVIOUS
  <2>3. p \in S \ {p}
    BY <2>1, <2>2
  <2> QED
    BY <2>3
<1>4. S \in SUBSET Nat
  OBVIOUS
<1> HIDE DEF S
<1>5. ASSUME NEW p \in Nat
      PROVE  p \in S <=> p = 0 \/ \E q \in 0 .. p - 1 : q \in S /\ step[q] = p
  <2>1. ASSUME p \in S, p # 0
        PROVE  \E q \in 0 .. p - 1 : q \in S /\ step[q] = p
    <3>1. PICK q \in S : step[q] = p
      BY <1>3, <2>1
    <3>2. q \in Nat /\ q < p
      BY <1>4, <3>1
    <3> QED
      BY <3>1, <3>2
  <2> QED
    BY <1>1, <1>2, <2>1
<1> QED
  BY <1>4, <1>5
============================================================================
