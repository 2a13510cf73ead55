------------------------------- MODULE NumberFacts -------------------------------
(***************************************************************************)
(* Facts about sets of natural numbers the proofs cite: a nonempty one has *)
(* a least number, and a greatest one if it is bounded, and induction.     *)
(* They follow from < being well founded.                                  *)
(***************************************************************************)
EXTENDS Integers, WellFoundedInduction, TLAPS

(* A set of natural numbers has a least one.                               *)
Less == {p \in Nat \X Nat : p[1] < p[2]}

LEMMA LessWF == IsWellFoundedOn(Less, Nat)
<1>1. OpToRel(<, Nat) = Less
  BY DEF OpToRel, Less
<1> QED BY <1>1, NatLessThanWellFounded

LEMMA LeastNat ==
    ASSUME NEW T, T \subseteq Nat, T # {}
    PROVE  \E x \in T : \A y \in T : x <= y
<1>1. PICK x \in T : \A y \in T : ~(<<y, x>> \in Less)
  BY LessWF, WFMin
<1>2. ASSUME NEW y \in T PROVE x <= y
  <2>1. <<y, x>> \notin Less
    BY <1>1
  <2>2. x \in Nat /\ y \in Nat
    OBVIOUS
  <2>3. ~(y < x)
    BY <2>1, <2>2 DEF Less
  <2> QED BY <2>2, <2>3
<1> QED BY <1>2

(* Induction, stated by the set of the numbers something holds of.         *)
LEMMA SetInduction ==
    ASSUME NEW S, 0 \in S, \A n \in Nat : n \in S => n + 1 \in S
    PROVE  Nat \subseteq S
<1> SUFFICES ASSUME Nat \ S # {} PROVE FALSE
  OBVIOUS
<1>1. PICK x \in Nat \ S : \A y \in Nat \ S : x <= y
  BY LeastNat
<1>2. x - 1 \in Nat /\ x - 1 \in S
  BY <1>1
<1> QED BY <1>1, <1>2

LEMMA GreatestNat ==
    ASSUME NEW T, NEW n \in Nat, T \subseteq 0..n, T # {}
    PROVE  \E x \in T : \A y \in T : y <= x
<1> DEFINE U == {k \in 0..n : n - k \in T}
<1>1. U # {} /\ U \subseteq Nat
  <2>1. PICK y \in T : TRUE
    OBVIOUS
  <2>2. y \in 0..n /\ n - y \in 0..n /\ n - (n - y) = y
    BY <2>1
  <2>3. n - y \in 0..n /\ n - (n - y) \in T
    BY <2>1, <2>2
  <2>4. n - y \in U
    BY <2>3, Zenon
  <2>5. U \subseteq Nat
    OBVIOUS
  <2> QED BY <2>4, <2>5
<1>2. PICK k \in U : \A j \in U : k <= j
  BY <1>1, LeastNat
<1>3. ASSUME NEW y \in T PROVE y <= n - k
  <2>1. y \in 0..n /\ n - y \in 0..n /\ n - (n - y) = y
    BY <1>3
  <2>2. k <= n - y
    BY <1>2, <2>1
  <2> QED BY <1>2, <2>1, <2>2
<1> QED BY <1>2, <1>3
=============================================================================
