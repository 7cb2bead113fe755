---------------------------- MODULE LeastNumbers ----------------------------
(***************************************************************************)
(* The least-number principle as facts about sets: proofs by induction     *)
(* over the indices of a log, a queue or a calendar rest on it.            *)
(***************************************************************************)
EXTENDS Integers, WellFoundedInduction, TLAPS

(* A set of natural numbers that is not empty has a least element.         *)
LEMMA LeastNumber ==
  ASSUME NEW T, T \subseteq Nat, T # {}
  PROVE  \E m \in T : \A n \in T : m <= n
<1>1. IsWellFoundedOn(OpToRel(<, Nat), Nat)
  BY NatLessThanWellFounded
<1>2. PICK m \in T : \A n \in T : <<n, m>> \notin OpToRel(<, Nat)
  BY <1>1, WFMin
<1>3. \A m1, n \in Nat : <<n, m1>> \in OpToRel(<, Nat) <=> n < m1
  BY DEF OpToRel
<1>4. \A n \in T : ~(n < m)
  BY <1>2, <1>3
<1>5. \A n \in T : m <= n
  BY <1>4
<1> QED BY <1>5

(* And one that is bounded has a greatest.                                 *)
LEMMA GreatestNumber ==
  ASSUME NEW b \in Nat, NEW T, T \subseteq 0..b, T # {}
  PROVE  \E m \in T : \A n \in T : n <= m
<1> DEFINE U == {k \in 0..b : b - k \in T}
<1>1. U \subseteq Nat
  OBVIOUS
<1>2. U # {}
  <2>1. PICK n \in T : TRUE
    OBVIOUS
  <2>2. n \in 0..b /\ b - n \in 0..b /\ b - (b - n) = n
    OBVIOUS
  <2>3. b - n \in U
    BY <2>2
  <2> QED BY <2>3
<1>3. PICK k \in U : \A j \in U : k <= j
  <2> HIDE DEF U
  <2> QED BY <1>1, <1>2, LeastNumber
<1>4. \A n \in T : b - n \in U
  <2> SUFFICES ASSUME NEW n \in T PROVE b - n \in U
    OBVIOUS
  <2>1. n \in 0..b /\ b - n \in 0..b /\ b - (b - n) = n
    OBVIOUS
  <2> QED BY <2>1
<1>5. \A n \in T : n <= b - k
  BY <1>3, <1>4
<1> QED BY <1>3, <1>5
=============================================================================
