------------------------- MODULE BlockSeats_proofs -------------------------
(***************************************************************************)
(* What BlockSeats promises holds of every implementation of it, for every *)
(* set of people and blocks and every choice of capacities.                *)
(***************************************************************************)
EXTENDS BlockSeats, FiniteSetTheorems, TLAPS

\* Seats are held by finitely many people.
LEMMA TakenFinite ==
  ASSUME ConstantsOK, TypeOK, NEW b \in Blocks
  PROVE  IsFiniteSet(taken[b]) /\ Cardinality(taken[b]) \in Nat
BY FS_Subset, FS_CardinalityType DEF TypeOK, ConstantsOK

\* taken and capacity keep their types.
LEMMA TypeCorrect == Spec => []TypeOK
<1>1. Init => TypeOK
  BY DEF Init
<1>2. TypeOK /\ [Next]_vars => TypeOK'
  BY DEF TypeOK, Next, vars, Reseat, SetCapacity
<1>3. QED
  BY <1>1, <1>2, PTL DEF Spec

\* Whoever is seated anew finds the block within its capacity afterwards.
THEOREM SeatsNeverOversold ==
  ASSUME ConstantsOK
  PROVE  Spec => NeverOversold
<1>1. TypeOK /\ [Next]_vars =>
        [\A b \in Blocks : ~(taken'[b] \subseteq taken[b])
            => Within(capacity'[b], Cardinality(taken'[b]))]_vars
  <2> SUFFICES ASSUME TypeOK, [Next]_vars, NEW b \in Blocks, ~(taken'[b] \subseteq taken[b])
               PROVE  Within(capacity'[b], Cardinality(taken'[b]))
    BY DEF vars
  <2>1. PICK p \in People, B \in SUBSET Blocks : Reseat(p, B)
    BY DEF Next, vars, SetCapacity
  <2>2. b \in B /\ p \notin taken[b] /\ taken'[b] = taken[b] \cup {p}
    BY <2>1 DEF Reseat
  <2>3. HasRoom(capacity[b], Cardinality(taken[b])) /\ capacity' = capacity
    BY <2>1, <2>2 DEF Reseat
  <2>4. Cardinality(taken'[b]) = Cardinality(taken[b]) + 1
    BY <2>2, TakenFinite, FS_AddElement
  <2>5. capacity[b] = Unlimited \/ capacity[b] \in Nat
    BY DEF TypeOK, ConstantsOK
  <2>6. QED
    BY <2>3, <2>4, <2>5, TakenFinite DEF HasRoom, Within
<1>2. QED
  BY <1>1, TypeCorrect, PTL DEF Spec, NeverOversold
=============================================================================
