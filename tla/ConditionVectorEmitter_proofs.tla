--------------------- MODULE ConditionVectorEmitter_proofs ---------------------
(***************************************************************************)
(* That the emitted code computes the condition vector, whatever the tree, *)
(* the subtree and the data set: an invariant says what is in the lanes    *)
(* after every step of the X86 and of the AVX emitter.                     *)
(***************************************************************************)
EXTENDS ConditionVectorEmitter, DecisionTree_proofs

\* What a lane contributes to the vector, once masked: the bit of its node.
Masked(l) == IF l < AvxPackSize - 1 /\ NodeGoesRight(l) THEN {l} ELSE {}

\* The lanes of the X86 emitter, once compared.
Compared == [i \in NodeBits |-> IF NodeGoesRight(i) THEN {i} ELSE {}]

\* Subtrees that get to an emitter are complete; the AVX one has 7 nodes.
SubtreeFits ==
  /\ Len(nodes) \in 1..15
  /\ emitter \in {"X86", "AVX"} /\ (emitter = "AVX" => Len(nodes) = AvxPackSize - 1)

\* What is in the lanes after every step.
LanesRight ==
  /\ stage = "start" => lanes = [l \in {} |-> {}]
  /\ emitter = "X86" /\ stage # "start" => lanes = Compared
  /\ emitter = "AVX" =>
       /\ stage = "compared" =>
            /\ lanes \in [0..AvxPackSize - 1 -> SUBSET AllOnes]
            /\ \A l \in 0..AvxPackSize - 2 : lanes[l] = IF NodeGoesRight(l) THEN AllOnes ELSE {}
       /\ stage = "masked" => lanes = [l \in 0..AvxPackSize - 1 |-> Masked(l)]
       /\ stage = "halved" => lanes = [l \in 0..3 |-> Masked(l) \cup Masked(l + 4)]
       /\ stage \in {"paired", "done"} =>
            /\ lanes \in [0..3 -> SUBSET AllOnes]
            /\ lanes[0] = Masked(0) \cup Masked(1) \cup Masked(4) \cup Masked(5)
            /\ lanes[2] = Masked(2) \cup Masked(3) \cup Masked(6) \cup Masked(7)

EmitterInv ==
  /\ SubtreeFits /\ LanesRight
  /\ stage \in {"start", "compared", "masked", "halved", "paired", "done"}
  /\ emitter = "X86" => stage \in {"start", "compared", "done"}
  /\ vector = IF stage = "done" THEN Reference ELSE {}

(* A complete subtree has 1, 3, 7 or 15 nodes, which fit an i32.           *)
LEMMA SubtreeSize ==
  ASSUME NEW k \in 1..MaxSubtreeLevels
  PROVE  NodeCount(k) \in 1..15
<1> DEFINE c == ContinuationNodeCount
<1>1. /\ c[0] = 1
      /\ \A i \in 0..MaxSubtreeLevels - 1 : c[i + 1] = 2 * c[i]
  BY ContinuationNodeCountValues
<1> HIDE DEF c
<1>2. c[0] = 1 /\ c[0 + 1] = 2 * c[0] /\ c[1 + 1] = 2 * c[1] /\ c[2 + 1] = 2 * c[2] /\ c[3 + 1] = 2 * c[3]
  BY <1>1 DEF MaxSubtreeLevels
<1>3. c[1] = 2 /\ c[2] = 4 /\ c[3] = 8 /\ c[4] = 16
  BY <1>2
<1>4. k \in {1, 2, 3, 4}
  BY DEF MaxSubtreeLevels
<1>5. c[k] - 1 \in 1..15
  BY <1>3, <1>4
<1> QED BY <1>5 DEF c, NodeCount

(* Every bit of a node fits into the vector, and into a lane.              *)
LEMMA BitsFit ==
  ASSUME SubtreeFits
  PROVE  /\ NodeBits \subseteq AllOnes /\ NodeBits \subseteq 0..(SignificantBits - 1)
         /\ SignificantBits - 1 \notin NodeBits
         /\ emitter = "AVX" => NodeBits = 0..6
<1> DEFINE size == Len(nodes)
<1>1. size \in 1..15 /\ (emitter = "AVX" => size = 7)
  BY DEF SubtreeFits, AvxPackSize
<1>2. NodeBits = 0..size - 1 /\ SignificantBits = size + 1 /\ AllOnes = 0..31
  BY DEF NodeBits, SignificantBits, AllOnes
<1> HIDE DEF size
<1> QED BY <1>1, <1>2

(* The lanes of the nodes together are the vector of the labels.           *)
LEMMA MaskedTogether ==
  ASSUME SubtreeFits, emitter = "AVX"
  PROVE  (Masked(0) \cup Masked(1) \cup Masked(4) \cup Masked(5))
           \cup (Masked(2) \cup Masked(3) \cup Masked(6) \cup Masked(7)) = Reference
<1>1. NodeBits = {0, 1, 2, 3, 4, 5, 6}
  BY BitsFit
<1>2. Masked(7) = {}
  BY DEF Masked, AvxPackSize
<1>3. \A l \in {0, 1, 2, 3, 4, 5, 6} : Masked(l) = IF NodeGoesRight(l) THEN {l} ELSE {}
  BY DEF Masked, AvxPackSize
<1>4. Reference = {i \in {0, 1, 2, 3, 4, 5, 6} : NodeGoesRight(i)}
  BY <1>1 DEF Reference
<1>5. ASSUME NEW i \in {0, 1, 2, 3, 4, 5, 6}
      PROVE  i \in Masked(i) <=> NodeGoesRight(i)
  BY <1>3
<1>6. \A l, i \in {0, 1, 2, 3, 4, 5, 6} : i \in Masked(l) => i = l
  BY <1>3
<1>7. \A l \in {0, 1, 2, 3, 4, 5, 6} : Masked(l) \subseteq {0, 1, 2, 3, 4, 5, 6}
  BY <1>3
<1> QED BY <1>2, <1>4, <1>5, <1>6, <1>7

(* At the start, the code that is about to run is a complete subtree's.    *)
LEMMA EmitterInvInit == Init => EmitterInv
<1> SUFFICES ASSUME Init PROVE EmitterInv
  OBVIOUS
<1>1. PICK n \in Nodes, k \in 1..MaxSubtreeLevels :
        /\ SubtreeRefValid(n, k) /\ nodes = PreOrder[k][n]
        /\ emitter \in (IF Len(nodes) = AvxPackSize - 1 THEN {"X86", "AVX"} ELSE {"X86"})
  BY DEF Init
<1>2. Len(nodes) \in 1..15
  BY <1>1, SubtreeSize DEF SubtreeRefValid
<1>3. SubtreeFits
  BY <1>1, <1>2 DEF SubtreeFits
<1> QED BY <1>3 DEF Init, EmitterInv, LanesRight

(* Every step leaves in the lanes what the next one takes for granted.     *)
LEMMA EmitterStep ==
  ASSUME EmitterInv, [Next]_vars
  PROVE  EmitterInv'
<1> USE DEF EmitterInv
<1>0. ASSUME UNCHANGED <<emitter, nodes, dataSet>>
      PROVE  /\ SubtreeFits' /\ NodeBits' = NodeBits /\ Reference' = Reference
             /\ \A i : NodeGoesRight(i)' = NodeGoesRight(i)
             /\ \A l : Masked(l)' = Masked(l)
             /\ Compared' = Compared
  BY <1>0 DEF SubtreeFits, NodeBits, Reference, NodeGoesRight, Masked, Compared
<1>1. CASE CompareAndShift
  <2>1. /\ emitter = "X86" /\ stage = "start" /\ stage' = "compared"
        /\ UNCHANGED <<emitter, nodes, dataSet, vector>>
        /\ lanes' = [i \in NodeBits |->
              IF NodeGoesRight(i) THEN Truncate({i}, SignificantBits) ELSE {}]
    BY <1>1 DEF CompareAndShift
  <2>2. \A i \in NodeBits : Truncate({i}, SignificantBits) = {i}
    BY BitsFit DEF Truncate
  <2>3. lanes' = Compared
    BY <2>1, <2>2 DEF Compared
  <2>4. LanesRight'
    BY <1>0, <2>1, <2>3 DEF LanesRight
  <2> QED BY <1>0, <2>1, <2>4
<1>2. CASE OrBits
  <2>1. /\ emitter = "X86" /\ stage = "compared" /\ stage' = "done"
        /\ UNCHANGED <<emitter, nodes, dataSet, lanes>>
        /\ vector' = UNION {lanes[i] : i \in NodeBits}
    BY <1>2 DEF OrBits
  <2>2. lanes = Compared
    BY <2>1 DEF LanesRight
  <2>3. vector' = Reference
    BY <2>1, <2>2 DEF Reference, Compared
  <2>4. LanesRight'
    BY <1>0, <2>1, <2>2 DEF LanesRight
  <2> QED BY <1>0, <2>1, <2>3, <2>4
<1>3. CASE CompareAvx
  <2>1. PICK spare \in {{}, AllOnes} :
          /\ emitter = "AVX" /\ stage = "start" /\ stage' = "compared"
          /\ UNCHANGED <<emitter, nodes, dataSet, vector>>
          /\ lanes' = [l \in 0..AvxPackSize - 1 |->
               IF l < AvxPackSize - 1 THEN IF NodeGoesRight(l) THEN AllOnes ELSE {} ELSE spare]
    BY <1>3, Zenon DEF CompareAvx
  <2>2. /\ lanes' \in [0..AvxPackSize - 1 -> SUBSET AllOnes]
        /\ \A l \in 0..AvxPackSize - 2 : lanes'[l] = IF NodeGoesRight(l) THEN AllOnes ELSE {}
    BY <2>1 DEF AvxPackSize
  <2>3. LanesRight'
    BY <1>0, <2>1, <2>2 DEF LanesRight
  <2> QED BY <1>0, <2>1, <2>3
<1>4. CASE BitShiftsAvx
  <2>1. /\ emitter = "AVX" /\ stage = "compared" /\ stage' = "masked"
        /\ UNCHANGED <<emitter, nodes, dataSet, vector>>
        /\ lanes' = [l \in 0..AvxPackSize - 1 |-> lanes[l] \cap BitShiftMask(l)]
    BY <1>4 DEF BitShiftsAvx
  <2>2. \A l \in 0..AvxPackSize - 2 : lanes[l] = IF NodeGoesRight(l) THEN AllOnes ELSE {}
    BY <2>1 DEF LanesRight
  <2>3. ASSUME NEW l \in 0..AvxPackSize - 1
        PROVE  lanes[l] \cap BitShiftMask(l) = Masked(l)
    <3>1. CASE l < AvxPackSize - 1
      <4>1. l \in 0..AvxPackSize - 2 /\ l \in AllOnes
        BY <3>1 DEF AvxPackSize, AllOnes
      <4> QED BY <2>2, <3>1, <4>1 DEF BitShiftMask, Masked
    <3>2. CASE ~(l < AvxPackSize - 1)
      BY <3>2 DEF BitShiftMask, Masked
    <3> QED BY <3>1, <3>2
  <2>4. lanes' = [l \in 0..AvxPackSize - 1 |-> Masked(l)]
    BY <2>1, <2>3
  <2>5. LanesRight'
    BY <1>0, <2>1, <2>4 DEF LanesRight
  <2> QED BY <1>0, <2>1, <2>5
<1>5. CASE OrHalvesAvx
  <2>1. /\ emitter = "AVX" /\ stage = "masked" /\ stage' = "halved"
        /\ UNCHANGED <<emitter, nodes, dataSet, vector>>
        /\ lanes' = [l \in 0..3 |-> lanes[l] \cup lanes[l + 4]]
    BY <1>5 DEF OrHalvesAvx
  <2>2. \A l \in 0..3 : lanes[l] = Masked(l) /\ lanes[l + 4] = Masked(l + 4)
    BY <2>1 DEF LanesRight, AvxPackSize
  <2>3. lanes' = [l \in 0..3 |-> Masked(l) \cup Masked(l + 4)]
    BY <2>1, <2>2
  <2>4. LanesRight'
    BY <1>0, <2>1, <2>3 DEF LanesRight
  <2> QED BY <1>0, <2>1, <2>4
<1>6. CASE OrPairsAvx
  <2>1. /\ emitter = "AVX" /\ stage = "halved" /\ stage' = "paired"
        /\ UNCHANGED <<emitter, nodes, dataSet, vector>>
        /\ lanes' = [l \in 0..3 |-> (IF l < 2 THEN lanes[1] ELSE lanes[3]) \cup lanes[l]]
    BY <1>6 DEF OrPairsAvx
  <2>2. lanes = [l \in 0..3 |-> Masked(l) \cup Masked(l + 4)]
    BY <2>1 DEF LanesRight
  <2>3. \A l : Masked(l) \subseteq AllOnes \/ l \notin 0..7
    BY DEF Masked, AllOnes, AvxPackSize
  <2>4. \A l \in 0..3 : lanes[l] \subseteq AllOnes
    BY <2>2, <2>3
  <2>5. /\ lanes[0] = Masked(0) \cup Masked(4) /\ lanes[1] = Masked(1) \cup Masked(5)
        /\ lanes[2] = Masked(2) \cup Masked(6) /\ lanes[3] = Masked(3) \cup Masked(7)
    BY <2>2
  <2>6. /\ lanes' \in [0..3 -> SUBSET AllOnes]
        /\ lanes'[0] = lanes[1] \cup lanes[0] /\ lanes'[2] = lanes[3] \cup lanes[2]
    BY <2>1, <2>4
  <2>7. /\ lanes'[0] = Masked(0) \cup Masked(1) \cup Masked(4) \cup Masked(5)
        /\ lanes'[2] = Masked(2) \cup Masked(3) \cup Masked(6) \cup Masked(7)
    BY <2>5, <2>6
  <2>8. LanesRight'
    BY <1>0, <2>1, <2>6, <2>7 DEF LanesRight
  <2> QED BY <1>0, <2>1, <2>8
<1>7. CASE OrLastAvx
  <2>1. /\ emitter = "AVX" /\ stage = "paired" /\ stage' = "done"
        /\ UNCHANGED <<emitter, nodes, dataSet, lanes>>
        /\ vector' = Truncate(lanes[0] \cup lanes[2], SignificantBits)
    BY <1>7 DEF OrLastAvx
  <2>2. lanes[0] \cup lanes[2] = Reference
    BY <2>1, MaskedTogether DEF LanesRight
  <2>3. Reference \subseteq 0..(SignificantBits - 1)
    BY BitsFit DEF Reference
  <2>4. vector' = Reference
    BY <2>1, <2>2, <2>3 DEF Truncate
  <2>5. LanesRight'
    BY <1>0, <2>1 DEF LanesRight
  <2> QED BY <1>0, <2>1, <2>4, <2>5
<1>8. CASE UNCHANGED vars
  <2>1. UNCHANGED <<emitter, nodes, dataSet, stage, lanes, vector>>
    BY <1>8 DEF vars
  <2>2. LanesRight'
    BY <1>0, <2>1 DEF LanesRight
  <2> QED BY <1>0, <2>1, <2>2
<1> QED BY <1>1, <1>2, <1>3, <1>4, <1>5, <1>6, <1>7, <1>8 DEF Next

(* After every step, the lanes hold what the emitter's comments say.       *)
THEOREM EmitterInvariant == Spec => []EmitterInv
BY EmitterInvInit, EmitterStep, PTL DEF Spec

(* Lanes are 32 bits wide and as many as the step before left.             *)
THEOREM EmitterTypeCorrect == Spec => []TypeOK
<1>1. EmitterInv => TypeOK
  <2> SUFFICES ASSUME EmitterInv PROVE TypeOK
    OBVIOUS
  <2>1. NodeBits \subseteq AllOnes
    BY BitsFit DEF EmitterInv
  <2>2. \A l \in 0..7 : Masked(l) \subseteq AllOnes
    BY DEF Masked, AllOnes, AvxPackSize
  <2>3. lanes \in [Lanes -> SUBSET AllOnes]
    <3>1. CASE stage = "start"
      BY <3>1 DEF EmitterInv, LanesRight, Lanes
    <3>2. CASE emitter = "X86" /\ stage # "start"
      BY <2>1, <3>2 DEF EmitterInv, LanesRight, Lanes, Compared
    <3>3. CASE emitter = "AVX" /\ stage = "compared"
      BY <3>3 DEF EmitterInv, LanesRight, Lanes
    <3>4. CASE emitter = "AVX" /\ stage = "masked"
      BY <2>2, <3>4 DEF EmitterInv, LanesRight, Lanes, AvxPackSize
    <3>5. CASE emitter = "AVX" /\ stage = "halved"
      <4>1. lanes = [l \in 0..3 |-> Masked(l) \cup Masked(l + 4)] /\ Lanes = 0..3
        BY <3>5 DEF EmitterInv, LanesRight, Lanes
      <4>2. \A l \in 0..3 : Masked(l) \cup Masked(l + 4) \subseteq AllOnes
        BY <2>2
      <4> QED BY <4>1, <4>2
    <3>6. CASE emitter = "AVX" /\ stage \in {"paired", "done"}
      BY <3>6 DEF EmitterInv, LanesRight, Lanes
    <3> QED BY <3>1, <3>2, <3>3, <3>4, <3>5, <3>6 DEF EmitterInv, SubtreeFits
  <2>4. vector \subseteq AllOnes
    BY <2>1 DEF EmitterInv, Reference
  <2> QED BY <2>3, <2>4 DEF TypeOK, EmitterInv, SubtreeFits
<1> QED BY <1>1, EmitterInvariant, PTL

(* On every perfect tree, for every subtree that reaches an emitter and    *)
(* every data set, both emitters compute the vector of the labels.         *)
THEOREM VectorComputed == Spec => []VectorRight
<1>1. EmitterInv => VectorRight
  BY DEF EmitterInv, VectorRight
<1> QED BY <1>1, EmitterInvariant, PTL

(* The table is never indexed with a negative number.                      *)
THEOREM IndexNeverNegative == Spec => []SignBitClear
<1>1. EmitterInv => SignBitClear
  BY BitsFit DEF EmitterInv, SignBitClear, Reference
<1> QED BY <1>1, EmitterInvariant, PTL
=============================================================================
