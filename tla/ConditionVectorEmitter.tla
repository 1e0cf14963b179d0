----------------------- MODULE ConditionVectorEmitter -----------------------
(***************************************************************************)
(* What the code of CGConditionVectorEmitter computes at run time: the     *)
(* condition vector of a subtree, the operand of its switch or the index   *)
(* into its table. The scalar emitter (X86) compares and shifts node by    *)
(* node; the vector emitter (AVX) has one 32-bit lane per node and one to  *)
(* spare, masks every lane with its bit and folds the lanes together.      *)
(*                                                                         *)
(* A machine integer is the set of offsets of its one bits.                *)
(***************************************************************************)
EXTENDS DecisionTree

VARIABLES
  emitter,               \* "X86" or "AVX"
  nodes,                 \* Nodes: the subtree's nodes in pre-order
  dataSet,               \* the data set of the call
  stage,                 \* the step computed last
  lanes,                 \* vectorBits, or the lanes of the vector register
  vector                 \* the condition vector

vars == <<emitter, nodes, dataSet, stage, lanes, vector>>

AvxPackSize == 8
AllOnes == 0..31                                 \* an i32 lane of ones

NodeBits == 0..Len(nodes) - 1
NodeGoesRight(bitOffset) == GoesRight(nodes[bitOffset + 1], dataSet)

\* What the labels of the switch and the entries of the table are made from.
Reference == {i \in NodeBits : NodeGoesRight(i)}

\* An integer of this many bits keeps only those.
Truncate(bits, width) == bits \cap 0..(width - 1)
\* Mutant: no room for a sign bit.
SignificantBitsUnsigned == Len(nodes)

SignificantBits == Len(nodes) + 1                \* +1 = sign bit

\* The lanes of vectorBits, of an 8-int and of a 4-int vector.
Lanes ==
  CASE stage = "start" -> {}
    [] emitter = "X86" /\ stage # "start" -> NodeBits
    [] emitter = "AVX" /\ stage \in {"compared", "masked"} -> 0..AvxPackSize - 1
    [] OTHER -> 0..3

TypeOK ==
  /\ emitter \in {"X86", "AVX"}
  /\ stage \in {"start", "compared", "masked", "halved", "paired", "done"}
  /\ lanes \in [Lanes -> SUBSET AllOnes]
  /\ vector \subseteq AllOnes

Init ==
  /\ \E n \in Nodes, k \in 1..MaxSubtreeLevels :
       /\ SubtreeRefValid(n, k) /\ PathsComplete(n, k)
       /\ nodes = PreOrder[k][n]
       /\ emitter \in (IF Len(nodes) = AvxPackSize - 1 THEN {"X86", "AVX"} ELSE {"X86"})
  /\ dataSet \in DataSets
  /\ stage = "start" /\ lanes = [l \in {} |-> {}] /\ vector = {}

-----------------------------------------------------------------------------
(* CGConditionVectorEmitterX86::run *)

\* fcmp ogt, zext to the vector's width, shl to the node's offset
CompareAndShift ==
  /\ emitter = "X86" /\ stage = "start"
  /\ lanes' = [i \in NodeBits |->
       IF NodeGoesRight(i) THEN Truncate({i}, SignificantBits) ELSE {}]
  /\ stage' = "compared"
  /\ UNCHANGED <<emitter, nodes, dataSet, vector>>

OrBits ==
  /\ emitter = "X86" /\ stage = "compared"
  /\ vector' = UNION {lanes[i] : i \in NodeBits}
  /\ stage' = "done"
  /\ UNCHANGED <<emitter, nodes, dataSet, lanes>>

-----------------------------------------------------------------------------
(* CGConditionVectorEmitterAVX::run *)

\* Of the arrays on the stack only the nodes' items are stored: the last lane
\* compares two uninitialized floats.
CompareAvx == \E spare \in {{}, AllOnes} :
  /\ emitter = "AVX" /\ stage = "start"
  /\ lanes' = [l \in 0..AvxPackSize - 1 |->
       IF l < AvxPackSize - 1
       THEN IF NodeGoesRight(l) THEN AllOnes ELSE {}
       ELSE spare]
  /\ stage' = "compared"
  /\ UNCHANGED <<emitter, nodes, dataSet, vector>>

\* Mutant: the spare lane is not masked out.
BitShiftMaskAll(l) == {l}

\* emitDefineBitShiftMaskValues: the last lane is masked with 0.
BitShiftMask(l) == IF l < AvxPackSize - 1 THEN {l} ELSE {}

BitShiftsAvx ==
  /\ emitter = "AVX" /\ stage = "compared"
  /\ lanes' = [l \in 0..AvxPackSize - 1 |-> lanes[l] \cap BitShiftMask(l)]
  /\ stage' = "masked"
  /\ UNCHANGED <<emitter, nodes, dataSet, vector>>

\* Mutant: the result keeps all eight lanes.
OrHalvesAvxWide ==
  /\ emitter = "AVX" /\ stage = "masked"
  /\ lanes' = [l \in 0..AvxPackSize - 1 |-> lanes[l] \cup lanes[(l + 4) % 8]]
  /\ stage' = "halved"
  /\ UNCHANGED <<emitter, nodes, dataSet, vector>>

\* avxOr_04_15_26_37
OrHalvesAvx ==
  /\ emitter = "AVX" /\ stage = "masked"
  /\ lanes' = [l \in 0..3 |-> lanes[l] \cup lanes[l + 4]]
  /\ stage' = "halved"
  /\ UNCHANGED <<emitter, nodes, dataSet, vector>>

\* avxOr_0145_15_2367_37: or with the lanes shuffled to 1, 1, 3, 3
OrPairsAvx ==
  /\ emitter = "AVX" /\ stage = "halved"
  /\ lanes' = [l \in 0..3 |-> (IF l < 2 THEN lanes[1] ELSE lanes[3]) \cup lanes[l]]
  /\ stage' = "paired"
  /\ UNCHANGED <<emitter, nodes, dataSet, vector>>

OrLastAvx ==
  /\ emitter = "AVX" /\ stage = "paired"
  /\ vector' = Truncate(lanes[0] \cup lanes[2], SignificantBits)
  /\ stage' = "done"
  /\ UNCHANGED <<emitter, nodes, dataSet, lanes>>

Next ==
  \/ CompareAndShift \/ OrBits
  \/ CompareAvx \/ BitShiftsAvx \/ OrHalvesAvx \/ OrPairsAvx \/ OrLastAvx

Spec == Init /\ [][Next]_vars

-----------------------------------------------------------------------------
(* Both emitters compute the vector that the labels of the switch and the  *)
(* entries of the table were built for, one bit per node in pre-order, the *)
(* garbage in the spare lane notwithstanding.                              *)
VectorRight == stage = "done" => vector = Reference

(* The table is indexed with the vector as a signed number of that width   *)
(* (LXSubtreeSwitch.cpp:85-86), so its top bit must be clear for every     *)
(* outcome or the load reads in front of the table.                        *)
SignBitClear == stage = "done" => SignificantBits - 1 \notin vector
=============================================================================
