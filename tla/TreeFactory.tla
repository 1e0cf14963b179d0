---------------------------- MODULE TreeFactory -----------------------------
(***************************************************************************)
(* The trees DecisionTreeFactory makes. Biases, multiples of 1/2^levels in *)
(* the code, are counted in that unit: 0.5 is 2^(levels-1). The loops over *)
(* levels and positions are the set of node indices they add.              *)
(***************************************************************************)
EXTENDS Integers, FiniteSets

CONSTANTS NoNode, NoFeature, NaN

\* 1 << exp, shifted bit by bit.
PowerOf2[exp \in Nat] == IF exp = 0 THEN 1 ELSE 2 * PowerOf2[exp - 1]
TreeNodes(depth) == PowerOf2[depth] - 1

\* Log2 of a positive number, the position of its highest bit.
Log2(value) == CHOOSE l \in 0..value : PowerOf2[l] <= value /\ value < PowerOf2[l + 1]

LevelForNodeIdx(idx) == Log2(idx + 1)
FirstNodeIdxOnLevel(level) == PowerOf2[level] - 1

\* DecisionTreeNode's defaulted members: what addImplicitNode adds.
ImplicitNode ==
  [bias |-> NaN, feature |-> NoFeature, falseChild |-> NoNode, trueChild |-> NoNode]

\* DecisionTree::finalize: every child index past the last node is a result.
Finalize(nodes) ==
  LET maxIdx == CHOOSE m \in DOMAIN nodes : \A n \in DOMAIN nodes : n <= m
      children == UNION {{nodes[n].falseChild, nodes[n].trueChild} : n \in DOMAIN nodes}
      results == {c \in children \ {NoNode} : c > maxIdx}
  IN  [n \in DOMAIN nodes \cup results |->
         IF n \in DOMAIN nodes THEN nodes[n] ELSE ImplicitNode]

InnerNodes(levels) == 0..TreeNodes(levels) - 1
IndexOnLevel(idx) == idx - FirstNodeIdxOnLevel(LevelForNodeIdx(idx))

FalseChildIdx(idx) ==
  FirstNodeIdxOnLevel(LevelForNodeIdx(idx) + 1) + 2 * IndexOnLevel(idx)

\* The loops all factories share; bias and feature of every inner node.
MakePerfectTree(levels, bias, feature) ==
  Finalize([idx \in InnerNodes(levels) |->
    [bias |-> bias[idx], feature |-> feature[idx],
     falseChild |-> FalseChildIdx(idx), trueChild |-> FalseChildIdx(idx) + 1]])

\* biasBase + i * biasStep, with biasStep = 1 / 2^level
GradientBias(levels) ==
  [idx \in InnerNodes(levels) |->
     PowerOf2[levels - LevelForNodeIdx(idx) - 1] * (2 * IndexOnLevel(idx) + 1)]

UniformBias(levels) == [idx \in InnerNodes(levels) |-> PowerOf2[levels - 1]]

TrivialFeature(levels) == [idx \in InnerNodes(levels) |-> 0]

\* What uint32_t keeps of a node's index, the lower half of its 64 bits (in two
\* parts, of 16 bits each).
LowerHalf(idx) == (idx % 65536) + 65536 * ((idx \div 65536) % 65536)

DistinctFeature(levels) == [idx \in InnerNodes(levels) |-> LowerHalf(idx)]

MakePerfectTrivialGradientTree(levels) ==
  MakePerfectTree(levels, GradientBias(levels), TrivialFeature(levels))

MakePerfectDistinctGradientTree(levels) ==
  MakePerfectTree(levels, GradientBias(levels), DistinctFeature(levels))

MakePerfectTrivialUniformTree(levels) ==
  MakePerfectTree(levels, UniformBias(levels), TrivialFeature(levels))

MakePerfectDistinctUniformTree(levels) ==
  MakePerfectTree(levels, UniformBias(levels), DistinctFeature(levels))
=============================================================================
