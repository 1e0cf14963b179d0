---------------------- MODULE MCConditionVectorEmitter ----------------------
(* Every subtree of the three-level distinct tree, every outcome vector. *)
EXTENDS ConditionVectorEmitter

Factory == INSTANCE TreeFactory

DistinctUniformTree == Factory!MakePerfectDistinctUniformTree(Levels)
LevelOfNode == [n \in Nodes |-> Factory!LevelForNodeIdx(n)]
NaNOrHigh == [0..(2 ^ Levels - 2) -> {NaN, 2 ^ Levels}]

MCTree == DistinctUniformTree
MCDepth == LevelOfNode
MCNaNOrHigh == NaNOrHigh
=============================================================================
