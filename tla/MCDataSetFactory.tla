-------------------------- MODULE MCDataSetFactory --------------------------
(* The factory tree whose nodes read a feature each, with rising biases. *)
EXTENDS DataSetFactory

Factory == INSTANCE TreeFactory

DistinctGradientTree == Factory!MakePerfectDistinctGradientTree(Levels)
LevelOfNode == [n \in Nodes |-> Factory!LevelForNodeIdx(n)]

MCTree == DistinctGradientTree
MCDepth == LevelOfNode
=============================================================================
