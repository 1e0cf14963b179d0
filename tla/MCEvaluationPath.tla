-------------------------- MODULE MCEvaluationPath --------------------------
(* Paths of every subtree of a factory tree. *)
EXTENDS EvaluationPath

Factory == INSTANCE TreeFactory

DistinctUniformTree == Factory!MakePerfectDistinctUniformTree(Levels)
LevelOfNode == [n \in Nodes |-> Factory!LevelForNodeIdx(n)]

MCTree == DistinctUniformTree
MCDepth == LevelOfNode
=============================================================================
