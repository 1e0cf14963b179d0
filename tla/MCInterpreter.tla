--------------------------- MODULE MCInterpreter ----------------------------
(***************************************************************************)
(* The interpreter on DecisionTreeFactory's three-level distinct gradient  *)
(* tree: features tie with a bias, are above all or compare with none.     *)
(***************************************************************************)
EXTENDS Interpreter

Factory == INSTANCE TreeFactory

\* TLC evaluates a definition once, but not one that replaces a constant.
DistinctGradientTree == Factory!MakePerfectDistinctGradientTree(Levels)
LevelOfNode == [n \in Nodes |-> Factory!LevelForNodeIdx(n)]

MCTree == DistinctGradientTree
MCDepth == LevelOfNode

FeatureValues == {2 ^ (Levels - 1), 2 ^ Levels, NaN}
MCDataSets == [0..(2 ^ Levels - 2) -> FeatureValues]
=============================================================================
