------------------------ MODULE MCCompiledEvaluator -------------------------
(* Compiled evaluators on the trees, data sets and selectors of MCTrees. *)
EXTENDS CompiledEvaluator, MCTrees
=============================================================================
