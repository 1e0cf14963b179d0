------------------------------ MODULE MCTrees -------------------------------
(***************************************************************************)
(* Factory trees, data sets and selectors for the compiler's runs. TLC     *)
(* evaluates a definition once, but not one that replaces a constant: each *)
(* MC constant is a name for a definition.                                 *)
(***************************************************************************)
EXTENDS TreeCompiler

Factory == INSTANCE TreeFactory

DistinctGradientTree == Factory!MakePerfectDistinctGradientTree(Levels)
DistinctUniformTree == Factory!MakePerfectDistinctUniformTree(Levels)
LevelOfNode == [n \in Nodes |-> Factory!LevelForNodeIdx(n)]

MCDistinctGradient == DistinctGradientTree
MCDistinctUniform == DistinctUniformTree
MCDepth == LevelOfNode

Features == 0..(2 ^ Levels - 2)

(* Every combination of outcomes; a NaN goes left, as every low value does. *)
NaNOrHigh == [Features -> {NaN, 2 ^ Levels}]
(* All nodes of a level going the same way, which makes every path to a     *)
(* result; and one node going one way and all others the other way, which  *)
(* tells the bits of a condition vector apart.                             *)
Outcome(right) == IF right THEN 2 ^ Levels ELSE NaN
ByLevel ==
  {[f \in Features |-> Outcome(Factory!LevelForNodeIdx(f) \in levels)] :
     levels \in SUBSET (0..Levels - 1)}
OneAgainstAll ==
  {[f \in Features |-> Outcome(right <=> f = one)] : one \in Features, right \in BOOLEAN}
Telling == ByLevel \cup OneAgainstAll

MCNaNOrHigh == NaNOrHigh
MCTelling == Telling

-----------------------------------------------------------------------------
(* The selectors of the tests and benchmarks: one generator throughout, or *)
(* one of StaticDriver's with L1IfThenElse as its fallback, or one for the *)
(* first levels and another for the rest.                                  *)

Always(g) == [r \in 1..255 |-> g]
WithFallback(g) == [r \in 1..255 |-> IF r >= g.depth THEN g ELSE L1IfThenElse]
FirstThen(g, h) == [r \in 1..255 |-> IF r = Levels THEN g ELSE h]

AnySelector ==
  { Always(L1IfThenElse), Always(LXSubtreeSwitch(1)),
    WithFallback(LXSubtreeSwitch(2)), WithFallback(L3SubtreeSwitchAVX),
    FirstThen(LXSubtreeSwitch(2), LXSubtreeSwitch(1)),
    FirstThen(L1IfThenElse, LXSubtreeSwitch(2)),
    FirstThen(LXSubtreeSwitch(1), L3SubtreeSwitchAVX),
    Always(LXSubtreeSwitch(2)), Always(L3SubtreeSwitchAVX),
    Always(LXSubtreeSwitch(0)), FirstThen(L1IfThenElse, LXSubtreeSwitch(5)) }

\* Those whose compilation of the tree does not abort.
FittingSelector == {s \in AnySelector : Fits(s)}

\* Conditional branches only: every block gets one terminator.
ConditionalBranches == {Always(L1IfThenElse)}

MCAnySelector == AnySelector
MCFittingSelector == FittingSelector
MCConditionalBranches == ConditionalBranches
=============================================================================
