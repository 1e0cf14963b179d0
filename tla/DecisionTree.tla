---------------------------- MODULE DecisionTree ----------------------------
(***************************************************************************)
(* A finalized DecisionTree, what evaluating it means, and the static      *)
(* analyses of its subtrees that code generation rests on: the pre-order   *)
(* node list of a subtree (DecisionSubtreeRef), its evaluation paths       *)
(* (CGEvaluationPathsBuilder) and the condition vectors under which a path *)
(* is taken (CGConditionVectorVariationsBuilder).                          *)
(*                                                                         *)
(* A condition vector, an integer in the code, is the set of its one bits. *)
(* Bit offset i of the code is position i + 1 of the pre-order node list.  *)
(***************************************************************************)
EXTENDS Integers, Sequences, FiniteSets

CONSTANTS
  Levels,      \* DecisionTree::Levels, the number of levels above the results
  Tree,        \* DecisionTree::Nodes: node index -> record of the node's fields
  Depth,       \* the level every node sits on, results on level Levels
  DataSets,    \* the data sets a caller may pass: feature index -> value
  NoNode,      \* DecisionTreeNode::NoNodeIdx
  NoFeature,   \* DecisionTreeNode::NoFeatureIdx
  NaN          \* a quiet NaN, the bias of a defaulted node

Nodes == DOMAIN Tree
Root == 0                                 \* getRootNodeIdx
MaxSubtreeLevels == 4                     \* asserted by DecisionSubtreeRef

-----------------------------------------------------------------------------
(* DecisionTreeNode *)

HasLeftChild(n) == Tree[n].falseChild # NoNode
HasRightChild(n) == Tree[n].trueChild # NoNode
IsLeaf(n) == ~HasLeftChild(n) /\ ~HasRightChild(n)

IsImplicit(n) ==
  /\ Tree[n].bias = NaN /\ Tree[n].feature = NoFeature
  /\ Tree[n].trueChild = NoNode /\ Tree[n].falseChild = NoNode
  /\ n # NoNode

\* The ordered float comparison: `>`, fcmp ogt and _CMP_GT_OS are false on NaN.
Greater(x, y) == x # NaN /\ y # NaN /\ x > y

\* NodeEvaluation::ContinueOneRight is the outcome of node n on data set ds.
GoesRight(n, ds) == Greater(ds[Tree[n].feature], Tree[n].bias)

Child(n, right) == IF right THEN Tree[n].trueChild ELSE Tree[n].falseChild

-----------------------------------------------------------------------------
(* What evaluating the tree on a data set means: from any node, follow the *)
(* outcomes down to an implicit node.                                      *)

Walk(ds) ==
  LET walk[n \in Nodes] ==
        IF IsImplicit(n) THEN n ELSE walk[Child(n, GoesRight(n, ds))]
  IN  walk

Evaluate(ds) == Walk(ds)[Root]

-----------------------------------------------------------------------------
(* DecisionSubtreeRef: the nodes of the k-level subtree below n, pre-order. *)

NoNodes == [n \in Nodes |-> <<>>]

\* Mutant: the results below the last level are not collected.
PreOrderStepInnerOnly(below) ==
  LET collect(c) == IF IsLeaf(c) THEN <<>> ELSE below[c]
  IN  [n \in Nodes |->
         IF IsLeaf(n) THEN <<n>>
         ELSE <<n>> \o collect(Tree[n].falseChild) \o collect(Tree[n].trueChild)]

PreOrderStep(below) ==
  [n \in Nodes |->
     <<n>> \o (IF HasLeftChild(n) THEN below[Tree[n].falseChild] ELSE <<>>)
           \o (IF HasRightChild(n) THEN below[Tree[n].trueChild] ELSE <<>>)]

PreOrder[k \in 0..MaxSubtreeLevels] ==
  IF k = 0 THEN NoNodes ELSE PreOrderStep(PreOrder[k - 1])

\* PowerOf2(k), the number of subtrees that continue below a k-level one.
ContinuationNodeCount[k \in 0..MaxSubtreeLevels] ==
  IF k = 0 THEN 1 ELSE 2 * ContinuationNodeCount[k - 1]

NodeCount(k) == ContinuationNodeCount[k] - 1          \* TreeNodes(k)

\* The assertions of DecisionSubtreeRef's constructor.
SubtreeRefValid(n, k) ==
  /\ ~IsImplicit(n)
  /\ k \in 1..MaxSubtreeLevels
  /\ Len(PreOrder[k][n]) = NodeCount(k)

-----------------------------------------------------------------------------
(* CGEvaluationPath: the continuation node a path ends in and the nodes it *)
(* leaves to the left (zero) and to the right (one).                       *)

PathTo(n) == [dest |-> n, zero |-> {}, one |-> {}]

AddParent(path, n, right) ==
  IF right THEN [path EXCEPT !.one = @ \cup {n}]
           ELSE [path EXCEPT !.zero = @ \cup {n}]

HasNode(path, n) == n \in path.zero \cup path.one \cup {path.dest}

\* CGEvaluationPathsBuilder::recurseToChildNode
RecurseToChildNode(below, n, right) ==
  IF Child(n, right) = NoNode THEN <<>>
  ELSE LET paths == below[Child(n, right)]
       IN  [i \in DOMAIN paths |-> AddParent(paths[i], n, right)]

PathsToSelf == [n \in Nodes |-> <<PathTo(n)>>]

PathsStep(below) ==
  [n \in Nodes |->
     IF IsLeaf(n) THEN <<PathTo(n)>>
     ELSE RecurseToChildNode(below, n, FALSE)
            \o RecurseToChildNode(below, n, TRUE)]

\* CGEvaluationPathsBuilder::buildPathsRecursively, by remaining levels.
Paths[k \in 0..MaxSubtreeLevels] ==
  IF k = 0 THEN PathsToSelf ELSE PathsStep(Paths[k - 1])

\* The assertion of CGEvaluationPathsBuilder::run.
PathsComplete(n, k) == Len(Paths[k][n]) = ContinuationNodeCount[k]

-----------------------------------------------------------------------------
(* CGConditionVectorVariationsBuilder *)

\* Mutant: bit offsets count from the last node of the pre-order.
FixedBitsReversed(path, order) ==
  {i \in DOMAIN order : order[Len(order) + 1 - i] \in path.one}

FixedBits(path, order) == {i \in DOMAIN order : order[i] \in path.one}

VariableBits(path, order) == {i \in DOMAIN order : ~HasNode(path, order[i])}

\* buildVariantsRecursively: the template with any of the offsets set.
Variants(template, offsets) == {template \cup vary : vary \in SUBSET offsets}

\* Every condition vector on which the path is taken.
CaseValues(path, order) ==
  Variants(FixedBits(path, order), VariableBits(path, order))

\* The condition vector that the nodes of a subtree evaluate to at run time.
ConditionVector(ds, order) == {i \in DOMAIN order : GoesRight(order[i], ds)}

-----------------------------------------------------------------------------
(* The trees that compile() accepts. Every tree of DecisionTreeFactory and *)
(* of the tests is perfect: finalize() and the compiler both rely on it.   *)

IsPerfect ==
  /\ Levels \in 1..255
  /\ Root \in Nodes /\ NoNode \notin Nodes
  /\ Depth \in [Nodes -> 0..Levels]
  /\ Depth[Root] = 0
  /\ \A n \in Nodes : Depth[n] = Levels => IsImplicit(n)
  /\ \A n \in Nodes : Depth[n] < Levels =>
       /\ Tree[n].falseChild \in Nodes /\ Depth[Tree[n].falseChild] = Depth[n] + 1
       /\ Tree[n].trueChild \in Nodes /\ Depth[Tree[n].trueChild] = Depth[n] + 1

\* No node is reached in two ways.
IsATree ==
  \A m, n \in {n \in Nodes : Depth[n] < Levels} :
    /\ Tree[m].falseChild # Tree[n].trueChild
    /\ m # n => /\ Tree[m].falseChild # Tree[n].falseChild
                /\ Tree[m].trueChild # Tree[n].trueChild

ASSUME TreeAssumption == IsPerfect /\ IsATree
=============================================================================
