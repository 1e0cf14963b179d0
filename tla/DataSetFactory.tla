--------------------------- MODULE DataSetFactory ---------------------------
(***************************************************************************)
(* DataSetFactory::makeDistinctDataSet: a data set that takes an evaluator *)
(* down a given path, the outcome at each level being an argument. The     *)
(* recursion, one argument at a time, is a step per argument.              *)
(*                                                                         *)
(* The fraction of 0.01 is one unit of the biases: a feature is compared   *)
(* with the bias of its own node only, so that its sign decides.           *)
(***************************************************************************)
EXTENDS DecisionTree

CONSTANTS
  Features,        \* the size of the data sets
  MaxEvals,        \* bound on the number of arguments
  None

ASSUME MaxEvalsAssumption == MaxEvals \in Nat \ {0}

\* The nodes that read a feature read one of their own, inside the data set,
\* and compare it with a number; results read none.
ASSUME DistinctAssumption ==
  /\ \A m, n \in {n \in Nodes : Depth[n] < Levels} :
       /\ Tree[n].feature \in 0..Features - 1
       /\ Tree[n].bias \in Int
       /\ m # n => Tree[m].feature # Tree[n].feature
  /\ NoFeature \notin 0..Features - 1 /\ NaN \notin Int

ASSUME NoneAssumption ==
  None \notin Nodes /\ None \notin {"returned", "aborted", "undefined"}

VARIABLES
  evals,           \* the arguments: whether to go right, per level
  taken,           \* how many of them are consumed
  node,            \* the node of the recursion
  ds,              \* the data set, feature -> value
  outcome          \* how the call ended

vars == <<evals, taken, node, ds, outcome>>

Init ==
  /\ evals = <<>> /\ taken = 0 /\ node = None
  /\ ds = None /\ outcome = None

\* The call; NodeEvaluation l1 makes one argument the least. A call that was
\* aborted or undefined is the last one.
MakeDistinctDataSet(args) ==
  /\ node = None /\ outcome \in {None, "returned"}
  /\ evals' = args /\ taken' = 0
  /\ node' = Root
  /\ ds' = [feature \in 0..Features - 1 |-> 0]
  /\ outcome' = None

\* Mutant: a right turn gets no fraction.
AdjustedBiasTie(n, right) == IF right THEN Tree[n].bias ELSE Tree[n].bias - 1

\* getAdjustedBias
AdjustedBias(n, right) == IF right THEN Tree[n].bias + 1 ELSE Tree[n].bias - 1

Done(how) ==
  /\ outcome' = how /\ node' = None
  /\ UNCHANGED <<evals, taken>>

\* Mutant: the recursion goes on with the same node.
FillDataSetStaying ==
  LET right == evals[taken + 1]
      feature == Tree[node].feature
  IN  /\ node # None /\ taken < Len(evals)
      /\ feature \in DOMAIN ds
      /\ ds' = [ds EXCEPT ![feature] = AdjustedBias(node, right)]
      /\ taken' = taken + 1
      /\ UNCHANGED <<evals, node, outcome>>

\* fillDataSetRecursively with arguments left. (A node of a perfect tree that
\* reads a feature has both children.)
FillDataSet ==
  LET right == evals[taken + 1]
      feature == Tree[node].feature
  IN  /\ node # None /\ taken < Len(evals)
      /\ feature \in DOMAIN ds
      /\ ds' = [ds EXCEPT ![feature] = AdjustedBias(node, right)]
      /\ taken' = taken + 1
      /\ node' = Child(node, right)
      /\ UNCHANGED <<evals, outcome>>

\* The same for a result: ds[0xFFFFFFFF] is written, and hasChildFor asserted
\* afterwards. Memory outside of the data set is lost, or the write faults.
WriteOutside ==
  /\ node # None /\ taken < Len(evals)
  /\ Tree[node].feature \notin DOMAIN ds
  /\ Done("undefined") /\ UNCHANGED ds

\* Mutant: without its assertion.
EndRecursionAnywhere ==
  /\ node # None /\ taken = Len(evals)
  /\ Done("returned")
  /\ UNCHANGED ds

\* fillDataSetRecursively without arguments: the last node is asserted implicit.
EndRecursion ==
  /\ node # None /\ taken = Len(evals)
  /\ Done(IF IsImplicit(node) THEN "returned" ELSE "aborted")
  /\ UNCHANGED ds

ArgumentLists == UNION {[1..length -> BOOLEAN] : length \in 1..MaxEvals}

Next ==
  \/ \E args \in ArgumentLists : MakeDistinctDataSet(args)
  \/ FillDataSet \/ WriteOutside \/ EndRecursion

Spec == Init /\ [][Next]_vars

-----------------------------------------------------------------------------
(* Properties *)

TypeOK ==
  /\ evals \in ArgumentLists \cup {<<>>}
  /\ taken \in 0..Len(evals)
  /\ node \in Nodes \cup {None}
  /\ ds = None \/ DOMAIN ds = 0..Features - 1
  /\ outcome \in {None, "returned", "aborted", "undefined"}
  /\ node # None => Depth[node] = taken

Destination ==
  LET at[i \in 0..Len(evals)] == IF i = 0 THEN Root ELSE Child(at[i - 1], evals[i])
  IN  at[Len(evals)]

(* The data set takes an evaluator to the node that the arguments lead to, *)
(* though every feature was written without a look at the others, and the  *)
(* evaluator takes a tie to the left (DataSetFactory.h:57-60).     *)
SteersToDestination == outcome = "returned" => Evaluate(ds) = Destination

(* Only a path of the tree's length makes a data set. The assertions catch *)
(* one that is too short; one that is too long has written outside of the  *)
(* data set before its assertion is reached (DataSetFactory.h:46-48).      *)
LengthDecides ==
  /\ outcome = "returned" => Len(evals) = Levels
  /\ outcome = "aborted" => Len(evals) < Levels
  /\ outcome = "undefined" => Len(evals) > Levels
=============================================================================
