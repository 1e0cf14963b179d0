---------------------------- MODULE Interpreter -----------------------------
(***************************************************************************)
(* Interpreter::run and Interpreter::runValueBased: a loop that follows    *)
(* the tree node by node. The two differ in what they hold, a pointer into *)
(* the tree's node map or a copy of the node, and in how they name the     *)
(* child; both end in the index of an implicit node.                       *)
(***************************************************************************)
EXTENDS DecisionTree

CONSTANT None        \* no run in progress, or no answer yet

VARIABLES
  method,            \* the method that runs, "run" or "runValueBased"
  dataSet,           \* the dataSet argument of the run in progress
  node,              \* nodePtr or node: index of the node the loop is at
  answer             \* what the last run returned, once it has

vars == <<method, dataSet, node, answer>>

Methods == {"run", "runValueBased"}

ASSUME NoneAssumption == None \notin DataSets /\ None \notin Methods

TypeOK ==
  /\ method \in Methods \cup {None}
  /\ dataSet \in DataSets \cup {None}
  /\ node \in Nodes
  /\ answer \in Nodes \cup {None}
  /\ (method = None) <=> (dataSet = None)

Init == method = None /\ dataSet = None /\ node = Root /\ answer = None

Enter(m) == \E ds \in DataSets :
  /\ method = None
  /\ method' = m /\ dataSet' = ds
  /\ node' = Root /\ answer' = None

\* Mutant: a NaN, not being less or equal, goes right.
AdvanceNaNRight ==
  /\ method = "run" /\ ~IsImplicit(node)
  /\ LET value == dataSet[Tree[node].feature]
         lessOrEqual == value # NaN /\ value <= Tree[node].bias
     IN  node' = IF lessOrEqual THEN Tree[node].falseChild ELSE Tree[node].trueChild
  /\ UNCHANGED <<method, dataSet, answer>>

\* Mutant: a turn picks a child for `>` and for `<`, and none for a NaN.
AdvanceThreeWay ==
  /\ method = "run" /\ ~IsImplicit(node)
  /\ LET value == dataSet[Tree[node].feature]
     IN  node' = IF value = NaN THEN node ELSE Child(node, GoesRight(node, dataSet))
  /\ UNCHANGED <<method, dataSet, answer>>

\* One turn of run's loop: getNodePtr of the child index picked by value.
Advance ==
  /\ method = "run" /\ ~IsImplicit(node)
  /\ node' = IF Greater(dataSet[Tree[node].feature], Tree[node].bias)
             THEN Tree[node].trueChild ELSE Tree[node].falseChild
  /\ UNCHANGED <<method, dataSet, answer>>

\* Mutant: the outcomes are swapped.
AdvanceValueBasedSwapped ==
  /\ method = "runValueBased" /\ ~IsImplicit(node)
  /\ LET eval == ~GoesRight(node, dataSet)
     IN  node' = Child(node, eval)
  /\ UNCHANGED <<method, dataSet, answer>>

\* One turn of runValueBased's loop: getChildNodeFor of a NodeEvaluation.
AdvanceValueBased ==
  /\ method = "runValueBased" /\ ~IsImplicit(node)
  /\ LET eval == GoesRight(node, dataSet)
     IN  node' = Child(node, eval)
  /\ UNCHANGED <<method, dataSet, answer>>

\* Mutant: the data set outlives the run.
LeaveKeepingDataSet ==
  /\ method # None /\ IsImplicit(node)
  /\ answer' = node
  /\ method' = None
  /\ UNCHANGED <<dataSet, node>>

Leave ==
  /\ method # None /\ IsImplicit(node)
  /\ answer' = node
  /\ method' = None /\ dataSet' = None
  /\ UNCHANGED node

Next == \/ \E m \in Methods : Enter(m)
        \/ Advance \/ AdvanceValueBased \/ Leave

Fairness == WF_vars(Advance) /\ WF_vars(AdvanceValueBased) /\ WF_vars(Leave)

Spec == Init /\ [][Next]_vars /\ Fairness

-----------------------------------------------------------------------------
(* The loop never leaves the path of its data set: wherever it is, what is *)
(* left to walk ends in the result of the whole run. Refused by a loop     *)
(* that swaps children, reads a wrong feature or starts below the root.    *)
OnCourse ==
  dataSet # None => Walk(dataSet)[node] = Evaluate(dataSet)

(* Both methods implement the evaluator that Evaluation promises: a run    *)
(* returns the tree's result for the data set it was given...              *)
Promise == INSTANCE Evaluation WITH request <- dataSet
AnswersRight == Promise!Safety

(* ...and every run returns, for the loop goes down the tree.              *)
RunsReturn == dataSet # None ~> dataSet = None
=============================================================================
