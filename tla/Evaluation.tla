----------------------------- MODULE Evaluation -----------------------------
(***************************************************************************)
(* What every evaluator of a decision tree promises its caller, be it the  *)
(* interpreter or the function the compiler generates: a call with a data  *)
(* set is answered with the result node that the tree assigns to it.       *)
(***************************************************************************)
EXTENDS DecisionTree

CONSTANT None        \* no call in progress, or no answer yet

VARIABLES
  request,           \* the data set of the call in progress
  answer             \* what the last call returned, once it has

evaluation == <<request, answer>>

Init == request = None /\ answer = None

Call == \E ds \in DataSets :
  /\ request = None
  /\ request' = ds /\ answer' = None

Return ==
  /\ request # None
  /\ answer' = Evaluate(request)
  /\ request' = None

Next == Call \/ Return

\* Answers are right; and calls return.
Safety == Init /\ [][Next]_evaluation
Spec == Safety /\ WF_evaluation(Return)
=============================================================================
