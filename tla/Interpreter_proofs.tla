------------------------- MODULE Interpreter_proofs -------------------------
(***************************************************************************)
(* The interpreter is correct on every perfect tree and for every data     *)
(* set: its loop stays on course and answers what Evaluation promises.     *)
(***************************************************************************)
EXTENDS Interpreter, DecisionTree_proofs

(* The tree Evaluation speaks of is the interpreter's.                     *)
LEMMA SameEvaluate ==
  ASSUME NEW ds
  PROVE  Promise!Evaluate(ds) = Evaluate(ds)
BY DEF Evaluate, Walk, Nodes, Root, IsImplicit, Child, GoesRight, Greater,
  Promise!Evaluate, Promise!Walk, Promise!Nodes, Promise!Root,
  Promise!IsImplicit, Promise!Child, Promise!GoesRight, Promise!Greater

(* The loop's node and answer are always nodes of the tree.                *)
THEOREM TypeCorrect == Spec => []TypeOK
<1>1. Init => TypeOK
  BY TreeAssumption DEF Init, TypeOK, IsPerfect
<1>2. TypeOK /\ [Next]_vars => TypeOK'
  <2> SUFFICES ASSUME TypeOK, [Next]_vars PROVE TypeOK'
    OBVIOUS
  <2>1. CASE \E m \in Methods : Enter(m)
    BY <2>1, NoneAssumption, TreeAssumption DEF TypeOK, Enter, IsPerfect
  <2>2. CASE Advance
    BY <2>2, ChildLevel DEF TypeOK, Advance, Child
  <2>3. CASE AdvanceValueBased
    BY <2>3, ChildLevel DEF TypeOK, AdvanceValueBased
  <2>4. CASE Leave
    BY <2>4 DEF TypeOK, Leave
  <2>5. CASE UNCHANGED vars
    BY <2>5 DEF TypeOK, vars
  <2> QED BY <2>1, <2>2, <2>3, <2>4, <2>5 DEF Next
<1> QED BY <1>1, <1>2, PTL DEF Spec

(* What is left to walk always ends in the result of the whole run.        *)
THEOREM StaysOnCourse == Spec => []OnCourse
<1>1. Init => OnCourse
  BY DEF Init, OnCourse
<1>2. TypeOK /\ OnCourse /\ [Next]_vars => OnCourse'
  <2> SUFFICES ASSUME TypeOK, OnCourse, [Next]_vars PROVE OnCourse'
    OBVIOUS
  <2>1. CASE \E m \in Methods : Enter(m)
    BY <2>1 DEF OnCourse, Enter, Evaluate
  <2>2. CASE Advance
    <3>1. node' = Child(node, GoesRight(node, dataSet))
      BY <2>2 DEF Advance, Child, GoesRight
    <3>2. node \in Nodes /\ ~IsImplicit(node)
      BY <2>2 DEF TypeOK, Advance
    <3> QED BY <2>2, <3>1, <3>2, WalkStep DEF OnCourse, Advance, Evaluate
  <2>3. CASE AdvanceValueBased
    <3>1. node' = Child(node, GoesRight(node, dataSet))
      BY <2>3 DEF AdvanceValueBased
    <3>2. node \in Nodes /\ ~IsImplicit(node)
      BY <2>3 DEF TypeOK, AdvanceValueBased
    <3> QED BY <2>3, <3>1, <3>2, WalkStep DEF OnCourse, AdvanceValueBased, Evaluate
  <2>4. CASE Leave
    BY <2>4 DEF OnCourse, Leave
  <2>5. CASE UNCHANGED vars
    BY <2>5 DEF OnCourse, vars, Evaluate
  <2> QED BY <2>1, <2>2, <2>3, <2>4, <2>5 DEF Next
<1> QED BY <1>1, <1>2, TypeCorrect, PTL DEF Spec

(* Both methods answer a run with the tree's result for its data set: a    *)
(* step of the loop is a stutter of Evaluation, and leaving it is Return.  *)
THEOREM InterpreterImplementsEvaluation == Spec => AnswersRight
<1>1. Init => Promise!Init
  BY DEF Init, Promise!Init
<1>2. TypeOK /\ OnCourse /\ [Next]_vars => [Promise!Next]_(Promise!evaluation)
  <2> SUFFICES ASSUME TypeOK, OnCourse, [Next]_vars
               PROVE  [Promise!Next]_(Promise!evaluation)
    OBVIOUS
  <2> USE DEF Promise!Next, Promise!evaluation
  <2>1. CASE \E m \in Methods : Enter(m)
    BY <2>1 DEF Enter, Promise!Call, TypeOK
  <2>2. CASE Advance
    BY <2>2 DEF Advance
  <2>3. CASE AdvanceValueBased
    BY <2>3 DEF AdvanceValueBased
  <2>4. CASE Leave
    <3>1. dataSet # None /\ node \in Nodes
      BY <2>4 DEF Leave, TypeOK
    <3>2. Walk(dataSet)[node] = node
      BY <2>4, <3>1, WalkStep DEF Leave
    <3>3. answer' = Promise!Evaluate(dataSet)
      BY <2>4, <3>1, <3>2, SameEvaluate DEF Leave, OnCourse
    <3> QED BY <2>4, <3>1, <3>3 DEF Leave, Promise!Return
  <2>5. CASE UNCHANGED vars
    BY <2>5 DEF vars
  <2> QED BY <2>1, <2>2, <2>3, <2>4, <2>5 DEF Next
<1> QED BY <1>1, <1>2, TypeCorrect, StaysOnCourse, PTL DEF Spec, AnswersRight, Promise!Safety
=============================================================================
