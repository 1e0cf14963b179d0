------------------------- MODULE CompiledEvaluator --------------------------
(***************************************************************************)
(* The function that compile() generates, called the way JitDriver's       *)
(* clients call it: one thread compiles a tree, then evaluates data sets,  *)
(* and may set another selector and compile the tree again. A step of the  *)
(* function is a basic block: its store to the result variable and its     *)
(* first terminator. There is no step for an unreachable: what it does is  *)
(* undefined, and OnCourse says that no call gets to one.                  *)
(***************************************************************************)
EXTENDS TreeCompiler

VARIABLES
  request,           \* the InputDataSetPtr of the call in progress
  at,                \* the basic block about to be executed
  out,               \* the result variable that allocOutputVal allocates
  answer             \* what the last call returned, once it has

functionVars == <<request, at, out, answer>>
vars == <<selector, phase, remaining, codegen, roots, next, code, result,
          request, at, out, answer>>

FunctionInit ==
  request = None /\ at = Exit /\ out = 0 /\ answer = None

\* The value of a leaf subtree's table, or of a connected endpoint.
Stored(val) ==
  IF val.op = "const" THEN val.node ELSE val.data[ConditionVector(request, val.order)]

Executing == request # None
Terminator == Head(result.code[at].terms)

\* Mutant: the result variable is not initialized.
CallUninitialized == \E ds \in DataSets :
  /\ Idle /\ result # None /\ request = None
  /\ request' = ds
  /\ at' = Entry /\ out' = NoNode /\ answer' = None
  /\ UNCHANGED compilerVars

Call == \E ds \in DataSets :
  /\ Idle /\ result # None /\ request = None
  /\ request' = ds
  /\ at' = Entry /\ out' = 0 /\ answer' = None
  /\ UNCHANGED compilerVars

Store ==
  out' = IF result.code[at].store = None THEN out ELSE Stored(result.code[at].store)

ExecuteBr ==
  /\ Executing /\ Terminator.op = "br"
  /\ Store
  /\ at' = Terminator.to
  /\ UNCHANGED <<compilerVars, request, answer>>

ExecuteCondBr ==
  /\ Executing /\ Terminator.op = "condbr"
  /\ Store
  /\ at' = IF GoesRight(Terminator.node, request)
           THEN Terminator.right ELSE Terminator.left
  /\ UNCHANGED <<compilerVars, request, answer>>

ExecuteSwitch ==
  /\ Executing /\ Terminator.op = "switch"
  /\ Store
  /\ LET vector == ConditionVector(request, Terminator.order)
         hits == {i \in DOMAIN Terminator.cases : vector \in Terminator.cases[i].labels}
     IN  IF hits = {} THEN at' = Terminator.default
         ELSE \E i \in hits : at' = Terminator.cases[i].target
  /\ UNCHANGED <<compilerVars, request, answer>>

ExecuteRet ==
  /\ Executing /\ Terminator.op = "ret"
  /\ answer' = out
  /\ request' = None
  /\ UNCHANGED <<compilerVars, at, out>>

Execute ==
  \/ ExecuteBr \/ ExecuteCondBr \/ ExecuteSwitch \/ ExecuteRet

CompilerStep == request = None /\ Next /\ UNCHANGED functionVars

EvaluatorInit == Init /\ FunctionInit
EvaluatorNext == CompilerStep \/ Call \/ Execute

EvaluatorSpec ==
  /\ EvaluatorInit /\ [][EvaluatorNext]_vars
  /\ WF_vars(request = None /\ Compile /\ UNCHANGED functionVars) /\ WF_vars(Execute)

-----------------------------------------------------------------------------
(* Properties *)

FunctionTypeOK ==
  /\ TypeOK
  /\ request \in DataSets \cup {None}
  /\ out \in Nodes /\ answer \in Nodes \cup {None}
  /\ request # None => at \in DOMAIN result.code

(* The function never leaves the tree's path for the data set: in a block  *)
(* that evaluates a node, the node still leads to the tree's result; in a  *)
(* block on the way out, the result variable holds it; and the default     *)
(* block of a switch is never entered (LXSubtreeSwitch.cpp:53-56).         *)
OnCourse ==
  request # None =>
    /\ at[1] \in EvalKinds => Walk(request)[Subject(at)] = Evaluate(request)
    /\ at[1] \notin EvalKinds => at[1] # "default" /\ out = Evaluate(request)

(* Compiled code keeps the promise of an evaluator: a call is answered with *)
(* the node the interpreter finds, whatever selector the tree was compiled *)
(* with, if compilation did not abort...                                   *)
Promise == INSTANCE Evaluation
AnswersRight == Promise!Safety

(* ...and every call returns.                                              *)
CallsReturn == request # None ~> request = None
=============================================================================
