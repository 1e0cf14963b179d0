----------------------------- MODULE JitDrivers -----------------------------
(***************************************************************************)
(* Drivers that compile trees just in time, one per thread at a time, as   *)
(* the benchmarks' threads use them: JitDriver::run compiles a tree to a   *)
(* module, submits it to the driver's SimpleOrcJit and looks its function  *)
(* up. Drivers share LLVM's registry of targets, which every constructor   *)
(* sets up under one lock (AutoSetUpTearDownLLVM), and submit modules      *)
(* under another. The function that a run returns is memory of the         *)
(* driver; it is named here by its position among the driver's modules.    *)
(*                                                                         *)
(* What TreeCompiler does is one step here: a module is known by its tree. *)
(***************************************************************************)
EXTENDS CodeGenerators, Sequences, FiniteSets

CONSTANTS
  Threads,
  Trees,           \* records with a field `levels`
  Selectors,       \* what users pass to setCodegenSelector
  MaxRuns,         \* bound on the runs of a driver
  None

ASSUME TreesAssumption == \A tree \in Trees : tree.levels \in 1..255
ASSUME SelectorsAssumption == Selectors \subseteq [1..255 -> Generators]
ASSUME MaxRunsAssumption == MaxRuns \in Nat \ {0}

VARIABLES
  avx,             \* CpuFeatures["avx"] of the host
  pc,              \* where each thread is in its driver's code
  setUpLock,       \* the thread that holds NoRaceInGlobalInit
  submitLock,      \* the thread that holds SubmitModuleMutex
  registry,        \* llvm::Target, per target; and
  firstTarget,     \* the list of them, linked by Next
  unregistered,    \* the targets a set-up has still to register
  selector,        \* the selector of each thread's driver
  tree,            \* the tree each thread's run compiles
  modules,         \* the module sets of each thread's JitBackend
  results,         \* the JitCompileResults each thread holds
  exited           \* the thread that has ended the process

jitVars == <<avx, pc, setUpLock, submitLock, registry, firstTarget,
             unregistered, selector, tree, modules, results, exited>>

setUpVars == <<setUpLock, registry, firstTarget, unregistered>>
driverVars == <<submitLock, selector, tree, modules, results>>

Goto(t, step) == pc' = [pc EXCEPT ![t] = step]

-----------------------------------------------------------------------------
(* LLVM's registry of targets                                              *)

Targets == <<"x86", "x86-64">>         \* registered by InitializeNativeTarget
Native == "x86-64"
TargetNames == {"x86", "x86-64"}

ASSUME NoneAssumption ==
  /\ None \notin Threads /\ None \notin Trees /\ None \notin TargetNames
  /\ None \notin Selectors /\ None # DefaultSelector

EmptyRegistry ==
  [target \in TargetNames |-> [name |-> FALSE, next |-> None, asmPrinter |-> FALSE]]

\* The targets that a lookup meets in its first n steps from a target.
NothingReached == [from \in TargetNames \cup {None} |-> <<>>]

ReachedStep(below) ==
  [from \in TargetNames \cup {None} |->
     IF from = None THEN <<>> ELSE <<from>> \o below[registry[from].next]]

Reached[n \in 0..Len(Targets) + 1] ==
  IF n = 0 THEN NothingReached ELSE ReachedStep(Reached[n - 1])

TargetList == Reached[Len(Targets) + 1][firstTarget]

-----------------------------------------------------------------------------
(* AutoSetUpTearDownLLVM: the first member a driver constructs             *)

\* Mutant: a lock of each driver's own, static forgotten.
LockSetUpOwn(t) ==
  /\ pc[t] = "outside"
  /\ setUpLock' = t
  /\ unregistered' = [unregistered EXCEPT ![t] = Targets]
  /\ Goto(t, "register")
  /\ UNCHANGED <<avx, registry, firstTarget, driverVars, exited>>

LockSetUp(t) ==
  /\ pc[t] = "outside" /\ setUpLock = None
  /\ setUpLock' = t
  /\ unregistered' = [unregistered EXCEPT ![t] = Targets]
  /\ Goto(t, "register")
  /\ UNCHANGED <<avx, registry, firstTarget, driverVars, exited>>

\* TargetRegistry::RegisterTarget returns if the target has a name...
CheckTarget(t) ==
  /\ pc[t] = "register" /\ unregistered[t] # <<>>
  /\ IF registry[Head(unregistered[t])].name
     THEN /\ unregistered' = [unregistered EXCEPT ![t] = Tail(@)]
          /\ UNCHANGED pc
     ELSE Goto(t, "link") /\ UNCHANGED unregistered
  /\ UNCHANGED <<avx, setUpLock, registry, firstTarget, driverVars, exited>>

\* ...and puts it in front of the list otherwise.
LinkTarget(t) ==
  /\ pc[t] = "link"
  /\ LET target == Head(unregistered[t])
     IN  /\ registry' = [registry EXCEPT ![target].name = TRUE,
                                         ![target].next = firstTarget]
         /\ firstTarget' = target
  /\ unregistered' = [unregistered EXCEPT ![t] = Tail(@)]
  /\ Goto(t, "register")
  /\ UNCHANGED <<avx, setUpLock, driverVars, exited>>

\* InitializeNativeTargetAsmPrinter, unconditionally.
RegisterAsmPrinter(t) ==
  /\ pc[t] = "register" /\ unregistered[t] = <<>>
  /\ registry' = [target \in TargetNames |-> [registry[target] EXCEPT !.asmPrinter = TRUE]]
  /\ Goto(t, "selectTarget")
  /\ UNCHANGED <<avx, setUpLock, firstTarget, unregistered, driverVars, exited>>

\* selectTarget, the end of the set-up and of the driver's constructor.
SelectTarget(t) ==
  /\ pc[t] = "selectTarget"
  /\ Cardinality({i \in DOMAIN TargetList : TargetList[i] = Native}) = 1
  /\ setUpLock' = None
  /\ Goto(t, "ready")
  /\ UNCHANGED <<avx, registry, firstTarget, unregistered, driverVars, exited>>

-----------------------------------------------------------------------------
(* JitDriver and SimpleOrcJit                                              *)

SetSelector(t, s) ==
  /\ pc[t] = "ready"
  /\ selector' = [selector EXCEPT ![t] = s]
  /\ UNCHANGED <<avx, pc, setUpVars, submitLock, tree, modules, results, exited>>

\* JitDriver::run up to submitModule; a selector that does not fit the tree
\* makes compile() abort.
CompileTree(t, newTree) ==
  /\ pc[t] = "ready"
  /\ LET chosen == IF selector[t] = None THEN DefaultSelector ELSE selector[t]
     IN  /\ UsesUp(chosen, newTree.levels, 4)
         /\ selector' = [selector EXCEPT ![t] = chosen]
  /\ tree' = [tree EXCEPT ![t] = newTree]
  /\ Goto(t, "submit")
  /\ UNCHANGED <<avx, setUpVars, submitLock, modules, results, exited>>

LockSubmit(t) ==
  /\ pc[t] = "submit" /\ submitLock = None
  /\ submitLock' = t
  /\ Goto(t, "optimize")
  /\ UNCHANGED <<avx, setUpVars, selector, tree, modules, results, exited>>

\* optimizeModule, which leaves the function's meaning alone.
OptimizeModule(t) ==
  /\ pc[t] = "optimize"
  /\ Goto(t, "compile")
  /\ UNCHANGED <<avx, setUpVars, driverVars, exited>>

CanSelect(t) == UsesAvx(selector[t], tree[t].levels) => avx

\* The rest of addModuleSet compiles the module to an object.
AddModuleSet(t) ==
  /\ pc[t] = "compile" /\ CanSelect(t)
  /\ modules' = [modules EXCEPT ![t] = Append(@, [tree |-> tree[t], final |-> FALSE])]
  /\ Goto(t, "finalize")
  /\ UNCHANGED <<avx, setUpVars, submitLock, selector, tree, results, exited>>

\* LLVM cannot select AVX instructions for a host without, and exits.
CannotSelect(t) ==
  /\ pc[t] = "compile" /\ ~CanSelect(t)
  /\ exited' = t
  /\ UNCHANGED <<avx, pc, setUpVars, driverVars>>

\* Links the module with the given position, which is done once.
Finalized(moduleSets, handle) == [moduleSets EXCEPT ![handle].final = TRUE]

\* Mutant: the module is left to be linked when it is looked up.
FinalizeLater(t) ==
  /\ pc[t] = "finalize"
  /\ submitLock' = None
  /\ Goto(t, "lookup")
  /\ UNCHANGED <<avx, setUpVars, selector, tree, modules, results, exited>>

\* Mutant: the lock is not released.
FinalizeLocked(t) ==
  /\ pc[t] = "finalize"
  /\ modules' = [modules EXCEPT ![t] = Finalized(@, Len(@))]
  /\ Goto(t, "lookup")
  /\ UNCHANGED <<avx, setUpVars, submitLock, selector, tree, results, exited>>

\* emitAndFinalize, the end of submitModule.
EmitAndFinalize(t) ==
  /\ pc[t] = "finalize"
  /\ modules' = [modules EXCEPT ![t] = Finalized(@, Len(@))]
  /\ submitLock' = None
  /\ Goto(t, "lookup")
  /\ UNCHANGED <<avx, setUpVars, selector, tree, results, exited>>

\* Mutant: getFnPtr, which looks for the name in all modules: all have it.
FindByName(moduleSets, handle) == 1

\* findSymbolIn: the function "EvaluatorFunction" of the module submitted.
FindIn(moduleSets, handle) == handle

\* getFnPtrIn, which takes the address and thereby links a module that is not
\* linked yet, and the JitCompileResult.
GetFnPtr(t) ==
  /\ pc[t] = "lookup"
  /\ LET fn == FindIn(modules[t], Len(modules[t]))
     IN  /\ modules' = [modules EXCEPT ![t] = Finalized(@, fn)]
         /\ results' = [results EXCEPT ![t] = Append(@, [tree |-> tree[t], fn |-> fn])]
  /\ tree' = [tree EXCEPT ![t] = None]
  /\ Goto(t, "ready")
  /\ UNCHANGED <<avx, setUpVars, submitLock, selector, exited>>

\* The end of the scope of the results a thread holds: the driver's, or one
\* inside of it, after which the driver may run again.
DropResults(t) ==
  /\ pc[t] = "ready" /\ results[t] # <<>>
  /\ results' = [results EXCEPT ![t] = <<>>]
  /\ UNCHANGED <<avx, pc, setUpVars, submitLock, selector, tree, modules, exited>>

\* A driver's modules go with it, whatever still points to their functions.
DestroyDriver(t) ==
  /\ pc[t] = "ready"
  /\ modules' = [modules EXCEPT ![t] = <<>>]
  /\ selector' = [selector EXCEPT ![t] = None]
  /\ Goto(t, "outside")
  /\ UNCHANGED <<avx, setUpVars, submitLock, tree, results, exited>>

\* Mutant: the results are declared before the driver.
LeaveDriverScopeFirst(t) == DestroyDriver(t)

\* Nothing in a driver knows of its results; it outlives them because all users
\* declare it before them.
LeaveDriverScope(t) == results[t] = <<>> /\ DestroyDriver(t)

-----------------------------------------------------------------------------

JitInit ==
  /\ avx \in BOOLEAN
  /\ pc = [t \in Threads |-> "outside"]
  /\ setUpLock = None /\ submitLock = None
  /\ registry = EmptyRegistry /\ firstTarget = None
  /\ unregistered = [t \in Threads |-> <<>>]
  /\ selector = [t \in Threads |-> None]
  /\ tree = [t \in Threads |-> None]
  /\ modules = [t \in Threads |-> <<>>]
  /\ results = [t \in Threads |-> <<>>]
  /\ exited = None

\* What goes on without the user: the rest of a constructor or of a run.
Continue(t) ==
  \/ CheckTarget(t) \/ LinkTarget(t) \/ RegisterAsmPrinter(t) \/ SelectTarget(t)
  \/ LockSubmit(t) \/ OptimizeModule(t) \/ AddModuleSet(t) \/ CannotSelect(t)
  \/ EmitAndFinalize(t) \/ GetFnPtr(t)

Use(t) ==
  \/ LockSetUp(t)
  \/ \E s \in Selectors : SetSelector(t, s)
  \/ Len(modules[t]) < MaxRuns /\ \E newTree \in Trees : CompileTree(t, newTree)
  \/ DropResults(t) \/ LeaveDriverScope(t)

Exited == exited # None /\ UNCHANGED jitVars

JitNext ==
  \/ exited = None /\ \E t \in Threads : Continue(t) \/ Use(t)
  \/ Exited

JitSpec == JitInit /\ [][JitNext]_jitVars

-----------------------------------------------------------------------------
(* Properties *)

Steps == {"outside", "register", "link", "selectTarget", "ready", "submit",
          "optimize", "compile", "finalize", "lookup"}

JitTypeOK ==
  /\ avx \in BOOLEAN
  /\ pc \in [Threads -> Steps]
  /\ {setUpLock, submitLock, exited} \subseteq Threads \cup {None}
  /\ registry \in [TargetNames -> [name : BOOLEAN, next : TargetNames \cup {None},
                                   asmPrinter : BOOLEAN]]
  /\ firstTarget \in TargetNames \cup {None}
  /\ unregistered \in [Threads -> Seq(TargetNames)]
  /\ selector \in [Threads -> Selectors \cup {DefaultSelector, None}]
  /\ tree \in [Threads -> Trees \cup {None}]
  /\ modules \in [Threads -> Seq([tree : Trees, final : BOOLEAN])]
  /\ results \in [Threads -> Seq([tree : Trees, fn : 1..MaxRuns])]
  /\ \A t \in Threads : tree[t] # None <=>
       pc[t] \in {"submit", "optimize", "compile", "finalize", "lookup"}

(* Drivers set up on several threads leave the registry's list intact: it  *)
(* ends, and has every registered target once. Without the lock two of     *)
(* them link the same target, it becomes its own successor and no lookup   *)
(* ends (AutoSetUpTearDownLLVM.cpp:10). And whoever compiles a module has  *)
(* everything registered that compiling needs, although other threads may  *)
(* be setting up meanwhile, under a lock that submitModule does not take.  *)
RegistryIntact ==
  /\ Len(TargetList) = Cardinality({target \in TargetNames : registry[target].name})
  /\ \A i, j \in DOMAIN TargetList : i # j => TargetList[i] # TargetList[j]
  /\ \A t \in Threads : pc[t] = "compile" =>
       \E i \in DOMAIN TargetList :
         TargetList[i] = Native /\ registry[Native].asmPrinter

(* A result can be called as long as it exists: its function is linked     *)
(* code of a driver that is still there, however often that driver runs    *)
(* and whichever scope ends first, and evaluates the result's tree and no  *)
(* other, although all modules call their function the same                *)
(* (JitDriver.h:42, SimpleOrcJit.h:41-44).                                 *)
ResultsCallable ==
  \A t \in Threads : \A i \in DOMAIN results[t] :
    LET result == results[t][i]
    IN  /\ result.fn \in DOMAIN modules[t]
        /\ modules[t][result.fn].final
        /\ modules[t][result.fn].tree = result.tree

(* Code is generated and linked under the submission lock only: getFnPtrIn,*)
(* which takes no lock, finds nothing left to link (SimpleOrcJit.cpp:136). *)
EmittedUnderLock ==
  [][\A t \in Threads : \A i \in DOMAIN modules'[t] :
       i \notin DOMAIN modules[t] \/ modules[t][i] # modules'[t][i]
         => submitLock = t]_jitVars

(* CodeGeneratorSelector.cpp:13 wants AVX support for the AVX generator:   *)
(* the default selector makes no run end the process on a host without.    *)
DefaultSelectorFitsHost == exited # None => selector[exited] # DefaultSelector
=============================================================================
