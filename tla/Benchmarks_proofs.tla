-------------------------- MODULE Benchmarks_proofs -------------------------
(***************************************************************************)
(* First JitDrivers: drivers on any number of threads, with any trees and  *)
(* selectors, leave LLVM's registry intact, return results that can be     *)
(* called, and emit code under the submission lock only. Then the          *)
(* benchmark program that uses them, with any number of threads, features, *)
(* data sets and draws: its threads only read what they share, and call    *)
(* evaluators that fit. Last the trees that these compile and call with,   *)
(* of up to 63 levels: finalize adds to the map it iterates over, misses   *)
(* no result (TreeBuilder), and what the factories make is what all other  *)
(* modules assume of a tree (TreeFactory).                                 *)
(***************************************************************************)
EXTENDS Benchmarks, TreeBuilder, SequenceTheorems, FiniteSetTheorems,
        WellFoundedInduction, TLAPS

(* What is true whenever the user's or another thread may take a step: who *)
(* holds which lock,                                                       *)
SettingUp(t) == pc[t] \in {"register", "link", "selectTarget"}
Submitting(t) == pc[t] \in {"optimize", "compile", "finalize"}

LocksHeld ==
  \A t \in Threads : /\ SettingUp(t) <=> setUpLock = t
                     /\ Submitting(t) <=> submitLock = t

(* ...that the registry is a list of the targets registered so far,        *)
RegistryShape ==
  LET named(target) == registry[target].name
  IN  /\ named("x86-64") => named("x86")
      /\ firstTarget = IF named("x86-64") THEN "x86-64"
                       ELSE IF named("x86") THEN "x86" ELSE None
      /\ registry["x86-64"].next = IF named("x86-64") THEN "x86" ELSE None
      /\ registry["x86"].next = None

(* ...how far every driver's set-up has got,                               *)
SetUpProgress ==
  \A t \in Threads :
    /\ pc[t] = "register" => unregistered[t] \in {Targets, <<"x86-64">>, <<>>}
    /\ pc[t] = "link" => /\ unregistered[t] \in {Targets, <<"x86-64">>}
                         /\ ~registry[Head(unregistered[t])].name
    /\ SettingUp(t) /\ unregistered[t] # Targets => registry["x86"].name
    /\ pc[t] # "outside" /\ unregistered[t] = <<>> => registry[Native].name
    /\ pc[t] \notin {"outside", "register", "link"} =>
         unregistered[t] = <<>> /\ registry[Native].asmPrinter

(* ...and which modules a driver has, linked but for the one in work.      *)
ModulesLinked ==
  \A t \in Threads :
    /\ pc[t] = "outside" \/ SettingUp(t) => modules[t] = <<>> /\ results[t] = <<>>
    /\ Len(modules[t]) <= MaxRuns
    /\ pc[t] \in {"submit", "optimize", "compile"} => Len(modules[t]) < MaxRuns
    /\ pc[t] \in {"finalize", "lookup"} =>
         Len(modules[t]) > 0 /\ modules[t][Len(modules[t])].tree = tree[t]
    /\ \A i \in DOMAIN modules[t] :
         ~modules[t][i].final => pc[t] = "finalize" /\ i = Len(modules[t])

JitInv ==
  /\ JitTypeOK /\ LocksHeld /\ RegistryShape /\ SetUpProgress
  /\ ModulesLinked /\ ResultsCallable

(* Every step of a thread: its driver's own, or one that its user asks for. *)
ThreadStep(t) == Continue(t) \/ Use(t)

-----------------------------------------------------------------------------
(* The steps preserve the parts of the invariant                           *)

(* Either lock is taken and given back by the thread that holds it.        *)
LEMMA LocksHeldStep ==
  ASSUME JitTypeOK, LocksHeld, NEW t \in Threads, ThreadStep(t)
  PROVE  LocksHeld'
<1> USE NoneAssumption DEF JitTypeOK, LocksHeld, SettingUp, Submitting, Goto, Steps,
      setUpVars, driverVars
<1>1. CASE LockSetUp(t)
  BY <1>1 DEF LockSetUp
<1>2. CASE CheckTarget(t)
  BY <1>2 DEF CheckTarget
<1>3. CASE LinkTarget(t)
  BY <1>3 DEF LinkTarget
<1>4. CASE RegisterAsmPrinter(t)
  BY <1>4 DEF RegisterAsmPrinter
<1>5. CASE SelectTarget(t)
  BY <1>5 DEF SelectTarget
<1>6. CASE \E s \in Selectors : SetSelector(t, s)
  BY <1>6 DEF SetSelector
<1>7. CASE \E newTree \in Trees : CompileTree(t, newTree)
  BY <1>7 DEF CompileTree
<1>8. CASE LockSubmit(t)
  BY <1>8 DEF LockSubmit
<1>9. CASE OptimizeModule(t)
  BY <1>9 DEF OptimizeModule
<1>10. CASE AddModuleSet(t)
  BY <1>10 DEF AddModuleSet
<1>11. CASE CannotSelect(t)
  BY <1>11 DEF CannotSelect
<1>12. CASE EmitAndFinalize(t)
  BY <1>12 DEF EmitAndFinalize
<1>13. CASE GetFnPtr(t)
  BY <1>13 DEF GetFnPtr
<1>14. CASE DropResults(t)
  BY <1>14 DEF DropResults
<1>15. CASE LeaveDriverScope(t)
  BY <1>15 DEF LeaveDriverScope, DestroyDriver
<1> QED
  BY <1>1, <1>2, <1>3, <1>4, <1>5, <1>6, <1>7, <1>8, <1>9, <1>10, <1>11, <1>12,
    <1>13, <1>14, <1>15 DEF ThreadStep, Use, Continue

(* The registry's targets, in the order they are registered.               *)
LEMMA TargetsInOrder ==
  /\ Targets \in Seq(TargetNames) /\ Targets # <<>>
  /\ Head(Targets) = "x86" /\ Tail(Targets) = <<"x86-64">> /\ Len(Targets) = 2
  /\ <<"x86-64">> \in Seq(TargetNames) /\ <<"x86-64">> # <<>> /\ <<"x86-64">> # Targets
  /\ Head(<<"x86-64">>) = Native /\ Tail(<<"x86-64">>) = <<>>
  /\ <<>> \in Seq(TargetNames)
BY DEF Targets, TargetNames, Native

(* Linking a module sets its flag, and changes nothing if it was set.      *)
LEMMA FinalizedModules ==
  ASSUME NEW moduleSets \in Seq([tree : Trees, final : BOOLEAN]),
         NEW handle \in DOMAIN moduleSets
  PROVE  /\ Finalized(moduleSets, handle) \in Seq([tree : Trees, final : BOOLEAN])
         /\ Len(Finalized(moduleSets, handle)) = Len(moduleSets)
         /\ DOMAIN Finalized(moduleSets, handle) = DOMAIN moduleSets
         /\ Finalized(moduleSets, handle)[handle].final
         /\ moduleSets[handle].final => Finalized(moduleSets, handle) = moduleSets
<1> DEFINE Module == [tree : Trees, final : BOOLEAN]
           now == [moduleSets[handle] EXCEPT !.final = TRUE]
           linked == [moduleSets EXCEPT ![handle] = now]
<1>1. moduleSets \in Seq(Module)
  OBVIOUS
<1>2. moduleSets[handle] \in Module
  <2> HIDE DEF Module
  <2> QED BY <1>1
<1>3. now \in Module /\ now.final /\ (moduleSets[handle].final => now = moduleSets[handle])
  BY <1>2
<1>4. Finalized(moduleSets, handle) = linked
  BY DEF Finalized
<1> HIDE DEF Module, now
<1>5. /\ linked \in Seq(Module) /\ Len(linked) = Len(moduleSets)
      /\ DOMAIN linked = DOMAIN moduleSets /\ linked[handle] = now
  BY <1>1, <1>3
<1>6. moduleSets[handle].final => linked = moduleSets
  BY <1>1, <1>3
<1> QED BY <1>3, <1>4, <1>5, <1>6 DEF Module

(* Every module keeps its tree, and those not linked keep their flag.      *)
LEMMA FinalizedOthers ==
  ASSUME NEW moduleSets \in Seq([tree : Trees, final : BOOLEAN]),
         NEW handle \in DOMAIN moduleSets,
         NEW i \in DOMAIN moduleSets
  PROVE  /\ Finalized(moduleSets, handle)[i].tree = moduleSets[i].tree
         /\ i # handle => Finalized(moduleSets, handle)[i] = moduleSets[i]
<1> DEFINE Module == [tree : Trees, final : BOOLEAN]
           now == [moduleSets[handle] EXCEPT !.final = TRUE]
           linked == [moduleSets EXCEPT ![handle] = now]
<1>1. moduleSets \in Seq(Module)
  OBVIOUS
<1>2. moduleSets[handle] \in Module
  <2> HIDE DEF Module
  <2> QED BY <1>1
<1>3. now.tree = moduleSets[handle].tree
  BY <1>2
<1>4. Finalized(moduleSets, handle) = linked
  BY DEF Finalized
<1> HIDE DEF Module, now
<1>5. linked[handle] = now /\ (i # handle => linked[i] = moduleSets[i])
  BY <1>1
<1> QED BY <1>3, <1>4, <1>5

(* Every step of a thread keeps the types.                                 *)
LEMMA JitTypeOKStep ==
  ASSUME JitInv, NEW t \in Threads, ThreadStep(t)
  PROVE  JitTypeOK'
<1> DEFINE Entries == [name : BOOLEAN, next : TargetNames \cup {None}, asmPrinter : BOOLEAN]
           ModuleSets == Seq([tree : Trees, final : BOOLEAN])
           Results == Seq([tree : Trees, fn : 1..MaxRuns])
           Working == {"submit", "optimize", "compile", "finalize", "lookup"}
           Typed == /\ avx \in BOOLEAN
                    /\ pc \in [Threads -> Steps]
                    /\ {setUpLock, submitLock, exited} \subseteq Threads \cup {None}
                    /\ registry \in [TargetNames -> Entries]
                    /\ firstTarget \in TargetNames \cup {None}
                    /\ unregistered \in [Threads -> Seq(TargetNames)]
                    /\ selector \in [Threads -> Selectors \cup {DefaultSelector, None}]
                    /\ tree \in [Threads -> Trees \cup {None}]
                    /\ modules \in [Threads -> ModuleSets]
                    /\ results \in [Threads -> Results]
                    /\ \A u \in Threads : tree[u] # None <=> pc[u] \in Working
<1>1. JitTypeOK = Typed /\ JitTypeOK' = Typed'
  BY DEF JitTypeOK
<1>2. Typed
  BY <1>1 DEF JitInv
<1>3. SUFFICES Typed'
  BY <1>1
<1>4. \A moduleSets \in ModuleSets, handle \in DOMAIN modules[t] :
        moduleSets = modules[t] => Finalized(moduleSets, handle) \in ModuleSets
  BY <1>2, FinalizedModules
<1>5. \A entry \in Entries :
        /\ [entry EXCEPT !.asmPrinter = TRUE] \in Entries
        /\ [entry EXCEPT !.name = TRUE, !.next = firstTarget] \in Entries
  BY <1>2
<1>6. \A newTree \in Trees, moduleSets \in ModuleSets :
        Append(moduleSets, [tree |-> newTree, final |-> FALSE]) \in ModuleSets
  OBVIOUS
<1>7. \A newTree \in Trees, fn \in 1..MaxRuns, held \in Results :
        Append(held, [tree |-> newTree, fn |-> fn]) \in Results
  OBVIOUS
<1>8. <<>> \in ModuleSets /\ <<>> \in Results
  OBVIOUS
<1>9. \A moduleSets \in ModuleSets : DOMAIN moduleSets = 1..Len(moduleSets) /\ Len(moduleSets) \in Nat
  OBVIOUS
<1> HIDE DEF Entries, ModuleSets, Results
<1> USE <1>2, NoneAssumption DEF Goto, Steps, setUpVars, driverVars
<1>11. CASE LockSetUp(t)
  BY <1>11, TargetsInOrder DEF LockSetUp
<1>12. CASE CheckTarget(t)
  <2>1. Tail(unregistered[t]) \in Seq(TargetNames)
    BY <1>12 DEF CheckTarget
  <2>2. unregistered' \in [Threads -> Seq(TargetNames)]
    BY <1>12, <2>1 DEF CheckTarget
  <2>3. pc' \in [Threads -> Steps] /\ \A u \in Threads : tree'[u] # None <=> pc'[u] \in Working
    BY <1>12 DEF CheckTarget
  <2> QED BY <1>12, <2>2, <2>3 DEF CheckTarget
<1>13. CASE LinkTarget(t)
  <2>1. unregistered[t] \in Seq(TargetNames) /\ unregistered[t] # <<>>
    BY <1>13, TargetsInOrder DEF LinkTarget, JitInv, SetUpProgress
  <2> DEFINE target == Head(unregistered[t])
  <2>2. target \in TargetNames /\ Tail(unregistered[t]) \in Seq(TargetNames)
    BY <2>1
  <2>3. registry' = [registry EXCEPT ![target] =
                       [registry[target] EXCEPT !.name = TRUE, !.next = firstTarget]]
    BY <1>13 DEF LinkTarget
  <2> HIDE DEF target
  <2>4. registry' \in [TargetNames -> Entries]
    BY <2>2, <2>3, <1>5
  <2> QED BY <1>13, <2>2, <2>4 DEF LinkTarget, target
<1>14. CASE RegisterAsmPrinter(t)
  <2>1. registry' \in [TargetNames -> Entries]
    BY <1>14, <1>5 DEF RegisterAsmPrinter
  <2> QED BY <1>14, <2>1 DEF RegisterAsmPrinter
<1>15. CASE SelectTarget(t)
  BY <1>15 DEF SelectTarget
<1>16. CASE \E s \in Selectors : SetSelector(t, s)
  BY <1>16 DEF SetSelector
<1>17. CASE \E newTree \in Trees : CompileTree(t, newTree)
  BY <1>17 DEF CompileTree
<1>18. CASE LockSubmit(t)
  BY <1>18 DEF LockSubmit
<1>19. CASE OptimizeModule(t)
  BY <1>19 DEF OptimizeModule
<1>20. CASE AddModuleSet(t)
  <2>1. tree[t] \in Trees
    BY <1>20 DEF AddModuleSet
  <2> QED BY <1>20, <2>1, <1>6 DEF AddModuleSet
<1>21. CASE CannotSelect(t)
  BY <1>21 DEF CannotSelect
<1>22. CASE EmitAndFinalize(t)
  <2>1. Len(modules[t]) > 0
    BY <1>22 DEF EmitAndFinalize, JitInv, ModulesLinked
  <2>2. Finalized(modules[t], Len(modules[t])) \in ModuleSets
    BY <2>1, <1>4, <1>9
  <2> QED BY <1>22, <2>2 DEF EmitAndFinalize
<1>23. CASE GetFnPtr(t)
  <2>1. Len(modules[t]) \in 1..MaxRuns /\ tree[t] \in Trees
    BY <1>23, <1>9, MaxRunsAssumption DEF GetFnPtr, JitInv, ModulesLinked
  <2>2. Finalized(modules[t], Len(modules[t])) \in ModuleSets
    BY <2>1, <1>4, <1>9, MaxRunsAssumption
  <2> QED BY <1>23, <2>1, <2>2, <1>7 DEF GetFnPtr, FindIn
<1>24. CASE DropResults(t)
  BY <1>24, <1>8 DEF DropResults
<1>25. CASE LeaveDriverScope(t)
  BY <1>25, <1>8 DEF LeaveDriverScope, DestroyDriver
<1> QED
  BY <1>11, <1>12, <1>13, <1>14, <1>15, <1>16, <1>17, <1>18, <1>19, <1>20, <1>21, <1>22,
    <1>23, <1>24, <1>25 DEF ThreadStep, Use, Continue

(* Under the lock, targets are registered in their order and once.         *)
LEMMA RegistryStep ==
  ASSUME JitInv, NEW t \in Threads, ThreadStep(t)
  PROVE  RegistryShape' /\ SetUpProgress'
<1> DEFINE Entries == [name : BOOLEAN, next : TargetNames \cup {None}, asmPrinter : BOOLEAN]
           Progress(u) ==
             /\ pc[u] = "register" => unregistered[u] \in {Targets, <<"x86-64">>, <<>>}
             /\ pc[u] = "link" => /\ unregistered[u] \in {Targets, <<"x86-64">>}
                                  /\ ~registry[Head(unregistered[u])].name
             /\ SettingUp(u) /\ unregistered[u] # Targets => registry["x86"].name
             /\ pc[u] # "outside" /\ unregistered[u] = <<>> => registry[Native].name
             /\ pc[u] \notin {"outside", "register", "link"} =>
                  unregistered[u] = <<>> /\ registry[Native].asmPrinter
<1>1. RegistryShape /\ \A u \in Threads : Progress(u)
  BY DEF JitInv, SetUpProgress
<1>2. /\ pc \in [Threads -> Steps] /\ unregistered \in [Threads -> Seq(TargetNames)]
      /\ registry \in [TargetNames -> Entries] /\ TargetNames = {"x86", "x86-64"}
  BY DEF JitInv, JitTypeOK, TargetNames
<1>3. SUFFICES RegistryShape' /\ \A u \in Threads : Progress(u)'
  BY DEF SetUpProgress
<1>4. \A u \in Threads : SettingUp(u) /\ SettingUp(t) => u = t
  BY DEF JitInv, LocksHeld
<1> HIDE DEF Entries
<1> USE <1>1, <1>2, NoneAssumption, TargetsInOrder DEF Goto, setUpVars, driverVars, SettingUp
<1>5. CASE LockSetUp(t)
  BY <1>5 DEF LockSetUp, RegistryShape
<1>6. CASE CheckTarget(t)
  <2>1. RegistryShape'
    BY <1>6 DEF CheckTarget, RegistryShape
  <2>2. ASSUME NEW u \in Threads, u # t PROVE Progress(u)'
    BY <1>6, <2>2 DEF CheckTarget
  <2>3. CASE registry[Head(unregistered[t])].name
    <3>1. /\ unregistered'[t] = Tail(unregistered[t]) /\ pc'[t] = "register"
          /\ pc[t] = "register" /\ unregistered[t] # <<>> /\ registry' = registry
      BY <1>6, <2>3 DEF CheckTarget
    <3>2. Progress(t)'
      BY <2>3, <3>1 DEF Native
    <3> QED BY <2>1, <2>2, <3>2
  <2>4. CASE ~registry[Head(unregistered[t])].name
    <3>1. /\ unregistered' = unregistered /\ pc'[t] = "link" /\ pc[t] = "register"
          /\ unregistered[t] # <<>> /\ registry' = registry
      BY <1>6, <2>4 DEF CheckTarget
    <3>2. Progress(t)'
      BY <2>4, <3>1 DEF Native
    <3> QED BY <2>1, <2>2, <3>2
  <2> QED BY <2>3, <2>4
<1>7. CASE LinkTarget(t)
  <2> DEFINE target == Head(unregistered[t])
  <2>1. target \in {"x86", "x86-64"} /\ ~registry[target].name
    BY <1>7 DEF LinkTarget, Native
  <2>2. registry' = [registry EXCEPT ![target] =
                       [registry[target] EXCEPT !.name = TRUE, !.next = firstTarget]]
    BY <1>7 DEF LinkTarget
  <2>3. \A entry \in Entries :
          LET linked == [entry EXCEPT !.name = TRUE, !.next = firstTarget]
          IN  linked.name /\ linked.next = firstTarget /\ linked.asmPrinter = entry.asmPrinter
    BY DEF Entries
  <2>4. /\ registry'[target].name /\ registry'[target].next = firstTarget
        /\ registry'[target].asmPrinter = registry[target].asmPrinter
        /\ \A other \in TargetNames \ {target} : registry'[other] = registry[other]
    BY <2>1, <2>2, <2>3
  <2>5. firstTarget' = target
    BY <1>7 DEF LinkTarget
  <2>6. RegistryShape'
    <3>1. CASE unregistered[t] = Targets
      BY <1>7, <2>1, <2>4, <2>5, <3>1 DEF LinkTarget, RegistryShape, Native
    <3>2. CASE unregistered[t] = <<"x86-64">>
      BY <1>7, <2>1, <2>4, <2>5, <3>2 DEF LinkTarget, RegistryShape, Native
    <3> QED BY <1>7, <3>1, <3>2 DEF LinkTarget
  <2>7. ASSUME NEW u \in Threads, u # t PROVE Progress(u)'
    BY <1>4, <1>7, <2>1, <2>4, <2>7 DEF LinkTarget, Native
  <2>8. Progress(t)'
    BY <1>7, <2>1, <2>4 DEF LinkTarget, Native
  <2> QED BY <2>6, <2>7, <2>8
<1>8. CASE RegisterAsmPrinter(t)
  <2>1. \A entry \in Entries :
          LET printing == [entry EXCEPT !.asmPrinter = TRUE]
          IN  printing.asmPrinter /\ printing.name = entry.name /\ printing.next = entry.next
    BY DEF Entries
  <2>2. \A target \in TargetNames :
          registry'[target] = [registry[target] EXCEPT !.asmPrinter = TRUE]
    BY <1>8 DEF RegisterAsmPrinter
  <2>3. \A target \in TargetNames :
          /\ registry'[target].asmPrinter
          /\ registry'[target].name = registry[target].name
          /\ registry'[target].next = registry[target].next
    <3> SUFFICES ASSUME NEW target \in TargetNames
                 PROVE  /\ registry'[target].asmPrinter
                        /\ registry'[target].name = registry[target].name
                        /\ registry'[target].next = registry[target].next
      OBVIOUS
    <3> DEFINE entry == registry[target]
    <3>1. entry \in Entries
      OBVIOUS
    <3> HIDE DEF entry
    <3>2. LET printing == [entry EXCEPT !.asmPrinter = TRUE]
          IN  printing.asmPrinter /\ printing.name = entry.name /\ printing.next = entry.next
      BY <2>1, <3>1
    <3> QED BY <2>2, <3>2 DEF entry
  <2>4. RegistryShape'
    BY <1>8, <2>3 DEF RegisterAsmPrinter, RegistryShape
  <2>5. ASSUME NEW u \in Threads PROVE Progress(u)'
    BY <1>8, <2>3 DEF RegisterAsmPrinter, Native
  <2> QED BY <2>4, <2>5
<1>9. ASSUME UNCHANGED <<registry, firstTarget, unregistered>>,
             pc' = [pc EXCEPT ![t] = pc'[t]],
             pc[t] \notin {"outside", "register", "link"}, pc'[t] \notin {"register", "link"}
      PROVE  RegistryShape' /\ \A u \in Threads : Progress(u)'
  BY <1>9 DEF RegistryShape
<1>10. CASE \/ SelectTarget(t) \/ LockSubmit(t) \/ OptimizeModule(t) \/ AddModuleSet(t)
            \/ CannotSelect(t) \/ EmitAndFinalize(t) \/ GetFnPtr(t)
            \/ DropResults(t) \/ LeaveDriverScope(t)
            \/ \E s \in Selectors : SetSelector(t, s)
            \/ \E newTree \in Trees : CompileTree(t, newTree)
  <2>1. /\ UNCHANGED <<registry, firstTarget, unregistered>>
        /\ pc' = [pc EXCEPT ![t] = pc'[t]]
        /\ pc[t] \notin {"outside", "register", "link"} /\ pc'[t] \notin {"register", "link"}
    BY <1>10 DEF SelectTarget, LockSubmit, OptimizeModule, AddModuleSet, CannotSelect,
      EmitAndFinalize, GetFnPtr, DropResults, LeaveDriverScope, DestroyDriver, SetSelector, CompileTree
  <2> QED BY <1>9, <2>1
<1> QED BY <1>5, <1>6, <1>7, <1>8, <1>10 DEF ThreadStep, Use, Continue

(* A driver's modules are linked one after the other.                      *)
LEMMA ModulesStep ==
  ASSUME JitInv, NEW t \in Threads, ThreadStep(t)
  PROVE  ModulesLinked' /\ ResultsCallable'
<1> DEFINE ModuleSets == Seq([tree : Trees, final : BOOLEAN])
           Results == Seq([tree : Trees, fn : 1..MaxRuns])
           Linked(u) ==
             /\ pc[u] = "outside" \/ SettingUp(u) => modules[u] = <<>> /\ results[u] = <<>>
             /\ Len(modules[u]) <= MaxRuns
             /\ pc[u] \in {"submit", "optimize", "compile"} => Len(modules[u]) < MaxRuns
             /\ pc[u] \in {"finalize", "lookup"} =>
                  Len(modules[u]) > 0 /\ modules[u][Len(modules[u])].tree = tree[u]
             /\ \A i \in DOMAIN modules[u] :
                  ~modules[u][i].final => pc[u] = "finalize" /\ i = Len(modules[u])
           Callable(u) ==
             \A i \in DOMAIN results[u] :
               /\ results[u][i].fn \in DOMAIN modules[u]
               /\ modules[u][results[u][i].fn].final
               /\ modules[u][results[u][i].fn].tree = results[u][i].tree
<1> SUFFICES ASSUME NEW u \in Threads PROVE Linked(u)' /\ Callable(u)'
  BY DEF ModulesLinked, ResultsCallable
<1>1. Linked(u) /\ Callable(u)
  BY DEF JitInv, ModulesLinked, ResultsCallable
<1>2. /\ pc \in [Threads -> Steps] /\ tree \in [Threads -> Trees \cup {None}]
      /\ modules \in [Threads -> ModuleSets] /\ results \in [Threads -> Results]
  BY DEF JitInv, JitTypeOK
<1>3. \A moduleSets \in ModuleSets : DOMAIN moduleSets = 1..Len(moduleSets) /\ Len(moduleSets) \in Nat
  OBVIOUS
<1>0. ASSUME Len(modules[t]) \in DOMAIN modules[t]
      PROVE  LET last == Len(modules[t])
                 linked == Finalized(modules[t], last)
             IN  /\ Len(linked) = last /\ DOMAIN linked = DOMAIN modules[t]
                 /\ linked[last].final
                 /\ modules[t][last].final => linked = modules[t]
                 /\ \A i \in DOMAIN modules[t] :
                      /\ linked[i].tree = modules[t][i].tree
                      /\ i # last => linked[i] = modules[t][i]
  <2> DEFINE now == modules[t]
             last == Len(now)
  <2>1. now \in Seq([tree : Trees, final : BOOLEAN]) /\ last \in DOMAIN now
    BY <1>0, <1>2
  <2> HIDE DEF now, last
  <2>2. /\ Len(Finalized(now, last)) = Len(now) /\ DOMAIN Finalized(now, last) = DOMAIN now
        /\ Finalized(now, last)[last].final
        /\ now[last].final => Finalized(now, last) = now
    BY <2>1, FinalizedModules
  <2>3. ASSUME NEW i \in DOMAIN now
        PROVE  Finalized(now, last)[i].tree = now[i].tree
    BY <2>1, FinalizedOthers
  <2>4. ASSUME NEW i \in DOMAIN now, i # last
        PROVE  Finalized(now, last)[i] = now[i]
    BY <2>1, <2>4, FinalizedOthers
  <2> QED BY <2>2, <2>3, <2>4 DEF now, last
<1> USE <1>1, <1>2, <1>3, MaxRunsAssumption DEF Goto, setUpVars, driverVars, SettingUp
<1> HIDE DEF ModuleSets, Results
<1>4. CASE u # t
  <2>1. pc'[u] = pc[u] /\ tree'[u] = tree[u] /\ modules'[u] = modules[u] /\ results'[u] = results[u]
    BY <1>4 DEF ThreadStep, Use, Continue, LockSetUp, CheckTarget, LinkTarget,
      RegisterAsmPrinter, SelectTarget, SetSelector, CompileTree, LockSubmit, OptimizeModule,
      AddModuleSet, CannotSelect, EmitAndFinalize, GetFnPtr, DropResults, LeaveDriverScope,
      DestroyDriver
  <2> QED BY <2>1
<1>5. ASSUME u = t, UNCHANGED <<tree, modules, results>>,
             pc'[t] \in {"outside", "register", "link", "selectTarget"} =>
               pc[t] \in {"outside", "register", "link", "selectTarget"},
             pc'[t] \in {"submit", "optimize", "compile"} =>
               Len(modules[t]) < MaxRuns,
             pc'[t] \notin {"finalize", "lookup"}, pc[t] # "finalize"
      PROVE  Linked(u)' /\ Callable(u)'
  BY <1>5
<1>6. CASE u = t /\ \/ LockSetUp(t) \/ CheckTarget(t) \/ LinkTarget(t) \/ RegisterAsmPrinter(t)
                    \/ SelectTarget(t) \/ \E s \in Selectors : SetSelector(t, s)
  <2>1. /\ UNCHANGED <<tree, modules, results>>
        /\ pc[t] \in {"outside", "register", "link", "selectTarget", "ready"}
        /\ pc'[t] \in {"register", "link", "selectTarget", "ready"}
        /\ pc[t] = "ready" => pc'[t] = "ready"
    BY <1>6 DEF LockSetUp, CheckTarget, LinkTarget, RegisterAsmPrinter, SelectTarget, SetSelector
  <2> QED BY <1>5, <1>6, <2>1
<1>7. CASE u = t /\ (LockSubmit(t) \/ OptimizeModule(t) \/ CannotSelect(t))
  BY <1>5, <1>7 DEF LockSubmit, OptimizeModule, CannotSelect
<1>8. CASE u = t /\ Len(modules[t]) < MaxRuns /\ \E newTree \in Trees : CompileTree(t, newTree)
  <2>1. /\ modules'[t] = modules[t] /\ results'[t] = results[t]
        /\ pc[t] = "ready" /\ pc'[t] = "submit"
    BY <1>8 DEF CompileTree
  <2> QED BY <1>8, <2>1
<1>9. CASE u = t /\ AddModuleSet(t)
  <2> DEFINE new == [tree |-> tree[t], final |-> FALSE]
             size == Len(modules[t])
  <2>1. /\ pc[t] = "compile" /\ pc'[t] = "finalize" /\ tree' = tree /\ results' = results
        /\ modules'[t] = Append(modules[t], new) /\ size < MaxRuns
    BY <1>9 DEF AddModuleSet
  <2>2. tree[t] \in Trees
    BY <2>1 DEF JitInv, JitTypeOK
  <2>3. /\ Len(modules'[t]) = size + 1 /\ DOMAIN modules'[t] = 1..size + 1
        /\ modules'[t][size + 1] = new
        /\ \A i \in 1..size : modules'[t][i] = modules[t][i]
    BY <2>1, <2>2 DEF ModuleSets
  <2>4. new.tree = tree[t]
    OBVIOUS
  <2> HIDE DEF new
  <2> QED BY <1>9, <2>1, <2>3, <2>4
<1>10. CASE u = t /\ EmitAndFinalize(t)
  <2>1. /\ pc[t] = "finalize" /\ pc'[t] = "lookup" /\ tree' = tree /\ results' = results
        /\ modules'[t] = Finalized(modules[t], Len(modules[t]))
    BY <1>10 DEF EmitAndFinalize
  <2>2. Len(modules[t]) \in DOMAIN modules[t]
    BY <1>10, <2>1
  <2>3. /\ Len(modules'[t]) = Len(modules[t]) /\ DOMAIN modules'[t] = DOMAIN modules[t]
        /\ \A i \in DOMAIN modules[t] :
             modules'[t][i].final /\ modules'[t][i].tree = modules[t][i].tree
    BY <1>0, <1>10, <2>1, <2>2
  <2> QED BY <1>10, <2>1, <2>3
<1>11. CASE u = t /\ GetFnPtr(t)
  <2> DEFINE new == [tree |-> tree[t], fn |-> Len(modules[t])]
             size == Len(results[t])
  <2>1. /\ pc[t] = "lookup" /\ pc'[t] = "ready"
        /\ modules'[t] = Finalized(modules[t], Len(modules[t]))
        /\ results'[t] = Append(results[t], new)
    BY <1>11 DEF GetFnPtr, FindIn
  <2>2. Len(modules[t]) \in DOMAIN modules[t] /\ Len(modules[t]) \in 1..MaxRuns
    BY <1>11, <2>1
  <2>3. modules'[t] = modules[t]
    BY <1>0, <1>11, <2>1, <2>2
  <2>4. tree[t] \in Trees
    BY <2>1 DEF JitInv, JitTypeOK
  <2>5. size \in Nat /\ DOMAIN results[t] = 1..size
    BY DEF Results
  <2>6. /\ DOMAIN results'[t] = 1..size + 1 /\ results'[t][size + 1] = new
        /\ \A i \in 1..size : results'[t][i] = results[t][i]
    BY <2>1, <2>2, <2>4 DEF Results
  <2>7. new.fn = Len(modules[t]) /\ new.tree = tree[t]
    OBVIOUS
  <2> HIDE DEF new
  <2> QED BY <1>11, <2>1, <2>2, <2>3, <2>5, <2>6, <2>7
<1>12. CASE u = t /\ DropResults(t)
  <2>1. /\ UNCHANGED <<pc, tree, modules>> /\ results'[t] = <<>> /\ pc[t] = "ready"
    BY <1>12 DEF DropResults
  <2> QED BY <1>12, <2>1
<1>13. CASE u = t /\ LeaveDriverScope(t)
  <2>1. /\ pc'[t] = "outside" /\ modules'[t] = <<>> /\ results'[t] = <<>>
    BY <1>13 DEF LeaveDriverScope, DestroyDriver
  <2> QED BY <1>13, <2>1
<1> QED
  BY <1>4, <1>6, <1>7, <1>8, <1>9, <1>10, <1>11, <1>12, <1>13 DEF ThreadStep, Use, Continue

(* Every step of a thread, whoever else is on its way, preserves JitInv... *)
LEMMA JitInvStep ==
  ASSUME JitInv, NEW t \in Threads, ThreadStep(t)
  PROVE  JitInv'
BY JitTypeOKStep, LocksHeldStep, RegistryStep, ModulesStep DEF JitInv

(* ...which speaks of nothing but the drivers...                           *)
LEMMA JitInvStutter ==
  ASSUME JitInv, UNCHANGED jitVars
  PROVE  JitInv'
<1> USE DEF JitInv, jitVars
<1>1. JitTypeOK'
  BY DEF JitTypeOK
<1>2. LocksHeld'
  BY DEF LocksHeld, SettingUp, Submitting
<1>3. RegistryShape'
  BY DEF RegistryShape
<1>4. SetUpProgress'
  BY DEF SetUpProgress, SettingUp
<1>5. ModulesLinked'
  BY DEF ModulesLinked, SettingUp
<1>6. ResultsCallable'
  BY DEF ResultsCallable
<1> QED BY <1>1, <1>2, <1>3, <1>4, <1>5, <1>6

(* ...and holds before any driver exists.                                  *)
LEMMA JitInvInit == JitInit => JitInv
<1> SUFFICES ASSUME JitInit PROVE JitInv
  OBVIOUS
<1> USE NoneAssumption, MaxRunsAssumption DEF JitInit
<1>1. JitTypeOK
  BY DEF JitTypeOK, Steps, EmptyRegistry
<1>2. LocksHeld
  BY DEF LocksHeld, SettingUp, Submitting
<1>3. RegistryShape /\ SetUpProgress
  BY DEF RegistryShape, SetUpProgress, SettingUp, EmptyRegistry, TargetNames
<1>4. ModulesLinked /\ ResultsCallable
  BY DEF ModulesLinked, ResultsCallable
<1> QED BY <1>1, <1>2, <1>3, <1>4 DEF JitInv

-----------------------------------------------------------------------------
(* JitInv is an invariant, whatever the threads, trees and selectors.      *)
THEOREM DriversInvariant == JitSpec => []JitInv
<1>1. JitInv /\ [JitNext]_jitVars => JitInv'
  <2> SUFFICES ASSUME JitInv, [JitNext]_jitVars PROVE JitInv'
    OBVIOUS
  <2>1. CASE \E t \in Threads : Continue(t) \/ Use(t)
    BY <2>1, JitInvStep DEF ThreadStep
  <2>2. CASE UNCHANGED jitVars
    BY <2>2, JitInvStutter DEF jitVars
  <2> QED BY <2>1, <2>2 DEF JitNext, Exited
<1> QED BY JitInvInit, <1>1, PTL DEF JitSpec

(* Threads, locks, registry and drivers hold what their types say, and a   *)
(* driver has a tree exactly while it compiles one.                        *)
THEOREM JitTypeCorrect == JitSpec => []JitTypeOK
<1>1. JitInv => JitTypeOK
  BY DEF JitInv
<1> QED BY DriversInvariant, <1>1, PTL

(* Every result a thread holds is linked code of its driver for its tree.  *)
THEOREM DriversResultsCallable == JitSpec => []ResultsCallable
<1>1. JitInv => ResultsCallable
  BY DEF JitInv
<1> QED BY DriversInvariant, <1>1, PTL

-----------------------------------------------------------------------------
(* The recursion along the registry's list, written down.                  *)
LEMMA ReachedEquation ==
  /\ Reached[0] = NothingReached
  /\ \A n \in 0..Len(Targets) : Reached[n + 1] = ReachedStep(Reached[n])
<1> DEFINE Unfold(p) == [n \in 0..3 |->
                           IF n = 0 THEN NothingReached ELSE ReachedStep(p[n - 1])]
           p1 == ReachedStep(NothingReached)
           p2 == ReachedStep(p1)
           all == [n \in 0..3 |-> IF n = 0 THEN NothingReached
                                  ELSE IF n = 1 THEN p1
                                  ELSE IF n = 2 THEN p2 ELSE ReachedStep(p2)]
<1>1. all = Unfold(all)
  <2> HIDE DEF p1, p2
  <2>1. all[0] = NothingReached /\ all[1] = p1 /\ all[2] = p2 /\ all[3] = ReachedStep(p2)
    OBVIOUS
  <2>2. \A n \in 0..3 : all[n] = IF n = 0 THEN NothingReached ELSE ReachedStep(all[n - 1])
    BY <2>1 DEF p1, p2
  <2> HIDE DEF all
  <2>3. all = [n \in 0..3 |-> all[n]]
    BY DEF all
  <2> QED BY <2>2, <2>3
<1>2. Reached = CHOOSE p : p = Unfold(p)
  BY TargetsInOrder DEF Reached
<1> HIDE DEF Unfold, all
<1>3. Reached = Unfold(Reached)
  BY <1>1, <1>2
<1> QED BY <1>3, TargetsInOrder DEF Unfold

(* The lists of one and of two targets.                                    *)
LEMMA TargetsAppended ==
  <<"x86">> \o <<>> = <<"x86">> /\ <<"x86-64">> \o <<"x86">> = <<"x86-64", "x86">>
<1> DEFINE x86 == <<"x86">>
           x64 == <<"x86-64">>
           both == <<"x86-64", "x86">>
<1>1. /\ x86 \in Seq(TargetNames) /\ Len(x86) = 1 /\ x86[1] = "x86"
      /\ x64 \in Seq(TargetNames) /\ Len(x64) = 1 /\ x64[1] = "x86-64"
      /\ both \in Seq(TargetNames) /\ Len(both) = 2 /\ both[1] = "x86-64" /\ both[2] = "x86"
  BY DEF TargetNames
<1> HIDE DEF x86, x64, both
<1>2. /\ x64 \o x86 \in Seq(TargetNames) /\ Len(x64 \o x86) = 2
      /\ (x64 \o x86)[1] = "x86-64" /\ (x64 \o x86)[2] = "x86"
  BY <1>1, ConcatProperties
<1>3. x64 \o x86 = both
  BY <1>1, <1>2, SeqEqual
<1>4. x86 \o <<>> = x86
  BY <1>1, ConcatEmptySeq
<1> QED BY <1>3, <1>4 DEF x86, x64, both

(* The list that a lookup walks, for every number of targets registered.   *)
LEMMA TargetListValue ==
  ASSUME RegistryShape
  PROVE  TargetList = IF registry["x86-64"].name THEN <<"x86-64", "x86">>
                      ELSE IF registry["x86"].name THEN <<"x86">> ELSE <<>>
<1> USE NoneAssumption DEF TargetNames
<1>1. \A below :
        /\ ReachedStep(below)[None] = <<>>
        /\ \A target \in TargetNames : ReachedStep(below)[target] =
             <<target>> \o below[registry[target].next]
  BY DEF ReachedStep
<1>2. /\ TargetList = Reached[3][firstTarget] /\ Reached[0] = NothingReached
      /\ Reached[1] = ReachedStep(Reached[0]) /\ Reached[2] = ReachedStep(Reached[1])
      /\ Reached[3] = ReachedStep(Reached[2])
  BY ReachedEquation, TargetsInOrder DEF TargetList
<1>3. /\ Reached[0][None] = <<>> /\ Reached[1][None] = <<>>
      /\ Reached[2][None] = <<>> /\ Reached[3][None] = <<>>
  BY <1>1, <1>2 DEF NothingReached
<1>6. <<"x86">> \o <<>> = <<"x86">> /\ <<"x86-64">> \o <<"x86">> = <<"x86-64", "x86">>
  BY TargetsAppended
<1>7. \A below :
        /\ ReachedStep(below)["x86"] = <<"x86">> \o below[None]
        /\ registry["x86-64"].name =>
             ReachedStep(below)["x86-64"] = <<"x86-64">> \o below["x86"]
  BY <1>1 DEF RegistryShape
<1>8. /\ ReachedStep(Reached[0])["x86"] = <<"x86">> \o Reached[0][None]
      /\ ReachedStep(Reached[1])["x86"] = <<"x86">> \o Reached[1][None]
      /\ ReachedStep(Reached[2])["x86"] = <<"x86">> \o Reached[2][None]
  BY <1>7
<1>4. Reached[1]["x86"] = <<"x86">> /\ Reached[2]["x86"] = <<"x86">> /\ Reached[3]["x86"] = <<"x86">>
  BY <1>2, <1>3, <1>6, <1>8, Zenon
<1>5. ASSUME registry["x86-64"].name PROVE Reached[3]["x86-64"] = <<"x86-64", "x86">>
  <2>1. ReachedStep(Reached[2])["x86-64"] = <<"x86-64">> \o Reached[2]["x86"]
    BY <1>5, <1>7
  <2> QED BY <2>1, <1>2, <1>4, <1>6, Zenon
<1> QED BY <1>2, <1>3, <1>4, <1>5 DEF RegistryShape

(* However many drivers are set up at a time, the registry stays a list of *)
(* distinct targets that ends, and a thread that compiles finds in it what *)
(* it needs.                                                               *)
THEOREM RegistryStaysIntact == JitSpec => []RegistryIntact
<1>1. JitInv => RegistryIntact
  <2> SUFFICES ASSUME JitInv PROVE RegistryIntact
    OBVIOUS
  <2> DEFINE Named == {target \in TargetNames : registry[target].name}
             Usable == \E i \in DOMAIN TargetList :
                         TargetList[i] = Native /\ registry[Native].asmPrinter
  <2> USE DEF JitInv
  <2>1. RegistryShape /\ TargetNames = {"x86", "x86-64"}
    BY DEF TargetNames
  <2>2. \A t \in Threads : pc[t] = "compile" =>
          registry["x86-64"].name /\ registry[Native].asmPrinter
    BY DEF SetUpProgress, Native
  <2>3. Cardinality({}) = 0 /\ Cardinality({"x86"}) = 1 /\ Cardinality({"x86-64", "x86"}) = 2
    <3>1. IsFiniteSet({"x86"}) /\ Cardinality({"x86"}) = 1 /\ Cardinality({}) = 0
      BY FS_Singleton, FS_EmptySet
    <3>2. Cardinality({"x86"} \cup {"x86-64"}) =
            IF "x86-64" \in {"x86"} THEN Cardinality({"x86"}) ELSE Cardinality({"x86"}) + 1
      BY <3>1, FS_AddElement, Zenon
    <3>3. {"x86"} \cup {"x86-64"} = {"x86-64", "x86"}
      OBVIOUS
    <3> QED BY <3>1, <3>2, <3>3
  <2> SUFFICES /\ Len(TargetList) = Cardinality(Named)
               /\ \A i, j \in DOMAIN TargetList : i # j => TargetList[i] # TargetList[j]
               /\ registry["x86-64"].name /\ registry[Native].asmPrinter => Usable
    BY <2>2 DEF RegistryIntact
  <2>4. CASE registry["x86-64"].name
    <3>1. TargetList = <<"x86-64", "x86">> /\ Named = {"x86-64", "x86"}
      BY <2>1, <2>4, TargetListValue DEF RegistryShape
    <3> QED BY <2>3, <3>1 DEF Native
  <2>5. CASE ~registry["x86-64"].name /\ registry["x86"].name
    <3>1. TargetList = <<"x86">> /\ Named = {"x86"}
      BY <2>1, <2>5, TargetListValue
    <3> QED BY <2>3, <2>5, <3>1
  <2>6. CASE ~registry["x86-64"].name /\ ~registry["x86"].name
    <3>1. TargetList = <<>> /\ Named = {}
      BY <2>1, <2>6, TargetListValue
    <3>2. Len(<<>>) = 0 /\ DOMAIN <<>> = {}
      OBVIOUS
    <3>3. Len(TargetList) = Cardinality(Named) /\ DOMAIN TargetList = {}
      BY <2>3, <3>1, <3>2, Zenon
    <3> QED BY <2>6, <3>3
  <2> QED BY <2>4, <2>5, <2>6
<1> QED BY DriversInvariant, <1>1, PTL

-----------------------------------------------------------------------------
(* A step changes modules of a driver only where its thread submits.       *)
LEMMA EmissionStep ==
  ASSUME JitInv, NEW t \in Threads, ThreadStep(t), NEW u \in Threads,
         NEW i \in DOMAIN modules'[u],
         i \notin DOMAIN modules[u] \/ modules[u][i] # modules'[u][i]
  PROVE  submitLock = u
<1>1. pc \in [Threads -> Steps] /\ modules \in [Threads -> Seq([tree : Trees, final : BOOLEAN])]
  BY DEF JitInv, JitTypeOK
<1>2. \A v \in Threads : Submitting(v) => submitLock = v
  BY DEF JitInv, LocksHeld
<1>3. CASE u # t
  BY <1>1, <1>3 DEF ThreadStep, Use, Continue, LockSetUp, CheckTarget, LinkTarget,
    RegisterAsmPrinter, SelectTarget, SetSelector, CompileTree, LockSubmit, OptimizeModule,
    AddModuleSet, CannotSelect, EmitAndFinalize, GetFnPtr, DropResults, LeaveDriverScope,
    DestroyDriver, setUpVars, driverVars
<1>4. CASE AddModuleSet(t) \/ EmitAndFinalize(t)
  BY <1>2, <1>3, <1>4 DEF AddModuleSet, EmitAndFinalize, Submitting
<1>5. CASE u = t /\ GetFnPtr(t)
  <2>1. pc[t] = "lookup"
    BY <1>5 DEF GetFnPtr
  <2>2. Len(modules[t]) \in DOMAIN modules[t]
    BY <1>1, <2>1 DEF JitInv, ModulesLinked
  <2>3. modules[t][Len(modules[t])].final
    BY <2>1, <2>2 DEF JitInv, ModulesLinked
  <2>4. Finalized(modules[t], Len(modules[t])) = modules[t]
    BY <1>1, <2>2, <2>3, FinalizedModules
  <2>5. modules'[t] = modules[t]
    BY <1>1, <1>5, <2>4 DEF GetFnPtr, FindIn
  <2> QED BY <1>5, <2>5
<1>6. CASE u = t /\ LeaveDriverScope(t)
  <2>1. modules'[t] = <<>>
    BY <1>1, <1>6 DEF LeaveDriverScope, DestroyDriver
  <2> QED BY <1>6, <2>1
<1>7. CASE UNCHANGED modules
  BY <1>7
<1> QED
  BY <1>3, <1>4, <1>5, <1>6, <1>7 DEF ThreadStep, Use, Continue, LockSetUp, CheckTarget,
    LinkTarget, RegisterAsmPrinter, SelectTarget, SetSelector, CompileTree, LockSubmit,
    OptimizeModule, CannotSelect, DropResults, setUpVars, driverVars

(* Modules are compiled and linked by the holder of the submission lock:   *)
(* looking a function up, without the lock, links nothing.                 *)
THEOREM EmissionLocked == JitSpec => EmittedUnderLock
<1> DEFINE Emitted == \A t \in Threads : \A i \in DOMAIN modules'[t] :
                        i \notin DOMAIN modules[t] \/ modules[t][i] # modules'[t][i]
                          => submitLock = t
<1>1. JitInv /\ [JitNext]_jitVars => [Emitted]_jitVars
  <2> SUFFICES ASSUME JitInv, NEW t \in Threads, ThreadStep(t) PROVE Emitted
    BY DEF JitNext, Exited, ThreadStep
  <2> QED BY EmissionStep
<1> QED BY DriversInvariant, <1>1, PTL DEF JitSpec, EmittedUnderLock
-----------------------------------------------------------------------------
(* The benchmark program                                                   *)

Jit == Registered[current].jit

(* Where the driver of a thread is when the thread is where it is: not yet *)
(* constructed; constructed, and perhaps set up; running; back with one    *)
(* result, for the tree that the thread selected; or about to go with it.  *)
DriverInStep(t) ==
  LET hasResult == pc[t] = "ready" /\ Len(results[t]) = 1 /\ results[t][1].tree = chosen[t]
  IN  /\ at[t] \in {"construct", "configure", "run"} => Jit /\ data[t] = <<>>
      /\ at[t] = "construct" => pc[t] = "outside"
      /\ at[t] = "configure" => Registered[current].selector # None
      /\ at[t] \in {"configure", "run"} =>
           (SettingUp(t) \/ pc[t] = "ready") /\ modules[t] = <<>> /\ results[t] = <<>>
      /\ at[t] = "draw" /\ Jit =>
           \/ /\ pc[t] \in {"submit", "optimize", "compile", "finalize", "lookup"}
              /\ results[t] = <<>> /\ tree[t] = chosen[t] /\ data[t] = <<>>
           \/ hasResult
      /\ at[t] \in {"start", "evaluate", "stop"} /\ Jit => hasResult
      /\ at[t] = "leave" /\ Jit => pc[t] = "ready"
      /\ ~Jit => pc[t] = "outside"

(* What a thread that is in a benchmark holds fits the benchmark.          *)
HeldFits(t) ==
  /\ at[t] # "joined" => current # 0
  /\ at[t] \notin {"select", "joined"} =>
       chosen[t] \in PerfectRandomTrees(Registered[current].depth, Features)
  /\ \A i \in DOMAIN data[t] : data[t][i] \in 1..Collected

(* What is true of one thread, and of all of them.                         *)
ThreadFits(t) ==
  /\ Len(data[t]) <= Draws
  /\ at[t] \in {"select", "joined"} <=> chosen[t] = None
  /\ at[t] \in {"select", "joined"} => data[t] = <<>> /\ pc[t] = "outside"
  /\ HeldFits(t)
  /\ current # 0 => DriverInStep(t)

BenchInv ==
  /\ JitInv
  /\ InitializeSharedData
  /\ current \in 0..Len(Registered)
  /\ at \in [Threads -> BenchmarkSteps]
  /\ chosen \in [Threads -> SharedTrees \cup {None}]
  /\ data \in [Threads -> Seq(Nat)]
  /\ \A t \in Threads : ThreadFits(t)

-----------------------------------------------------------------------------
(* What a benchmark is registered with was made before: a tree of every    *)
(* depth, and a selector that its drivers may be given.                    *)
LEMMA RegisteredBenchmarks ==
  /\ DOMAIN Registered = 1..8 /\ Len(Registered) = 8
  /\ \A i \in 1..8 : /\ Registered[i].jit \in BOOLEAN
                     /\ Registered[i].depth \in TreeDepths
                     /\ Registered[i].selector \in Selectors \cup {None}
<1>1. DOMAIN Registered = 1..8 /\ Len(Registered) = 8
  BY DEF Registered
<1>2. ASSUME NEW i \in 1..8
      PROVE  Registered[i].jit \in BOOLEAN /\ Registered[i].depth \in TreeDepths
  <2> DEFINE Fits(benchmark) == benchmark.jit \in BOOLEAN /\ benchmark.depth \in TreeDepths
  <2>1. \A depth \in TreeDepths : Fits(Interpreting(depth)) /\ Fits(Adaptive(depth))
    BY DEF Interpreting, Adaptive
  <2>2. \A generator, depth : depth \in TreeDepths => Fits(Single(generator, depth))
    <3> HIDE DEF OneGenerator
    <3> QED BY DEF Single
  <2>3. 2 \in TreeDepths /\ 3 \in TreeDepths /\ 12 \in TreeDepths
    BY DEF TreeDepths
  <2> HIDE DEF Fits
  <2>4. \/ Registered[i] = Interpreting(12) \/ Registered[i] = Adaptive(12)
        \/ \E generator : \E depth \in TreeDepths : Registered[i] = Single(generator, depth)
    BY <2>3 DEF Registered
  <2>5. Fits(Registered[i])
    BY <2>1, <2>2, <2>3, <2>4
  <2> QED BY <2>5 DEF Fits
<1> QED BY <1>1, <1>2, DriversAssumption

(* A subscript of what the benchmarks share finds what it asks for.        *)
LEMMA SharedFound ==
  ASSUME InitializeSharedData, NEW i \in 1..8
  PROVE  LET key == MakeKeyForDecisionTree(Registered[i].depth, Features)
         IN  /\ Subscripted(trees, key, EmptyTree) = trees
             /\ trees[key] \in PerfectRandomTrees(Registered[i].depth, Features)
             /\ trees[key] \in SharedTrees
<1>1. Registered[i].depth \in TreeDepths
  BY RegisteredBenchmarks
<1> QED BY <1>1 DEF InitializeSharedData, Subscripted

(* The collection filled at startup is the one every benchmark asks for:   *)
(* the subscript creates no other, and its indices are those of the data   *)
(* sets that were collected.                                               *)
LEMMA CollectionFound ==
  ASSUME InitializeSharedData
  PROVE  /\ Subscripted(collections, Features, <<>>) = collections
         /\ Len(collections[Features]) = Collected
         /\ RandomIndices(Len(collections[Features])) = 1..Collected
         /\ DOMAIN collections[Features] = 1..Collected
         /\ \A i \in 1..Collected : collections[Features][i] = Features
<1>1. collections[Features] = [i \in 1..Collected |-> Features] /\ DOMAIN collections = {Features}
  BY DEF InitializeSharedData, RandomDataSets
<1>2. Len([i \in 1..Collected |-> Features]) = Collected
  BY CollectedAssumption
<1> QED BY <1>1, <1>2, CollectedAssumption DEF Subscripted, RandomIndices

(* A driver's step leaves the other threads' drivers alone.                *)
LEMMA DriverOthers ==
  ASSUME NEW t \in Threads, ThreadStep(t), NEW u \in Threads, u # t, JitTypeOK
  PROVE  /\ pc'[u] = pc[u] /\ tree'[u] = tree[u]
         /\ modules'[u] = modules[u] /\ results'[u] = results[u]
BY DEF ThreadStep, Use, Continue, LockSetUp, CheckTarget, LinkTarget, RegisterAsmPrinter,
  SelectTarget, SetSelector, CompileTree, LockSubmit, OptimizeModule, AddModuleSet,
  CannotSelect, EmitAndFinalize, GetFnPtr, DropResults, LeaveDriverScope, DestroyDriver, setUpVars, driverVars, Goto, JitTypeOK

(* A thread keeps fitting while nothing of it changes.                     *)
LEMMA ThreadUntouched ==
  ASSUME NEW u \in Threads, ThreadFits(u), current' = current,
         at'[u] = at[u], chosen'[u] = chosen[u], data'[u] = data[u], pc'[u] = pc[u],
         tree'[u] = tree[u], modules'[u] = modules[u], results'[u] = results[u]
  PROVE  ThreadFits(u)'
BY DEF ThreadFits, HeldFits, DriverInStep, Jit, SettingUp

-----------------------------------------------------------------------------
(* The driver of a thread that is in step with its benchmark goes through  *)
(* its set-up or its only run while the thread waits for it.               *)
LEMMA DriverContinues ==
  ASSUME BenchInv, NEW t \in Threads, Continue(t), UNCHANGED <<sharedVars, current, ownVars>>
  PROVE  ThreadFits(t)'
<1> DEFINE Modules == Seq([tree : Trees, final : BOOLEAN])
           Results == Seq([tree : Trees, fn : 1..MaxRuns])
<1>1. /\ ThreadFits(t) /\ pc \in [Threads -> Steps] /\ tree \in [Threads -> Trees \cup {None}]
      /\ modules \in [Threads -> Modules] /\ results \in [Threads -> Results]
  BY DEF BenchInv, JitInv, JitTypeOK
<1> HIDE DEF Modules, Results
<1>2. at' = at /\ chosen' = chosen /\ data' = data /\ current' = current
  BY DEF ownVars
<1>3. pc[t] # "outside" /\ pc[t] # "ready" /\ pc'[t] # "outside"
  BY <1>1 DEF Continue, CheckTarget, LinkTarget, RegisterAsmPrinter, SelectTarget, LockSubmit,
    OptimizeModule, AddModuleSet, CannotSelect, EmitAndFinalize, GetFnPtr, Goto
<1>4. current # 0 /\ Jit /\ DriverInStep(t)
  BY <1>1, <1>3 DEF ThreadFits, HeldFits, DriverInStep
<1>5. CASE SettingUp(t)
  <2>1. /\ SettingUp(t)' \/ pc'[t] = "ready"
        /\ modules' = modules /\ results' = results
    BY <1>1, <1>5 DEF Continue, CheckTarget, LinkTarget, RegisterAsmPrinter, SelectTarget, LockSubmit,
      OptimizeModule, AddModuleSet, CannotSelect, EmitAndFinalize, GetFnPtr, Goto, SettingUp, driverVars
  <2>2. at[t] \in {"configure", "run"}
    BY <1>1, <1>4, <1>5 DEF ThreadFits, DriverInStep, SettingUp, BenchInv, BenchmarkSteps
  <2> QED BY <1>1, <1>2, <1>4, <2>1, <2>2 DEF ThreadFits, HeldFits, DriverInStep, Jit
<1>6. CASE ~SettingUp(t)
  <2> DEFINE Running == {"submit", "optimize", "compile", "finalize", "lookup"}
  <2>1. at[t] = "draw" /\ pc[t] \in Running /\ results[t] = <<>> /\ tree[t] = chosen[t] /\ data[t] = <<>>
    BY <1>1, <1>3, <1>4, <1>6 DEF ThreadFits, DriverInStep, BenchInv, BenchmarkSteps
  <2>2. CASE GetFnPtr(t)
    <3> DEFINE new == [tree |-> tree[t], fn |-> Len(modules[t])]
    <3>1. pc'[t] = "ready" /\ results'[t] = Append(<<>>, new)
      BY <1>1, <2>1, <2>2 DEF GetFnPtr, FindIn, Goto
    <3>2. new.tree = chosen[t] /\ Append(<<>>, new) = <<new>>
      BY <2>1
    <3> HIDE DEF new
    <3>3. Len(results'[t]) = 1 /\ results'[t][1] = new
      BY <3>1, <3>2
    <3> QED BY <1>1, <1>2, <1>4, <2>1, <3>1, <3>2, <3>3 DEF ThreadFits, HeldFits, DriverInStep, Jit
  <2>3. CASE ~GetFnPtr(t)
    <3>1. pc'[t] \in Running /\ results' = results /\ tree' = tree
      BY <1>1, <1>6, <2>1, <2>3 DEF Continue, CheckTarget, LinkTarget, RegisterAsmPrinter, SelectTarget, LockSubmit,
        OptimizeModule, AddModuleSet, CannotSelect, EmitAndFinalize, Goto, SettingUp, driverVars
    <3> QED BY <1>1, <1>2, <1>4, <2>1, <3>1 DEF ThreadFits, HeldFits, DriverInStep, Jit
  <2> QED BY <2>2, <2>3
<1> QED BY <1>5, <1>6

(* A thread's step keeps what is shared, keeps the driver in step, and     *)
(* touches nothing of the other threads.                                   *)
LEMMA BodyStep ==
  ASSUME BenchInv, NEW t \in Threads, Body(t)
  PROVE  BenchInv' /\ UNCHANGED sharedVars
<1> DEFINE Kept == /\ current \in 0..Len(Registered) /\ at \in [Threads -> BenchmarkSteps]
                   /\ chosen \in [Threads -> SharedTrees \cup {None}]
                   /\ data \in [Threads -> Seq(Nat)]
           Others == \A u \in Threads \ {t} : at'[u] = at[u] /\ chosen'[u] = chosen[u] /\ data'[u] = data[u]
<1>1. /\ JitInv /\ JitTypeOK /\ InitializeSharedData /\ Kept
      /\ \A u \in Threads : ThreadFits(u)
  BY DEF BenchInv, JitInv
<1>2. /\ pc \in [Threads -> Steps] /\ tree \in [Threads -> Trees \cup {None}]
      /\ modules \in [Threads -> Seq([tree : Trees, final : BOOLEAN])]
      /\ results \in [Threads -> Seq([tree : Trees, fn : 1..MaxRuns])]
  BY <1>1 DEF JitTypeOK
<1>3. ThreadStep(t) \/ UNCHANGED jitVars
  <2>1. CASE RunDriver(t)
    <3>1. at[t] = "run" /\ CompileTree(t, chosen[t])
      BY <2>1 DEF RunDriver
    <3>2. current # 0 /\ chosen[t] \in Trees /\ modules[t] = <<>>
      BY <1>1, <3>1, DriversAssumption DEF ThreadFits, HeldFits, DriverInStep
    <3>3. Len(modules[t]) < MaxRuns
      BY <3>2, MaxRunsAssumption
    <3> QED BY <3>1, <3>2, <3>3 DEF ThreadStep, Use
  <2>2. CASE ConfigureDriver(t)
    <3>1. at[t] = "configure" /\ SetSelector(t, Registered[current].selector)
      BY <2>2 DEF ConfigureDriver
    <3>2. current \in 1..8 /\ Registered[current].selector # None
      BY <1>1, <3>1, RegisteredBenchmarks DEF ThreadFits, HeldFits, DriverInStep
    <3>3. Registered[current].selector \in Selectors
      BY <3>2, RegisteredBenchmarks
    <3> QED BY <3>1, <3>3 DEF ThreadStep, Use
  <2> QED BY <2>1, <2>2 DEF Body, SelectDecisionTree, ConstructDriver, SelectRandomDataSet,
    ReachBarrier, DestroyResult, LeaveScope, ThreadStep, Use
<1>4. JitInv'
  BY <1>1, <1>3, JitInvStep, JitInvStutter
<1>5. /\ \A u \in Threads \ {t} : pc'[u] = pc[u] /\ tree'[u] = tree[u] /\ modules'[u] = modules[u]
                                  /\ results'[u] = results[u]
  BY <1>1, <1>3, DriverOthers DEF jitVars
<1>6. Continue(t) \/ at[t] # "joined"
  BY DEF Body, SelectDecisionTree, ConstructDriver, ConfigureDriver, RunDriver,
    SelectRandomDataSet, ReachBarrier, DestroyResult, LeaveScope
<1>7. at[t] # "joined" => current \in 1..8
  BY <1>1, RegisteredBenchmarks DEF ThreadFits, HeldFits
<1>8. SUFFICES ASSUME TRUE PROVE Kept' /\ current' = current /\ UNCHANGED sharedVars /\ Others /\ ThreadFits(t)'
  <2>1. ASSUME current' = current, Others, NEW u \in Threads, u # t PROVE ThreadFits(u)'
    BY <1>1, <1>5, <2>1, ThreadUntouched
  <2>2. ASSUME UNCHANGED sharedVars PROVE InitializeSharedData'
    BY <1>1, <2>2 DEF InitializeSharedData, sharedVars
  <2> QED BY <1>4, <2>1, <2>2 DEF BenchInv
<1> HIDE DEF Kept
<1> USE <1>1, <1>2 DEF ContinueAt
<1>11. CASE SelectDecisionTree(t)
  <2>1. /\ at[t] = "select" /\ current \in 1..8 /\ chosen[t] = None /\ data[t] = <<>>
        /\ pc[t] = "outside" /\ modules[t] = <<>> /\ results[t] = <<>>
    BY <1>7, <1>11 DEF SelectDecisionTree, ThreadFits, JitInv, ModulesLinked
  <2> DEFINE key == MakeKeyForDecisionTree(Registered[current].depth, Features)
             after == IF Registered[current].jit THEN "construct" ELSE "draw"
  <2>2. /\ Subscripted(trees, key, EmptyTree) = trees /\ trees[key] \in SharedTrees
        /\ trees[key] \in PerfectRandomTrees(Registered[current].depth, Features)
    BY <2>1, SharedFound
  <2>3. trees[key] # None
    BY <2>2, DriversAssumption, NoneAssumption
  <2>4. /\ trees' = trees /\ chosen' = [chosen EXCEPT ![t] = trees[key]]
        /\ at' = [at EXCEPT ![t] = after] /\ UNCHANGED <<collections, current, data, jitVars>>
    BY <1>11, <2>2 DEF SelectDecisionTree
  <2> HIDE DEF key
  <2>5. Kept' /\ Others
    BY <2>2, <2>4 DEF Kept, BenchmarkSteps
  <2>6. HeldFits(t)'
    BY <2>1, <2>2, <2>4 DEF HeldFits, ThreadFits, Kept
  <2>7. DriverInStep(t)'
    BY <2>1, <2>4 DEF DriverInStep, Jit, Kept, jitVars, SettingUp
  <2> QED BY <2>1, <2>3, <2>4, <2>5, <2>6, <2>7 DEF ThreadFits, Kept, sharedVars, jitVars
<1>12. CASE ConstructDriver(t)
  <2> DEFINE after == IF Registered[current].selector = None THEN "run" ELSE "configure"
  <2>1. at[t] = "construct" /\ current \in 1..8 /\ Jit /\ pc[t] = "outside" /\ data[t] = <<>>
    BY <1>7, <1>12 DEF ConstructDriver, ThreadFits, DriverInStep
  <2>2. /\ pc'[t] = "register" /\ UNCHANGED driverVars /\ at' = [at EXCEPT ![t] = after]
        /\ UNCHANGED <<sharedVars, current, chosen, data>>
    BY <1>12 DEF ConstructDriver, LockSetUp, Goto
  <2>3. modules[t] = <<>> /\ results[t] = <<>>
    BY <2>1 DEF JitInv, ModulesLinked
  <2>4. Kept' /\ Others
    BY <2>2 DEF Kept, BenchmarkSteps
  <2>5. HeldFits(t)'
    BY <2>1, <2>2 DEF HeldFits, ThreadFits, Kept
  <2>6. DriverInStep(t)'
    BY <2>1, <2>2, <2>3 DEF DriverInStep, Jit, Kept, SettingUp, driverVars
  <2> QED BY <2>1, <2>2, <2>4, <2>5, <2>6 DEF ThreadFits, Kept
<1>13. CASE ConfigureDriver(t)
  <2>1. /\ at[t] = "configure" /\ current \in 1..8 /\ Jit /\ pc[t] = "ready"
        /\ modules[t] = <<>> /\ results[t] = <<>> /\ data[t] = <<>>
    BY <1>7, <1>13 DEF ConfigureDriver, SetSelector, ThreadFits, DriverInStep
  <2>2. /\ UNCHANGED <<pc, tree, modules, results>> /\ at' = [at EXCEPT ![t] = "run"]
        /\ UNCHANGED <<sharedVars, current, chosen, data>>
    BY <1>13 DEF ConfigureDriver, SetSelector
  <2>3. Kept' /\ Others
    BY <2>2 DEF Kept, BenchmarkSteps
  <2>4. HeldFits(t)'
    BY <2>1, <2>2 DEF HeldFits, ThreadFits, Kept
  <2>5. DriverInStep(t)'
    BY <2>1, <2>2 DEF DriverInStep, Jit, Kept, SettingUp
  <2> QED BY <2>1, <2>2, <2>3, <2>4, <2>5 DEF ThreadFits, Kept
<1>14. CASE RunDriver(t)
  <2>1. /\ at[t] = "run" /\ current \in 1..8 /\ Jit /\ pc[t] = "ready"
        /\ modules[t] = <<>> /\ results[t] = <<>> /\ data[t] = <<>>
    BY <1>7, <1>14 DEF RunDriver, CompileTree, ThreadFits, DriverInStep
  <2>2. /\ pc'[t] = "submit" /\ tree'[t] = chosen[t] /\ UNCHANGED <<modules, results>>
        /\ at' = [at EXCEPT ![t] = "draw"] /\ UNCHANGED <<sharedVars, current, chosen, data>>
    BY <1>14 DEF RunDriver, CompileTree, Goto
  <2>3. Kept' /\ Others
    BY <2>2 DEF Kept, BenchmarkSteps
  <2>4. HeldFits(t)'
    BY <2>1, <2>2 DEF HeldFits, ThreadFits, Kept
  <2>5. DriverInStep(t)'
    BY <2>1, <2>2, <2>3 DEF DriverInStep, Jit, Kept, SettingUp
  <2> QED BY <2>1, <2>2, <2>3, <2>4, <2>5 DEF ThreadFits, Kept
<1>15. CASE SelectRandomDataSet(t)
  <2>1. at[t] = "draw" /\ current \in 1..8 /\ pc[t] \in {"outside", "ready"} /\ Len(data[t]) < Draws
    BY <1>7, <1>15 DEF SelectRandomDataSet
  <2>2. PICK i \in 1..Collected : data' = [data EXCEPT ![t] = Append(@, i)]
    BY <1>15, CollectionFound DEF SelectRandomDataSet
  <2>3. UNCHANGED <<sharedVars, current, at, chosen, jitVars>>
    BY <1>15, CollectionFound DEF SelectRandomDataSet, sharedVars
  <2>4. data[t] \in Seq(Nat) /\ i \in Nat
    BY CollectedAssumption DEF Kept
  <2>5. /\ data'[t] = Append(data[t], i) /\ data'[t] \in Seq(Nat)
        /\ Len(data'[t]) = Len(data[t]) + 1 /\ DOMAIN data'[t] = 1..Len(data[t]) + 1
        /\ data'[t][Len(data[t]) + 1] = i
        /\ \A n \in 1..Len(data[t]) : data'[t][n] = data[t][n]
    BY <2>2, <2>4 DEF Kept
  <2>6. Kept' /\ Others
    BY <2>2, <2>3, <2>5 DEF Kept
  <2>7. HeldFits(t)'
    BY <2>1, <2>3, <2>4, <2>5 DEF HeldFits, ThreadFits
  <2>8. DriverInStep(t)'
    <3>1. pc'[t] = pc[t] /\ at'[t] = at[t] /\ current' = current
      BY <2>3 DEF jitVars
    <3>2. DriverInStep(t)
      BY <2>1 DEF ThreadFits
    <3> QED BY <2>1, <2>3, <3>1, <3>2 DEF DriverInStep, Jit, jitVars, SettingUp
  <2>9. Len(data'[t]) <= Draws
    BY <2>1, <2>4, <2>5, DrawsAssumption
  <2> QED BY <2>1, <2>3, <2>6, <2>7, <2>8, <2>9 DEF ThreadFits
<1>16. CASE ReachBarrier(t)
  <2>1. PICK step \in {"start", "stop"} :
          /\ at' = [at EXCEPT ![t] = step]
          /\ \/ at[t] = "draw" /\ Len(data[t]) = Draws
             \/ at[t] = "evaluate"
    BY <1>16 DEF ReachBarrier
  <2>2. current \in 1..8 /\ UNCHANGED <<sharedVars, current, chosen, data, jitVars>>
    BY <1>7, <1>16, <2>1 DEF ReachBarrier
  <2>3. at[t] = "draw" => data[t] # <<>>
    BY <2>1, DrawsAssumption
  <2>4. Kept' /\ Others
    BY <2>1, <2>2 DEF Kept, BenchmarkSteps
  <2>5. HeldFits(t)'
    BY <2>1, <2>2 DEF HeldFits, ThreadFits, Kept
  <2>6. DriverInStep(t)'
    BY <2>1, <2>2, <2>3 DEF DriverInStep, ThreadFits, Jit, Kept, jitVars, SettingUp
  <2> QED BY <2>1, <2>2, <2>4, <2>5, <2>6 DEF ThreadFits, Kept
<1>17. CASE LeaveScope(t)
  <2>1. at[t] = "leave" /\ current \in 1..8 /\ UNCHANGED <<sharedVars, current>>
    BY <1>7, <1>17 DEF LeaveScope
  <2>2. /\ at' = [at EXCEPT ![t] = "joined"] /\ chosen' = [chosen EXCEPT ![t] = None]
        /\ data' = [data EXCEPT ![t] = <<>>]
    BY <1>17 DEF LeaveScope
  <2>3. pc'[t] = "outside"
    <3>1. CASE Jit
      BY <1>17, <3>1 DEF LeaveScope, LeaveDriverScope, DestroyDriver, Goto, Jit
    <3>2. CASE ~Jit
      BY <1>17, <2>1, <3>2 DEF LeaveScope, Jit, ThreadFits, DriverInStep, jitVars
    <3> QED BY <3>1, <3>2
  <2>4. Kept' /\ Others
    BY <2>1, <2>2 DEF Kept, BenchmarkSteps
  <2>5. HeldFits(t)'
    BY <2>1, <2>2 DEF HeldFits, Kept
  <2>6. DriverInStep(t)'
    BY <2>1, <2>2, <2>3 DEF DriverInStep, Kept, SettingUp
  <2>7. Len(<<>>) <= Draws
    BY DrawsAssumption
  <2> QED BY <2>1, <2>2, <2>3, <2>4, <2>5, <2>6, <2>7 DEF ThreadFits, Kept
<1>18. CASE DestroyResult(t)
  <2>1. at[t] = "leave" /\ current \in 1..8 /\ DropResults(t) /\ UNCHANGED <<sharedVars, current, ownVars>>
    BY <1>7, <1>18 DEF DestroyResult
  <2>2. pc' = pc /\ at' = at /\ chosen' = chosen /\ data' = data /\ current' = current
    BY <2>1 DEF DropResults, ownVars
  <2>3. DriverInStep(t)'
    BY <2>1, <2>2 DEF DriverInStep, ThreadFits, Jit
  <2>4. Kept' /\ HeldFits(t)'
    BY <2>2 DEF Kept, HeldFits, ThreadFits
  <2> QED BY <2>1, <2>2, <2>3, <2>4 DEF ThreadFits
<1>19. CASE Continue(t) /\ UNCHANGED <<sharedVars, current, ownVars>>
  <2>1. ThreadFits(t)'
    BY <1>19, DriverContinues
  <2>2. Kept'
    BY <1>19 DEF Kept, ownVars
  <2> QED BY <1>19, <2>1, <2>2 DEF ownVars, sharedVars
<1> QED BY <1>11, <1>12, <1>13, <1>14, <1>15, <1>16, <1>17, <1>18, <1>19 DEF Body

(* The barrier lets all threads go on at once; a benchmark starts when all *)
(* threads have left the one before.                                       *)
LEMMA BarrierStep ==
  ASSUME BenchInv, PassBarrier
  PROVE  BenchInv' /\ UNCHANGED sharedVars
<1>1. JitInv'
  BY JitInvStutter DEF BenchInv, PassBarrier
<1>2. PICK from \in {"start", "stop"}, to \in {"evaluate", "leave"} :
        /\ \A t \in Threads : at[t] = from
        /\ at' = [t \in Threads |-> to]
        /\ UNCHANGED <<sharedVars, current, chosen, data, jitVars>>
  BY DEF PassBarrier
<1>3. /\ current' \in 0..Len(Registered) /\ at' \in [Threads -> BenchmarkSteps]
      /\ chosen' \in [Threads -> SharedTrees \cup {None}] /\ data' \in [Threads -> Seq(Nat)]
  BY <1>2 DEF BenchInv, BenchmarkSteps
<1>4. InitializeSharedData'
  BY <1>2 DEF BenchInv, InitializeSharedData, sharedVars
<1>5. ASSUME NEW t \in Threads PROVE ThreadFits(t)'
  <2>1. ThreadFits(t) /\ at[t] = from /\ at'[t] = to
    BY <1>2 DEF BenchInv
  <2>2. HeldFits(t)'
    BY <1>2, <2>1 DEF ThreadFits, HeldFits
  <2>3. current # 0 => DriverInStep(t)'
    BY <1>2, <2>1 DEF ThreadFits, DriverInStep, Jit, jitVars, SettingUp
  <2> QED BY <1>2, <2>1, <2>2, <2>3 DEF ThreadFits, jitVars
<1> QED BY <1>1, <1>2, <1>3, <1>4, <1>5 DEF BenchInv, sharedVars

(* A benchmark that starts releases every thread to its first step and     *)
(* touches no shared data.                                                 *)
LEMMA StartStep ==
  ASSUME BenchInv, NEW benchmark \in DOMAIN Registered, StartBenchmark(benchmark)
  PROVE  BenchInv' /\ UNCHANGED sharedVars
<1>1. JitInv' /\ UNCHANGED <<sharedVars, chosen, data, jitVars>>
  BY JitInvStutter DEF BenchInv, StartBenchmark
<1>2. /\ current' = benchmark /\ benchmark \in 1..8 /\ at' = [t \in Threads |-> "select"]
      /\ \A t \in Threads : at[t] = "joined"
  BY RegisteredBenchmarks DEF StartBenchmark
<1>3. /\ current' \in 0..Len(Registered) /\ at' \in [Threads -> BenchmarkSteps]
      /\ chosen' \in [Threads -> SharedTrees \cup {None}] /\ data' \in [Threads -> Seq(Nat)]
  BY <1>1, <1>2, RegisteredBenchmarks DEF BenchInv, BenchmarkSteps
<1>4. InitializeSharedData'
  BY <1>1 DEF BenchInv, InitializeSharedData, sharedVars
<1>5. ASSUME NEW t \in Threads PROVE ThreadFits(t)'
  <2>1. ThreadFits(t) /\ at[t] = "joined" /\ at'[t] = "select"
    BY <1>2 DEF BenchInv
  <2>2. HeldFits(t)'
    BY <1>1, <1>2, <2>1 DEF ThreadFits, HeldFits
  <2>3. DriverInStep(t)'
    BY <1>1, <2>1 DEF ThreadFits, DriverInStep, SettingUp, jitVars
  <2> QED BY <1>1, <2>1, <2>2, <2>3 DEF ThreadFits, jitVars
<1> QED BY <1>1, <1>2, <1>3, <1>4, <1>5 DEF BenchInv, sharedVars

(* At startup nothing is shared, chosen or compiled: the invariant holds.  *)
LEMMA BenchInvInit == BenchmarksInit => BenchInv
<1> SUFFICES ASSUME BenchmarksInit PROVE BenchInv
  OBVIOUS
<1>1. JitInv /\ InitializeSharedData /\ current = 0
  BY JitInvInit DEF BenchmarksInit
<1>2. \A t \in Threads : at[t] = "joined" /\ chosen[t] = None /\ data[t] = <<>> /\ pc[t] = "outside"
  BY DEF BenchmarksInit, JitInit
<1>3. /\ at \in [Threads -> BenchmarkSteps] /\ chosen \in [Threads -> SharedTrees \cup {None}]
      /\ data \in [Threads -> Seq(Nat)]
  BY DEF BenchmarksInit, BenchmarkSteps
<1>4. \A t \in Threads : ThreadFits(t)
  BY <1>1, <1>2, DrawsAssumption DEF ThreadFits, HeldFits
<1> QED BY <1>1, <1>3, <1>4, RegisteredBenchmarks DEF BenchInv

(* Every step of the program preserves BenchInv and what is shared.        *)
LEMMA BenchInvStep ==
  BenchInv /\ [BenchmarksNext]_benchVars => BenchInv' /\ UNCHANGED sharedVars
<1> SUFFICES ASSUME BenchInv, [BenchmarksNext]_benchVars
             PROVE  BenchInv' /\ UNCHANGED sharedVars
  OBVIOUS
<1>1. CASE UNCHANGED benchVars
  <2>1. JitInv' /\ UNCHANGED <<trees, collections, current, at, chosen, data, pc, tree, modules, results>>
    BY <1>1, JitInvStutter DEF BenchInv, benchVars, sharedVars, ownVars, jitVars
  <2>2. \A t \in Threads : ThreadFits(t)'
    BY <2>1, ThreadUntouched DEF BenchInv
  <2>3. InitializeSharedData'
    BY <2>1 DEF BenchInv, InitializeSharedData
  <2> QED BY <2>1, <2>2, <2>3 DEF BenchInv, sharedVars
<1>2. CASE BenchmarksNext
  BY <1>1, <1>2, BodyStep, BarrierStep, StartStep DEF BenchmarksNext
<1> QED BY <1>1, <1>2

-----------------------------------------------------------------------------
(* BenchInv is an invariant, with any number of threads.                   *)
THEOREM BenchmarksInvariant == BenchmarksSpec => []BenchInv
BY BenchInvInit, BenchInvStep, PTL DEF BenchmarksSpec

(* The program's types, its drivers' among them; a thread holds a tree and *)
(* data sets between selecting and leaving, never more than it draws, and  *)
(* has no driver outside of its benchmark.                                 *)
THEOREM BenchmarksTypeCorrect == BenchmarksSpec => []BenchmarksTypeOK
<1>1. BenchInv => BenchmarksTypeOK
  BY DEF BenchInv, JitInv, BenchmarksTypeOK, ThreadFits
<1> QED BY BenchmarksInvariant, <1>1, PTL

(* What threads call while others run is the function of their own driver, *)
(* for a tree of the benchmark's depth, with data sets that exist and have *)
(* every feature the tree reads.                                           *)
THEOREM BenchmarksCallInside == BenchmarksSpec => []CallsInside
<1>1. BenchInv => CallsInside
  <2> SUFFICES ASSUME BenchInv, NEW t \in Threads, at[t] = "evaluate"
               PROVE  /\ Evaluated(t).levels = Registered[current].depth
                      /\ \A i \in DOMAIN data[t] :
                           /\ data[t][i] \in DOMAIN collections[Features]
                           /\ Evaluated(t).reads < collections[Features][data[t][i]]
    BY DEF CallsInside
  <2>1. HeldFits(t) /\ DriverInStep(t)
    BY DEF BenchInv, ThreadFits, HeldFits
  <2>2. Evaluated(t) = chosen[t]
    BY <2>1 DEF Evaluated, DriverInStep, Jit, BenchInv, JitInv, ResultsCallable
  <2>3. chosen[t] \in PerfectRandomTrees(Registered[current].depth, Features)
    BY <2>1 DEF HeldFits
  <2>4. chosen[t].levels = Registered[current].depth /\ chosen[t].reads < Features
    <3>1. PICK feature \in 0..(Features - 1) :
            chosen[t] = [levels |-> Registered[current].depth, reads |-> feature]
      BY <2>3 DEF PerfectRandomTrees, RandomFeatures
    <3>2. feature < Features
      BY FeaturesAssumption
    <3> QED BY <3>1, <3>2
  <2>5. \A i \in DOMAIN data[t] : data[t][i] \in 1..Collected
    BY <2>1 DEF HeldFits
  <2> QED BY <2>2, <2>4, <2>5, CollectionFound DEF BenchInv
<1> QED BY BenchmarksInvariant, <1>1, PTL

(* However many threads run a benchmark, none inserts into what they share.*)
THEOREM SharedDataStaysUntouched == BenchmarksSpec => SharedDataUntouched
<1>1. BenchInv /\ [BenchmarksNext]_benchVars => [UNCHANGED sharedVars]_benchVars
  BY BenchInvStep
<1> QED BY BenchmarksInvariant, <1>1, PTL DEF BenchmarksSpec, SharedDataUntouched

-----------------------------------------------------------------------------
(* How a tree is built. First what the provers have to be told of natural  *)
(* numbers.                                                                *)

(* A set of natural numbers has a least one: that `<` is well-founded says *)
(* so, of sets. It makes up for the induction theorems on predicates.      *)
LEMMA LeastNumber ==
  ASSUME NEW T \in SUBSET Nat, T # {}
  PROVE  \E x \in T : \A y \in T : x <= y
<1> DEFINE less == {p \in Nat \X Nat : p[1] < p[2]}
<1>1. IsWellFoundedOn(less, Nat)
  BY NatLessThanWellFounded DEF OpToRel
<1>2. \A p \in Nat \X Nat : p[1] < p[2] => p \in less
  OBVIOUS
<1> HIDE DEF less
<1>3. PICK x \in T : \A y \in T : ~(<<y, x>> \in less)
  BY <1>1, WFMin, Zenon
<1>4. ASSUME NEW y \in T PROVE x <= y
  <2>1. <<y, x>> \in Nat \X Nat /\ <<y, x>>[1] = y /\ <<y, x>>[2] = x
    OBVIOUS
  <2>2. ~(y < x)
    BY <1>2, <1>3, <2>1
  <2> QED BY <2>2
<1> QED BY <1>4

(* Induction over a set of natural numbers.                                *)
LEMMA NumberInduction ==
  ASSUME NEW S \in SUBSET Nat, 0 \in S, \A n \in S : n + 1 \in S
  PROVE  S = Nat
<1> DEFINE T == Nat \ S
<1> SUFFICES ASSUME T # {} PROVE FALSE
  OBVIOUS
<1>1. T \in SUBSET Nat
  OBVIOUS
<1>2. PICK x \in T : \A y \in T : x <= y
  BY <1>1, LeastNumber
<1>3. x \in Nat \ {0} /\ x - 1 \in Nat /\ (x - 1) + 1 = x /\ ~(x <= x - 1)
  BY <1>2
<1>4. x - 1 \in S
  BY <1>2, <1>3
<1> QED BY <1>2, <1>3, <1>4

-----------------------------------------------------------------------------
(* Powers of two, and where a node's children are.                         *)

(* A power of two is twice the one before: tables of them exist for every  *)
(* length, agree with each other, and make up the function.                *)
LEMMA PowerEquation ==
  /\ PowerOf2[0] = 1
  /\ \A n \in Nat : PowerOf2[n + 1] = 2 * PowerOf2[n]
<1> DEFINE Table(f, m) == f = [i \in 0..m |-> IF i = 0 THEN 1 ELSE 2 * f[i - 1]]
           table == [m \in Nat |-> CHOOSE f : Table(f, m)]
           power == [n \in Nat |-> table[n][n]]
           Power(f) == f = [n \in Nat |-> IF n = 0 THEN 1 ELSE 2 * f[n - 1]]
<1>1. ASSUME NEW m \in Nat, NEW f, Table(f, m)
      PROVE  /\ f[0] = 1
             /\ \A i \in 0..m - 1 : f[i + 1] = 2 * f[i]
  <2>1. \A i \in 0..m : f[i] = IF i = 0 THEN 1 ELSE 2 * f[i - 1]
    BY <1>1, Zenon
  <2>2. ASSUME NEW i \in 0..m - 1 PROVE f[i + 1] = 2 * f[i]
    <3>1. i + 1 \in 0..m /\ i + 1 # 0 /\ (i + 1) - 1 = i
      OBVIOUS
    <3> QED BY <2>1, <3>1
  <2> QED BY <2>1, <2>2
<1>2. \A m \in Nat : \E f : Table(f, m)
  <2> DEFINE S == {m \in Nat : \E f : Table(f, m)}
  <2>1. 0 \in S
    <3>1. Table([i \in 0..0 |-> 1], 0)
      OBVIOUS
    <3> HIDE DEF Table
    <3> QED BY <3>1
  <2>2. ASSUME NEW m \in S PROVE m + 1 \in S
    <3>1. m \in Nat /\ m + 1 \in Nat
      OBVIOUS
    <3>2. PICK f : Table(f, m)
      OBVIOUS
    <3> DEFINE g == [i \in 0..m + 1 |-> IF i <= m THEN f[i] ELSE 2 * f[m]]
    <3>3. f[0] = 1 /\ \A i \in 0..m - 1 : f[i + 1] = 2 * f[i]
      BY <1>1, <3>1, <3>2
    <3>4. ASSUME NEW i \in 0..m + 1
          PROVE  g[i] = IF i = 0 THEN 1 ELSE 2 * g[i - 1]
      <4>1. CASE i = 0
        BY <3>1, <3>3, <4>1
      <4>2. CASE i \in 1..m
        <5>1. g[i] = f[i] /\ g[i - 1] = f[i - 1]
          BY <3>1, <4>2
        <5>2. i - 1 \in 0..m - 1 /\ (i - 1) + 1 = i /\ i # 0
          BY <3>1, <4>2
        <5>3. f[(i - 1) + 1] = 2 * f[i - 1]
          BY <3>3, <5>2
        <5> QED BY <5>1, <5>2, <5>3
      <4>3. CASE i = m + 1
        <5>1. g[i] = 2 * f[m] /\ g[i - 1] = f[m] /\ i # 0
          BY <3>1, <4>3
        <5> QED BY <5>1
      <4> QED BY <3>1, <4>1, <4>2, <4>3
    <3>5. g = [i \in 0..m + 1 |-> g[i]]
      OBVIOUS
    <3> HIDE DEF g
    <3>6. Table(g, m + 1)
      BY <3>4, <3>5
    <3> HIDE DEF Table
    <3> QED BY <3>1, <3>6
  <2>3. S \in SUBSET Nat
    OBVIOUS
  <2> HIDE DEF S
  <2>4. S = Nat
    BY <2>1, <2>2, <2>3, NumberInduction
  <2> QED BY <2>4 DEF S
<1> HIDE DEF Table
<1>3. ASSUME NEW m \in Nat
      PROVE  /\ table[m][0] = 1
             /\ \A i \in 0..m - 1 : table[m][i + 1] = 2 * table[m][i]
  <2>1. Table(table[m], m)
    BY <1>2
  <2> HIDE DEF table
  <2> QED BY <1>1, <2>1
<1> HIDE DEF table
<1>4. ASSUME NEW m \in Nat PROVE table[m + 1][m] = table[m][m]
  <2> DEFINE S == {i \in Nat : i <= m => table[m + 1][i] = table[m][i]}
  <2>1. 0 \in S
    BY <1>3
  <2>2. ASSUME NEW i \in S PROVE i + 1 \in S
    <3>1. CASE i + 1 <= m
      <4>1. i \in 0..m - 1 /\ i \in 0..(m + 1) - 1 /\ m + 1 \in Nat /\ i <= m
        BY <3>1
      <4>2. table[m][i + 1] = 2 * table[m][i] /\ table[m + 1][i + 1] = 2 * table[m + 1][i]
        BY <1>3, <4>1
      <4> QED BY <4>1, <4>2
    <3> QED BY <3>1
  <2>3. S \in SUBSET Nat
    OBVIOUS
  <2>4. m \in S
    <3> HIDE DEF S
    <3> QED BY <2>1, <2>2, <2>3, NumberInduction
  <2> QED BY <2>4
<1>5. Power(power)
  <2>1. ASSUME NEW n \in Nat PROVE power[n] = IF n = 0 THEN 1 ELSE 2 * power[n - 1]
    <3>1. CASE n = 0
      BY <1>3, <3>1
    <3>2. CASE n # 0
      <4>1. n - 1 \in Nat /\ n - 1 \in 0..n - 1 /\ (n - 1) + 1 = n
        BY <3>2
      <4>2. table[n][n] = 2 * table[n][n - 1]
        BY <1>3, <4>1
      <4>3. table[n][n - 1] = table[n - 1][n - 1]
        BY <1>4, <4>1
      <4>4. power[n] = table[n][n] /\ power[n - 1] = table[n - 1][n - 1]
        BY <4>1
      <4> QED BY <3>2, <4>2, <4>3, <4>4
    <3> QED BY <3>1, <3>2
  <2>2. power = [n \in Nat |-> power[n]]
    OBVIOUS
  <2> HIDE DEF power
  <2> QED BY <2>1, <2>2
<1>6. Power(PowerOf2)
  <2>1. PowerOf2 = CHOOSE f : Power(f)
    BY DEF PowerOf2
  <2> HIDE DEF Power
  <2> QED BY <1>5, <2>1
<1>7. \A n \in Nat : PowerOf2[n] = IF n = 0 THEN 1 ELSE 2 * PowerOf2[n - 1]
  BY <1>6, Zenon
<1>8. ASSUME NEW n \in Nat PROVE PowerOf2[n + 1] = 2 * PowerOf2[n]
  <2>1. n + 1 \in Nat /\ n + 1 # 0 /\ (n + 1) - 1 = n
    OBVIOUS
  <2> QED BY <1>7, <2>1
<1> QED BY <1>7, <1>8

(* A power of two exceeds its exponent...                                  *)
LEMMA PowerExceeds == \A n \in Nat : PowerOf2[n] \in Nat /\ PowerOf2[n] > n
<1> DEFINE S == {n \in Nat : PowerOf2[n] \in Nat /\ PowerOf2[n] > n}
<1>1. 0 \in S
  BY PowerEquation
<1>2. ASSUME NEW n \in S PROVE n + 1 \in S
  BY PowerEquation
<1>3. S \in SUBSET Nat
  OBVIOUS
<1> HIDE DEF S
<1>4. S = Nat
  BY <1>1, <1>2, <1>3, NumberInduction
<1> QED BY <1>4 DEF S

(* ...and any with a lower one.                                            *)
LEMMA PowerMonotone ==
  ASSUME NEW m \in Nat, NEW n \in Nat, m <= n
  PROVE  PowerOf2[m] <= PowerOf2[n]
<1> DEFINE S == {i \in Nat : PowerOf2[m] <= PowerOf2[m + i]}
<1>1. 0 \in S
  BY PowerExceeds
<1>2. ASSUME NEW i \in S PROVE i + 1 \in S
  <2>1. m + i \in Nat /\ m + (i + 1) = (m + i) + 1
    OBVIOUS
  <2>2. PowerOf2[m + (i + 1)] = 2 * PowerOf2[m + i]
    BY <2>1, PowerEquation
  <2> QED BY <2>1, <2>2, PowerExceeds
<1>3. S \in SUBSET Nat
  OBVIOUS
<1> HIDE DEF S
<1>4. n - m \in S
  BY <1>1, <1>2, <1>3, NumberInduction
<1>5. m + (n - m) = n
  OBVIOUS
<1> QED BY <1>4, <1>5 DEF S

(* Log2 finds the power of two that a positive number reaches.             *)
LEMMA LogBounds ==
  ASSUME NEW value \in Nat \ {0}
  PROVE  /\ Log2(value) \in Nat
         /\ PowerOf2[Log2(value)] <= value /\ value < PowerOf2[Log2(value) + 1]
<1> DEFINE T == {k \in Nat : value < PowerOf2[k]}
<1>1. T \in SUBSET Nat /\ T # {}
  BY PowerExceeds
<1>2. PICK k \in T : \A j \in T : k <= j
  BY <1>1, LeastNumber
<1>3. k # 0
  BY <1>2, PowerEquation
<1>4. k - 1 \in Nat /\ (k - 1) + 1 = k /\ ~(k <= k - 1)
  BY <1>2, <1>3
<1>5. PowerOf2[k - 1] <= value
  BY <1>2, <1>4, PowerExceeds
<1>6. value < PowerOf2[(k - 1) + 1]
  BY <1>2, <1>4
<1>7. k - 1 \in 0..value
  BY <1>4, <1>5, PowerExceeds
<1>8. \E l \in 0..value : PowerOf2[l] <= value /\ value < PowerOf2[l + 1]
  BY <1>5, <1>6, <1>7
<1>9. /\ Log2(value) \in 0..value
      /\ PowerOf2[Log2(value)] <= value /\ value < PowerOf2[Log2(value) + 1]
  BY <1>8 DEF Log2
<1> QED BY <1>9

(* The formula of the factories puts the children of node n next to each   *)
(* other, at 2n + 1 and 2n + 2.                                            *)
LEMMA ChildIndices == \A n \in Nat : FalseChildIdx(n) = 2 * n + 1
<1> SUFFICES ASSUME NEW n \in Nat PROVE FalseChildIdx(n) = 2 * n + 1
  OBVIOUS
<1> DEFINE l == Log2(n + 1)
<1>1. l \in Nat
  BY LogBounds
<1>2. PowerOf2[l] \in Nat /\ PowerOf2[l + 1] = 2 * PowerOf2[l]
  BY <1>1, PowerEquation, PowerExceeds
<1>3. FalseChildIdx(n) = (PowerOf2[l + 1] - 1) + 2 * (n - (PowerOf2[l] - 1))
  BY DEF FalseChildIdx, FirstNodeIdxOnLevel, IndexOnLevel, LevelForNodeIdx
<1> HIDE DEF l
<1> QED BY <1>2, <1>3

(* The inner nodes of a tree: another level makes twice as many and one.   *)
LEMMA NodeCounts ==
  \A n \in Nat : TreeNodes(n) \in Nat /\ TreeNodes(n + 1) = 2 * TreeNodes(n) + 1
BY PowerEquation, PowerExceeds DEF TreeNodes

(* Their number is odd, and so no power of two but 1.                      *)
LEMMA NodeCountIsOdd ==
  ASSUME NEW n \in Nat \ {0}, IsPowerOf2(TreeNodes(n))
  PROVE  TreeNodes(n) = 1
<1>1. n - 1 \in Nat /\ (n - 1) + 1 = n
  OBVIOUS
<1>2. PICK k \in Nat : TreeNodes(n) = 2 * k + 1
  BY <1>1, NodeCounts
<1> DEFINE l == Log2(TreeNodes(n))
<1>3. l \in Nat /\ PowerOf2[l] = TreeNodes(n)
  BY <1>2, LogBounds DEF IsPowerOf2
<1> HIDE DEF l
<1>4. CASE l = 0
  BY <1>3, <1>4, PowerEquation
<1>5. CASE l # 0
  <2>1. l - 1 \in Nat /\ (l - 1) + 1 = l
    BY <1>3, <1>5
  <2>2. PICK j \in Nat : PowerOf2[l] = 2 * j
    BY <2>1, PowerEquation, PowerExceeds
  <2> QED BY <1>2, <1>3, <2>2
<1> QED BY <1>4, <1>5

(* The number between two powers of two is the one that Log2 finds.        *)
LEMMA LogUnique ==
  ASSUME NEW value \in Nat \ {0}, NEW l \in Nat,
         PowerOf2[l] <= value, value < PowerOf2[l + 1]
  PROVE  Log2(value) = l
<1> DEFINE k == Log2(value)
<1>1. k \in Nat /\ PowerOf2[k] <= value /\ value < PowerOf2[k + 1]
  BY LogBounds
<1> HIDE DEF k
<1>2. /\ PowerOf2[k] \in Nat /\ PowerOf2[l] \in Nat
      /\ PowerOf2[k + 1] \in Nat /\ PowerOf2[l + 1] \in Nat
  BY <1>1, PowerExceeds
<1>3. CASE k < l
  <2>1. k + 1 \in Nat /\ k + 1 <= l
    BY <1>1, <1>3
  <2>2. PowerOf2[k + 1] <= PowerOf2[l]
    BY <2>1, PowerMonotone
  <2> QED BY <1>1, <1>2, <2>2
<1>4. CASE l < k
  <2>1. l + 1 \in Nat /\ l + 1 <= k
    BY <1>1, <1>4
  <2>2. PowerOf2[l + 1] <= PowerOf2[k]
    BY <1>1, <2>1, PowerMonotone
  <2> QED BY <1>1, <1>2, <2>2
<1> QED BY <1>1, <1>3, <1>4 DEF k

(* The level of a node: the root's is 0, the children's the next one, and  *)
(* that of the results is the number of levels.                            *)
LEMMA NodeLevels ==
  ASSUME NEW n \in Nat \ {0}
  PROVE  /\ TreeNodes(n) \in Nat \ {0} /\ LevelForNodeIdx(0) = 0
         /\ \A idx \in 0..2 * TreeNodes(n) :
              /\ LevelForNodeIdx(idx) \in 0..n
              /\ LevelForNodeIdx(idx) < n <=> idx < TreeNodes(n)
         /\ \A idx \in 0..TreeNodes(n) - 1 :
              /\ LevelForNodeIdx(2 * idx + 1) = LevelForNodeIdx(idx) + 1
              /\ LevelForNodeIdx(2 * idx + 2) = LevelForNodeIdx(idx) + 1
<1> DEFINE N == TreeNodes(n)
<1>1. /\ PowerOf2[n] \in Nat /\ PowerOf2[n] > n /\ PowerOf2[n + 1] = 2 * PowerOf2[n]
      /\ N = PowerOf2[n] - 1
  BY PowerEquation, PowerExceeds DEF TreeNodes
<1>2. N \in Nat \ {0}
  BY <1>1
<1>3. LevelForNodeIdx(0) = 0
  <2>1. PowerOf2[0] = 1 /\ PowerOf2[0 + 1] = 2 * PowerOf2[0]
    BY PowerEquation
  <2>2. 0 \in Nat /\ 0 + 1 \in Nat \ {0} /\ PowerOf2[0] <= 0 + 1 /\ 0 + 1 < PowerOf2[0 + 1]
    BY <2>1
  <2> QED BY <2>2, LogUnique DEF LevelForNodeIdx
<1> HIDE DEF N
<1>4. ASSUME NEW idx \in 0..2 * N
      PROVE  /\ LevelForNodeIdx(idx) \in 0..n
             /\ LevelForNodeIdx(idx) < n <=> idx < N
  <2> DEFINE l == LevelForNodeIdx(idx)
  <2>1. idx + 1 \in Nat \ {0}
    BY <1>2
  <2>2. l \in Nat /\ PowerOf2[l] <= idx + 1 /\ idx + 1 < PowerOf2[l + 1]
    BY <2>1, LogBounds DEF LevelForNodeIdx
  <2>3. CASE idx < N
    <3> SUFFICES l < n
      BY <2>2, <2>3
    <3>1. CASE l >= n
      <4>1. PowerOf2[n] <= PowerOf2[l] /\ PowerOf2[l] \in Nat
        BY <2>2, <3>1, PowerMonotone, PowerExceeds
      <4> HIDE DEF l
      <4> QED BY <1>1, <2>2, <2>3, <4>1
    <3> HIDE DEF l
    <3> QED BY <2>2, <3>1
  <2>4. CASE ~(idx < N)
    <3>1. PowerOf2[n] <= idx + 1 /\ idx + 1 < PowerOf2[n + 1]
      BY <1>1, <1>2, <2>4
    <3>2. l = n
      BY <2>1, <3>1, LogUnique DEF LevelForNodeIdx
    <3> QED BY <2>4, <3>2
  <2> QED BY <2>3, <2>4
<1>5. ASSUME NEW idx \in 0..N - 1, NEW child \in {2 * idx + 1, 2 * idx + 2}
      PROVE  LevelForNodeIdx(child) = LevelForNodeIdx(idx) + 1
  <2> DEFINE l == LevelForNodeIdx(idx)
  <2>1. idx \in Nat /\ idx + 1 \in Nat \ {0} /\ child + 1 \in Nat \ {0}
    BY <1>2
  <2>2. l \in Nat /\ PowerOf2[l] <= idx + 1 /\ idx + 1 < PowerOf2[l + 1]
    BY <2>1, LogBounds DEF LevelForNodeIdx
  <2> HIDE DEF l
  <2>3. l + 1 \in Nat /\ PowerOf2[l] \in Nat /\ PowerOf2[l + 1] \in Nat
    BY <2>2, PowerExceeds
  <2>4. PowerOf2[l + 1] = 2 * PowerOf2[l] /\ PowerOf2[(l + 1) + 1] = 2 * PowerOf2[l + 1]
    BY <2>2, <2>3, PowerEquation
  <2>5. PowerOf2[l + 1] <= child + 1 /\ child + 1 < PowerOf2[(l + 1) + 1]
    BY <2>1, <2>2, <2>3, <2>4
  <2>6. LevelForNodeIdx(child) = l + 1
    BY <2>1, <2>3, <2>5, LogUnique DEF LevelForNodeIdx
  <2> QED BY <2>6 DEF l
<1> QED BY <1>2, <1>3, <1>4, <1>5 DEF N


-----------------------------------------------------------------------------
(* The trees of the factories.                                             *)

(* What a factory makes: inner nodes with the bias and feature it gives    *)
(* them and two children each, and implicit nodes up to the last child.    *)
LEMMA PerfectTree ==
  ASSUME NEW n \in Nat \ {0}, NEW bias, NEW feature, NoNode \notin 0..2 * TreeNodes(n)
  PROVE  MakePerfectTree(n, bias, feature) =
           [idx \in 0..2 * TreeNodes(n) |->
              IF idx < TreeNodes(n)
              THEN [bias |-> bias[idx], feature |-> feature[idx],
                    falseChild |-> 2 * idx + 1, trueChild |-> 2 * idx + 2]
              ELSE ImplicitNode]
<1> DEFINE N == TreeNodes(n)
           inner == [idx \in 0..N - 1 |->
                       [bias |-> bias[idx], feature |-> feature[idx],
                        falseChild |-> 2 * idx + 1, trueChild |-> 2 * idx + 2]]
           maxIdx == CHOOSE m \in DOMAIN inner : \A i \in DOMAIN inner : i <= m
           children == UNION {{inner[i].falseChild, inner[i].trueChild} : i \in DOMAIN inner}
           below == {c \in children \ {NoNode} : c > maxIdx}
<1>1. N \in Nat \ {0}
  <2>1. n - 1 \in Nat /\ (n - 1) + 1 = n
    OBVIOUS
  <2>2. TreeNodes(n - 1) \in Nat /\ TreeNodes((n - 1) + 1) = 2 * TreeNodes(n - 1) + 1
    BY <2>1, NodeCounts, Zenon
  <2> QED BY <2>1, <2>2
<1>2. DOMAIN inner = 0..N - 1
  OBVIOUS
<1>3. inner = [idx \in InnerNodes(n) |->
                 [bias |-> bias[idx], feature |-> feature[idx],
                  falseChild |-> FalseChildIdx(idx), trueChild |-> FalseChildIdx(idx) + 1]]
  <2>1. \A idx \in 0..N - 1 : FalseChildIdx(idx) = 2 * idx + 1 /\ FalseChildIdx(idx) + 1 = 2 * idx + 2
    BY <1>1, ChildIndices
  <2>2. InnerNodes(n) = 0..N - 1
    BY DEF InnerNodes
  <2> QED BY <2>1, <2>2
<1>4. MakePerfectTree(n, bias, feature) = Finalize(inner)
  BY <1>3 DEF MakePerfectTree
<1>5. Finalize(inner) = [i \in DOMAIN inner \cup below |->
                           IF i \in DOMAIN inner THEN inner[i] ELSE ImplicitNode]
  BY DEF Finalize
<1>6. maxIdx = N - 1
  <2>1. maxIdx = CHOOSE m \in 0..N - 1 : \A i \in 0..N - 1 : i <= m
    BY <1>2
  <2>2. N - 1 \in 0..N - 1 /\ \A i \in 0..N - 1 : i <= N - 1
    BY <1>1
  <2> HIDE DEF maxIdx, N
  <2> QED BY <1>1, <2>1, <2>2
<1>7. children = 1..2 * N
  <2>1. ASSUME NEW i \in 0..N - 1
        PROVE  {inner[i].falseChild, inner[i].trueChild} = {2 * i + 1, 2 * i + 2}
    OBVIOUS
  <2>2. children = UNION {{2 * i + 1, 2 * i + 2} : i \in 0..N - 1}
    BY <1>2, <2>1
  <2> HIDE DEF children, N
  <2>3. ASSUME NEW c \in 1..2 * N PROVE \E i \in 0..N - 1 : c \in {2 * i + 1, 2 * i + 2}
    <3>1. (c - 1) \div 2 \in 0..N - 1 /\ c \in {2 * ((c - 1) \div 2) + 1, 2 * ((c - 1) \div 2) + 2}
      BY <1>1
    <3> QED BY <3>1
  <2>4. ASSUME NEW i \in 0..N - 1 PROVE {2 * i + 1, 2 * i + 2} \subseteq 1..2 * N
    BY <1>1
  <2> QED BY <2>2, <2>3, <2>4
<1>8. below = N..2 * N
  <2> HIDE DEF children, maxIdx
  <2>1. below = {c \in children \ {NoNode} : c > N - 1}
    BY <1>6
  <2> QED BY <1>1, <1>7, <2>1
<1> HIDE DEF below
<1>9. DOMAIN inner \cup below = 0..2 * N
  BY <1>1, <1>2, <1>8
<1>10. Finalize(inner) = [i \in 0..2 * N |-> IF i \in 0..N - 1 THEN inner[i] ELSE ImplicitNode]
  BY <1>2, <1>5, <1>9
<1>11. \A i \in 0..2 * N : (i \in 0..N - 1 <=> i < N)
  BY <1>1
<1> QED BY <1>4, <1>10, <1>11

(* A tree as DecisionTree takes it, with the level of every node.          *)
Made(made, n) == INSTANCE DecisionTree
  WITH Levels <- n, Tree <- made, DataSets <- {},
       Depth <- [idx \in DOMAIN made |-> LevelForNodeIdx(idx)]

(* What a factory makes meets the assumptions of DecisionTree: it is a     *)
(* perfect tree, none of whose nodes is reached in two ways, whatever      *)
(* biases and features the factory gives its nodes. No tree has more than  *)
(* 63 levels, which is the assertion of PowerOf2 (Utils.h:22).             *)
THEOREM FactoryTrees ==
  ASSUME NEW n \in 1..63, NEW bias, NEW feature, NoNode \notin InnerNodes(n + 1)
  PROVE  LET made == MakePerfectTree(n, bias, feature)
         IN  Made(made, n)!IsPerfect /\ Made(made, n)!IsATree
<1> DEFINE N == TreeNodes(n)
           made == MakePerfectTree(n, bias, feature)
           depth == [idx \in DOMAIN made |-> LevelForNodeIdx(idx)]
<1>1. n \in Nat \ {0} /\ N \in Nat \ {0}
  BY NodeLevels
<1>2. InnerNodes(n + 1) = 0..2 * N
  <2>1. TreeNodes(n + 1) = 2 * N + 1
    BY <1>1, NodeCounts
  <2> QED BY <1>1, <2>1 DEF InnerNodes
<1>3. made = [idx \in 0..2 * N |->
                IF idx < N
                THEN [bias |-> bias[idx], feature |-> feature[idx],
                      falseChild |-> 2 * idx + 1, trueChild |-> 2 * idx + 2]
                ELSE ImplicitNode]
  BY <1>1, <1>2, PerfectTree
<1> HIDE DEF made
<1>4. DOMAIN made = 0..2 * N /\ 0 \in 0..2 * N /\ NoNode \notin DOMAIN made
  BY <1>1, <1>2, <1>3
<1>5. ASSUME NEW idx \in 0..2 * N
      PROVE  depth[idx] \in 0..n /\ (depth[idx] < n <=> idx < N)
  BY <1>1, <1>4, NodeLevels
<1>6. depth[0] = 0
  BY <1>1, <1>4, NodeLevels
<1>7. ASSUME NEW idx \in 0..2 * N, idx < N
      PROVE  /\ made[idx].falseChild = 2 * idx + 1 /\ made[idx].trueChild = 2 * idx + 2
             /\ 2 * idx + 1 \in 0..2 * N /\ 2 * idx + 2 \in 0..2 * N
             /\ depth[2 * idx + 1] = depth[idx] + 1 /\ depth[2 * idx + 2] = depth[idx] + 1
  <2>1. 2 * idx + 1 \in 0..2 * N /\ 2 * idx + 2 \in 0..2 * N /\ idx \in 0..N - 1
    BY <1>1, <1>7
  <2>2. LevelForNodeIdx(2 * idx + 1) = LevelForNodeIdx(idx) + 1
        /\ LevelForNodeIdx(2 * idx + 2) = LevelForNodeIdx(idx) + 1
    BY <1>1, <2>1, NodeLevels
  <2>3. made[idx].falseChild = 2 * idx + 1 /\ made[idx].trueChild = 2 * idx + 2
    BY <1>3, <1>7
  <2> QED BY <1>4, <2>1, <2>2, <2>3
<1>8. ASSUME NEW idx \in 0..2 * N, ~(idx < N)
      PROVE  made[idx] = ImplicitNode
  BY <1>3, <1>8
<1> HIDE DEF depth
<1>9. Made(made, n)!IsPerfect
  <2> USE DEF Made!Nodes
  <2>1. depth \in [DOMAIN made -> 0..n]
    BY <1>4, <1>5 DEF depth
  <2>2. ASSUME NEW idx \in DOMAIN made, depth[idx] = n
        PROVE  Made(made, n)!IsImplicit(idx)
    <3>1. ~(idx < N) /\ idx # NoNode
      BY <1>1, <1>4, <1>5, <2>2
    <3>2. made[idx] = ImplicitNode
      BY <1>4, <1>8, <3>1
    <3> QED BY <3>1, <3>2 DEF Made!IsImplicit, ImplicitNode
  <2>3. ASSUME NEW idx \in DOMAIN made, depth[idx] < n
        PROVE  /\ made[idx].falseChild \in DOMAIN made /\ depth[made[idx].falseChild] = depth[idx] + 1
               /\ made[idx].trueChild \in DOMAIN made /\ depth[made[idx].trueChild] = depth[idx] + 1
    BY <1>4, <1>5, <1>7, <2>3
  <2> QED BY <1>4, <1>6, <2>1, <2>2, <2>3 DEF Made!IsPerfect, Made!Root, depth
<1>10. Made(made, n)!IsATree
  <2>1. ASSUME NEW a \in DOMAIN made, NEW b \in DOMAIN made, depth[a] < n, depth[b] < n
        PROVE  /\ made[a].falseChild # made[b].trueChild
               /\ a # b => /\ made[a].falseChild # made[b].falseChild
                           /\ made[a].trueChild # made[b].trueChild
    <3>1. a \in Nat /\ b \in Nat /\ a < N /\ b < N
      BY <1>4, <1>5, <2>1
    <3>2. /\ made[a].falseChild = 2 * a + 1 /\ made[a].trueChild = 2 * a + 2
          /\ made[b].falseChild = 2 * b + 1 /\ made[b].trueChild = 2 * b + 2
      BY <1>4, <1>7, <3>1
    <3> QED BY <3>1, <3>2
  <2> QED BY <2>1 DEF Made!IsATree, Made!Nodes, depth
<1> QED BY <1>9, <1>10 DEF made

(* The 33rd level is the first with nodes whose index has 33 bits.         *)
LEMMA ThirtyTwoBits == PowerOf2[32] = 65536 * 65536
<1>1. ASSUME NEW n \in Nat PROVE PowerOf2[n] \in Nat /\ PowerOf2[n + 4] = 16 * PowerOf2[n]
  <2>1. PowerOf2[n] \in Nat
    BY PowerExceeds
  <2>2. PowerOf2[n + 1] = 2 * PowerOf2[n] /\ PowerOf2[(n + 1) + 1] = 2 * PowerOf2[n + 1]
    BY PowerEquation
  <2>3. n + 2 \in Nat /\ n + 3 \in Nat /\ (n + 1) + 1 = n + 2
    OBVIOUS
  <2>4. PowerOf2[(n + 2) + 1] = 2 * PowerOf2[n + 2] /\ PowerOf2[(n + 3) + 1] = 2 * PowerOf2[n + 3]
    BY <2>3, PowerEquation
  <2>5. (n + 2) + 1 = n + 3 /\ (n + 3) + 1 = n + 4
    OBVIOUS
  <2>6. PowerOf2[n + 2] = 4 * PowerOf2[n]
    BY <2>1, <2>2, <2>3
  <2>7. PowerOf2[n + 4] = 4 * PowerOf2[n + 2]
    BY <2>1, <2>4, <2>5, <2>6
  <2> QED BY <2>1, <2>6, <2>7
<1>2. PowerOf2[0] = 1
  BY PowerEquation
<1>3. PowerOf2[4] = 16 /\ PowerOf2[8] = 256 /\ PowerOf2[12] = 4096 /\ PowerOf2[16] = 65536
  <2>1. /\ PowerOf2[0 + 4] = 16 * PowerOf2[0] /\ PowerOf2[4 + 4] = 16 * PowerOf2[4]
        /\ PowerOf2[8 + 4] = 16 * PowerOf2[8] /\ PowerOf2[12 + 4] = 16 * PowerOf2[12]
    BY <1>1
  <2> QED BY <1>2, <2>1
<1>4. /\ PowerOf2[20] = 1048576 /\ PowerOf2[24] = 16777216
      /\ PowerOf2[28] = 268435456 /\ PowerOf2[32] = 16 * 268435456
  <2>1. /\ PowerOf2[16 + 4] = 16 * PowerOf2[16] /\ PowerOf2[20 + 4] = 16 * PowerOf2[20]
        /\ PowerOf2[24 + 4] = 16 * PowerOf2[24] /\ PowerOf2[28 + 4] = 16 * PowerOf2[28]
    BY <1>1
  <2> QED BY <1>3, <2>1
<1> QED BY <1>4

(* A feature is the node's index up to 32 bits, and never more than it; it *)
(* is 0 again for the first index that has more.                           *)
LEMMA LowerHalfValues ==
  /\ \A idx \in Nat : LowerHalf(idx) \in 0..idx
  /\ \A idx \in Nat : idx < 65536 * 65536 => LowerHalf(idx) = idx
  /\ LowerHalf(65536 * 65536) = 0
<1>1. ASSUME NEW idx \in Nat
      PROVE  /\ LowerHalf(idx) \in 0..idx
             /\ idx < 65536 * 65536 => LowerHalf(idx) = idx
  <2> DEFINE high == idx \div 65536
             low == idx % 65536
  <2>1. /\ idx = 65536 * high + low
        /\ high \in Nat /\ low \in Nat /\ low < 65536
    OBVIOUS
  <2>2. LowerHalf(idx) = low + 65536 * (high % 65536)
    BY DEF LowerHalf
  <2> HIDE DEF high, low
  <2>3. /\ high % 65536 \in Nat /\ high % 65536 <= high
        /\ high < 65536 => high % 65536 = high
    BY <2>1
  <2>4. idx < 65536 * 65536 => high < 65536
    BY <2>1
  <2> QED BY <2>1, <2>2, <2>3, <2>4
<1>2. LowerHalf(65536 * 65536) = 0
  <2>1. (65536 * 65536) % 65536 = 0 /\ (65536 * 65536) \div 65536 = 65536 /\ 65536 % 65536 = 0
    OBVIOUS
  <2> QED BY <2>1 DEF LowerHalf
<1> QED BY <1>1, <1>2

(* The nodes of the distinct trees compare a feature inside the data set   *)
(* with a number, as DataSetFactory takes for granted. That each reads one *)
(* of its own is true of trees of up to 32 levels and of no other: indices *)
(* have 64 bits and features 32 (DecisionTree.cpp:169). That the factory   *)
(* asserts no more than 63 levels is PowerOf2's doing (Utils.h:22).        *)
THEOREM DistinctTrees ==
  ASSUME NEW n \in 1..63, NoNode \notin InnerNodes(n + 1),
         NEW made \in {MakePerfectDistinctGradientTree(n), MakePerfectDistinctUniformTree(n)}
  PROVE  LET inner == {idx \in DOMAIN made : LevelForNodeIdx(idx) < n}
         IN  /\ \A a \in inner : made[a].feature \in 0..TreeNodes(n) - 1 /\ made[a].bias \in Int
             /\ (\A a, b \in inner : a # b => made[a].feature # made[b].feature) <=> n <= 32
<1> DEFINE N == TreeNodes(n)
<1>1. n \in Nat \ {0} /\ N \in Nat \ {0}
  BY NodeLevels
<1>2. InnerNodes(n + 1) = 0..2 * N /\ InnerNodes(n) = 0..N - 1
  <2>1. TreeNodes(n + 1) = 2 * N + 1
    BY <1>1, NodeCounts
  <2> QED BY <1>1, <2>1 DEF InnerNodes
<1>3. PICK bias \in {GradientBias(n), UniformBias(n)} :
        made = MakePerfectTree(n, bias, DistinctFeature(n))
  BY DEF MakePerfectDistinctGradientTree, MakePerfectDistinctUniformTree
<1>4. made = [idx \in 0..2 * N |->
                IF idx < N
                THEN [bias |-> bias[idx], feature |-> DistinctFeature(n)[idx],
                      falseChild |-> 2 * idx + 1, trueChild |-> 2 * idx + 2]
                ELSE ImplicitNode]
  <2>1. made = MakePerfectTree(n, bias, DistinctFeature(n))
    BY <1>3
  <2> QED BY <1>1, <1>2, <2>1, PerfectTree
<1>5. ASSUME NEW idx \in 0..N - 1 PROVE bias[idx] \in Int
  <2>1. CASE bias = UniformBias(n)
    <3>1. n - 1 \in Nat
      BY <1>1
    <3> QED BY <1>2, <2>1, <3>1, PowerExceeds DEF UniformBias
  <2>2. CASE bias = GradientBias(n)
    <3> DEFINE l == LevelForNodeIdx(idx)
    <3>1. l \in 0..n /\ l < n
      <4>1. idx \in 0..2 * N /\ idx < N
        BY <1>1
      <4> QED BY <1>1, <4>1, NodeLevels
    <3>2. l \in Nat /\ n - l - 1 \in Nat
      BY <1>1, <3>1
    <3>3. PowerOf2[n - l - 1] \in Nat /\ PowerOf2[l] \in Nat
      BY <3>2, PowerExceeds
    <3>4. bias[idx] = PowerOf2[n - l - 1] * (2 * IndexOnLevel(idx) + 1)
      BY <1>2, <2>2 DEF GradientBias
    <3>5. IndexOnLevel(idx) = idx - (PowerOf2[l] - 1)
      BY DEF IndexOnLevel, FirstNodeIdxOnLevel
    <3> HIDE DEF l
    <3>6. IndexOnLevel(idx) \in Int
      BY <3>3, <3>5
    <3> QED BY <3>3, <3>4, <3>6
  <2> QED BY <1>3, <2>1, <2>2
<1> DEFINE inner == {idx \in DOMAIN made : LevelForNodeIdx(idx) < n}
<1>6. inner = 0..N - 1
  <2>1. DOMAIN made = 0..2 * N
    BY <1>4
  <2> HIDE DEF N
  <2>2. \A idx \in 0..2 * N : LevelForNodeIdx(idx) < n <=> idx < N
    BY <1>1, NodeLevels DEF N
  <2> QED BY <1>1, <2>1, <2>2
<1>7. ASSUME NEW idx \in 0..N - 1
      PROVE  made[idx].feature = LowerHalf(idx) /\ made[idx].bias = bias[idx]
  <2>1. idx \in 0..2 * N /\ idx < N
    BY <1>1
  <2>2. DistinctFeature(n)[idx] = LowerHalf(idx)
    BY <1>2 DEF DistinctFeature
  <2> QED BY <1>4, <2>1, <2>2
<1> HIDE DEF inner
<1>8. ASSUME NEW a \in inner
      PROVE  made[a].feature \in 0..N - 1 /\ made[a].bias \in Int
  <2>1. a \in 0..N - 1 /\ a \in Nat
    BY <1>1, <1>6
  <2>2. LowerHalf(a) \in 0..a
    BY <2>1, LowerHalfValues
  <2> HIDE DEF N
  <2>3. LowerHalf(a) \in 0..N - 1
    BY <1>1, <2>1, <2>2
  <2> QED BY <1>5, <1>7, <2>1, <2>3
<1>9. N = PowerOf2[n] - 1 /\ PowerOf2[n] \in Nat /\ PowerOf2[33] = 2 * PowerOf2[32]
  <2>1. PowerOf2[32 + 1] = 2 * PowerOf2[32]
    BY PowerEquation
  <2> QED BY <1>1, <2>1, PowerExceeds DEF TreeNodes
<1> HIDE DEF N
<1>10. ASSUME n <= 32, NEW a \in inner, NEW b \in inner, a # b
       PROVE  made[a].feature # made[b].feature
  <2>1. PowerOf2[n] <= PowerOf2[32]
    BY <1>1, <1>10, PowerMonotone
  <2>2. /\ a \in Nat /\ a < 65536 * 65536
        /\ b \in Nat /\ b < 65536 * 65536
    BY <1>6, <1>9, <2>1, ThirtyTwoBits
  <2>3. LowerHalf(a) = a /\ LowerHalf(b) = b
    BY <2>2, LowerHalfValues
  <2> QED BY <1>6, <1>7, <1>10, <2>3
<1>11. ASSUME ~(n <= 32)
       PROVE  \E a, b \in inner : a # b /\ made[a].feature = made[b].feature
  <2>1. PowerOf2[33] <= PowerOf2[n]
    <3>1. 33 \in Nat /\ n \in Nat /\ 33 <= n
      BY <1>1, <1>11
    <3> QED BY <3>1, PowerMonotone
  <2>2. 0 \in inner /\ 65536 * 65536 \in inner /\ 0 # 65536 * 65536
    BY <1>6, <1>9, <2>1, ThirtyTwoBits
  <2>3. LowerHalf(0) \in 0..0 /\ LowerHalf(65536 * 65536) = 0
    BY LowerHalfValues
  <2> QED BY <1>6, <1>7, <2>2, <2>3
<1> QED BY <1>8, <1>10, <1>11 DEF inner, N

-----------------------------------------------------------------------------
(* The map's buckets and its list.                                         *)

(* libc++ makes at least as many buckets as it is asked for.               *)
LEMMA EnoughBuckets ==
  ASSUME NEW n \in Nat \ {0}, n <= PowerOf2[MaxLevels + 2]
  PROVE  BucketCount(n) \in Nat /\ n <= BucketCount(n)
<1>1. CASE n = 1
  BY <1>1 DEF BucketCount
<1>2. CASE n > 1 /\ IsPowerOf2(n)
  BY <1>2 DEF BucketCount
<1>3. CASE n > 1 /\ ~IsPowerOf2(n)
  <2> DEFINE T == {p \in n..2 * n : IsPrime(p)}
  <2>1. n \in 2..PowerOf2[MaxLevels + 2]
    <3>1. MaxLevels + 2 \in Nat
      BY BoundsAssumption
    <3> QED BY <1>3, <3>1, PowerExceeds
  <2>2. T \in SUBSET Nat /\ T # {}
    <3>1. \E p \in n..2 * n : IsPrime(p)
      BY <2>1, PrimesAssumption
    <3> QED BY <3>1
  <2>3. PICK p \in T : \A q \in T : p <= q
    BY <2>2, LeastNumber
  <2>4. \A q \in n..p - 1 : ~IsPrime(q)
    <3>1. ASSUME NEW q \in n..p - 1, IsPrime(q) PROVE FALSE
      <4>1. q \in n..2 * n /\ ~(p <= q)
        BY <2>3
      <4> QED BY <2>3, <3>1, <4>1
    <3> QED BY <3>1
  <2>5. NextPrime(n) \in n..2 * n
    <3>1. \E r \in n..2 * n : IsPrime(r) /\ \A q \in n..r - 1 : ~IsPrime(q)
      BY <2>3, <2>4
    <3> QED BY <3>1 DEF NextPrime
  <2>6. BucketCount(n) = NextPrime(n)
    BY <1>3 DEF BucketCount
  <2> QED BY <2>5, <2>6
<1> QED BY <1>1, <1>2, <1>3

(* One list is another with a node put in at position p.                   *)
InsertedAt(new, list, p, idx) ==
  /\ p \in 1..Len(list) + 1 /\ Len(new) = Len(list) + 1
  /\ \A j \in 1..Len(new) :
       new[j] = IF j < p THEN list[j] ELSE IF j = p THEN idx ELSE list[j - 1]

(* The first node of a bucket is searched for in the list.                 *)
LEMMA BucketStarts ==
  ASSUME NEW S, NEW list \in Seq(S), NEW buckets, NEW idx
  PROVE  /\ BucketStart(list, buckets, idx) \in 0..Len(list)
         /\ BucketStart(list, buckets, idx) # 0
              => list[BucketStart(list, buckets, idx)] % buckets = idx % buckets
<1> DEFINE I == {i \in 1..Len(list) : list[i] % buckets = idx % buckets}
<1>1. BucketStart(list, buckets, idx) = IF I # {} THEN Min(I) ELSE 0
  BY DEF BucketStart, SelectInSeq
<1>2. ASSUME I # {} PROVE Min(I) \in I
  <2>1. I \in SUBSET Nat
    OBVIOUS
  <2>2. \E x \in I : \A y \in I : x <= y
    BY <1>2, <2>1, LeastNumber
  <2> HIDE DEF I
  <2> QED BY <2>2 DEF Min
<1>3. Len(list) \in Nat
  OBVIOUS
<1> QED BY <1>1, <1>2, <1>3

(* Placing a node inserts it, in front of its bucket or of everything.     *)
LEMMA PlaceInserts ==
  ASSUME NEW S, NEW list \in Seq(S), NEW buckets, NEW idx \in S
  PROVE  LET new == Place(list, buckets, idx)
         IN  new \in Seq(S) /\ \E p \in Nat : InsertedAt(new, list, p, idx)
<1> DEFINE start == BucketStart(list, buckets, idx)
           new == Place(list, buckets, idx)
<1>1. start \in 0..Len(list) /\ Len(list) \in Nat
  BY BucketStarts
<1>2. new = IF start = 0 THEN <<idx>> \o list ELSE InsertAt(list, start, idx)
  BY DEF Place
<1> HIDE DEF start, new
<1>3. CASE start = 0
  <2>1. new = <<idx>> \o list
    BY <1>2, <1>3
  <2>2. new \in Seq(S) /\ InsertedAt(new, list, 1, idx)
    BY <2>1, <1>1 DEF InsertedAt
  <2> QED BY <2>2 DEF new
<1>4. CASE start # 0
  <2> DEFINE front == SubSeq(list, 1, start - 1)
             back == SubSeq(list, start, Len(list))
  <2>1. new = front \o <<idx>> \o back
    BY <1>2, <1>4 DEF InsertAt
  <2>2. /\ front \in Seq(S) /\ Len(front) = start - 1
        /\ \A j \in 1..start - 1 : front[j] = list[j]
    BY <1>1, <1>4
  <2>3. /\ back \in Seq(S) /\ Len(back) = Len(list) - start + 1
        /\ \A j \in 1..Len(list) - start + 1 : back[j] = list[start + j - 1]
    BY <1>1, <1>4
  <2> HIDE DEF front, back
  <2> DEFINE first == front \o <<idx>>
  <2>4. /\ first \in Seq(S) /\ Len(first) = start
        /\ \A j \in 1..start : first[j] = IF j < start THEN list[j] ELSE idx
    BY <1>1, <1>4, <2>2
  <2>5. new = first \o back
    BY <2>1
  <2> HIDE DEF first
  <2>6. new \in Seq(S) /\ Len(new) = Len(list) + 1
    <3>1. new \in Seq(S) /\ Len(new) = Len(first) + Len(back)
      BY <2>3, <2>4, <2>5, ConcatProperties
    <3> QED BY <1>1, <2>3, <2>4, <3>1
  <2>7. ASSUME NEW j \in 1..Len(list) + 1
        PROVE  new[j] = IF j < start THEN list[j] ELSE IF j = start THEN idx ELSE list[j - 1]
    <3>1. CASE j <= start
      BY <1>1, <1>4, <2>3, <2>4, <2>5, <3>1
    <3>2. CASE j > start
      <4>1. new[j] = back[j - start]
        <5>1. j \in 1..Len(first) + Len(back) /\ ~(j <= Len(first)) /\ j - Len(first) = j - start
          BY <1>1, <2>3, <2>4, <3>2
        <5> QED BY <2>3, <2>4, <2>5, <5>1, ConcatProperties
      <4>2. j - start \in 1..Len(list) - start + 1 /\ start + (j - start) - 1 = j - 1
        BY <1>1, <3>2
      <4> QED BY <1>1, <2>3, <3>2, <4>1, <4>2
    <3> QED BY <1>1, <3>1, <3>2
  <2>8. InsertedAt(new, list, start, idx)
    BY <1>1, <1>4, <2>6, <2>7 DEF InsertedAt
  <2>9. start \in Nat
    BY <1>1
  <2> QED BY <2>6, <2>8, <2>9 DEF new
<1> QED BY <1>1, <1>3, <1>4

(* A remainder by a larger number is the number itself.                    *)
LEMMA Remainders == \A a, b \in Nat : a < b => a % b = a
OBVIOUS

(* Relinking keeps the order of a list whose nodes are all in buckets of   *)
(* their own.                                                              *)
LEMMA NothingRelinked ==
  ASSUME NEW list \in Seq(Nat), NEW buckets \in Nat,
         \A i, j \in DOMAIN list : list[i] = list[j] => i = j,
         \A i \in DOMAIN list : list[i] < buckets
  PROVE  Relinked(list, buckets) = list
<1> DEFINE Done(f) == f = [i \in 0..Len(list) |->
                             IF i = 0 THEN <<>> ELSE Relink[buckets][list[i]][f[i - 1]]]
           part == [i \in 0..Len(list) |-> SubSeq(list, 1, i)]
<1>1. Relinked(list, buckets) = (CHOOSE f : Done(f))[Len(list)]
  BY DEF Relinked
<1>2. Len(list) \in Nat /\ DOMAIN list = 1..Len(list)
  OBVIOUS
<1>3. \A i \in 1..Len(list) : list[i] \in Nat /\ list[i] % buckets = list[i]
  BY <1>2, Remainders
<1>4. ASSUME NEW i \in 1..Len(list)
      PROVE  Relink[buckets][list[i]][SubSeq(list, 1, i - 1)] = SubSeq(list, 1, i)
  <2> DEFINE l == SubSeq(list, 1, i - 1)
  <2>1. /\ l \in Seq(Nat) /\ Len(l) = i - 1 /\ DOMAIN l = 1..i - 1
        /\ \A k \in 1..i - 1 : l[k] = list[k]
    BY <1>2
  <2> HIDE DEF l
  <2>2. BucketStart(l, buckets, list[i]) = 0
    <3> DEFINE k == BucketStart(l, buckets, list[i])
    <3> SUFFICES ASSUME k # 0 PROVE FALSE
      OBVIOUS
    <3>1. k \in 0..Len(l) /\ l[k] % buckets = list[i] % buckets
      BY <2>1, BucketStarts
    <3> HIDE DEF k
    <3>2. k \in 1..Len(list) /\ k < i /\ l[k] = list[k]
      BY <1>2, <2>1, <3>1
    <3>3. list[k] = list[i]
      BY <1>3, <3>1, <3>2
    <3> QED BY <1>2, <3>2, <3>3
  <2>3. Relink[buckets][list[i]][l] = Append(l, list[i])
    <3>1. list[i] \in Nat
      BY <1>3
    <3> QED BY <2>1, <2>2, <3>1 DEF Relink
  <2>4. Append(l, list[i]) = SubSeq(list, 1, i)
    <3> DEFINE s == SubSeq(list, 1, i)
               t == Append(l, list[i])
    <3>1. s \in Seq(Nat) /\ Len(s) = i /\ \A k \in 1..i : s[k] = list[k]
      BY <1>2
    <3>2. t \in Seq(Nat) /\ Len(t) = i /\ \A k \in 1..i : t[k] = list[k]
      <4>1. list[i] \in Nat
        BY <1>3
      <4>2. /\ t \in Seq(Nat) /\ Len(t) = Len(l) + 1 /\ t[Len(l) + 1] = list[i]
            /\ \A k \in 1..Len(l) : t[k] = l[k]
        BY <2>1, <4>1, AppendProperties
      <4> HIDE DEF s, t
      <4>3. Len(t) = i
        BY <1>2, <2>1, <4>2
      <4>4. ASSUME NEW k \in 1..i PROVE t[k] = list[k]
        <5>1. CASE k = i
          BY <1>2, <2>1, <4>2, <5>1
        <5>2. CASE k < i
          <6>1. k \in 1..i - 1
            BY <5>2
          <6>2. t[k] = l[k] /\ l[k] = list[k]
            BY <2>1, <4>2, <6>1
          <6> QED BY <6>2
        <5> QED BY <5>1, <5>2
      <4> QED BY <4>2, <4>3, <4>4
    <3> HIDE DEF s, t
    <3>3. s = t
      BY <3>1, <3>2, SeqEqual
    <3> QED BY <3>3 DEF s, t
  <2> QED BY <2>3, <2>4 DEF l
<1>5. Done(part)
  <2>1. ASSUME NEW i \in 0..Len(list)
        PROVE  part[i] = IF i = 0 THEN <<>> ELSE Relink[buckets][list[i]][part[i - 1]]
    <3>1. CASE i = 0
      BY <3>1
    <3>2. CASE i # 0
      <4>1. i \in 1..Len(list) /\ i - 1 \in 0..Len(list)
        BY <1>2, <3>2
      <4>2. part[i - 1] = SubSeq(list, 1, i - 1) /\ part[i] = SubSeq(list, 1, i)
        BY <4>1
      <4> HIDE DEF part
      <4>3. part[i] = Relink[buckets][list[i]][part[i - 1]]
        BY <1>4, <4>1, <4>2, Zenon
      <4> QED BY <3>2, <4>3
    <3> QED BY <3>1, <3>2
  <2>2. part = [i \in 0..Len(list) |-> part[i]]
    OBVIOUS
  <2> HIDE DEF part
  <2> QED BY <2>1, <2>2
<1>6. ASSUME NEW f, Done(f) PROVE f[Len(list)] = list
  <2> DEFINE T == {i \in Nat : i <= Len(list) => f[i] = SubSeq(list, 1, i)}
  <2>1. \A i \in 0..Len(list) :
          f[i] = IF i = 0 THEN <<>> ELSE Relink[buckets][list[i]][f[i - 1]]
    BY <1>6, Zenon
  <2>2. 0 \in T
    <3>1. 0 \in 0..Len(list) /\ SubSeq(list, 1, 0) = <<>>
      BY <1>2
    <3>2. f[0] = <<>>
      BY <2>1, <3>1
    <3> QED BY <3>1, <3>2
  <2>3. ASSUME NEW i \in T PROVE i + 1 \in T
    <3>1. CASE i + 1 <= Len(list)
      <4>1. i + 1 \in 1..Len(list) /\ i + 1 \in 0..Len(list) /\ i + 1 # 0
            /\ (i + 1) - 1 = i /\ i <= Len(list)
        BY <1>2, <3>1
      <4>2. f[i + 1] = Relink[buckets][list[i + 1]][f[i]]
        BY <2>1, <4>1
      <4>3. Relink[buckets][list[i + 1]][SubSeq(list, 1, i)] = SubSeq(list, 1, i + 1)
        BY <1>4, <4>1
      <4>4. f[i] = SubSeq(list, 1, i)
        BY <4>1
      <4>5. f[i + 1] = SubSeq(list, 1, i + 1)
        BY <4>2, <4>3, <4>4, Zenon
      <4> QED BY <4>1, <4>5
    <3> QED BY <3>1
  <2>4. T \in SUBSET Nat
    OBVIOUS
  <2>5. Len(list) \in T
    <3> HIDE DEF T
    <3> QED BY <1>2, <2>2, <2>3, <2>4, NumberInduction
  <2>6. f[Len(list)] = SubSeq(list, 1, Len(list))
    BY <1>2, <2>5
  <2> QED BY <1>2, <2>6
<1> HIDE DEF Done, part
<1>7. Done(CHOOSE f : Done(f))
  BY <1>5
<1> QED BY <1>1, <1>6, <1>7

-----------------------------------------------------------------------------
(* A node comes before another in a list.                                  *)
Before(list, a, b) ==
  \E i, j \in DOMAIN list : i < j /\ list[i] = a /\ list[j] = b

(* The nodes of a list are as far back, or further, in another one.        *)
FurtherBack(list, new) ==
  \A i \in DOMAIN list : \E j \in DOMAIN new : i <= j /\ new[j] = list[i]

(* The indices of a finalized tree: one result more than inner nodes.      *)
Indices == 0..2 * TreeNodes(levels)

(* A map that holds some of them, each once, and has buckets for the inner *)
(* nodes at least.                                                         *)
MapRight(m) ==
  /\ m \in [list : Seq(Indices), buckets : Nat]
  /\ \A i, j \in DOMAIN m.list : m.list[i] = m.list[j] => i = j
  /\ Len(m.list) <= m.buckets /\ TreeNodes(levels) <= m.buckets

(* What a node with an index is.                                           *)
Given(n) ==
  IF n < TreeNodes(levels) THEN [falseChild |-> 2 * n + 1, trueChild |-> 2 * n + 2]
                           ELSE NoChildren

(* Until finalize there are inner nodes only; then there are all of them,  *)
(* and those that the loop is not at or before have their results.         *)
Progress ==
  IF firstResultIdx = NoNode
  THEN iterator = NoNode /\ ~finalized /\ DOMAIN nodes \subseteq 0..TreeNodes(levels) - 1
  ELSE /\ firstResultIdx = TreeNodes(levels)
       /\ 0..TreeNodes(levels) - 1 \subseteq DOMAIN nodes
       /\ finalized => iterator = NoNode
       /\ \A n \in 0..TreeNodes(levels) - 1 :
            \/ iterator # NoNode /\ (n = iterator \/ Before(map.list, iterator, n))
            \/ {2 * n + 1, 2 * n + 2} \subseteq DOMAIN nodes

BuilderInv ==
  /\ levels \in 1..MaxLevels /\ finalized \in BOOLEAN
  /\ MapRight(map) /\ Range(map.list) = DOMAIN nodes
  /\ nodes = [n \in DOMAIN nodes |-> Given(n)]
  /\ iterator \in DOMAIN nodes \cup {NoNode}
  /\ Progress

-----------------------------------------------------------------------------
(* The map and its iterator while a tree is built.                         *)

(* The tree that is built has between 1 and MaxLevels levels.              *)
LEMMA LevelCounts ==
  ASSUME levels \in 1..MaxLevels
  PROVE  /\ levels \in Nat \ {0} /\ TreeNodes(levels) \in Nat \ {0}
         /\ 4 * TreeNodes(levels) + 1 <= PowerOf2[MaxLevels + 2]
         /\ Indices \subseteq Nat
<1>1. MaxLevels \in Nat /\ levels \in Nat \ {0} /\ levels - 1 \in Nat /\ (levels - 1) + 1 = levels
  BY BoundsAssumption
<1>2. TreeNodes(levels) \in Nat \ {0}
  <2>1. TreeNodes(levels - 1) \in Nat /\ TreeNodes((levels - 1) + 1) = 2 * TreeNodes(levels - 1) + 1
    BY <1>1, NodeCounts, Zenon
  <2> QED BY <1>1, <2>1
<1>3. PowerOf2[levels + 2] <= PowerOf2[MaxLevels + 2]
  BY <1>1, PowerMonotone
<1>4. PowerOf2[levels] \in Nat /\ PowerOf2[levels + 1] \in Nat
      /\ PowerOf2[levels + 2] \in Nat /\ PowerOf2[MaxLevels + 2] \in Nat
  BY <1>1, PowerExceeds
<1>5. PowerOf2[levels + 2] = 4 * PowerOf2[levels]
  <2>1. levels + 1 \in Nat /\ (levels + 1) + 1 = levels + 2
    BY <1>1
  <2>2. PowerOf2[levels + 2] = 2 * PowerOf2[levels + 1]
    BY <2>1, PowerEquation
  <2>3. PowerOf2[levels + 1] = 2 * PowerOf2[levels]
    BY <1>1, PowerEquation
  <2> QED BY <1>4, <2>2, <2>3
<1>6. TreeNodes(levels) = PowerOf2[levels] - 1
  BY DEF TreeNodes
<1>7. 4 * TreeNodes(levels) + 1 <= PowerOf2[MaxLevels + 2]
  BY <1>3, <1>4, <1>5, <1>6
<1> QED BY <1>1, <1>2, <1>7 DEF Indices

(* There is one index more than twice the inner nodes.                     *)
LEMMA IndexCount ==
  ASSUME levels \in 1..MaxLevels
  PROVE  IsFiniteSet(Indices) /\ Cardinality(Indices) = 2 * TreeNodes(levels) + 1
<1> DEFINE N == TreeNodes(levels)
<1>1. N \in Nat
  BY LevelCounts
<1> HIDE DEF N
<1>2. 0 \in Int /\ 2 * N \in Int
  BY <1>1
<1>3. IsFiniteSet(0..2 * N) /\ Cardinality(0..2 * N) = IF 0 > 2 * N THEN 0 ELSE 2 * N - 0 + 1
  BY <1>2, FS_Interval, Zenon
<1> QED BY <1>1, <1>3 DEF Indices, N

(* A list has at most as many nodes as there are, if each is in it once.   *)
LEMMA DistinctListFits ==
  ASSUME NEW S, IsFiniteSet(S), NEW list \in Seq(S),
         \A i, j \in DOMAIN list : list[i] = list[j] => i = j
  PROVE  Len(list) <= Cardinality(S)
<1> DEFINE D == 1..Len(list)
<1>1. Len(list) \in Nat /\ DOMAIN list = D /\ list \in [D -> S]
  OBVIOUS
<1>2. list \in Injection(D, S)
  BY <1>1 DEF Injection, IsInjective
<1>3. Cardinality(D) = Len(list)
  <2>1. 1 \in Int /\ Len(list) \in Int
    BY <1>1
  <2>2. Cardinality(D) = IF 1 > Len(list) THEN 0 ELSE Len(list) - 1 + 1
    BY <2>1, FS_Interval, Zenon
  <2> QED BY <1>1, <2>2
<1> HIDE DEF D
<1> QED BY <1>2, <1>3, FS_Injection

(* A list of distinct indices that lacks one of them has at most as many   *)
(* nodes as a finalized tree, less one.                                    *)
LEMMA ListIsShort ==
  ASSUME levels \in 1..MaxLevels, NEW list \in Seq(Indices),
         \A i, j \in DOMAIN list : list[i] = list[j] => i = j,
         NEW idx \in Indices, \A i \in DOMAIN list : list[i] # idx
  PROVE  Len(list) <= 2 * TreeNodes(levels)
<1> DEFINE T == Indices \ {idx}
<1>1. IsFiniteSet(T) /\ Cardinality(T) = 2 * TreeNodes(levels)
  <2>1. /\ IsFiniteSet(Indices) /\ Cardinality(Indices) = 2 * TreeNodes(levels) + 1
        /\ TreeNodes(levels) \in Nat
    BY IndexCount, LevelCounts
  <2> QED BY <2>1, FS_RemoveElement
<1>2. list \in Seq(T)
  OBVIOUS
<1> HIDE DEF T
<1> QED BY <1>1, <1>2, DistinctListFits

(* When the map grows the order of its nodes stays as it is, and there is  *)
(* room for one more: the number of buckets is larger than every index.    *)
LEMMA GrowKeepsOrder ==
  ASSUME levels \in 1..MaxLevels, NEW m, MapRight(m),
         NEW idx \in Indices, \A i \in DOMAIN m.list : m.list[i] # idx
  PROVE  /\ Grow(m) = [list |-> m.list, buckets |-> Grow(m).buckets]
         /\ Grow(m).buckets \in Nat /\ TreeNodes(levels) <= Grow(m).buckets
         /\ Len(m.list) + 1 <= Grow(m).buckets
<1> DEFINE N == TreeNodes(levels)
           b == m.buckets
           size == Len(m.list) + 1
           doubled == 2 * b + (IF b > 2 /\ IsPowerOf2(b) THEN 0 ELSE 1)
           n == IF doubled > size THEN doubled ELSE size
<1>1. /\ N \in Nat \ {0} /\ 4 * N + 1 <= PowerOf2[MaxLevels + 2] /\ Indices \subseteq Nat
      /\ levels \in Nat \ {0}
  BY LevelCounts
<1>2. m = [list |-> m.list, buckets |-> b] /\ m.list \in Seq(Indices) /\ b \in Nat
      /\ Len(m.list) <= b /\ N <= b /\ Len(m.list) \in Nat
      /\ \A i, j \in DOMAIN m.list : m.list[i] = m.list[j] => i = j
  BY DEF MapRight
<1>3. Grow(m) = IF size <= b THEN m ELSE Rehash(m, n)
  BY DEF Grow
<1>4. CASE size <= b
  BY <1>2, <1>3, <1>4
<1>5. CASE ~(size <= b)
  <2>1. Len(m.list) = b /\ b <= 2 * N
    <3>1. Len(m.list) <= 2 * N
      BY <1>2, ListIsShort
    <3> QED BY <1>2, <1>5, <3>1
  <2>2. n \in Nat \ {0} /\ n <= 4 * N + 1 /\ 2 * N + 1 <= n /\ size <= n
    <3>1. CASE b > N
      <4>1. doubled \in {2 * b, 2 * b + 1}
        BY <1>2
      <4>2. N \in Nat /\ b \in Nat /\ b >= N + 1 /\ b <= 2 * N /\ size = b + 1
        BY <1>1, <1>2, <2>1, <3>1
      <4> HIDE DEF doubled, b, N, size
      <4> QED BY <4>1, <4>2
    <3>2. CASE b = N
      <4>1. ~(b > 2 /\ IsPowerOf2(b))
        BY <1>1, <3>2, NodeCountIsOdd
      <4>2. doubled = 2 * b + 1
        BY <1>2, <4>1
      <4>3. N \in Nat \ {0} /\ b = N /\ size = b + 1
        BY <1>1, <1>2, <2>1, <3>2
      <4> HIDE DEF doubled, b, N, size
      <4> QED BY <4>2, <4>3
    <3> QED BY <1>1, <1>2, <3>1, <3>2
  <2> HIDE DEF n
  <2> DEFINE buckets == BucketCount(n)
  <2>3. buckets \in Nat /\ n <= buckets
    <3>1. n <= PowerOf2[MaxLevels + 2]
      <4>1. PowerOf2[MaxLevels + 2] \in Nat
        <5>1. MaxLevels + 2 \in Nat
          BY BoundsAssumption
        <5> QED BY <5>1, PowerExceeds
      <4> QED BY <1>1, <2>2, <4>1
    <3> QED BY <2>2, <3>1, EnoughBuckets
  <2>4. Rehash(m, n) = [list |-> Relinked(m.list, buckets), buckets |-> buckets]
    BY DEF Rehash
  <2> HIDE DEF buckets
  <2>5. Relinked(m.list, buckets) = m.list
    <3>1. m.list \in Seq(Nat)
      BY <1>1, <1>2
    <3>2. \A i \in DOMAIN m.list : m.list[i] < buckets
      <4>1. \A i \in DOMAIN m.list : m.list[i] \in 0..2 * N
        <5>1. \A i \in DOMAIN m.list : m.list[i] \in Indices
          BY <1>2
        <5> QED BY <5>1 DEF Indices
      <4> HIDE DEF N
      <4> QED BY <1>1, <2>2, <2>3, <4>1
    <3> QED BY <1>2, <2>3, <3>1, <3>2, NothingRelinked
  <2>6. Grow(m) = [list |-> m.list, buckets |-> buckets]
    BY <1>3, <1>5, <2>4, <2>5
  <2> QED BY <1>1, <1>2, <2>2, <2>3, <2>6
<1> QED BY <1>4, <1>5

(* Where one node is put into a list the others keep their order.          *)
LEMMA InsertionKeepsOrder ==
  ASSUME NEW S, NEW list \in Seq(S), NEW new \in Seq(S), NEW idx,
         NEW p \in Nat, InsertedAt(new, list, p, idx)
  PROVE  /\ Range(new) = Range(list) \cup {idx}
         /\ \A a, b : Before(list, a, b) => Before(new, a, b)
         /\ FurtherBack(list, new)
         /\ (/\ \A i \in DOMAIN list : list[i] # idx
             /\ \A i, j \in DOMAIN list : list[i] = list[j] => i = j)
              => \A i, j \in DOMAIN new : new[i] = new[j] => i = j
<1> DEFINE L == Len(list)
           to == [i \in 1..L |-> IF i < p THEN i ELSE i + 1]
           from == [j \in 1..L + 1 |-> IF j < p THEN j ELSE j - 1]
<1>1. /\ L \in Nat /\ DOMAIN list = 1..L /\ Len(new) = L + 1 /\ DOMAIN new = 1..L + 1
      /\ p \in 1..L + 1
      /\ \A j \in 1..L + 1 :
           new[j] = IF j < p THEN list[j] ELSE IF j = p THEN idx ELSE list[j - 1]
  BY DEF InsertedAt
<1> HIDE DEF L
<1>2. \A i \in 1..L : to[i] \in 1..L + 1 /\ i <= to[i] /\ new[to[i]] = list[i]
  BY <1>1
<1>3. \A i, j \in 1..L : i < j => to[i] < to[j]
  BY <1>1
<1>4. new[p] = idx
  BY <1>1
<1>5. \A j \in (1..L + 1) \ {p} : from[j] \in 1..L /\ new[j] = list[from[j]] /\ to[from[j]] = j
  BY <1>1
<1> HIDE DEF to, from
<1>6. Range(new) = Range(list) \cup {idx}
  <2>1. ASSUME NEW j \in 1..L + 1 PROVE new[j] \in Range(list) \cup {idx}
    BY <1>1, <1>4, <1>5 DEF Range
  <2>2. ASSUME NEW i \in 1..L PROVE list[i] \in Range(new)
    BY <1>1, <1>2 DEF Range
  <2>3. idx \in Range(new)
    BY <1>1, <1>4 DEF Range
  <2> QED BY <1>1, <2>1, <2>2, <2>3 DEF Range
<1>7. ASSUME NEW a, NEW b, Before(list, a, b) PROVE Before(new, a, b)
  <2>1. PICK i \in 1..L, j \in 1..L : i < j /\ list[i] = a /\ list[j] = b
    BY <1>1, <1>7 DEF Before
  <2>2. /\ to[i] \in 1..L + 1 /\ to[j] \in 1..L + 1 /\ to[i] < to[j]
        /\ new[to[i]] = a /\ new[to[j]] = b
    BY <1>2, <1>3, <2>1
  <2> QED BY <1>1, <2>2 DEF Before
<1>8. FurtherBack(list, new)
  BY <1>1, <1>2 DEF FurtherBack
<1>9. ASSUME \A i \in DOMAIN list : list[i] # idx,
             \A i, j \in DOMAIN list : list[i] = list[j] => i = j,
             NEW i \in 1..L + 1, NEW j \in 1..L + 1, new[i] = new[j]
      PROVE  i = j
  <2>1. CASE i = p \/ j = p
    BY <1>1, <1>4, <1>5, <1>9, <2>1
  <2>2. CASE i # p /\ j # p
    <3>1. /\ from[i] \in 1..L /\ new[i] = list[from[i]] /\ to[from[i]] = i
          /\ from[j] \in 1..L /\ new[j] = list[from[j]] /\ to[from[j]] = j
      BY <1>5, <2>2
    <3>2. from[i] = from[j]
      BY <1>1, <1>9, <3>1
    <3> QED BY <3>1, <3>2
  <2> QED BY <2>1, <2>2
<1> QED BY <1>1, <1>6, <1>7, <1>8, <1>9

(* emplace adds the node unless it is there, and keeps the others' order.  *)
LEMMA EmplaceAdds ==
  ASSUME levels \in 1..MaxLevels, NEW m, MapRight(m), NEW idx \in Indices
  PROVE  LET new == Emplace(idx)[m]
         IN  /\ MapRight(new)
             /\ Range(new.list) = Range(m.list) \cup {idx}
             /\ \A a, b : Before(m.list, a, b) => Before(new.list, a, b)
             /\ FurtherBack(m.list, new.list)
<1> DEFINE new == Emplace(idx)[m]
           grown == Grow(m)
           list == Place(grown.list, grown.buckets, idx)
<1>1. Indices \subseteq Nat
  BY LevelCounts
<1>2. m.list \in Seq(Indices) /\ m \in Maps /\ idx \in Nat
      /\ DOMAIN m.list = 1..Len(m.list)
  <2>1. m \in [list : Seq(Indices), buckets : Nat]
    BY DEF MapRight
  <2>2. m.list \in Seq(Indices)
    BY <2>1
  <2>4. m.list \in Seq(Nat)
    BY <1>1, <2>2, SeqMonotonic
  <2>3. m \in Maps
    BY <2>1, <2>4 DEF Maps
  <2> QED BY <1>1, <2>2, <2>3
<1>3. new = IF Contains(m.list, idx) THEN m ELSE Insert(idx)[grown]
  BY <1>2 DEF Emplace
<1>4. CASE \E i \in DOMAIN m.list : m.list[i] = idx
  <2>1. new = m
    BY <1>2, <1>3, <1>4 DEF Contains
  <2>2. idx \in Range(m.list)
    BY <1>4 DEF Range
  <2>3. FurtherBack(m.list, m.list)
    BY <1>2 DEF FurtherBack
  <2> HIDE DEF new
  <2> QED BY <2>1, <2>2, <2>3 DEF new
<1>5. CASE \A i \in DOMAIN m.list : m.list[i] # idx
  <2>1. /\ grown = [list |-> m.list, buckets |-> grown.buckets]
        /\ grown.buckets \in Nat /\ TreeNodes(levels) <= grown.buckets
        /\ Len(m.list) + 1 <= grown.buckets
    BY <1>5, GrowKeepsOrder
  <2> HIDE DEF grown
  <2>2. grown \in Maps /\ grown.list = m.list
    BY <1>1, <1>2, <2>1 DEF Maps
  <2>3. new = [list |-> list, buckets |-> grown.buckets]
    <3>1. new = Insert(idx)[grown]
      BY <1>2, <1>3, <1>5 DEF Contains
    <3>2. Insert(idx)[grown] = [grown EXCEPT !.list = list]
      BY <2>2 DEF Insert
    <3> HIDE DEF new, list
    <3>3. [grown EXCEPT !.list = list] = [list |-> list, buckets |-> grown.buckets]
      BY <2>1
    <3> QED BY <3>1, <3>2, <3>3
  <2>4. list \in Seq(Indices) /\ \E p \in Nat : InsertedAt(list, m.list, p, idx)
    BY <1>2, <2>2, PlaceInserts
  <2> HIDE DEF new, list
  <2>5. PICK p \in Nat : InsertedAt(list, m.list, p, idx)
    BY <2>4
  <2>6. Len(list) = Len(m.list) + 1
    BY <2>5 DEF InsertedAt
  <2>7. /\ Range(list) = Range(m.list) \cup {idx}
        /\ \A a, b : Before(m.list, a, b) => Before(list, a, b)
        /\ FurtherBack(m.list, list)
        /\ \A i, j \in DOMAIN list : list[i] = list[j] => i = j
    <3>1. \A i, j \in DOMAIN m.list : m.list[i] = m.list[j] => i = j
      BY DEF MapRight
    <3>2. m.list \in Seq(Indices) /\ list \in Seq(Indices)
      BY <1>2, <2>4
    <3>3. (/\ \A i \in DOMAIN m.list : m.list[i] # idx
           /\ \A i, j \in DOMAIN m.list : m.list[i] = m.list[j] => i = j)
            => \A i, j \in DOMAIN list : list[i] = list[j] => i = j
      BY <2>5, <3>2, InsertionKeepsOrder, Zenon
    <3>4. Range(list) = Range(m.list) \cup {idx}
      BY <2>5, <3>2, InsertionKeepsOrder
    <3>5. (\A a, b : Before(m.list, a, b) => Before(list, a, b)) /\ FurtherBack(m.list, list)
      BY <2>5, <3>2, InsertionKeepsOrder, Zenon
    <3> QED BY <1>5, <3>1, <3>3, <3>4, <3>5
  <2>8. MapRight(new)
    BY <2>1, <2>3, <2>4, <2>6, <2>7 DEF MapRight
  <2>9. new.list = list
    BY <2>3
  <2> QED BY <2>7, <2>8, <2>9 DEF new
<1> QED BY <1>4, <1>5

(* The indices of a finalized tree: those of another level's inner nodes;  *)
(* NoNode is none of them.                                                 *)
LEMMA IndicesAreNodes ==
  ASSUME levels \in 1..MaxLevels
  PROVE  /\ Indices = InnerNodes(levels + 1) /\ NoNode \notin Indices
         /\ InnerNodes(levels) = 0..TreeNodes(levels) - 1
<1>1. /\ levels \in Nat /\ MaxLevels \in Nat /\ levels + 1 \in Nat /\ MaxLevels + 1 \in Nat
      /\ levels + 1 <= MaxLevels + 1
  BY BoundsAssumption
<1>2. TreeNodes(levels) \in Nat /\ TreeNodes(levels + 1) = 2 * TreeNodes(levels) + 1
  BY <1>1, NodeCounts
<1>3. Indices = InnerNodes(levels + 1)
  BY <1>2 DEF Indices, InnerNodes
<1>4. InnerNodes(levels + 1) \subseteq InnerNodes(MaxLevels + 1)
  <2>1. PowerOf2[levels + 1] <= PowerOf2[MaxLevels + 1]
    BY <1>1, PowerMonotone
  <2>2. PowerOf2[levels + 1] \in Nat /\ PowerOf2[MaxLevels + 1] \in Nat
    BY <1>1, PowerExceeds
  <2> QED BY <2>1, <2>2 DEF InnerNodes, TreeNodes
<1> QED BY <1>3, <1>4, NoNodeAssumption DEF InnerNodes

(* The iterator goes from a node to the next one in the list.              *)
LEMMA SuccessorIsNext ==
  ASSUME NEW S, NEW list \in Seq(S), NEW k \in 1..Len(list),
         \A i, j \in DOMAIN list : list[i] = list[j] => i = j
  PROVE  Successor(list, list[k]) = IF k = Len(list) THEN NoNode ELSE list[k + 1]
<1> DEFINE I == {i \in 1..Len(list) : list[i] = list[k]}
           found == IF I # {} THEN Min(I) ELSE 0
<1>1. I = {k}
  OBVIOUS
<1>2. Min({k}) = k
  BY DEF Min
<1>3. found = k
  BY <1>1, <1>2
<1>4. Successor(list, list[k]) = IF found = Len(list) THEN NoNode ELSE list[found + 1]
  BY DEF Successor, SelectInSeq
<1> HIDE DEF found
<1> QED BY <1>3, <1>4

(* What is ahead of the loop: the node it is at and those after it.        *)
LEMMA AheadIsAfter ==
  ASSUME NEW S, map.list \in Seq(S), iterator # NoNode,
         \A i, j \in DOMAIN map.list : map.list[i] = map.list[j] => i = j,
         NEW n, (n = iterator /\ iterator \in Range(map.list)) \/ Before(map.list, iterator, n)
  PROVE  n \in Ahead
<1>1. PICK k \in 1..Len(map.list), j \in 1..Len(map.list) :
        map.list[k] = iterator /\ map.list[j] = n /\ k <= j
  BY DEF Before, Range
<1> DEFINE I == {i \in 1..Len(map.list) : map.list[i] = iterator}
           found == IF I # {} THEN Min(I) ELSE 0
           rest == SubSeq(map.list, k, Len(map.list))
<1>2. found = k
  <2>1. I = {k}
    BY <1>1
  <2>2. Min({k}) = k
    BY DEF Min
  <2> QED BY <2>1, <2>2
<1>3. Ahead = Range(SubSeq(map.list, found, Len(map.list)))
  BY DEF Ahead, SelectInSeq
<1> HIDE DEF found
<1>4. Ahead = Range(rest)
  BY <1>2, <1>3
<1>5. /\ j - k + 1 \in 1..Len(map.list) - k + 1 /\ k + (j - k + 1) - 1 = j
      /\ Len(map.list) \in Nat
  BY <1>1
<1>6. /\ rest \in Seq(S) /\ Len(rest) = Len(map.list) - k + 1
      /\ \A i \in 1..Len(map.list) - k + 1 : rest[i] = map.list[k + i - 1]
  BY <1>5
<1> HIDE DEF rest
<1>7. j - k + 1 \in DOMAIN rest /\ rest[j - k + 1] = n
  BY <1>1, <1>5, <1>6
<1> QED BY <1>4, <1>7 DEF Range

(* The nodes of a map that stays as it is are where they were.             *)
LEMMA KeepsPlace == \A m : MapRight(m) => FurtherBack(m.list, m.list)
<1> SUFFICES ASSUME NEW m, MapRight(m) PROVE FurtherBack(m.list, m.list)
  OBVIOUS
<1>1. DOMAIN m.list \subseteq Nat
  BY DEF MapRight
<1> QED BY <1>1 DEF FurtherBack

(* When the loop meets a node, the results among its children are added.   *)
LEMMA ResultAdds ==
  ASSUME levels \in 1..MaxLevels, firstResultIdx = TreeNodes(levels),
         NEW m, MapRight(m), 0..TreeNodes(levels) - 1 \subseteq Range(m.list),
         NEW idx \in Indices
  PROVE  LET new == AddResult(m, idx)
         IN  /\ MapRight(new) /\ Range(new.list) = Range(m.list) \cup {idx}
             /\ \A a, b : Before(m.list, a, b) => Before(new.list, a, b)
             /\ FurtherBack(m.list, new.list)
<1>1. AddResult(m, idx) = IF idx >= TreeNodes(levels) THEN Emplace(idx)[m] ELSE m
  BY IndicesAreNodes DEF AddResult, IsResult
<1>2. CASE idx >= TreeNodes(levels)
  <2>1. AddResult(m, idx) = Emplace(idx)[m]
    BY <1>1, <1>2
  <2> QED BY <2>1, EmplaceAdds
<1>3. CASE ~(idx >= TreeNodes(levels))
  <2>1. AddResult(m, idx) = m
    BY <1>1, <1>3
  <2>2. idx \in Range(m.list)
    BY <1>3, LevelCounts DEF Indices
  <2>3. FurtherBack(m.list, m.list)
    BY KeepsPlace
  <2> QED BY <2>1, <2>2, <2>3
<1> QED BY <1>2, <1>3

(* A turn of the loop adds the results below the node it is at to Nodes    *)
(* and to the map, and none of the map's nodes is further to the front.    *)
LEMMA VisitAdds ==
  ASSUME BuilderInv, VisitNode
  PROVE  \E C \in SUBSET Indices :
           /\ MapRight(map') /\ Range(map'.list) = DOMAIN nodes \cup C
           /\ \A a, b : Before(map.list, a, b) => Before(map'.list, a, b)
           /\ FurtherBack(map.list, map'.list)
           /\ nodes' = [n \in DOMAIN nodes \cup C |-> Given(n)]
           /\ iterator < TreeNodes(levels)
                => {2 * iterator + 1, 2 * iterator + 2} \subseteq DOMAIN nodes \cup C
<1> DEFINE N == TreeNodes(levels)
           node == nodes[iterator]
           left == AddResult(map, node.falseChild)
           added == {c \in {node.falseChild, node.trueChild} : IsResult(c)}
<1>1. /\ levels \in 1..MaxLevels /\ MapRight(map) /\ Range(map.list) = DOMAIN nodes
      /\ nodes = [n \in DOMAIN nodes |-> Given(n)] /\ iterator \in DOMAIN nodes
      /\ iterator # NoNode
      /\ firstResultIdx = N /\ 0..N - 1 \subseteq DOMAIN nodes
  BY DEF BuilderInv, Progress, VisitNode
<1>2. /\ N \in Nat \ {0} /\ Indices = 0..2 * N /\ NoNode \notin Indices
  BY <1>1, LevelCounts, IndicesAreNodes DEF Indices
<1>3. DOMAIN nodes \subseteq Indices
  BY <1>1 DEF MapRight, Range
<1>4. node = Given(iterator)
  BY <1>1, Zenon
<1>5. /\ nodes' = NodesWith(added, NoChildren)
      /\ map' = AddResult(left, node.trueChild)
  BY DEF VisitNode, AddResults
<1> HIDE DEF added
<1>6. ASSUME NEW C \in SUBSET Indices, added \subseteq C, C \subseteq DOMAIN nodes \cup added,
             \A c \in added : Given(c) = NoChildren
      PROVE  nodes' = [n \in DOMAIN nodes \cup C |-> Given(n)]
  <2>1. nodes' = [n \in DOMAIN nodes \cup added |->
                    IF n \in DOMAIN nodes THEN nodes[n] ELSE NoChildren]
    BY <1>5 DEF NodesWith
  <2>2. \A n \in DOMAIN nodes : nodes[n] = Given(n)
    BY <1>1, Zenon
  <2>3. \A n \in DOMAIN nodes \cup added :
          (IF n \in DOMAIN nodes THEN nodes[n] ELSE NoChildren) = Given(n)
    BY <1>6, <2>2
  <2>4. DOMAIN nodes \cup added = DOMAIN nodes \cup C
    BY <1>6
  <2>5. nodes' = [n \in DOMAIN nodes \cup added |-> Given(n)]
    BY <2>1, <2>3
  <2> QED BY <2>4, <2>5
<1>7. CASE iterator < N
  <2> DEFINE l == 2 * iterator + 1
             r == 2 * iterator + 2
             C == {l, r}
  <2>1. iterator \in 0..N - 1
    BY <1>1, <1>2, <1>3, <1>7
  <2>2. node.falseChild = l /\ node.trueChild = r
    BY <1>4, <1>7 DEF Given
  <2>3. l \in Indices /\ r \in Indices
    BY <1>2, <2>1
  <2>4. /\ MapRight(left) /\ Range(left.list) = Range(map.list) \cup {l}
        /\ \A a, b : Before(map.list, a, b) => Before(left.list, a, b)
        /\ FurtherBack(map.list, left.list)
    <3>1. left = AddResult(map, l)
      BY <2>2
    <3> HIDE DEF left, l
    <3> QED BY <1>1, <2>3, <3>1, ResultAdds
  <2>5. /\ MapRight(map') /\ Range(map'.list) = Range(left.list) \cup {r}
        /\ \A a, b : Before(left.list, a, b) => Before(map'.list, a, b)
        /\ FurtherBack(left.list, map'.list)
    <3>1. map' = AddResult(left, r)
      BY <1>5, <2>2
    <3>2. 0..TreeNodes(levels) - 1 \subseteq Range(left.list)
      BY <1>1, <2>4
    <3> HIDE DEF left, r
    <3> QED BY <1>1, <2>3, <2>4, <3>1, <3>2, ResultAdds
  <2>6. added = {c \in C : c >= N}
    BY <1>1, <1>2, <2>2, <2>3 DEF added, IsResult
  <2>7. nodes' = [n \in DOMAIN nodes \cup C |-> Given(n)]
    <3>1. C \subseteq DOMAIN nodes \cup added
      BY <1>1, <1>2, <2>1, <2>6
    <3>2. \A c \in added : Given(c) = NoChildren
      BY <1>2, <2>1, <2>6 DEF Given
    <3>3. C \in SUBSET Indices /\ added \subseteq C
      BY <2>3, <2>6
    <3> HIDE DEF C
    <3> QED BY <1>6, <3>1, <3>2, <3>3
  <2>8. Range(map'.list) = DOMAIN nodes \cup C
    BY <1>1, <2>4, <2>5
  <2>9. \A a, b : Before(map.list, a, b) => Before(map'.list, a, b)
    BY <2>4, <2>5
  <2>10. FurtherBack(map.list, map'.list)
    <3>1. \A m \in {map, left, map'} : DOMAIN m.list \subseteq Nat
      BY <1>1, <2>4, <2>5 DEF MapRight
    <3> HIDE DEF left
    <3> QED BY <2>4, <2>5, <3>1 DEF FurtherBack
  <2> QED BY <2>3, <2>5, <2>7, <2>8, <2>9, <2>10
<1>8. CASE ~(iterator < N)
  <2>1. node = NoChildren /\ node.falseChild = NoNode /\ node.trueChild = NoNode
    BY <1>4, <1>8 DEF Given, NoChildren
  <2>2. added = {}
    BY <2>1 DEF added, IsResult
  <2>3. map' = map
    BY <1>5, <2>1 DEF AddResult, IsResult
  <2>4. nodes' = [n \in DOMAIN nodes \cup {} |-> Given(n)]
    BY <1>6, <2>2
  <2>5. /\ {} \in SUBSET Indices /\ Range(map'.list) = DOMAIN nodes \cup {} /\ MapRight(map')
        /\ \A a, b : Before(map.list, a, b) => Before(map'.list, a, b)
        /\ FurtherBack(map.list, map'.list)
    BY <1>1, <2>3, KeepsPlace
  <2> QED BY <1>8, <2>4, <2>5
<1> QED BY <1>7, <1>8

-----------------------------------------------------------------------------
(* Every step of a tree's construction keeps the invariant.                *)

(* A new tree's map has no node and buckets for its inner nodes.           *)
LEMMA BuilderInit == Init => BuilderInv
<1> SUFFICES ASSUME Init PROVE BuilderInv
  OBVIOUS
<1> DEFINE N == TreeNodes(levels)
           buckets == BucketCount(N)
<1>1. levels \in 1..MaxLevels /\ N \in Nat \ {0} /\ N <= PowerOf2[MaxLevels + 2]
  <2>1. N \in Nat \ {0} /\ 4 * N + 1 <= PowerOf2[MaxLevels + 2]
    BY LevelCounts DEF Init
  <2>2. PowerOf2[MaxLevels + 2] \in Nat
    <3>1. MaxLevels + 2 \in Nat
      BY BoundsAssumption
    <3> QED BY <3>1, PowerExceeds
  <2> QED BY <2>1, <2>2 DEF Init
<1>2. buckets \in Nat /\ N <= buckets
  BY <1>1, EnoughBuckets
<1>3. map = [list |-> Relinked(<<>>, buckets), buckets |-> buckets]
  BY DEF Init, Rehash
<1> HIDE DEF buckets
<1>4. Relinked(<<>>, buckets) = <<>>
  <2> DEFINE none == <<>>
  <2>1. none \in Seq(Nat) /\ DOMAIN none = {}
    OBVIOUS
  <2> HIDE DEF none
  <2>2. Relinked(none, buckets) = none
    BY <1>2, <2>1, NothingRelinked
  <2> QED BY <2>2 DEF none
<1>5. map = [list |-> <<>>, buckets |-> buckets]
  BY <1>3, <1>4
<1>6. MapRight(map) /\ Range(map.list) = {}
  <2>1. map.list = <<>> /\ map.buckets = buckets
    BY <1>5
  <2>2. map.list \in Seq(Indices) /\ DOMAIN map.list = {} /\ Len(map.list) = 0
    BY <2>1
  <2>3. map \in [list : Seq(Indices), buckets : Nat]
    BY <1>2, <1>5, <2>1, <2>2
  <2>4. MapRight(map)
    BY <1>1, <1>2, <2>1, <2>2, <2>3 DEF MapRight
  <2> QED BY <2>2, <2>4 DEF Range
<1>7. DOMAIN nodes = {} /\ nodes = [n \in DOMAIN nodes |-> Given(n)]
  BY DEF Init
<1> QED BY <1>1, <1>6, <1>7 DEF Init, BuilderInv, Progress

(* addNode adds one inner node to Nodes and to the map.                    *)
LEMMA AddNodeKeepsInv ==
  ASSUME BuilderInv, NEW idx, AddNode(idx)
  PROVE  BuilderInv'
<1> DEFINE N == TreeNodes(levels)
<1>1. /\ levels \in 1..MaxLevels /\ MapRight(map) /\ Range(map.list) = DOMAIN nodes
      /\ nodes = [n \in DOMAIN nodes |-> Given(n)] /\ finalized = FALSE
      /\ firstResultIdx = NoNode /\ iterator = NoNode /\ DOMAIN nodes \subseteq 0..N - 1
  BY DEF BuilderInv, Progress, AddNode
<1>2. /\ levels' = levels /\ firstResultIdx' = NoNode /\ iterator' = NoNode
      /\ finalized' = FALSE /\ map' = Emplace(idx)[map]
  BY <1>1 DEF AddNode
<1>3. idx \in 0..N - 1 /\ idx \in Indices /\ N \in Nat
  BY <1>1, LevelCounts, IndicesAreNodes DEF AddNode, Indices
<1>4. MapRight(map') /\ Range(map'.list) = DOMAIN nodes \cup {idx}
  BY <1>1, <1>2, <1>3, EmplaceAdds
<1>5. nodes' = [n \in DOMAIN nodes \cup {idx} |-> Given(n)]
  <2>1. Given(idx) = [falseChild |-> FalseChildIdx(idx), trueChild |-> FalseChildIdx(idx) + 1]
    BY <1>3, ChildIndices DEF Given
  <2>2. nodes' = [n \in DOMAIN nodes \cup {idx} |->
                    IF n \in DOMAIN nodes THEN nodes[n] ELSE Given(idx)]
    BY <2>1 DEF AddNode, NodesWith
  <2>3. \A n \in DOMAIN nodes : nodes[n] = Given(n)
    BY <1>1, Zenon
  <2> QED BY <2>2, <2>3
<1>6. DOMAIN nodes' = DOMAIN nodes \cup {idx}
  BY <1>5
<1>7. MapRight(map)' /\ nodes' = [n \in DOMAIN nodes' |-> Given(n)']
  BY <1>2, <1>4, <1>5, <1>6 DEF MapRight, Indices, Given
<1> QED BY <1>1, <1>2, <1>3, <1>4, <1>6, <1>7 DEF BuilderInv, Progress

(* finalize starts with all inner nodes, at the first in the list.         *)
LEMMA BeginFinalizeKeepsInv ==
  ASSUME BuilderInv, BeginFinalize
  PROVE  BuilderInv'
<1> DEFINE N == TreeNodes(levels)
<1>1. /\ levels \in 1..MaxLevels /\ MapRight(map) /\ Range(map.list) = DOMAIN nodes
      /\ nodes = [n \in DOMAIN nodes |-> Given(n)] /\ finalized = FALSE
      /\ DOMAIN nodes \subseteq 0..N - 1
  BY DEF BuilderInv, Progress, BeginFinalize
<1>2. /\ UNCHANGED <<levels, nodes, map, finalized>>
      /\ Cardinality(DOMAIN nodes) = N
      /\ firstResultIdx' = 1 + Max(DOMAIN nodes) /\ iterator' = Head(map.list)
  BY DEF BeginFinalize
<1>3. N \in Nat \ {0} /\ NoNode \notin Indices
  BY <1>1, LevelCounts, IndicesAreNodes
<1>4. DOMAIN nodes = 0..N - 1
  <2>1. IsFiniteSet(0..N - 1) /\ Cardinality(0..N - 1) = N
    <3>1. 0 \in Int /\ N - 1 \in Int
      BY <1>3
    <3>2. /\ IsFiniteSet(0..N - 1)
          /\ Cardinality(0..N - 1) = IF 0 > N - 1 THEN 0 ELSE (N - 1) - 0 + 1
      BY <3>1, FS_Interval, Zenon
    <3> HIDE DEF N
    <3> QED BY <1>3, <3>2
  <2> QED BY <1>1, <1>2, <2>1, FS_Subset
<1>5. firstResultIdx' = N
  <2>1. Max(0..N - 1) = N - 1
    BY <1>3 DEF Max
  <2> QED BY <1>2, <1>3, <1>4, <2>1
<1>6. firstResultIdx' # NoNode
  BY <1>3, <1>5 DEF Indices
<1>7. map.list \in Seq(Indices) /\ 1 \in DOMAIN map.list
  <2>1. map.list \in Seq(Indices)
    BY <1>1 DEF MapRight
  <2>2. 0 \in Range(map.list)
    BY <1>1, <1>3, <1>4
  <2> QED BY <2>1, <2>2 DEF Range
<1>8. iterator' = map.list[1]
  BY <1>2, <1>7
<1>9. iterator' \in DOMAIN nodes /\ iterator' # NoNode
  BY <1>1, <1>3, <1>7, <1>8 DEF Range
<1>10. ASSUME NEW n \in 0..N - 1 PROVE n = iterator' \/ Before(map.list, iterator', n)
  <2>1. PICK j \in DOMAIN map.list : map.list[j] = n
    BY <1>1, <1>4 DEF Range
  <2>2. j = 1 \/ 1 < j
    BY <1>7, <2>1
  <2> QED BY <1>7, <1>8, <2>1, <2>2 DEF Before
<1>11. MapRight(map)' /\ nodes' = [n \in DOMAIN nodes' |-> Given(n)']
  BY <1>1, <1>2 DEF MapRight, Indices, Given
<1>12. Progress'
  BY <1>1, <1>2, <1>4, <1>5, <1>6, <1>9, <1>10 DEF Progress
<1> QED BY <1>1, <1>2, <1>9, <1>11, <1>12 DEF BuilderInv

(* A turn of the loop leaves no node behind whose results are missing: the *)
(* nodes after the one it was at are the one it goes on to and those after *)
(* that, wherever the insertions have put the results.                     *)
LEMMA VisitNodeKeepsInv ==
  ASSUME BuilderInv, VisitNode
  PROVE  BuilderInv'
<1> DEFINE N == TreeNodes(levels)
<1>1. /\ levels \in 1..MaxLevels /\ Range(map.list) = DOMAIN nodes
      /\ iterator \in DOMAIN nodes /\ iterator # NoNode
      /\ finalized = FALSE /\ firstResultIdx = N /\ firstResultIdx # NoNode
      /\ 0..N - 1 \subseteq DOMAIN nodes
      /\ \A n \in 0..N - 1 : \/ n = iterator \/ Before(map.list, iterator, n)
                             \/ {2 * n + 1, 2 * n + 2} \subseteq DOMAIN nodes
  BY DEF BuilderInv, Progress, VisitNode
<1>2. PICK C \in SUBSET Indices :
        /\ MapRight(map') /\ Range(map'.list) = DOMAIN nodes \cup C
        /\ \A a, b : Before(map.list, a, b) => Before(map'.list, a, b)
        /\ FurtherBack(map.list, map'.list)
        /\ nodes' = [n \in DOMAIN nodes \cup C |-> Given(n)]
        /\ iterator < TreeNodes(levels)
             => {2 * iterator + 1, 2 * iterator + 2} \subseteq DOMAIN nodes \cup C
  BY VisitAdds
<1>3. DOMAIN nodes' = DOMAIN nodes \cup C
  BY <1>2
<1>4. /\ UNCHANGED <<levels, firstResultIdx, finalized>>
      /\ iterator' = Successor(map'.list, iterator)
  BY DEF VisitNode
<1>5. N \in Nat \ {0} /\ NoNode \notin Indices
  BY <1>1, LevelCounts, IndicesAreNodes
<1>6. /\ map'.list \in Seq(Indices) /\ DOMAIN map'.list = 1..Len(map'.list)
      /\ \A i, j \in DOMAIN map'.list : map'.list[i] = map'.list[j] => i = j
  BY <1>2 DEF MapRight
<1>7. PICK k \in 1..Len(map'.list) : map'.list[k] = iterator
  BY <1>1, <1>2, <1>6 DEF Range
<1>8. iterator' = IF k = Len(map'.list) THEN NoNode ELSE map'.list[k + 1]
  <2>1. Successor(map'.list, map'.list[k]) = IF k = Len(map'.list) THEN NoNode ELSE map'.list[k + 1]
    BY <1>6, SuccessorIsNext
  <2> QED BY <1>4, <1>7, <2>1
<1>9. iterator' \in DOMAIN nodes' \cup {NoNode}
  <2>1. k # Len(map'.list) => map'.list[k + 1] \in Range(map'.list)
    BY <1>6 DEF Range
  <2> QED BY <1>2, <1>3, <1>8, <2>1
<1>10. ASSUME NEW n, Before(map'.list, iterator, n)
       PROVE  iterator' # NoNode /\ (n = iterator' \/ Before(map'.list, iterator', n))
  <2>1. PICK i \in 1..Len(map'.list), j \in 1..Len(map'.list) :
          i < j /\ map'.list[i] = iterator /\ map'.list[j] = n
    BY <1>6, <1>10 DEF Before
  <2>2. i = k
    BY <1>6, <1>7, <2>1
  <2>3. k # Len(map'.list) /\ k + 1 \in 1..Len(map'.list) /\ (j = k + 1 \/ k + 1 < j)
    BY <2>1, <2>2
  <2>4. iterator' = map'.list[k + 1] /\ iterator' \in Indices
    BY <1>6, <1>8, <2>3
  <2> QED BY <1>5, <1>6, <2>1, <2>3, <2>4 DEF Before
<1>11. ASSUME NEW n \in 0..N - 1
       PROVE  \/ iterator' # NoNode /\ (n = iterator' \/ Before(map'.list, iterator', n))
              \/ {2 * n + 1, 2 * n + 2} \subseteq DOMAIN nodes'
  <2>1. CASE n = iterator
    <3>1. iterator < TreeNodes(levels)
      BY <1>5, <2>1
    <3> QED BY <1>2, <1>3, <2>1, <3>1
  <2>2. CASE Before(map.list, iterator, n)
    BY <1>2, <1>10, <2>2
  <2>3. CASE {2 * n + 1, 2 * n + 2} \subseteq DOMAIN nodes
    BY <1>3, <2>3
  <2> QED BY <1>1, <2>1, <2>2, <2>3
<1>12. MapRight(map)' /\ nodes' = [n \in DOMAIN nodes' |-> Given(n)']
  BY <1>2, <1>3, <1>4 DEF MapRight, Indices, Given
<1>13. Progress'
  BY <1>1, <1>3, <1>4, <1>11 DEF Progress
<1> QED BY <1>1, <1>2, <1>3, <1>4, <1>9, <1>12, <1>13 DEF BuilderInv

(* The inductive invariant.                                                *)
THEOREM BuilderInvariant == Spec => []BuilderInv
<1>1. ASSUME BuilderInv, [Next]_vars PROVE BuilderInv'
  <2>1. CASE UNCHANGED vars
    BY <1>1, <2>1 DEF vars, BuilderInv, MapRight, Indices, Given, Progress, Before, Range
  <2>2. ASSUME NEW idx \in InnerNodes(MaxLevels), AddNode(idx) PROVE BuilderInv'
    BY <1>1, <2>2, AddNodeKeepsInv
  <2>3. CASE EndFinalize
    <3>1. /\ UNCHANGED <<levels, nodes, map, firstResultIdx, iterator>>
          /\ firstResultIdx # NoNode /\ iterator = NoNode /\ finalized' = TRUE
      BY <2>3 DEF EndFinalize
    <3>2. /\ MapRight(map)' /\ Range(map'.list) = DOMAIN nodes'
          /\ nodes' = [n \in DOMAIN nodes' |-> Given(n)']
      BY <1>1, <3>1 DEF BuilderInv, MapRight, Indices, Given
    <3> QED BY <1>1, <3>1, <3>2 DEF BuilderInv, Progress
  <2> QED BY <1>1, <2>1, <2>2, <2>3, BeginFinalizeKeepsInv, VisitNodeKeepsInv
          DEF Next, Finalizing
<1> QED BY <1>1, BuilderInit, PTL DEF Spec

(* Every state's values are what the code declares them to be, the map     *)
(* holds the nodes, each once, and has a bucket for each.                  *)
THEOREM TypeCorrect == Spec => []TypeOK
<1>1. BuilderInv => TypeOK
  <2> SUFFICES ASSUME BuilderInv PROVE TypeOK
    OBVIOUS
  <2>1. /\ levels \in 1..MaxLevels /\ MapRight(map) /\ Range(map.list) = DOMAIN nodes
        /\ nodes = [n \in DOMAIN nodes |-> Given(n)]
        /\ iterator \in DOMAIN nodes \cup {NoNode} /\ finalized \in BOOLEAN
    BY DEF BuilderInv
  <2>2. /\ TreeNodes(levels) \in Nat \ {0} /\ Indices = InnerNodes(levels + 1)
        /\ Indices = 0..2 * TreeNodes(levels)
    BY <2>1, LevelCounts, IndicesAreNodes DEF Indices
  <2>3. DOMAIN nodes \subseteq InnerNodes(levels + 1)
    BY <2>1, <2>2 DEF MapRight, Range
  <2>4. ASSUME NEW n \in DOMAIN nodes
        PROVE  {nodes[n].falseChild, nodes[n].trueChild} \subseteq InnerNodes(levels + 1) \cup {NoNode}
    <3>1. nodes[n] = Given(n)
      BY <2>1, Zenon
    <3>2. n \in 0..2 * TreeNodes(levels)
      BY <2>2, <2>3
    <3>3. {Given(n).falseChild, Given(n).trueChild} \subseteq 0..2 * TreeNodes(levels) \cup {NoNode}
      BY <2>2, <3>2 DEF Given, NoChildren
    <3> QED BY <2>2, <3>1, <3>3
  <2>5. IsInjective(map.list) /\ Len(map.list) <= map.buckets
    BY <2>1 DEF MapRight, IsInjective
  <2>6. firstResultIdx \in 1..TreeNodes(levels) \cup {NoNode}
    BY <2>2 DEF BuilderInv, Progress
  <2> QED BY <2>1, <2>3, <2>4, <2>5, <2>6 DEF TypeOK
<1> QED BY <1>1, BuilderInvariant, PTL

(* Though insertions reorder the list under the iterator, finalize leaves  *)
(* no node behind whose results are missing.                               *)
THEOREM NoneLeftBehind == Spec => []StillAhead
<1>1. BuilderInv => StillAhead
  <2> SUFFICES ASSUME BuilderInv, firstResultIdx # NoNode,
                      NEW n \in InnerNodes(levels) \ Ahead
               PROVE  {nodes[n].falseChild, nodes[n].trueChild} \subseteq DOMAIN nodes
    BY DEF StillAhead
  <2>1. /\ levels \in 1..MaxLevels /\ MapRight(map) /\ Range(map.list) = DOMAIN nodes
        /\ nodes = [i \in DOMAIN nodes |-> Given(i)]
        /\ iterator \in DOMAIN nodes \cup {NoNode}
    BY DEF BuilderInv
  <2>2. n \in 0..TreeNodes(levels) - 1
    BY <2>1, IndicesAreNodes
  <2>3. /\ n \in DOMAIN nodes
        /\ \/ iterator # NoNode /\ (n = iterator \/ Before(map.list, iterator, n))
           \/ {2 * n + 1, 2 * n + 2} \subseteq DOMAIN nodes
    BY <2>2 DEF BuilderInv, Progress
  <2>4. ~(iterator # NoNode /\ (n = iterator \/ Before(map.list, iterator, n)))
    <3> SUFFICES ASSUME iterator # NoNode, n = iterator \/ Before(map.list, iterator, n)
                 PROVE  FALSE
      OBVIOUS
    <3>1. map.list \in Seq(Indices) /\ \A i, j \in DOMAIN map.list : map.list[i] = map.list[j] => i = j
      BY <2>1 DEF MapRight
    <3>2. (n = iterator /\ iterator \in Range(map.list)) \/ Before(map.list, iterator, n)
      BY <2>1
    <3> QED BY <3>1, <3>2, AheadIsAfter
  <2>5. nodes[n] = [falseChild |-> 2 * n + 1, trueChild |-> 2 * n + 2]
    <3>1. nodes[n] = Given(n)
      BY <2>1, <2>3, Zenon
    <3>2. n < TreeNodes(levels)
      BY <2>1, <2>2, LevelCounts
    <3> QED BY <3>1, <3>2 DEF Given
  <2> QED BY <2>3, <2>4, <2>5
<1> QED BY <1>1, BuilderInvariant, PTL

(* A finalized tree is the one that TreeFactory says a factory makes.      *)
THEOREM FinalizedTree == Spec => []AllResults
<1>1. BuilderInv => AllResults
  <2> DEFINE N == TreeNodes(levels)
             promised == MakePerfectDistinctUniformTree(levels)
             promise == [n \in DOMAIN promised |->
                           [falseChild |-> promised[n].falseChild,
                            trueChild |-> promised[n].trueChild]]
  <2> SUFFICES ASSUME BuilderInv, finalized PROVE nodes = promise
    BY DEF AllResults
  <2>1. /\ levels \in 1..MaxLevels /\ MapRight(map) /\ Range(map.list) = DOMAIN nodes
        /\ nodes = [n \in DOMAIN nodes |-> Given(n)]
    BY DEF BuilderInv
  <2>2. /\ 0..N - 1 \subseteq DOMAIN nodes
        /\ \A n \in 0..N - 1 : {2 * n + 1, 2 * n + 2} \subseteq DOMAIN nodes
    BY DEF BuilderInv, Progress
  <2>3. levels \in Nat \ {0} /\ N \in Nat \ {0} /\ Indices = 0..2 * N /\ NoNode \notin 0..2 * N
    BY <2>1, LevelCounts, IndicesAreNodes DEF Indices
  <2>4. DOMAIN nodes = 0..2 * N
    <3>1. DOMAIN nodes \subseteq Indices
      BY <2>1 DEF MapRight, Range
    <3>2. ASSUME NEW c \in 1..2 * N PROVE c \in DOMAIN nodes
      <4>1. (c - 1) \div 2 \in 0..N - 1 /\ c \in {2 * ((c - 1) \div 2) + 1, 2 * ((c - 1) \div 2) + 2}
        BY <2>3
      <4> QED BY <2>2, <4>1
    <3>3. 0 \in DOMAIN nodes
      BY <2>2, <2>3
    <3>4. 0..2 * N = {0} \cup 1..2 * N
      BY <2>3
    <3> HIDE DEF N
    <3> QED BY <2>3, <3>1, <3>2, <3>3, <3>4
  <2>5. promised = [n \in 0..2 * N |->
                      IF n < N
                      THEN [bias |-> UniformBias(levels)[n], feature |-> DistinctFeature(levels)[n],
                            falseChild |-> 2 * n + 1, trueChild |-> 2 * n + 2]
                      ELSE ImplicitNode]
    <3>1. promised = MakePerfectTree(levels, UniformBias(levels), DistinctFeature(levels))
      BY DEF MakePerfectDistinctUniformTree
    <3> HIDE DEF promised
    <3> QED BY <2>3, <3>1, PerfectTree
  <2>6. DOMAIN promised = 0..2 * N
    BY <2>5
  <2>7. ASSUME NEW n \in 0..2 * N
        PROVE  [falseChild |-> promised[n].falseChild, trueChild |-> promised[n].trueChild] = Given(n)
    <3>1. CASE n < N
      BY <2>5, <3>1 DEF Given
    <3>2. CASE ~(n < N)
      BY <2>5, <3>2 DEF Given, ImplicitNode, NoChildren
    <3> QED BY <3>1, <3>2
  <2> HIDE DEF promised
  <2>8. promise = [n \in 0..2 * N |-> Given(n)]
    BY <2>6, <2>7
  <2> QED BY <2>1, <2>4, <2>8
<1> QED BY <1>1, BuilderInvariant, PTL

(* How many turns of the loop may be left: the places in the list, were it *)
(* to hold a finalized tree, from the node that the loop is at.            *)
Remaining ==
  IF iterator = NoNode THEN 0
  ELSE 2 * TreeNodes(levels) + 2 - CHOOSE k \in DOMAIN map.list : map.list[k] = iterator

(* A map holds at most the nodes of a finalized tree.                      *)
LEMMA MapFits ==
  ASSUME levels \in 1..MaxLevels, NEW m, MapRight(m)
  PROVE  Len(m.list) <= 2 * TreeNodes(levels) + 1
<1>1. /\ m.list \in Seq(Indices)
      /\ \A i, j \in DOMAIN m.list : m.list[i] = m.list[j] => i = j
  BY DEF MapRight
<1>2. Len(m.list) <= Cardinality(Indices)
  BY <1>1, IndexCount, DistinctListFits
<1> QED BY <1>2, IndexCount

(* Every turn of finalize's loop goes further back in the list than the    *)
(* results it inserts put the node it was at, and the list is bounded:     *)
(* there is an end to the turns, although the loop adds to its own map.    *)
THEOREM LoopAdvances ==
  Spec => [][VisitNode => Remaining \in Nat /\ Remaining' \in Nat /\ Remaining' < Remaining]_vars
<1>1. ASSUME BuilderInv, VisitNode
      PROVE  Remaining \in Nat /\ Remaining' \in Nat /\ Remaining' < Remaining
  <2> DEFINE N == TreeNodes(levels)
             new == map'.list
  <2>1. /\ levels \in 1..MaxLevels /\ MapRight(map) /\ iterator \in Range(map.list)
        /\ iterator # NoNode
    BY <1>1 DEF BuilderInv, VisitNode
  <2>2. MapRight(map') /\ FurtherBack(map.list, new)
    BY <1>1, VisitAdds
  <2>3. /\ map.list \in Seq(Indices) /\ DOMAIN map.list = 1..Len(map.list)
        /\ \A i, j \in DOMAIN map.list : map.list[i] = map.list[j] => i = j
        /\ new \in Seq(Indices) /\ DOMAIN new = 1..Len(new)
        /\ \A i, j \in DOMAIN new : new[i] = new[j] => i = j
    BY <2>1, <2>2 DEF MapRight
  <2>4. /\ Len(map.list) <= 2 * N + 1 /\ Len(map.list) \in Nat
        /\ Len(new) <= 2 * N + 1 /\ Len(new) \in Nat /\ N \in Nat
    BY <2>1, <2>2, <2>3, MapFits, LevelCounts
  <2>5. levels' = levels /\ iterator' = Successor(new, iterator)
    BY <1>1 DEF VisitNode
  <2> HIDE DEF new
  <2>6. PICK p \in 1..Len(map.list) : map.list[p] = iterator
    BY <2>1, <2>3 DEF Range
  <2>7. PICK k \in 1..Len(new) : p <= k /\ new[k] = iterator
    BY <2>2, <2>3, <2>6 DEF FurtherBack
  <2>8. Remaining = 2 * N + 2 - p
    <3>1. (CHOOSE j \in DOMAIN map.list : map.list[j] = iterator) = p
      BY <2>3, <2>6
    <3> QED BY <2>1, <3>1 DEF Remaining
  <2>9. iterator' = IF k = Len(new) THEN NoNode ELSE new[k + 1]
    <3>1. Successor(new, new[k]) = IF k = Len(new) THEN NoNode ELSE new[k + 1]
      BY <2>3, SuccessorIsNext
    <3> QED BY <2>5, <2>7, <3>1
  <2>10. CASE k = Len(new)
    <3>1. Remaining' = 0
      BY <2>9, <2>10 DEF Remaining
    <3> QED BY <2>4, <2>6, <2>8, <3>1
  <2>11. CASE k # Len(new)
    <3>1. k + 1 \in DOMAIN new /\ k + 1 <= 2 * N + 1 /\ iterator' = new[k + 1]
      <4>1. k + 1 \in 1..Len(new) /\ k + 1 <= 2 * N + 1
        BY <2>4, <2>7, <2>11
      <4> QED BY <2>3, <2>9, <2>11, <4>1
    <3>2. (CHOOSE j \in DOMAIN new : new[j] = iterator') = k + 1
      BY <2>3, <3>1
    <3>3. iterator' # NoNode
      BY <2>1, <2>3, <3>1, IndicesAreNodes
    <3>4. Remaining' = 2 * N + 2 - (k + 1)
      BY <2>5, <3>2, <3>3 DEF Remaining, new
    <3>5. N \in Nat /\ p \in Nat /\ k \in Nat /\ p <= k /\ k + 1 <= 2 * N + 1
      BY <2>3, <2>4, <2>6, <2>7, <3>1
    <3> HIDE DEF N
    <3> QED BY <2>8, <3>4, <3>5
  <2> QED BY <2>10, <2>11
<1> QED BY <1>1, BuilderInvariant, PTL
=============================================================================
