----------------------------- MODULE Benchmarks -----------------------------
(***************************************************************************)
(* The benchmark program: it makes random trees and data sets once, shared *)
(* by all benchmarks, and then runs each benchmark on several threads at a *)
(* time, each with a driver of its own (JitDrivers). Nothing locks the     *)
(* shared maps, whose operator[] inserts what it does not find, nor the    *)
(* random engine: DataSetIdxsAccess (Shared.h:15) is never taken.          *)
(*                                                                         *)
(* Of a tree counts how many levels it has and how far into a data set it  *)
(* reads; of a data set, its size.                                         *)
(***************************************************************************)
EXTENDS JitDrivers, TLC

CONSTANTS
  Features,        \* `f`; 10000 in the code
  Collected,       \* data sets per collection; 10 in the code
  Draws            \* data sets a thread draws; 5 in the code

ASSUME FeaturesAssumption == Features \in Nat \ {0}
ASSUME KeyAssumption == Features <= 10737417   \* makeKeyForDecisionTree
ASSUME CollectedAssumption == Collected \in Nat \ {0}
ASSUME DrawsAssumption == Draws \in Nat \ {0}

VARIABLES
  trees,           \* RegularDecisionTrees
  collections,     \* DataSetCollections: the sizes of the data sets of each
  current,         \* the benchmark that runs; 0 before the first
  at,              \* where each thread is in its benchmark
  chosen,          \* the copy of the tree that each thread selected
  data             \* data1, data2...: the indices of the data sets it drew

sharedVars == <<trees, collections>>
ownVars == <<at, chosen, data>>
benchVars == <<sharedVars, current, ownVars, jitVars>>

ContinueAt(t, step) == at' = [at EXCEPT ![t] = step]

-----------------------------------------------------------------------------
(* The benchmarks that main() registers                                    *)

OneGenerator(generator) == [r \in 1..255 |-> generator]

Interpreting(depth) == [jit |-> FALSE, selector |-> None, depth |-> depth]
Adaptive(depth) == [jit |-> TRUE, selector |-> None, depth |-> depth]
Single(generator, depth) ==
  [jit |-> TRUE, selector |-> OneGenerator(generator), depth |-> depth]

Registered ==
  << Interpreting(12), Interpreting(12), Adaptive(12), Single(L1IfThenElse, 12),
     Single(L1IfThenElse, 3), Single(L3SubtreeSwitchAVX, 3),
     Single(L1IfThenElse, 2), Single(LXSubtreeSwitch(2), 2) >>

-----------------------------------------------------------------------------
(* initializeSharedData                                                    *)

\* Mutant: the trees of the first benchmarks are missing.
TreeDepthsShort == {2, 3}

TreeDepths == {2, 3, 12}

MakeKeyForDecisionTree(depth, features) == features * 100 + depth

\* Mutant: the upper bound of the random number is not decremented.
RandomFeaturesInclusive(features) == 0..features

RandomFeatures(features) == 0..(features - 1)

\* makePerfectRandomTree; `reads` is the highest feature index of its nodes.
PerfectRandomTrees(levels, features) ==
  {[levels |-> levels, reads |-> feature] : feature \in RandomFeatures(features)}

\* makeRandomDataSets
RandomDataSets(count, features) == [i \in 1..count |-> features]

SharedTrees == UNION {PerfectRandomTrees(depth, Features) : depth \in TreeDepths}

\* What the drivers of the benchmarks are asked for is what JitDrivers allows.
ASSUME DriversAssumption ==
  /\ SharedTrees \subseteq Trees
  /\ \A i \in DOMAIN Registered : Registered[i].selector \in Selectors \cup {None}

InitializeSharedData ==
  /\ collections = [size \in {Features} |-> RandomDataSets(Collected, size)]
  /\ trees \in [{MakeKeyForDecisionTree(depth, Features) : depth \in TreeDepths}
                  -> SharedTrees]
  /\ \A depth \in TreeDepths :
       trees[MakeKeyForDecisionTree(depth, Features)] \in
         PerfectRandomTrees(depth, Features)

-----------------------------------------------------------------------------
(* The threads of a benchmark                                              *)

\* std::unordered_map::operator[] inserts a default for a key it lacks.
Subscripted(map, key, default) ==
  IF key \in DOMAIN map THEN map ELSE (key :> default) @@ map

EmptyTree == [levels |-> 0, reads |-> None]

\* selectDecisionTree
SelectDecisionTree(t) ==
  LET benchmark == Registered[current]
      key == MakeKeyForDecisionTree(benchmark.depth, Features)
  IN  /\ at[t] = "select"
      /\ trees' = Subscripted(trees, key, EmptyTree)
      /\ chosen' = [chosen EXCEPT ![t] = trees'[key]]
      /\ ContinueAt(t, IF benchmark.jit THEN "construct" ELSE "draw")
      /\ UNCHANGED <<collections, current, data, jitVars>>

ConstructDriver(t) ==
  /\ at[t] = "construct"
  /\ LockSetUp(t)
  /\ ContinueAt(t, IF Registered[current].selector = None THEN "run" ELSE "configure")
  /\ UNCHANGED <<sharedVars, current, chosen, data>>

ConfigureDriver(t) ==
  /\ at[t] = "configure"
  /\ SetSelector(t, Registered[current].selector)
  /\ ContinueAt(t, "run")
  /\ UNCHANGED <<sharedVars, current, chosen, data>>

RunDriver(t) ==
  /\ at[t] = "run"
  /\ CompileTree(t, chosen[t])
  /\ ContinueAt(t, "draw")
  /\ UNCHANGED <<sharedVars, current, chosen, data>>

\* makeRandomInt(0, size - 1) on an engine that both threads may be using: any
\* number it can make. The bound wraps for an empty collection.
RandomIndices(size) == IF size = 0 THEN {1} ELSE 1..size

SelectRandomDataSet(t) ==
  /\ at[t] = "draw" /\ pc[t] \in {"outside", "ready"}
  /\ Len(data[t]) < Draws
  /\ collections' = Subscripted(collections, Features, <<>>)
  /\ \E i \in RandomIndices(Len(collections'[Features])) :
       data' = [data EXCEPT ![t] = Append(@, i)]
  /\ UNCHANGED <<trees, current, at, chosen, jitVars>>

\* The first call of KeepRunning, and the one that returns false: a barrier of
\* all threads. In between, the benchmark calls its evaluator.
ReachBarrier(t) ==
  /\ \/ at[t] = "draw" /\ Len(data[t]) = Draws /\ ContinueAt(t, "start")
     \/ at[t] = "evaluate" /\ ContinueAt(t, "stop")
  /\ UNCHANGED <<sharedVars, current, chosen, data, jitVars>>

PassBarrier ==
  /\ \/ /\ \A t \in Threads : at[t] = "start"
        /\ at' = [t \in Threads |-> "evaluate"]
     \/ /\ \A t \in Threads : at[t] = "stop"
        /\ at' = [t \in Threads |-> "leave"]
  /\ UNCHANGED <<sharedVars, current, chosen, data, jitVars>>

\* The scope of a benchmark ends with the result first, then the driver, then
\* what was declared before them.
DestroyResult(t) ==
  /\ at[t] = "leave" /\ DropResults(t)
  /\ UNCHANGED <<sharedVars, current, ownVars>>

\* Mutant: the data sets are kept for the next benchmark, as statics would be.
LeaveScopeKeeping(t) ==
  /\ at[t] = "leave"
  /\ IF Registered[current].jit THEN LeaveDriverScope(t) ELSE UNCHANGED jitVars
  /\ ContinueAt(t, "joined")
  /\ UNCHANGED <<sharedVars, current, chosen, data>>

LeaveScope(t) ==
  /\ at[t] = "leave"
  /\ IF Registered[current].jit THEN LeaveDriverScope(t) ELSE UNCHANGED jitVars
  /\ ContinueAt(t, "joined")
  /\ chosen' = [chosen EXCEPT ![t] = None]
  /\ data' = [data EXCEPT ![t] = <<>>]
  /\ UNCHANGED <<sharedVars, current>>

\* RunSpecifiedBenchmarks: the registered benchmarks in their order, those the
\* command line asks for, each repeated until it ran long enough.
StartBenchmark(benchmark) ==
  /\ \A t \in Threads : at[t] = "joined"
  /\ current' = benchmark
  /\ at' = [t \in Threads |-> "select"]
  /\ UNCHANGED <<sharedVars, chosen, data, jitVars>>

-----------------------------------------------------------------------------

BenchmarksInit ==
  /\ JitInit /\ InitializeSharedData
  /\ current = 0
  /\ at = [t \in Threads |-> "joined"]
  /\ chosen = [t \in Threads |-> None]
  /\ data = [t \in Threads |-> <<>>]

Body(t) ==
  \/ SelectDecisionTree(t) \/ ConstructDriver(t) \/ ConfigureDriver(t) \/ RunDriver(t)
  \/ SelectRandomDataSet(t) \/ ReachBarrier(t)
  \/ DestroyResult(t) \/ LeaveScope(t)
  \/ Continue(t) /\ UNCHANGED <<sharedVars, current, ownVars>>

BenchmarksNext ==
  \/ exited = None
     /\ \/ \E t \in Threads : Body(t)
        \/ PassBarrier
        \/ \E benchmark \in DOMAIN Registered :
             benchmark >= current /\ StartBenchmark(benchmark)
  \/ exited # None /\ UNCHANGED benchVars

\* Threads keep running, and a barrier that all have reached lets them go.
BenchmarksSpec ==
  /\ BenchmarksInit /\ [][BenchmarksNext]_benchVars
  /\ \A t \in Threads : WF_benchVars(exited = None /\ Body(t))
  /\ WF_benchVars(exited = None /\ PassBarrier)

-----------------------------------------------------------------------------
(* Properties *)

BenchmarkSteps == {"select", "construct", "configure", "run", "draw", "start",
                   "evaluate", "stop", "leave", "joined"}

BenchmarksTypeOK ==
  /\ JitTypeOK
  /\ current \in 0..Len(Registered)
  /\ at \in [Threads -> BenchmarkSteps]
  /\ chosen \in [Threads -> SharedTrees \cup {None}]
  /\ data \in [Threads -> Seq(Nat)]
  /\ \A t \in Threads :
       /\ Len(data[t]) <= Draws
       /\ at[t] \in {"select", "joined"} <=> chosen[t] = None
       /\ at[t] \in {"select", "joined"} => data[t] = <<>> /\ pc[t] = "outside"

(* The threads of a benchmark, which lock nothing, only read what they     *)
(* share: no subscript inserts, because a tree of every depth and a        *)
(* collection of every size that a benchmark is registered with was made   *)
(* before (Shared.h:42, :46; main_benchmark.cpp:33-45).                    *)
SharedDataUntouched == [][UNCHANGED sharedVars]_benchVars

\* The tree that the evaluator a thread calls evaluates.
Evaluated(t) ==
  IF Registered[current].jit
  THEN LET result == results[t][Len(results[t])]
       IN  modules[t][result.fn].tree
  ELSE chosen[t]

(* A call made while the other thread runs too finds what it needs: the    *)
(* function of this thread's driver, for the tree of the benchmark's own   *)
(* depth; data sets that exist; and in each of them every feature that the *)
(* tree reads (Shared.h:45-49, DecisionTree.cpp:304).                      *)
CallsInside ==
  \A t \in Threads : at[t] = "evaluate" =>
    /\ Evaluated(t).levels = Registered[current].depth
    /\ \A i \in DOMAIN data[t] :
         /\ data[t][i] \in DOMAIN collections[Features]
         /\ Evaluated(t).reads < collections[Features][data[t][i]]

(* Every benchmark ends: its generators use up exactly the levels of its   *)
(* tree, and no thread waits at the barrier for one that waits for a lock. *)
BenchmarksEnd ==
  \A t \in Threads : at[t] = "select" ~> at[t] = "joined" \/ exited # None
=============================================================================
