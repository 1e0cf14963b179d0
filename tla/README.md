# A verification of DecisionTreeCompiler

DecisionTreeCompiler turns a decision tree into LLVM IR that evaluates it. There
are two ways to evaluate a tree here, an interpreter and a function generated by
one or several of three code generators, and a single question that matters: do
they always give the same answer? This directory holds TLA+ modules of the parts
that decide it, TLC runs that check them on small trees, and TLAPS proofs of what
holds for trees of any size.

## 1. The system

| Part | Source | State | Operations |
|---|---|---|---|
| Decision tree | `data/DecisionTree.*`, `DecisionTreeNode.*` | a map from index to node, the number of levels, whether it is finalized | `addNode`, `finalize` (adds the result nodes), lookups, the factories of `DecisionTreeFactory` |
| Subtree reference | `data/DecisionSubtreeRef.h` | none | constructor (with the assertions that a subtree is complete), pre-order node list, node counts |
| Evaluation paths | `codegen/utility/CGEvaluationPath*` | per path: an array of steps and the index of the first one filled | all ways through a k-level subtree, with the outcome at every node passed; questions to a path, comparison of two |
| Condition vector variations | `codegen/utility/CGConditionVectorVariationsBuilder.*` | none | all outcome vectors for which a path is taken |
| Condition vector emitters | `codegen/utility/CGConditionVectorEmitter.*` | none | emit scalar (X86) or vector (AVX) code that computes the outcome vector |
| Code generators | `codegen/L1IfThenElse.*`, `LXSubtreeSwitch.*`, `L3SubtreeSwitchAVX.*` | none | `emitEvaluation` (a subtree with more levels below it), `emitLeafEvaluation` (one with only results below) |
| Selectors | `codegen/CodeGeneratorSelector.*` | none | which generator for how many remaining levels |
| Compiler | `compiler/DecisionTreeCompiler.*`, `CompilerSession.*` | selector; per compilation: module, blocks, pending nodes, remaining levels | `setCodegenSelector`, `compile` |
| Generated function | (emitted) | result variable, current block | a call with a data set |
| Interpreter | `driver/utility/Interpreter.h` | none | `run`, `runValueBased` |
| JIT and its driver | `compiler/SimpleOrcJit.*`, `driver/JitDriver.h`, `driver/utility/AutoSetUpTearDownLLVM.*` | per driver: selector, module sets, symbols; per process: a lock around submission, one around the set-up of LLVM, and LLVM's registry of targets | set-up, `setCodegenSelector`, `run` (compile, submit, look up), destruction |
| Static driver | `driver/StaticDriver.h`, `main_static.cpp` | options | command line, compile, optimize, write a file |
| Data set factory | `data/DataSetFactory.h` | none | random data sets, and one that takes a given path |
| Benchmarks | `benchmark/*`, `main_benchmark.cpp` | trees and data sets shared by threads | initialization; per thread: select a tree, create a driver, draw data sets, call the evaluator in a loop |

**How they interact.** Everything is a synchronous call. A driver passes a
finalized tree to `compile`. The compiler keeps a list of pending nodes, at first
the root. Per round it asks the selector for a generator, passing the number of
levels left, and lets it emit code for every pending node; the generator
returns the nodes where evaluation continues, each with the block its evaluation
goes to and the block to continue in afterwards. Two actors share state only by
these block pointers: a block that one generator creates is filled by another,
rounds later. The function is then executed by clients, and only there do the
two halves of a switch meet: its labels, computed at compile time from the
paths, and its operand, computed at run time by emitted code.

Concurrency comes in with the benchmarks only. Each of them runs on two
threads, each with its own driver; the threads share the trees and data sets made
at the start, in maps without a lock, a random engine without a lock, LLVM's registry
of targets and the process' two locks, and they meet at barriers around the timed loop.

**What is hard.** A compilation and a call run on one thread, and what is hard
about them is that correctness is spread out. Labels and operand
have to agree bit by bit. Generators of different depth, chosen by a user's
lambda, have to add up to the depth of the tree. Blocks have to be joined across
rounds. And where something does not fit, the code relies on assertions: on the
node count of a subtree, on the number of paths, on the sum of case labels. The
default label of a switch is unreachable code, so a mistake is not an error
at run time but undefined behaviour. What is hard about the drivers is that
nothing but the order of calls, two locks that exclude different things, and the
scopes of C++ objects keeps threads out of each other's way, and results from being
called after their code is gone. `PROJECT.json` lists these hazards, each with
its line and the property that watches it, or a note why none does.

**When each part is correct.**

* tree: finalizing adds exactly the results; what is evaluated does not depend on how.
* paths and variations: every outcome vector belongs to exactly one path, the one
  that evaluation takes.
* emitters: the run-time vector is the one the labels are made from; its top bit is clear.
* compiler: no subtree is lost or compiled twice; levels add up; every block
  is terminated; it aborts when, and only when, the selector does not fit.
* generated function and interpreter: a call returns, and returns the tree's result.
* drivers: whoever compiles has LLVM set up; a result calls linked code for its own
  tree as long as it exists; code is generated and linked under the lock.
* benchmarks: shared data is only read once the threads run; every call is made
  with a tree and data sets that fit; every benchmark ends.
* data set factory, paths: what they return is what they were asked for.

## 2. The modules

| Module | Models |
|---|---|
| `DecisionTree` | the tree, its evaluation (`Walk`, `Evaluate`), and the static analyses of subtrees: `PreOrder`, `Paths`, `CaseValues`, `ConditionVector` |
| `TreeFactory` | the trees of `DecisionTreeFactory`, with what `finalize` adds |
| `TreeBuilder` | how a tree is built: constructor, `addNode`, and the loop of `finalize` over the hash map it grows |
| `Evaluation` | the abstract evaluator: a call with a data set, answered with the tree's result |
| `Interpreter` | both methods of the interpreter, one action per turn of their loops |
| `CodeGenerators` | what generators say of themselves, the default selector, and when a selector uses up a tree's levels |
| `TreeCompiler` | `setCodegenSelector` and `compile` with the generators it drives |
| `CompiledEvaluator` | the generated function, executed block by block, composed with `TreeCompiler` |
| `ConditionVectorEmitter` | what the emitted code for a condition vector computes |
| `EvaluationPath` | the array behind a path: how it is filled, asked and compared; `DecisionTree`'s paths are its abstraction |
| `DataSetFactory` | `makeDistinctDataSet`, argument by argument |
| `JitDrivers` | JIT drivers on several threads: LLVM's set-up, submission, lookup, destruction |
| `Benchmarks` | the benchmark program, composed with `JitDrivers` |
| `StaticDriver` | the command line program: options, selector, output file name, ways to end |
| `DecisionTree_proofs`, `Interpreter_proofs`, `CompiledEvaluator_proofs`, `ConditionVectorEmitter_proofs`, `EvaluationPath_proofs`, `DataSetFactory_proofs`, `Benchmarks_proofs` (with those of `JitDrivers`, `TreeBuilder` and `TreeFactory`), `StaticDriver_proofs` | theorems and their proofs |
| `MCInterpreter`, `MCTrees`, `MCCompiledEvaluator`, `MCConditionVectorEmitter`, `MCStaticDriver`, `MCEvaluationPath`, `MCDataSetFactory`, `MCJitDrivers`, `MCBenchmarks` | constants for TLC |

### State and code

*Trees.* A tree is a constant function `Tree` from indices to records of bias,
feature and children. `Depth` names the level of each node; it is not in the code,
where only the factories know it, and `IsPerfect` says what it must satisfy.
`TreeAssumption` is what the code takes for granted of any tree it compiles (the
assertion on the node count in `finalize`, and the complete subtrees that
`DecisionSubtreeRef` asserts), plus that no node is reached twice.
The trees of the runs come from `TreeFactory`, so TLC checks the
assumption of what `DecisionTreeFactory` and `finalize` produce. Floating-point
values are integers, counted in units of the smallest bias step, and a
`NaN` with which no comparison succeeds. A sum such as `biasBase + i * biasStep`
is exact in `float` for these trees (from 25 levels on `float` rounds it, and the
model does not). An index has 64 bits but a feature 32: the distinct factories give each node
a feature of its own up to 32 levels only, which `DistinctFeature` keeps.

*Building a tree.* `finalize` inserts the result nodes into the `unordered_map` it
iterates over. The C++ standard does not say what comes of that once the map rehashes, and it
does rehash: space is reserved for the inner nodes only. What happens is decided
by the standard library, which the build chooses (`-stdlib=libc++`, in `CMakeLists.txt`). So
`TreeBuilder` models libc++'s map, marked external: a list of nodes in
which those of a bucket are neighbours, a new node goes in front of its bucket or of the whole
list, and a rehash relinks the list front to back. The `iterator` is a node,
which both leave in place. `AddNode` is `addNode`, called by index as all
factories do (up to `AnyOrderLevels` levels, in any order); `BeginFinalize`,
`VisitNode` and `EndFinalize` are `finalize`, a turn of its loop at a time.
`TreeFactory!Finalize` says in one expression what `TreeBuilder` does step by step;
`AllResults` compares them.

*Condition vectors* are sets of bit positions. What code does with masks and
shifts becomes union and intersection; where the width of an integer or a single
bit matters (truncation, sign bit, spare lane), `ConditionVectorEmitter` says so.

*Compiler.* Every local variable of `compile` and the functions it calls that
survives a loop turn is a variable: `remaining`, `codegen`, `roots`, `next`
(`nodesNextLevel`), and `code`, the function under construction. A loop turn is
an action: `SelectGenerator` (a turn of `compileSubtrees`), `EmitEvaluation`
(`compileNestedSubtrees`), `EmitLeafEvaluation` (`compileLeafSubtrees`),
`ConnectEndpoint` (`connectSubtreeEndpoints`). `Finish` is the end of `compile`,
and `Abort` a failed assertion. Assertions are taken to be enabled, as in the
repository's debug builds; with `NDEBUG` the selectors that abort here
have no defined behaviour.

*Function.* `code` maps a basic block to the value it stores to the result
variable, if any, and the list of terminators emitted into it. All that happens
between block entry and terminator is a function of the data set and appears
where its value is used. A table (`emitSwitchTable`) is a function from condition
vectors to results. Blocks are named by kind and node, which LLVM does by
identity: two blocks never share a name because a generator creates blocks of a
kind for a node once.

*Selectors* are functions of the remaining levels, which is what a
`LambdaSelector` gets passed. They may be replaced between compilations.

*Command line.* Every `case` of the loop over options in `main` is an action of
`StaticDriver`, `config` holds the members of the class, and `run` takes two or
three steps, one of them `compile`. File names are sequences of pieces that
start at a dot or a slash, because `ensureOutputFileExt` asks for the length of a
name, its end and its last dot. `CodeGenerators` ties the program to the
compiler: the selector made of the options must be one that `compile` does not abort
on, which for `TreeCompiler` is `Fits`.

*Paths.* `paths` holds two `CGEvaluationPath` objects, with `insertIdx` one more
than `InsertIdx` because sequences begin at 1. `calls` is the stack of
`CGEvaluationPathsBuilder`'s recursion above each of them: `Descend` is a call for a child,
`NewPath` the constructor where the recursion ends, and `AddParentStep` is `addParent`,
which `recurseToChildNode` calls when the call below returns. `addParent`
asserts only that the path is not finalized, and neither does the model ask which node it
is given: that parents arrive in the right order, one per slot, comes of the recursion.
`BeginCompare`, `CompareStep` and `CompareOutside` are `operator==` of two paths. Its loop counts
up from the last step: equal paths make it read behind the array, from where
the model says no more than `"undefined"`. `ComparisonRight` allows that for equal paths, the ones for which
the code does it: it describes the defect, and is not a check against it. No code and no test compares paths.

*Data sets.* `DataSetFactory` takes a step per argument of the variadic recursion.
The fraction that it adds to or takes from a bias is one unit. A call with too
many arguments gets to a result node, writes at its feature index 0xFFFFFFFF, and
would assert only then: `WriteOutside`, outcome `"undefined"`.

*Drivers.* `pc` says where each thread is in `AutoSetUpTearDownLLVM`,
`JitDriver::run` or `submitModule`; a step is what happens between two points at
which another thread can matter. `registry` and `firstTarget` are LLVM's list
of targets, which `RegisterTarget` changes without a lock and in two steps
(`CheckTarget`, `LinkTarget`). A module is known by its tree, since
`TreeCompiler` and `CompiledEvaluator` are about what it does; a function is known
by the position of its module. `compile` aborts on a selector that does not fit
(`TreeCompiler`), which is the guard of `CompileTree`. Nothing in the API ties a
result to its driver: `JitCompileResult` may outlive the code it points to. What
keeps it from doing so is that every caller declares the driver first, so that C++ destroys the result
first. `LeaveDriverScope` is that order for the calls that are followed here:
`DropResults` is a step of its own before `DestroyDriver`, which removes the code and touches no result
(in the benchmarks, `DestroyResult` is the first of the two). `avx` is whether the
host has AVX; `CannotSelect` is what LLVM does with AVX code if it has not.

*Benchmarks.* `at` is where each thread is in its benchmark, on top of where
`pc` has it in its driver. `Registered` and `TreeDepths` are the lists in `main`. Of a shared
tree counts the number of levels and the highest feature index it reads, which
`makePerfectRandomTree` draws at random; of a data set its size. `Subscripted` is
`operator[]`, which inserts. Two threads that draw from an unlocked engine get any
number it can make, the same one included, which is what a random choice gives
anyway; an index is never outside of the distribution's bounds because the distribution maps
whatever state the engine is in. What else a race may do in C++ cannot be seen here: it is a
hazard without a property. The benchmark library is external: it starts the
registered benchmarks in order, repeats them, and joins their threads.

### What is abstracted

LLVM is external: the instructions, and the verifier, of which `Broken` keeps the
rule that a block has one terminator, at its end. JIT compilation and
optimization passes are assumed to preserve the meaning of defined IR.
Target features, attributes, alignment and names are left out.
`L1IfThenElse` has cases for subtrees with one or two nodes; a two-level
reference has three nodes or fails its assertion, so these never run.

## 3. Runs

| Run | Module, cfg | Question | States |
|---|---|---|---|
| `interpreter` | `MCInterpreter` | Do both methods implement `Evaluation`, and return? | 17505 |
| `evaluator` | `MCCompiledEvaluator` | Is `compile` right for fitting selectors, does it stop the others, and does the function implement `Evaluation`? Do both end? | 41408 |
| `builder` | `TreeBuilder` | Does `finalize` meet every node of the map it changes, add all results, and end? | 59344 |
| `static` | `MCStaticDriver` | Are format, extension, selector and stdout right, in whatever order options come? | 12000 |
| `emitter` | `MCConditionVectorEmitter` | Do both emitters compute the vector of the labels? | 5120 |
| `paths` | `MCEvaluationPath` | Is the array of a path right at any time, and the comparison of two? | 101179 |
| `datasets` | `MCDataSetFactory` | Does a data set lead where it was asked to? | 735 |
| `jit` | `MCJitDrivers` | Do drivers on two threads leave LLVM's registry and each other's code alone? | 56131 |
| `benchmarks` | `MCBenchmarks` | Do threads only read what they share, call evaluators with what fits, and end? | 66672 |
| `jit_avx` | `MCJitDrivers` | Does the default selector respect the host? (violated) | |
| `success` | `MCTrees` | Does `Success` tell a good function from a broken one? (violated) | |
| `static_name` | `MCStaticDriver` | Is the output written to the file named, whatever its name? (violated) | |

**Bounds.** Four levels are enough for a generator of every depth to be used alone,
after another and before another: two-level switches above single levels or above each
other, a three-level switch nested above a last level, single levels above a three-level
(AVX) table, and misfits of all kinds (too deep at the end, no levels, more than
four). Every node has a feature of its own. All nodes of a level going the same way make
16 data sets that take every path; one node going one way and all others the other way
makes 28 more that tell the bits of a condition vector apart. A NaN is one more way to
say left. (That the labels cover all 2^7 vectors of a three-level switch is
`SwitchesTotal`, which asks no data set; that the emitters compute the right one for all of them
is the run `emitter`.) Selectors (`AnySelector` in `MCTrees`) are those of the tests and of `StaticDriver`, and
misfits of each kind. The interpreter, whose comparison is the point, gets three levels and every
combination of a NaN, a high value and one that ties with a bias. `MaxLevels` of the builder is 6 because in trees of four and of six
levels the reserved buckets (17, 67) exceed the inner nodes (15, 63): results are
inserted amid nodes the loop has not met yet before the map rehashes. With
two, three and five levels it rehashes at the first result. `AnyOrderLevels` is 3: 5040 orders. Options are
bounded by `MaxOptions` = 5, one for each setting a module depends on and one to be
overridden. `Levels` = 3 in `paths` gives pairs of paths of every length, in the
same and in different subtrees, finished or not, and subtrees of four levels that reach
below the tree; their paths are never finished, and the builder's assertion rejects them.
Argument lists of `datasets` are up to `MaxEvals` = 6 long for a tree of 4 levels:
shorter, right, and too long by one or two.
In `jit`, `MaxRuns` = 2 runs per driver make a second module with the same function name, and drivers
are created again and again. The benchmarks run with all eight registrations and depths, two
features and data sets instead of 10000 and 10, and two draws instead of five: an index or
a feature is the first or the last one. Threads are two, as in `main`. Runs in which something ends for good say `CHECK_DEADLOCK FALSE`: an aborted
compilation, a vector once computed, a finalized tree, a process that has exited, a comparison once computed.

**Properties.**

* `OnCourse` (interpreter, function): at any time, what is left to walk from here
  ends in the result of the whole call; on the way out, the result variable holds
  it; the default block of a switch is never entered.
* `AnswersRight`: the refinement of `Evaluation`.
* `LevelsMatch`, `Frontier`: the pending nodes sit on the level the counter says,
  and every data set leads to exactly one of them, or to one evaluated.
* `SwitchesTotal`: the case labels of a switch partition the condition vectors.
  The assertion in the code only adds up their number.
* `Executable`: no block without terminator, no branch out of the function, and
  nothing behind a terminator, except in the default block of a switch: it gets
  an `unreachable` and then a branch, which LLVM's verifier rejects.
* `AbortsOnlyOnMisfit`, `MisfitsNeverFinish`: the assertions stop exactly the
  selectors that do not use up the levels of the tree. A switch that is deeper than what is left passes
  the node count check of `DecisionSubtreeRef` (results count as nodes) and is
  stopped by the path count only. `remainingLevels`, an 8-bit counter, never wraps
  in a compilation that returns.
* `VectorRight`, `SignBitClear`: what the emitted code computes.
* `StillAhead`, `AllResults`, `FinalizeEnds`: the loop of `finalize` leaves no
  inner node behind, adds exactly the results, and ends although the map grows.
  The mutant `RehashFront` shows what this rests on: with a rehash that puts
  buckets at the front of the list, as libstdc++'s does, the loop ends too early and results are missing.
* `ModuleAlone`, `ExtensionTellsFormat`, `SelectorFits`: stdout carries either
  messages or the module; the file is named after its format even when `-S`
  follows `-o`; the selector never makes `compile` abort.
* `StepsConnected`, `AnswersAsPaths`: a path's array is one way down the tree while
  it is filled, and answers as the abstract path once it is; this ties the
  `Paths` that all other modules use to the object the code has. `addParent`'s assertion
  never fails: there is room for the parent of every call that has still to return.
* `ComparisonRight`: `operator==` answers right where it answers, and leaves the array
  for equal paths only.
* `SteersToDestination`, `LengthDecides`: a data set that is returned takes evaluation to the node that the
  arguments lead to; only a list that is too long writes outside of the data set.
* `RegistryIntact`: LLVM's list of targets ends and has each target once, whoever sets
  up at the same time; and a thread that compiles finds what it needs registered,
  although set-up and submission are under different locks.
* `ResultsCallable`: a result's function is linked code, of its own tree, in a
  driver that exists. `EmittedUnderLock`: `getFnPtrIn`, which takes no lock, links nothing.
* `SharedDataUntouched`, `CallsInside`: no subscript of the shared maps inserts, and a timed call
  finds a tree of its benchmark's depth, existing data sets, and every feature it reads.
* `BenchmarksEnd`: no deadlock of locks and barriers, no lock that is kept, no misfit of generators and tree.
* `CompileEnds`, `CallsReturn`, `RunsReturn`: every compilation ends or aborts, every call returns.

**Fairness.** `Interpreter`, `TreeCompiler`, `CompiledEvaluator` and `TreeBuilder`
assume weak fairness of the loop in progress: the thread that runs it keeps running. Nothing
is assumed of clients, who may stop calling, and of selectors set or compilations
begun. `Benchmarks` assumes that each thread goes on, and that a barrier opens once all have
reached it: the operating system schedules every runnable thread. A lock is only
assumed to be given to a thread that goes on asking for it while it is free, and to
nobody in particular.

**Findings.**

* `CompileResult::Success` is assigned `verifyFunction(...)`, which
  returns true when the function is broken. The run `success` compiles with
  conditional branches only, every block has one terminator, and `Success` is false.
  Nobody reads it, which is why it was not noticed: the functions with nested
  switches, which LLVM calls broken because of the default block, report
  success, too.
* `-o FILE_NAME` (`static_name`): `ensureOutputFileExt` compares the last three characters
  of the name with the extension. A name of one or two characters has none, the
  unsigned difference wraps, and the exception that `substr` throws ends the program. And
  the extension is what follows the last dot, even if that is in the name of a
  directory: `out.dir/module` becomes `out.bc`. Either refutes `WritesToFileName` in as many steps;
  which of them TLC reports is chance.
* The default selector chooses the AVX generator for three remaining levels, under a
  condition that says `/* && has AVX support */` in a comment only; the selector's
  `AvxSupport`, which the compiler sets from the host's features, is read by nobody (`jit_avx`).

Not a finding, because nothing says otherwise: the program's exit status is
`EXIT_SUCCESS` after "Aborting", when the input cannot be read or the output opened.

## 4. Proofs

What TLC checks on small trees and two threads, TLAPS proves for every value of the
constants: any tree that satisfies `TreeAssumption`, of any number of levels, with any
features, biases and data sets; any selectors; any number of threads; any names of files.

### What is proved

*Trees and subtrees* (`DecisionTree_proofs`). `WalkEquation`: evaluation satisfies
its recursion equation, and `WalkEnds`: it ends in a result below the node it starts at. For
subtrees of up to four levels, which is what `DecisionSubtreeRef` asserts:
`SubtreesComplete` (the pre-order list has every node once), `PathsPartition` and
`OnePathPerVector` (every outcome vector is a case value of exactly one
path), `VectorSteers` (that path ends where the data set's evaluation goes on),
`PathsCompleteWithin` (the builder's assertion on the number of paths holds exactly
when the subtree ends within the tree) and `PathsDivide` (each path, of an incomplete
subtree too, leaves to each side what the way to its end leaves there).

*Interpreter* (`Interpreter_proofs`). `TypeOK /\ OnCourse` is inductive: a turn of
the loop is one unfolding of `WalkEquation`. From it `InterpreterImplementsEvaluation`.

*Compiler and generated function* (`CompiledEvaluator_proofs`). `CompilerInvariant` and what
follows from it: `LevelsMatch`, `AbortsOnlyOnMisfit`, `MisfitsNeverFinish`,
`SwitchesTotal`, `Executable`; `EvaluatorInvariant`, and from it `FunctionTypeOK`, `OnCourse`
and the refinement `CompiledCodeImplementsEvaluation`; and `Frontier`. Together with the
interpreter's refinement this answers the question of the first paragraph: any
function that `compile` returns, and both methods of the interpreter, answer as
`Evaluation` does.

*Emitters, paths, data sets, command line, drivers and benchmarks* each have an
inductive invariant and from it every safety property that their run checks
(`ConditionVectorEmitter_proofs`, `EvaluationPath_proofs`, `DataSetFactory_proofs`,
`StaticDriver_proofs`, `Benchmarks_proofs`; the last has the drivers' proofs, too).

*Building a tree* (the last part of `Benchmarks_proofs`). For trees of up to 63 levels (`PowerOf2` asserts that, `Utils.h:22`) whose inner nodes
are added in any order, `finalize` leaves no node behind (`NoneLeftBehind`) and makes
the tree that `TreeFactory` describes in one expression (`FinalizedTree`). `LoopAdvances`: every turn of
its loop makes a natural number smaller. That is the safety part of `FinalizeEnds`.
`FactoryTrees`: what the factories make, of up to 63 levels and with any biases and
features, meets `TreeAssumption`, so that what is proved of trees that satisfy it holds of theirs.
`DistinctTrees`: the features of the distinct ones are inside the data set, and
each node has its own if, and only if, the tree has no more than 32 levels.

| Property | Theorem | From |
|---|---|---|
| `Interpreter!TypeOK`, `OnCourse`, `AnswersRight` | `TypeCorrect`, `StaysOnCourse`, `InterpreterImplementsEvaluation` | themselves |
| `LevelsMatch`, `AbortsOnlyOnMisfit`, `MisfitsNeverFinish`, `SwitchesTotal`, `Executable` | `LevelsStayMatched`, `AbortsOnMisfits`, `MisfitsAreStopped`, `SwitchesAreTotal`, `CodeIsExecutable` | `CompilerInv` |
| `FunctionTypeOK`, `OnCourse`, `AnswersRight` | `FunctionTypeCorrect`, `FunctionStaysOnCourse`, `CompiledCodeImplementsEvaluation` | `EvaluatorInv` |
| `Frontier` | `FrontierNeverTorn` | `FrontierRight`, `CompilerInv` |
| `ConditionVectorEmitter!TypeOK`, `VectorRight`, `SignBitClear` | `EmitterTypeCorrect`, `VectorComputed`, `IndexNeverNegative` | `EmitterInv` |
| `EvaluationPath!TypeOK`, `StepsConnected`, `AnswersAsPaths`, `ComparisonRight` | `PathsTypeCorrect`, `StepsStayConnected`, `PathsAnswerAlike`, `ComparisonStaysRight` | `PathInv` |
| `DataSetFactory!TypeOK`, `SteersToDestination`, `LengthDecides` | `FactoryTypeCorrect`, `DataSetsSteer`, `LengthAlwaysDecides` | `FactoryInv` |
| `StaticDriver!TypeOK`, `ModuleAlone`, `ExtensionTellsFormat`, `SelectorFits` | `StaticTypeCorrect`, `StdoutCanBePiped`, `FilesTellTheirFormat`, `SelectionCompiles` | `StaticInv` |
| `ResultsCallable`, `RegistryIntact`, `EmittedUnderLock` | `DriversResultsCallable`, `RegistryStaysIntact`, `EmissionLocked` | `JitInv` |
| `BenchmarksTypeOK`, `CallsInside`, `SharedDataUntouched` | `BenchmarksTypeCorrect`, `BenchmarksCallInside`, `SharedDataStaysUntouched` | `BenchInv` |
| `TreeBuilder!TypeOK`, `StillAhead`, `AllResults` | `TypeCorrect`, `NoneLeftBehind`, `FinalizedTree` | `BuilderInv` |

### The inductive invariants

None of these properties but the interpreter's is inductive; what each needs in addition is the
reason why the code is right, and TLC checked each of these invariants in all states of the
run named in section 3 before it was proved.

* `CompilerInv` says what is inside every block (`BlockRight`): a block that evaluates a
  node ends in a branch that goes to the child, in a switch whose labels are the case
  values of the subtree's paths, or in a store of a result; the blocks behind
  it lead to the exit. Blocks without terminators are those of pending nodes and the
  exit (`Open`), and no node is pending below another (`PendingApart`): this
  is why a block is never terminated twice, and why levels are never mixed. That the
  assertions hold for fitting selectors, and fail in time for others, is `CanEmitWithin`,
  from `PathsCompleteWithin`.
* `EvaluatorInv` adds where a call in progress is. One block executed is one
  subtree walked, by `VectorSteers`.
* `FrontierRight` adds that a data set's way from the root meets exactly one pending node or
  stored result. A generator replaces a node by its
  continuation nodes, and `PathsPartition` says that each data set goes to one of them.
* `EmitterInv` says, of both emitters and after each group of instructions, which nodes'
  bits each lane has; the spare lane's content is masked before it counts.
* `PathInv` says of the pending calls that they lead down from the subtree's root without a
  gap; of the array of a path, from its insert index on, that each step's
  destination is the next step's node, and how deep it is; and that the innermost call
  is for the node filled last. Pending calls and filled steps together are the way from the root to
  the destination, which `PathsDivide` compares with `Paths`.
* `FactoryInv` says that the data set answers as asked at every node on the way so far. A later
  argument cannot change an earlier answer because features are distinct.
* `StaticInv` says what is written by when. `SelectorFits` needs no more of the options than
  which generators they can name: the fallback is one level deep.
* `JitInv` says who holds each lock at which step, that the registry is one of three
  lists, how far each set-up has got, and that only the module of the thread that submits is not linked
  yet. `RegistryIntact` fails as soon as two threads are between `CheckTarget` and `LinkTarget`; that
  they are not is the lock's part of the invariant.
* `BenchInv` adds the keys and sizes of what `InitializeSharedData` makes, that
  what a thread holds fits its benchmark (`HeldFits`), and where its driver is when its benchmark
  is at a given step (`DriverInStep`).
* `BuilderInv` says that the map's list has exactly the nodes added, each once, and at least as many
  buckets as there are inner nodes; that each node is what its index makes it; and (`Progress`)
  that each inner node without both of its results *comes after the iterator in the list*.
  `StillAhead` alone is not inductive: with another library's map an insertion moves nodes to the front of the iterator. Here it does
  not, because the map grows only when it has more nodes than buckets, and to at least as many buckets as
  there are indices in the finished tree (`GrowKeepsOrder`): all nodes are then in buckets of their own,
  and relinking them, front to back, changes nothing (`NothingRelinked`). Between rehashes
  a node is inserted between others, and no other moves
  (`InsertionKeepsOrder`). So the order of two nodes never changes, and none gets closer to the front
  (`FurtherBack`), from which `LoopAdvances` follows as well.

### Assumptions

All are named in the modules that declare the constants, and TLC evaluates them in the runs.
`TreeAssumption` is explained in section 2. `SelectorAssumption`,
`SelectorsAssumption`, `NamesAssumption`, `DistinctAssumption` and `DriversAssumption` say what
clients pass: a selector is a function of the remaining levels, a file name is
made of pieces, the tree for a data set has a feature of its own per node and no `NaN` for a bias.
`KeyAssumption` keeps the key of a tree in 32 bits. `NoneAssumption` and
`StoreAssumption` tell "nothing" from values, `NoNodeAssumption` the largest 64-bit number from the indices of a tree (which rules out, as in
the code, trees whose indices do not fit). `PrimesAssumption` is Bertrand's postulate for the
sizes that a map grows to: libc++ asks for the next prime, and a proof has to know that
it is not further than twice the number. It is a theorem of number theory that these provers have no
way to reach; TLC evaluates it for the sizes of the run. The bounds (`MaxRuns`, `MaxOptions`, `MaxEvals`, `Draws`,
`Collected`) are natural numbers of any size; `MaxLevels` is at most 63,
which is as far as `PowerOf2` goes (`BoundsAssumption`).

### Technique

The library's induction theorems take a predicate as parameter, which the provers cannot instantiate.
Where a proof is by induction (on the levels above a node, the length of a list, the number of
steps of a path) it takes the least number of a *set* of counterexamples, which exists by
well-foundedness (`LeastNumber`, `UpwardInduction`, `IntervalInduction`). `Walk` is a recursive
function on nodes; that a function of these equations exists is proved, by taking
for each node the implicit node among those reached from it. `PowerOf2` and the relinking of a
list (`Relinked`) are recursive functions too: tables of every length exist and agree (`PowerEquation`), and
the list's own prefixes are a solution of the recursion, the only one (`NothingRelinked`).
`FactoryTrees` refers to `DecisionTree` through an instance with parameters, whose assumptions are not used. The
recursions over subtree levels (`PreOrder`, `Paths`, `ContinuationNodeCount`) are bounded by
`MaxSubtreeLevels`; their equations are proved by writing down the five values.

### Only model-checked

* Liveness (`RunsReturn`, `CallsReturn`, `CompileEnds`, `FinalizeEnds`, `BenchmarksEnd`),
  which rests on fairness and is beyond the prover.

Every safety property that a run checks is proved. (The trees of the random factory
are among those of `FactoryTrees`: they differ in biases and features only.)

## 5. Plan

Every part of the system in section 1 but the tests has its module, and every safety property that
a run checks is proved. What could be added:

* the command line's and the benchmarks' printing, if a property is ever about it;
* the shift amount of the scalar emitter, the target machine each driver leaves behind, and the unlocked
  random engines, listed as hazards without a property: they need a model of what LLVM or the C++ library does.
* the comparison of paths, a hazard without a property, too, until the code is mended: `ComparisonRight`
  could then forbid what it now allows.

### Not modelled

* LLVM below its interface: instruction selection, optimization, linking. What its
  type check makes of the shift amount in `CGConditionVectorEmitter.cpp:49` depends on how LLVM was built.
* How `Log2` gets to its result, by a multiplication modulo 2^64 and a table: only tests call it, and
  `TreeFactory` has what it computes.
* The cache directory of `DecisionTreeFactory`: created, never used. `isPowerOf2`: never called.
* `makeLinkingResolver` of `SimpleOrcJit`: asked for symbols a module does not define, and the
  generated modules define all they use. `getFnPtr`, the lookup by name alone, has no caller; it is
  the mutant `FindByName`.
* `deduplicateFileName` of `StaticDriver`: only reached for an empty output name, for which nobody asks.
* The target machine that each driver leaves behind (`AutoSetUpTearDownLLVM.cpp:16`), and
  `llvm_shutdown` at the end of the process.
* A tree of no levels, for which `finalize` would read behind the end of an empty map: nobody makes one.
* Formatting of messages, names of benchmarks, measurement.
