---------------------------- MODULE TreeCompiler ----------------------------
(***************************************************************************)
(* DecisionTreeCompiler::compile with the code generators it drives. Level *)
(* by level the compiler asks its selector for a generator, lets it emit   *)
(* the subtrees below every pending node and collects the nodes where      *)
(* evaluation continues, until the tree is used up: either the generator   *)
(* emits tables for the last levels, or the results are connected.         *)
(*                                                                         *)
(* The generated function is a map from basic blocks to what they hold: at *)
(* most one store to the result variable, and the terminators in the order *)
(* they were emitted. LLVM executes the first of them; the verifier wants  *)
(* exactly one. Loads and comparisons appear in the terminator or store    *)
(* that uses them.                                                         *)
(***************************************************************************)
EXTENDS DecisionTree, CodeGenerators

CONSTANTS
  None,          \* a null selector, a missing store, no result yet
  Selectors      \* what users pass to setCodegenSelector: remaining levels
                 \* -> generator (a LambdaSelector)

VARIABLES
  selector,      \* DecisionTreeCompiler::CodegenSelector
  phase,         \* where compile() is
  remaining,     \* remainingLevels, a uint8_t
  codegen,       \* the generator of the current level
  roots,         \* the nodes of the current level still to be processed
  next,          \* nodesNextLevel
  code,          \* the module's evaluator function
  result         \* the CompileResult of the last compile()

compilerVars == <<selector, phase, remaining, codegen, roots, next, code, result>>

Idle == phase = "idle"

ASSUME SelectorAssumption == Selectors \subseteq [1..255 -> Generators]

\* What TLC evaluates once per subtree, it does for these only.
GeneratorsInUse == {s[r] : s \in Selectors \cup {DefaultSelector}, r \in 1..255}
DepthsInUse == {g.depth : g \in GeneratorsInUse} \cap 1..MaxSubtreeLevels

-----------------------------------------------------------------------------
(* The generated function *)

Block(kind, n) == <<kind, n>>
Entry == Block("entry", Root)
Exit == Block("exit", Root)

Br(to) == [op |-> "br", to |-> to]
CondBr(n, right, left) == [op |-> "condbr", node |-> n, right |-> right, left |-> left]
Switch(order, cases, default) ==
  [op |-> "switch", order |-> order, cases |-> cases, default |-> default]
Unreachable == [op |-> "unreachable"]
Ret == [op |-> "ret"]

ConstVal(n) == [op |-> "const", node |-> n]
TableVal(order, data) == [op |-> "table", order |-> order, data |-> data]

\* The blocks control may continue in after a terminator.
Successors(t) ==
  CASE t.op = "br" -> {t.to}
    [] t.op = "condbr" -> {t.right, t.left}
    [] t.op = "switch" -> {t.default} \cup {t.cases[i].target : i \in DOMAIN t.cases}
    [] OTHER -> {}

\* The node that a block evaluates, for the blocks that evaluate one.
EvalKinds == {"entry", "left", "right", "target"}

Subject(b) ==
  CASE b[1] = "left" -> Tree[b[2]].falseChild
    [] b[1] = "right" -> Tree[b[2]].trueChild
    [] OTHER -> b[2]

EmptyBlock == [store |-> None, terms |-> <<>>]

\* A terminator, or a store to the result variable, appended to a block
Ended(block, term) == [block EXCEPT !.terms = Append(@, term)]
Storing(block, val) == [block EXCEPT !.store = val]

\* CGNodeInfo
NodeInfo(n, eval, cont) == [index |-> n, eval |-> eval, cont |-> cont]

-----------------------------------------------------------------------------
(* L1IfThenElse::emitConditionalBranch *)

IfThenElseNodes(node) ==
  LET n == node.index
      merge == Block("merge", n)
  IN  << NodeInfo(Tree[n].falseChild, Block("left", n), merge),
         NodeInfo(Tree[n].trueChild, Block("right", n), merge) >>

IfThenElseCode(c, node) ==
  LET n == node.index
      left == Block("left", n)
      right == Block("right", n)
      merge == Block("merge", n)
  IN  [b \in DOMAIN c \cup {left, right, merge} |->
         CASE b = node.eval -> Ended(c[b], CondBr(n, right, left))
           [] b = merge -> Ended(EmptyBlock, Br(node.cont))
           [] b \in {left, right} -> EmptyBlock
           [] OTHER -> c[b]]

-----------------------------------------------------------------------------
(* LXSubtreeSwitch::emitEvaluation *)

\* Mutant: the target block is passed for the continuation, too.
SwitchNodesLooping(node, k) ==
  LET paths == Paths[k][node.index]
      target(i) == Block("target", paths[i].dest)
  IN  [i \in DOMAIN paths |-> NodeInfo(paths[i].dest, target(i), target(i))]

\* Mutant: the target of the last path gets no continuation node.
SwitchNodesButLast(node, k) ==
  LET paths == Paths[k][node.index]
  IN  [i \in 1..Len(paths) - 1 |->
         NodeInfo(paths[i].dest, Block("target", paths[i].dest),
                  Block("return", node.index))]

\* emitSwitchTargets
SwitchNodes(node, k) ==
  LET paths == Paths[k][node.index]
  IN  [i \in DOMAIN paths |->
         NodeInfo(paths[i].dest, Block("target", paths[i].dest),
                  Block("return", node.index))]

\* Mutant: every case has the labels of the first path.
SwitchCasesOfFront(n, k) ==
  LET paths == Paths[k][n]
  IN  [i \in DOMAIN paths |->
         [labels |-> CaseValues(paths[1], PreOrder[k][n]),
          target |-> Block("target", paths[i].dest)]]

\* emitSwitchCaseLabels, for every path
SwitchCases(n, k) ==
  LET paths == Paths[k][n]
      order == PreOrder[k][n]
  IN  [i \in DOMAIN paths |->
         [labels |-> CaseValues(paths[i], order),
          target |-> Block("target", paths[i].dest)]]

\* The same for every subtree, which TLC then evaluates once.
SubtreeCases[k \in DepthsInUse] == [n \in Nodes |-> SwitchCases(n, k)]

SwitchCode(c, node, k) ==
  LET n == node.index
      default == Block("default", n)
      return == Block("return", n)
      targets == {Block("target", Paths[k][n][i].dest) : i \in DOMAIN Paths[k][n]}
  IN  [b \in DOMAIN c \cup {return, default} \cup targets |->
         CASE b = node.eval ->
                Ended(c[b], Switch(PreOrder[k][n], SubtreeCases[k][n], default))
           [] b = default -> Ended(Ended(EmptyBlock, Unreachable), Br(return))
           [] b = return -> Ended(EmptyBlock, Br(node.cont))
           [] b \in targets -> EmptyBlock
           [] OTHER -> c[b]]

\* assert(emittedCaseLabels == expectedCaseLabels)
AllLabelsEmitted(n, k) ==
  LET cases == SubtreeCases[k][n]
      emitted == UNION {{i} \X cases[i].labels : i \in DOMAIN cases}
  IN  Cardinality(emitted) = 2 ^ NodeCount(k)

-----------------------------------------------------------------------------
(* LXSubtreeSwitch::emitLeafEvaluation *)

\* The paths of a subtree with their case values
SwitchEntries(n, k) ==
  LET paths == Paths[k][n]
      order == PreOrder[k][n]
  IN  [i \in DOMAIN paths |->
         [labels |-> CaseValues(paths[i], order), dest |-> paths[i].dest]]

\* Mutant: only the fixed bits of a path index the table, no variations.
SwitchTableDataTemplates(n, k) ==
  LET paths == Paths[k][n]
      order == PreOrder[k][n]
      hits(v) == {i \in DOMAIN paths : v = FixedBits(paths[i], order)}
  IN  [v \in SUBSET DOMAIN order |->
         IF hits(v) = {} THEN 0 ELSE paths[CHOOSE i \in hits(v) : TRUE].dest]

\* collectSwitchTableData: result indices by condition vector, 0 if unset
SwitchTableData(n, k) ==
  LET entries == SwitchEntries(n, k)
      hits(v) == {i \in DOMAIN entries : v \in entries[i].labels}
  IN  [v \in SUBSET DOMAIN PreOrder[k][n] |->
         IF hits(v) = {} THEN 0 ELSE entries[CHOOSE i \in hits(v) : TRUE].dest]

SubtreeTable[k \in DepthsInUse] ==
  [n \in Nodes |-> TableVal(PreOrder[k][n], SwitchTableData(n, k))]

\* A block without a store is told from one that stores a result.
ASSUME StoreAssumption ==
  None \notin {ConstVal(n) : n \in Nodes} \cup {SubtreeTable[k][n] : k \in DepthsInUse, n \in Nodes}

\* assert(data.at(val) == 0)
NoEntrySetTwice(n, k) ==
  LET entries == SwitchEntries(n, k)
  IN  \A i, j \in DOMAIN entries :
        i < j => entries[i].labels \cap entries[j].labels = {}

\* Mutant: no branch to the continuation block.
LeafCodeOpen(c, node, k) ==
  [c EXCEPT ![node.eval] = Storing(@, SubtreeTable[k][node.index])]

LeafCode(c, node, k) ==
  [c EXCEPT ![node.eval] =
     Ended(Storing(@, SubtreeTable[k][node.index]), Br(node.cont))]

-----------------------------------------------------------------------------
(* The assertions a generator's emit functions run into for a node. *)

CanEmitNested[g \in GeneratorsInUse] == [n \in Nodes |->
  IF g.name = "L1IfThenElse" THEN SubtreeRefValid(n, 2)
  ELSE /\ SubtreeRefValid(n, g.depth) /\ PathsComplete(n, g.depth)
       /\ AllLabelsEmitted(n, g.depth)]

CanEmitLeaf[g \in GeneratorsInUse] == [n \in Nodes |->
  /\ SubtreeRefValid(n, g.depth) /\ PathsComplete(n, g.depth)
  /\ NoEntrySetTwice(n, g.depth)]

-----------------------------------------------------------------------------
(* llvm::verifyFunction returns true if the function is broken. Of what it *)
(* rejects, blocks without exactly one terminator are modelled.            *)

Broken(c) == \E b \in DOMAIN c : Len(c[b].terms) # 1
VerifyFunction(c) == Broken(c)

-----------------------------------------------------------------------------
(* DecisionTreeCompiler *)

Init ==
  /\ selector = None /\ phase = "idle" /\ remaining = 0 /\ codegen = None
  /\ roots = <<>> /\ next = <<>> /\ code = <<>> /\ result = None

SetCodegenSelector == \E s \in Selectors :
  /\ Idle
  /\ selector' = s
  /\ UNCHANGED <<phase, remaining, codegen, roots, next, code, result>>

\* Mutant: the root's level is not counted.
BeginCompileBelowRoot ==
  /\ Idle
  /\ selector' = IF selector = None THEN DefaultSelector ELSE selector
  /\ code' = [b \in {Entry, Exit} |-> EmptyBlock]
  /\ next' = <<NodeInfo(Root, Entry, Exit)>>
  /\ remaining' = Levels - 1
  /\ phase' = "select"
  /\ UNCHANGED <<codegen, roots, result>>

\* compile() up to compileSubtrees' loop
BeginCompile ==
  /\ Idle
  /\ selector' = IF selector = None THEN DefaultSelector ELSE selector
  /\ code' = [b \in {Entry, Exit} |-> EmptyBlock]
  /\ next' = <<NodeInfo(Root, Entry, Exit)>>
  /\ remaining' = Levels
  /\ phase' = "select"
  /\ UNCHANGED <<codegen, roots, result>>

SelectGenerator ==
  /\ phase = "select" /\ remaining > 0
  /\ codegen' = selector[remaining]
  /\ roots' = next /\ next' = <<>>
  /\ phase' = IF remaining = codegen'.depth /\ codegen'.leaf
              THEN "leaf" ELSE "nested"
  /\ UNCHANGED <<selector, remaining, code, result>>

\* One turn of compileNestedSubtrees' loop
EmitEvaluation ==
  /\ phase = "nested" /\ roots # <<>>
  /\ CanEmitNested[codegen][Head(roots).index]
  /\ IF codegen.name = "L1IfThenElse"
     THEN /\ code' = IfThenElseCode(code, Head(roots))
          /\ next' = next \o IfThenElseNodes(Head(roots))
     ELSE /\ code' = SwitchCode(code, Head(roots), codegen.depth)
          /\ next' = next \o SwitchNodes(Head(roots), codegen.depth)
  /\ roots' = Tail(roots)
  /\ UNCHANGED <<selector, phase, remaining, codegen, result>>

\* Mutant: every generator is taken for one of a single level.
NextLevelByOne ==
  /\ phase = "nested" /\ roots = <<>>
  /\ remaining' = (remaining - 1) % 256
  /\ phase' = "select"
  /\ UNCHANGED <<selector, codegen, roots, next, code, result>>

\* Mutant: the inner loop is not left.
NextLevelInner ==
  /\ phase = "nested" /\ roots = <<>>
  /\ remaining' = (remaining - codegen.depth) % 256
  /\ UNCHANGED <<selector, phase, codegen, roots, next, code, result>>

NextLevel ==
  /\ phase = "nested" /\ roots = <<>>
  /\ remaining' = (remaining - codegen.depth) % 256
  /\ phase' = "select"
  /\ UNCHANGED <<selector, codegen, roots, next, code, result>>

\* One turn of compileLeafSubtrees' loop
EmitLeafEvaluation ==
  /\ phase = "leaf" /\ roots # <<>>
  /\ CanEmitLeaf[codegen][Head(roots).index]
  /\ code' = LeafCode(code, Head(roots), codegen.depth)
  /\ roots' = Tail(roots)
  /\ UNCHANGED <<selector, phase, remaining, codegen, next, result>>

\* One turn of connectSubtreeEndpoints' loop
ConnectEndpoint ==
  /\ phase = "select" /\ remaining = 0 /\ next # <<>>
  /\ LET node == Head(next)
     IN  code' = [code EXCEPT ![node.eval] =
                    Ended(Storing(@, ConstVal(node.index)), Br(node.cont))]
  /\ next' = Tail(next)
  /\ UNCHANGED <<selector, phase, remaining, codegen, roots, result>>

\* The return of the result variable, verification and the CompileResult
Finish ==
  /\ \/ phase = "leaf" /\ roots = <<>>
     \/ phase = "select" /\ remaining = 0 /\ next = <<>>
  /\ LET function == [code EXCEPT ![Exit] = Ended(@, Ret)]
     IN  result' = [code |-> function, success |-> VerifyFunction(function)]
  /\ code' = <<>> /\ remaining' = 0
  /\ phase' = "idle"
  /\ UNCHANGED <<selector, codegen, roots, next>>

\* An assertion of the emit functions fails: the process aborts.
Abort ==
  /\ roots # <<>>
  /\ \/ phase = "nested" /\ ~CanEmitNested[codegen][Head(roots).index]
     \/ phase = "leaf" /\ ~CanEmitLeaf[codegen][Head(roots).index]
  /\ phase' = "aborted"
  /\ UNCHANGED <<selector, remaining, codegen, roots, next, code, result>>

Compile ==
  \/ SelectGenerator \/ EmitEvaluation \/ NextLevel \/ EmitLeafEvaluation
  \/ ConnectEndpoint \/ Finish \/ Abort

Next == SetCodegenSelector \/ BeginCompile \/ Compile

Spec == Init /\ [][Next]_compilerVars /\ WF_compilerVars(Compile)

-----------------------------------------------------------------------------
(* Properties *)

Pending == {roots[i] : i \in DOMAIN roots} \cup {next[i] : i \in DOMAIN next}

NodeInfos ==
  LET blocks == {"entry", "exit", "left", "right", "merge", "target", "return"} \X Nodes
  IN  [index : Nodes, eval : blocks, cont : blocks]

TypeOK ==
  /\ selector \in Selectors \cup {DefaultSelector, None}
  /\ phase \in {"idle", "select", "nested", "leaf", "aborted"}
  /\ remaining \in 0..255
  /\ codegen \in Generators \cup {None}
  /\ roots \in Seq(NodeInfos) /\ next \in Seq(NodeInfos)
  /\ \A node \in Pending : {node.eval, node.cont} \subseteq DOMAIN code
  /\ \A b \in DOMAIN code : \A i \in DOMAIN code[b].terms :
       Successors(code[b].terms[i]) \subseteq DOMAIN code
  /\ result # None => result.success \in BOOLEAN

(* The level counter and the pending nodes agree: what is about to be      *)
(* compiled with `remaining` levels left sits that many levels above the   *)
(* results (DecisionTreeCompiler.cpp:118-133). An L1 generator asked one   *)
(* level too late, or a generator that returns continuation nodes of the   *)
(* wrong level, breaks it.                                                 *)
LevelsMatch ==
  /\ \A i \in DOMAIN roots : Depth[roots[i].index] = Levels - remaining
  /\ \A i \in DOMAIN next :
       Depth[next[i].index] =
         Levels - remaining + (IF phase = "nested" THEN codegen.depth ELSE 0)

(* Every data set is still on its way to exactly one of the pending nodes, *)
(* or to one whose evaluation is finished: the generators lose no subtree  *)
(* and queue none twice, whatever mix of them a selector picks.            *)
Visited[ds \in DataSets] ==
  LET trail[n \in Nodes] ==
        {n} \cup IF IsImplicit(n) THEN {} ELSE trail[Child(n, GoesRight(n, ds))]
  IN  trail[Root]

Frontier ==
  phase \in {"select", "nested", "leaf"} =>
    \A ds \in DataSets :
      LET visited == Visited[ds]
          pending == {node \in Pending : node.index \in visited}
          finished == {b \in DOMAIN code : /\ b[1] \in EvalKinds
                                          /\ code[b].store # None
                                          /\ Subject(b) \in visited}
      IN  Cardinality(pending) + Cardinality(finished) = 1

(* No block of the function is left without a terminator, no branch leads  *)
(* out of the function, and every block belongs to one evaluation: nothing *)
(* is emitted behind the terminator of a block that is executed. The block *)
(* of the default label has two (LXSubtreeSwitch.cpp:55-56), and is exempt.*)
Executable ==
  result # None => \A b \in DOMAIN result.code :
    /\ result.code[b].terms # <<>>
    /\ b[1] # "default" => Len(result.code[b].terms) = 1
    /\ Successors(Head(result.code[b].terms)) \subseteq DOMAIN result.code

(* The case labels of a switch are disjoint and leave no condition vector  *)
(* to the default label, which is unreachable code: the sum that           *)
(* LXSubtreeSwitch.cpp:51 asserts does not say that much.                  *)
SwitchesTotal ==
  \A b \in DOMAIN code : code[b].terms # <<>> =>
    LET t == Head(code[b].terms)
    IN  t.op = "switch" => \A v \in SUBSET DOMAIN t.order :
          Cardinality({i \in DOMAIN t.cases : v \in t.cases[i].labels}) = 1

(* A selector fits a tree if its generators, asked from the root down, use *)
(* up the levels exactly, at most four at a time.                          *)
Fits(s) == UsesUp(s, Levels, MaxSubtreeLevels)

(* An assertion of the compiler fails only if the selector does not fit... *)
AbortsOnlyOnMisfit == phase = "aborted" => ~Fits(selector)

(* ...and a selector that does not fit never gets a function compiled: the *)
(* path count that CGEvaluationPathsBuilder.cpp:8 asserts stops it before  *)
(* remainingLevels wraps (DecisionTreeCompiler.cpp:132), although the node *)
(* count of DecisionSubtreeRef.h:53 lets some misfits pass.                *)
MisfitsNeverFinish == [][Finish => Fits(selector)]_compilerVars

(* Every compilation returns or aborts. *)
CompileEnds == phase # "idle" ~> phase \in {"idle", "aborted"}

(* CompileResult::Success: a compilation succeeded if LLVM accepts the     *)
(* function it generated.                                                  *)
SuccessMeansVerified ==
  result # None => (result.success <=> ~Broken(result.code))
=============================================================================
