---------------------- MODULE CompiledEvaluator_proofs ----------------------
(***************************************************************************)
(* The compiler is correct on every perfect tree, with every selector and  *)
(* for every data set.                                                     *)
(***************************************************************************)
EXTENDS CompiledEvaluator, DecisionTree_proofs

(* A generator evaluates at most 255 levels; L1IfThenElse evaluates one.   *)
LEMMA GeneratorDepth ==
  ASSUME NEW g \in Generators
  PROVE  /\ g.depth \in 0..255
         /\ g.name = "L1IfThenElse" => g = L1IfThenElse
BY DEF Generators, L1IfThenElse, LXSubtreeSwitch, L3SubtreeSwitchAVX

(* The default selector picks generators, like those that users pass.      *)
LEMMA SelectorRange ==
  ASSUME NEW s \in Selectors \cup {DefaultSelector}
  PROVE  /\ s \in [1..255 -> Generators]
         /\ \A r \in 1..255 : s[r] \in GeneratorsInUse
<1>1. s \in [1..255 -> Generators]
  <2>1. DefaultSelector \in [1..255 -> Generators]
    <3>1. L1IfThenElse \in Generators /\ L3SubtreeSwitchAVX \in Generators
          /\ LXSubtreeSwitch(2) \in Generators
      BY DEF Generators
    <3> HIDE DEF Generators
    <3> QED BY <3>1 DEF DefaultSelector
  <2> QED BY <2>1, SelectorAssumption
<1>2. ASSUME NEW r \in 1..255 PROVE s[r] \in GeneratorsInUse
  <2> DEFINE S == Selectors \cup {DefaultSelector}
             R == 1..255
  <2>1. s \in S /\ r \in R
    OBVIOUS
  <2> HIDE DEF S, R
  <2>2. s[r] \in {t[q] : t \in S, q \in R}
    BY <2>1
  <2> QED BY <2>2 DEF GeneratorsInUse, S, R
<1> QED BY <1>1, <1>2

-----------------------------------------------------------------------------
(* Whether a selector uses up exactly the levels that remain.              *)
FitsFrom(s) ==
  LET fits[r \in 0..Levels] ==
        r > 0 => /\ s[r].depth \in 1..MaxSubtreeLevels /\ s[r].depth <= r
                 /\ fits[r - s[r].depth]
  IN  fits

(* It does if the generator that it picks does not fail and it uses up the *)
(* levels that remain then.                                                *)
LEMMA FitsEquation ==
  ASSUME NEW s \in [1..255 -> Generators]
  PROVE  /\ FitsFrom(s)[0]
         /\ \A r \in 1..Levels :
              FitsFrom(s)[r] <=> /\ s[r].depth \in 1..MaxSubtreeLevels /\ s[r].depth <= r
                                 /\ FitsFrom(s)[r - s[r].depth]
<1> DEFINE R == 0..Levels
           Ok(r) == s[r].depth \in 1..MaxSubtreeLevels /\ s[r].depth <= r
           Succ(r) == r - s[r].depth
           Full(S) == \A r \in S : r > 0 /\ Ok(r) => Succ(r) \in S
           ends == [r \in R |-> \A S \in SUBSET R : r \in S /\ Full(S) => 0 \in S]
           Unfold(f) == [r \in 0..Levels |->
             r > 0 => /\ s[r].depth \in 1..MaxSubtreeLevels /\ s[r].depth <= r
                      /\ f[r - s[r].depth]]
<1>1. /\ \A r \in R : r > 0 /\ Ok(r) => Succ(r) \in R
      /\ 0 \in R /\ \A r \in R : r > 0 <=> r # 0
  <2>1. Levels \in Nat
    BY TreeAssumption DEF IsPerfect
  <2>2. 0 \in R /\ \A r \in R : r > 0 <=> r # 0
    BY <2>1
  <2>3. ASSUME NEW r \in R, r > 0, Ok(r) PROVE Succ(r) \in R
    BY <2>1, <2>3 DEF MaxSubtreeLevels
  <2> QED BY <2>2, <2>3
<1>2. ends = Unfold(ends)
  <2>1. ASSUME NEW r \in R
        PROVE  ends[r] = (r > 0 => Ok(r) /\ ends[Succ(r)])
    <3> HIDE DEF Ok, Succ, R
    <3>1. CASE r = 0
      BY <3>1, <1>1
    <3>2. CASE r > 0 /\ ~Ok(r)
      <4>1. {r} \in SUBSET R /\ r \in {r} /\ Full({r}) /\ 0 \notin {r}
        BY <3>2, <1>1
      <4> QED BY <4>1, <3>2
    <3>3. CASE r > 0 /\ Ok(r)
      <4>1. Succ(r) \in R
        BY <3>3, <1>1
      <4>2. ASSUME ends[r], NEW S \in SUBSET R, Succ(r) \in S, Full(S) PROVE 0 \in S
        <5>1. S \cup {r} \in SUBSET R /\ r \in S \cup {r} /\ Full(S \cup {r})
          BY <4>2
        <5>2. 0 \in S \cup {r}
          BY <5>1, <4>2
        <5> QED BY <5>2, <3>3, <1>1
      <4>3. ASSUME ends[Succ(r)], NEW S \in SUBSET R, r \in S, Full(S) PROVE 0 \in S
        BY <4>3, <4>1, <3>3
      <4> QED BY <4>1, <4>2, <4>3, <3>3
    <3> QED BY <3>1, <3>2, <3>3, <1>1
  <2> HIDE DEF ends
  <2>2. ends = [r \in R |-> ends[r]]
    BY DEF ends
  <2> QED BY <2>1, <2>2
<1>3. FitsFrom(s) = CHOOSE f : f = Unfold(f)
  BY DEF FitsFrom
<1> HIDE DEF Unfold, ends
<1>4. FitsFrom(s) = Unfold(FitsFrom(s))
  BY <1>2, <1>3
<1>5. 0 \in 0..Levels /\ \A r \in 1..Levels : r \in 0..Levels /\ r > 0
  BY TreeAssumption DEF IsPerfect
<1>6. \A r \in 0..Levels : FitsFrom(s)[r] = Unfold(FitsFrom(s))[r]
  BY <1>4, Zenon
<1>7. Unfold(FitsFrom(s))[0]
  <2>1. ~(0 > 0)
    OBVIOUS
  <2> QED BY <1>5, <2>1, Zenon DEF Unfold
<1> QED BY <1>5, <1>6, <1>7 DEF Unfold

-----------------------------------------------------------------------------
(* The depths of the generators are those of subtrees.                     *)
LEMMA DepthsInUseRange ==
  ASSUME NEW k \in DepthsInUse
  PROVE  k \in 1..MaxSubtreeLevels /\ k \in 0..MaxSubtreeLevels
BY DEF DepthsInUse, MaxSubtreeLevels

(* A switch has one case for every evaluation path of its subtree.         *)
LEMMA CasesOfPaths ==
  ASSUME NEW k \in DepthsInUse, NEW n \in Nodes
  PROVE  LET cases == SubtreeCases[k][n]
         IN  /\ DOMAIN cases = DOMAIN Paths[k][n]
             /\ \A i \in DOMAIN cases :
                  /\ cases[i].labels = CaseValues(Paths[k][n][i], PreOrder[k][n])
                  /\ cases[i].target = Block("target", Paths[k][n][i].dest)
<1> DEFINE paths == Paths[k][n]
           order == PreOrder[k][n]
<1>1. SubtreeCases[k][n] = SwitchCases(n, k)
  BY DEF SubtreeCases
<1>2. SubtreeCases[k][n] = [i \in DOMAIN paths |->
                              [labels |-> CaseValues(paths[i], order),
                               target |-> Block("target", paths[i].dest)]]
  BY <1>1 DEF SwitchCases
<1> HIDE DEF paths, order
<1>3. LET cases == SubtreeCases[k][n]
      IN  /\ DOMAIN cases = DOMAIN paths
          /\ \A i \in DOMAIN cases :
               /\ cases[i].labels = CaseValues(paths[i], order)
               /\ cases[i].target = Block("target", paths[i].dest)
  BY <1>2
<1> QED BY <1>3 DEF paths, order

(* A case value of a subtree is one of its condition vectors.              *)
LEMMA CaseValuesWithin ==
  ASSUME NEW path, NEW order, NEW vector \in CaseValues(path, order)
  PROVE  vector \in SUBSET DOMAIN order
BY DEF CaseValues, Variants, FixedBits, VariableBits

(* The case labels that a switch emits are as many as its condition vectors *)
(* can be: the assertion of LXSubtreeSwitch::emitEvaluation holds.         *)
THEOREM AllLabelsWithin ==
  ASSUME NEW k \in DepthsInUse, NEW n \in Nodes, Depth[n] + k <= Levels
  PROVE  AllLabelsEmitted(n, k)
<1> DEFINE cases == SubtreeCases[k][n]
           paths == Paths[k][n]
           order == PreOrder[k][n]
           vectors == SUBSET DOMAIN order
           emitted == UNION {{i} \X cases[i].labels : i \in DOMAIN cases}
           label(v) == CHOOSE i \in DOMAIN cases : v \in cases[i].labels
           bijection == [v \in vectors |-> <<label(v), v>>]
<1>0. k \in 0..MaxSubtreeLevels
  BY DepthsInUseRange
<1>1. ASSUME NEW v \in vectors
      PROVE  \E i \in DOMAIN cases : \A j \in DOMAIN cases : v \in cases[j].labels <=> j = i
  <2>1. PICK i \in DOMAIN paths : \A j \in DOMAIN paths :
          v \in CaseValues(paths[j], order) <=> j = i
    BY <1>0, OnePathPerVector
  <2> QED BY <2>1, CasesOfPaths
<1>2. \A i \in DOMAIN cases : cases[i].labels \subseteq vectors
  BY CasesOfPaths, CaseValuesWithin
<1> HIDE DEF cases
<1>3. \A v \in vectors : /\ label(v) \in DOMAIN cases /\ v \in cases[label(v)].labels
                         /\ \A j \in DOMAIN cases : v \in cases[j].labels => j = label(v)
  BY <1>1
<1> HIDE DEF vectors, label
<1>4. bijection \in Bijection(vectors, emitted)
  <2>1. ASSUME NEW v \in vectors PROVE bijection[v] \in emitted
    BY <1>3
  <2>2. ASSUME NEW e \in emitted PROVE \E v \in vectors : bijection[v] = e
    <3>1. PICK i \in DOMAIN cases : e \in {i} \X cases[i].labels
      OBVIOUS
    <3>2. PICK v \in cases[i].labels : e = <<i, v>>
      BY <3>1
    <3>3. v \in vectors /\ label(v) = i
      BY <3>2, <1>2, <1>3
    <3> QED BY <3>2, <3>3
  <2>3. \A v, w \in vectors : bijection[v] = bijection[w] => v = w
    OBVIOUS
  <2>4. bijection \in [vectors -> emitted]
    BY <2>1
  <2> HIDE DEF bijection, emitted
  <2> QED BY <2>2, <2>3, <2>4 DEF Bijection, Injection, Surjection, IsInjective
<1>5. IsFiniteSet(vectors) /\ Cardinality(vectors) = 2 ^ NodeCount(k)
  <2>1. ListRight(n, k)
    BY <1>0, SubtreesComplete DEF SubtreeRight
  <2>2. DOMAIN order = 1..NodeCount(k) /\ NodeCount(k) \in Nat
    BY <2>1, <1>0, NodeCounts DEF ListRight
  <2>3. IsFiniteSet(1..NodeCount(k)) /\ Cardinality(1..NodeCount(k)) = NodeCount(k)
    BY <2>2, FS_Interval
  <2>4. IsFiniteSet(DOMAIN order) /\ Cardinality(DOMAIN order) = NodeCount(k)
    BY <2>2, <2>3
  <2> QED BY <2>4, FS_SUBSET DEF vectors
<1>6. Cardinality(emitted) = Cardinality(vectors)
  <2>1. IsFiniteSet(emitted)
    BY <1>4, <1>5, FS_Bijection DEF ExistsBijection
  <2> QED BY <1>4, <1>5, <2>1, FS_Bijection DEF ExistsBijection
<1> QED BY <1>5, <1>6 DEF AllLabelsEmitted, cases

(* No condition vector is a case value of two paths: the assertion of      *)
(* collectSwitchTableData holds.                                           *)
LEMMA NoEntrySetTwiceWithin ==
  ASSUME NEW k \in 0..MaxSubtreeLevels, NEW n \in Nodes, Depth[n] + k <= Levels
  PROVE  NoEntrySetTwice(n, k)
<1> DEFINE paths == Paths[k][n]
           order == PreOrder[k][n]
           entries == SwitchEntries(n, k)
<1>1. /\ DOMAIN entries = DOMAIN paths
      /\ \A i \in DOMAIN entries : entries[i].labels = CaseValues(paths[i], order)
  <2>1. entries = [i \in DOMAIN paths |->
                     [labels |-> CaseValues(paths[i], order), dest |-> paths[i].dest]]
    BY DEF SwitchEntries
  <2> HIDE DEF paths, order, entries
  <2> QED BY <2>1
<1>2. paths \in Seq(EvaluationPaths)
  BY PathsPartition DEF PathsRight
<1> SUFFICES ASSUME NEW i \in DOMAIN entries, NEW j \in DOMAIN entries, i < j,
                    NEW v \in entries[i].labels \cap entries[j].labels
             PROVE  FALSE
  BY DEF NoEntrySetTwice
<1>3. v \in CaseValues(paths[i], order) /\ v \in CaseValues(paths[j], order)
  BY <1>1
<1>4. PICK one \in DOMAIN paths : \A other \in DOMAIN paths :
        v \in CaseValues(paths[other], order) <=> other = one
  <2>1. v \in SUBSET DOMAIN order
    BY <1>3, CaseValuesWithin, Zenon
  <2> QED BY <2>1, OnePathPerVector, Zenon DEF order, paths
<1>5. i = j /\ i \in Int
  BY <1>1, <1>2, <1>3, <1>4
<1> QED BY <1>5

(* What a table holds for the condition vector of a data set is the result *)
(* that the data set leads to.                                             *)
LEMMA TableSteers ==
  ASSUME NEW k \in DepthsInUse, NEW n \in Nodes, Depth[n] + k = Levels, NEW ds
  PROVE  LET table == SubtreeTable[k][n]
             stored == table.data[ConditionVector(ds, table.order)]
         IN  /\ stored \in Nodes /\ IsImplicit(stored)
             /\ stored = Walk(ds)[n]
<1> DEFINE paths == Paths[k][n]
           order == PreOrder[k][n]
           entries == SwitchEntries(n, k)
           hits(v) == {i \in DOMAIN entries : v \in entries[i].labels}
           vector == ConditionVector(ds, order)
           data == SwitchTableData(n, k)
<1>0. k \in 0..MaxSubtreeLevels /\ Depth[n] + k <= Levels
  BY DepthsInUseRange, ImplicitLevel, TreeAssumption DEF IsPerfect, MaxSubtreeLevels
<1>1. /\ DOMAIN entries = DOMAIN paths
      /\ \A i \in DOMAIN entries : /\ entries[i].labels = CaseValues(paths[i], order)
                                   /\ entries[i].dest = paths[i].dest
  <2>1. entries = [i \in DOMAIN paths |->
                     [labels |-> CaseValues(paths[i], order), dest |-> paths[i].dest]]
    BY DEF SwitchEntries
  <2> HIDE DEF paths, order, entries
  <2> QED BY <2>1
<1>2. vector \in SUBSET DOMAIN order
  BY DEF ConditionVector
<1>3. PICK one \in DOMAIN paths : \A other \in DOMAIN paths :
        vector \in CaseValues(paths[other], order) <=> other = one
  BY <1>0, <1>2, OnePathPerVector
<1>4. hits(vector) = {one}
  <2> HIDE DEF entries, paths, order, vector
  <2> QED BY <1>1, <1>3
<1>5. data[vector] = entries[one].dest
  <2>1. data = [v \in SUBSET DOMAIN order |->
                  IF hits(v) = {} THEN 0 ELSE entries[CHOOSE i \in hits(v) : TRUE].dest]
    BY DEF SwitchTableData
  <2>2. data[vector] = IF hits(vector) = {} THEN 0
                       ELSE entries[CHOOSE i \in hits(vector) : TRUE].dest
    BY <1>2, <2>1, Zenon
  <2> HIDE DEF hits, data, vector, entries
  <2> QED BY <1>4, <2>2
<1>6. Walk(ds)[paths[one].dest] = Walk(ds)[n]
  BY <1>0, <1>3, VectorSteers
<1>7. paths[one].dest \in Nodes /\ Depth[paths[one].dest] = Levels
  <2>1. PathsRight(n, k)
    BY <1>0, PathsPartition
  <2>2. paths[one] \in EvaluationPaths
    BY <2>1 DEF PathsRight
  <2>3. PathRight(paths[one], n, k)
    BY <2>1, Zenon DEF PathsRight
  <2>4. Depth[paths[one].dest] = Depth[n] + k
    BY <2>3 DEF PathRight
  <2> HIDE DEF paths
  <2> QED BY <2>2, <2>4 DEF EvaluationPaths
<1>8. IsImplicit(paths[one].dest)
  BY <1>7, ImplicitLevel
<1>9. paths[one].dest = Walk(ds)[n]
  BY <1>6, <1>7, <1>8, WalkStep
<1>10. SubtreeTable[k][n] = TableVal(order, data)
  BY DEF SubtreeTable
<1>11. SubtreeTable[k][n].order = order /\ SubtreeTable[k][n].data = data
  <2> HIDE DEF order, data
  <2> QED BY <1>10 DEF TableVal
<1>12. data[vector] = paths[one].dest
  BY <1>1, <1>3, <1>5
<1> HIDE DEF paths, order, data
<1> QED BY <1>7, <1>8, <1>9, <1>11, <1>12

(* A generator in use is a generator, and its depth one in use.            *)
LEMMA InUse ==
  ASSUME NEW g \in GeneratorsInUse
  PROVE  /\ g \in Generators /\ g.depth \in 0..255
         /\ g.depth \in 1..MaxSubtreeLevels => g.depth \in DepthsInUse
<1>1. g \in Generators
  <2>1. PICK s \in Selectors \cup {DefaultSelector}, r \in 1..255 : g = s[r]
    BY DEF GeneratorsInUse
  <2> QED BY <2>1, SelectorRange
<1>2. g.depth \in {h.depth : h \in GeneratorsInUse}
  OBVIOUS
<1>3. g.depth \in 1..MaxSubtreeLevels => g.depth \in DepthsInUse
  BY <1>2 DEF DepthsInUse
<1> QED BY <1>1, <1>3, GeneratorDepth

(* The constructor of DecisionSubtreeRef accepts the subtrees that end     *)
(* within the tree,                                                        *)
LEMMA SubtreeRefWithin ==
  ASSUME NEW k \in 1..MaxSubtreeLevels, NEW n \in Nodes, Depth[n] + k <= Levels
  PROVE  SubtreeRefValid(n, k)
<1>1. ~IsImplicit(n)
  BY ImplicitLevel, TreeAssumption DEF IsPerfect, MaxSubtreeLevels
<1>2. k \in 0..MaxSubtreeLevels
  BY DEF MaxSubtreeLevels
<1>3. ListRight(n, k)
  BY <1>2, SubtreesComplete DEF SubtreeRight
<1> QED BY <1>1, <1>3 DEF SubtreeRefValid, ListRight

(* and those that L1IfThenElse asks for, two levels below any inner node.  *)
LEMMA IfThenElseRef ==
  ASSUME NEW n \in Nodes, ~IsImplicit(n)
  PROVE  SubtreeRefValid(n, 2)
<1>1. ASSUME NEW m \in Nodes PROVE PreOrder[1][m] = <<m>>
  <2>1. PreOrder[0 + 1] = PreOrderStep(PreOrder[0])
    BY PreOrderEquation DEF MaxSubtreeLevels
  <2>2. PreOrder[0] = NoNodes
    BY PreOrderEquation
  <2>3. HasLeftChild(m) => Tree[m].falseChild \in Nodes
    BY ImplicitLevel, ChildLevel DEF HasLeftChild, Child, IsImplicit
  <2>4. HasRightChild(m) => Tree[m].trueChild \in Nodes
    BY ImplicitLevel, ChildLevel DEF HasRightChild, Child, IsImplicit
  <2>5. PreOrder[0 + 1][m] = <<m>> \o <<>> \o <<>>
    BY <2>1, <2>2, <2>3, <2>4 DEF PreOrderStep, NoNodes
  <2> QED BY <2>5
<1>2. PreOrder[1 + 1][n] =
        <<n>> \o PreOrder[1][Child(n, FALSE)] \o PreOrder[1][Child(n, TRUE)]
  <2>1. 1 \in 0..MaxSubtreeLevels - 1
    BY DEF MaxSubtreeLevels
  <2> QED BY <2>1, PreOrderHalves, Zenon
<1>3. Child(n, FALSE) \in Nodes /\ Child(n, TRUE) \in Nodes
  BY ChildLevel
<1>4. PreOrder[1 + 1][n] = <<n>> \o <<Child(n, FALSE)>> \o <<Child(n, TRUE)>>
  BY <1>1, <1>2, <1>3
<1>5. Len(PreOrder[1 + 1][n]) = 3
  BY <1>3, <1>4
<1>6. NodeCount(1 + 1) = 3
  <2>1. NodeCount(0 + 1) = 1 + NodeCount(0) + NodeCount(0)
    BY NodeCounts DEF MaxSubtreeLevels
  <2>2. NodeCount(1 + 1) = 1 + NodeCount(1) + NodeCount(1)
    BY NodeCounts DEF MaxSubtreeLevels
  <2> QED BY <2>1, <2>2, NodeCounts
<1>7. 1 + 1 = 2
  OBVIOUS
<1>8. Len(PreOrder[2][n]) = NodeCount(2)
  BY <1>5, <1>6, <1>7
<1>9. 2 \in 1..MaxSubtreeLevels
  BY DEF MaxSubtreeLevels
<1> QED BY <1>8, <1>9 DEF SubtreeRefValid

(* The assertions of the emit functions hold for a subtree of the tree that *)
(* has the generator's levels, and fail for any other.                     *)
THEOREM CanEmitWithin ==
  ASSUME NEW g \in GeneratorsInUse, NEW n \in Nodes, ~IsImplicit(n)
  PROVE  /\ CanEmitNested[g][n] <=>
              g.depth \in 1..MaxSubtreeLevels /\ Depth[n] + g.depth <= Levels
         /\ CanEmitLeaf[g][n] <=>
              g.depth \in 1..MaxSubtreeLevels /\ Depth[n] + g.depth <= Levels
<1> DEFINE k == g.depth
           Within == k \in 1..MaxSubtreeLevels /\ Depth[n] + k <= Levels
<1>1. k \in 1..MaxSubtreeLevels => k \in 0..MaxSubtreeLevels /\ k \in DepthsInUse
  BY InUse DEF MaxSubtreeLevels
<1>2. Within => /\ SubtreeRefValid(n, k) /\ PathsComplete(n, k)
                /\ AllLabelsEmitted(n, k) /\ NoEntrySetTwice(n, k)
  BY <1>1, SubtreeRefWithin, PathsCompleteWithin, AllLabelsWithin, NoEntrySetTwiceWithin
<1>3. SubtreeRefValid(n, k) /\ PathsComplete(n, k) => Within
  BY <1>1, PathsCompleteWithin DEF SubtreeRefValid
<1>4. CASE g.name # "L1IfThenElse"
  BY <1>2, <1>3, <1>4 DEF CanEmitNested, CanEmitLeaf
<1>5. CASE g.name = "L1IfThenElse"
  <2>1. k = 1
    BY <1>5, InUse, GeneratorDepth DEF L1IfThenElse
  <2>2. Within
    BY <2>1, ImplicitLevel, TreeAssumption DEF IsPerfect, MaxSubtreeLevels
  <2> QED BY <1>2, <1>5, <2>2, IfThenElseRef DEF CanEmitNested, CanEmitLeaf
<1> QED BY <1>4, <1>5

-----------------------------------------------------------------------------
(* The blocks of a function, and those on the way out of it: they follow   *)
(* the evaluation of a subtree.                                            *)
WayOut == {"exit", "merge", "return"}
Blocks == (EvalKinds \cup WayOut \cup {"default"}) \X Nodes

LeadsOut(c, to) == to \in DOMAIN c /\ to[1] \in WayOut

\* A value stored for a node is what data sets that reach the node lead to.
Yields(n, val) ==
  \/ IsImplicit(n) /\ val = ConstVal(n)
  \/ \E k \in DepthsInUse : Depth[n] + k = Levels /\ val = SubtreeTable[k][n]

(* What the code generators make of a block that evaluates a node: a       *)
(* branch to its children, a switch over the paths of its subtree or a     *)
(* store of its result; and of the blocks behind such blocks.              *)
BranchRight(c, b) ==
  LET n == Subject(b)
      left == Block("left", n)
      right == Block("right", n)
  IN  /\ b[1] \in EvalKinds /\ n \in Nodes /\ ~IsImplicit(n)
      /\ left \in DOMAIN c /\ right \in DOMAIN c
      /\ c[b] = Ended(EmptyBlock, CondBr(n, right, left))

SubtreeSwitch(n, k) == Switch(PreOrder[k][n], SubtreeCases[k][n], Block("default", n))

SwitchOver(c, b, n, k) ==
  /\ Depth[n] + k <= Levels
  /\ \A i \in DOMAIN Paths[k][n] : Block("target", Paths[k][n][i].dest) \in DOMAIN c
  /\ Block("default", n) \in DOMAIN c
  /\ c[b] = Ended(EmptyBlock, SubtreeSwitch(n, k))

SwitchRight(c, b) ==
  /\ b[1] \in EvalKinds /\ Subject(b) \in Nodes
  /\ \E k \in DepthsInUse : SwitchOver(c, b, Subject(b), k)

StoreRight(c, b) ==
  /\ b[1] \in EvalKinds /\ Subject(b) \in Nodes
  /\ \E val, to : /\ Yields(Subject(b), val) /\ LeadsOut(c, to)
                  /\ c[b] = Ended(Storing(EmptyBlock, val), Br(to))

LeaveRight(c, b) ==
  \/ b[1] \in {"merge", "return"} /\ \E to : LeadsOut(c, to) /\ c[b] = Ended(EmptyBlock, Br(to))
  \/ b[1] = "exit" /\ c[b] = Ended(EmptyBlock, Ret)

DefaultRight(c, b) ==
  /\ b[1] = "default"
  /\ \E to : LeadsOut(c, to) /\ c[b] = Ended(Ended(EmptyBlock, Unreachable), Br(to))

BlockRight(c, b) ==
  \/ BranchRight(c, b) \/ SwitchRight(c, b) \/ StoreRight(c, b)
  \/ LeaveRight(c, b) \/ DefaultRight(c, b)

-----------------------------------------------------------------------------
(* The inductive invariant of the compiler, part by part.                  *)

(* Where compile() is decides what is pending; and what the selector picks *)
(* fits if the levels that are left fit.                                   *)
DepthFits == codegen.depth \in 1..MaxSubtreeLevels /\ codegen.depth <= remaining

Progress ==
  /\ selector \in Selectors \cup {DefaultSelector, None}
  /\ phase \in {"idle", "select", "nested", "leaf", "aborted"}
  /\ remaining \in 0..Levels
  /\ codegen \in Generators \cup {None}
  /\ phase # "idle" => selector \in Selectors \cup {DefaultSelector}
  /\ phase = "idle" => roots = <<>> /\ next = <<>> /\ code = <<>>
  /\ phase = "select" => roots = <<>> /\ (remaining > 0 => next # <<>>)
  /\ phase \in {"nested", "leaf"} => remaining > 0 /\ codegen = selector[remaining]
  /\ phase = "nested" => \/ roots # <<>> /\ next = <<>>
                         \/ DepthFits /\ (roots = <<>> => next # <<>>)
  /\ phase = "leaf" => /\ next = <<>> /\ remaining = codegen.depth
                       /\ roots = <<>> => DepthFits
  /\ phase \in {"select", "nested", "leaf"} => (Fits(selector) <=> FitsFrom(selector)[remaining])
  /\ phase = "aborted" => next = <<>> /\ ~Fits(selector)

(* A pending node's block is still empty, and it evaluates that node.      *)
NodeRight(c, x) ==
  /\ x.eval \in DOMAIN c /\ x.eval[1] \in EvalKinds
  /\ LeadsOut(c, x.cont)
  /\ Subject(x.eval) = x.index
  /\ c[x.eval] = EmptyBlock

PendingRight ==
  /\ roots \in Seq(NodeInfos) /\ next \in Seq(NodeInfos)
  /\ \A i \in DOMAIN roots : NodeRight(code, roots[i])
  /\ \A i \in DOMAIN next : NodeRight(code, next[i])

(* No node is pending twice, or together with a node below it.             *)
PendingApart ==
  /\ \A i, j \in DOMAIN roots : roots[i].index = roots[j].index => i = j
  /\ \A i, j \in DOMAIN next : next[i].index = next[j].index => i = j
  /\ \A i \in DOMAIN roots : \A j \in DOMAIN next : next[j].index \notin Below(roots[i].index)

(* Every block is complete, but for those of pending nodes and the exit.   *)
Open(b) ==
  \/ b = Exit
  \/ \E i \in DOMAIN roots : roots[i].eval = b
  \/ \E i \in DOMAIN next : next[i].eval = b

CodeRight ==
  /\ phase # "idle" => Entry \in DOMAIN code /\ Exit \in DOMAIN code /\ code[Exit] = EmptyBlock
  /\ \A b \in DOMAIN code : b \in Blocks /\ (BlockRight(code, b) \/ (Open(b) /\ code[b] = EmptyBlock))

ResultRight ==
  result # None =>
    /\ result.success \in BOOLEAN
    /\ Entry \in DOMAIN result.code
    /\ \A b \in DOMAIN result.code : b \in Blocks /\ BlockRight(result.code, b)

CompilerInv ==
  /\ Progress /\ LevelsMatch /\ PendingRight /\ PendingApart /\ CodeRight /\ ResultRight

-----------------------------------------------------------------------------
(* A block is its kind and a node; the kinds are what they are called.     *)
LEMMA BlockFacts ==
  ASSUME NEW kind, NEW n
  PROVE  /\ Block(kind, n)[1] = kind /\ Block(kind, n)[2] = n
         /\ kind = "left" => Subject(Block(kind, n)) = Tree[n].falseChild
         /\ kind = "right" => Subject(Block(kind, n)) = Tree[n].trueChild
         /\ kind \notin {"left", "right"} => Subject(Block(kind, n)) = n
BY DEF Block, Subject

(* A block stays right in a function that keeps it and all others.         *)
LEMMA BlockStaysRight ==
  ASSUME NEW c, NEW d, NEW b, DOMAIN c \subseteq DOMAIN d, d[b] = c[b], BlockRight(c, b)
  PROVE  BlockRight(d, b)
<1>1. \A to : LeadsOut(c, to) => LeadsOut(d, to)
  BY DEF LeadsOut
<1>2. CASE BranchRight(c, b)
  <2>1. BranchRight(d, b)
    BY <1>2, Zenon DEF BranchRight
  <2> QED BY <2>1 DEF BlockRight
<1>3. CASE SwitchRight(c, b)
  <2>1. SwitchRight(d, b)
    BY <1>3, Zenon DEF SwitchRight, SwitchOver
  <2> QED BY <2>1 DEF BlockRight
<1>4. CASE StoreRight(c, b)
  <2>1. StoreRight(d, b)
    BY <1>1, <1>4, Zenon DEF StoreRight
  <2> QED BY <2>1 DEF BlockRight
<1>5. CASE LeaveRight(c, b)
  <2>1. LeaveRight(d, b)
    BY <1>1, <1>5, Zenon DEF LeaveRight
  <2> QED BY <2>1 DEF BlockRight
<1>6. CASE DefaultRight(c, b)
  <2>1. DefaultRight(d, b)
    BY <1>1, <1>6, Zenon DEF DefaultRight
  <2> QED BY <2>1 DEF BlockRight
<1> QED BY <1>2, <1>3, <1>4, <1>5, <1>6 DEF BlockRight

(* A block that ends once: its terminator, and its store.                  *)
LEMMA EndedFacts ==
  ASSUME NEW t
  PROVE  Ended(EmptyBlock, t).terms = <<t>> /\ Ended(EmptyBlock, t).store = None
<1>1. /\ EmptyBlock.store = None /\ EmptyBlock.terms = <<>>
      /\ DOMAIN EmptyBlock = {"store", "terms"}
  BY DEF EmptyBlock
<1>2. Append(<<>>, t) = <<t>>
  OBVIOUS
<1> QED BY <1>1, <1>2 DEF Ended

(* The same of a block that stores something.                              *)
LEMMA StoredFacts ==
  ASSUME NEW t, NEW val
  PROVE  LET b == Ended(Storing(EmptyBlock, val), t)
         IN  b.terms = <<t>> /\ b.store = val
<1>1. EmptyBlock.terms = <<>> /\ DOMAIN EmptyBlock = {"store", "terms"}
  BY DEF EmptyBlock
<1>2. /\ Storing(EmptyBlock, val).terms = <<>> /\ Storing(EmptyBlock, val).store = val
      /\ DOMAIN Storing(EmptyBlock, val) = {"store", "terms"}
  BY <1>1 DEF Storing
<1>3. Append(<<>>, t) = <<t>>
  OBVIOUS
<1> QED BY <1>2, <1>3 DEF Ended

(* A block that ends twice: its terminators.                               *)
LEMMA EndedTwiceFacts ==
  ASSUME NEW t, NEW u
  PROVE  LET terms == Ended(Ended(EmptyBlock, t), u).terms
         IN  /\ terms # <<>> /\ 1 \in DOMAIN terms /\ Head(terms) = terms[1]
             /\ terms[1] = t /\ terms[2] = u
             /\ \A i \in DOMAIN terms : i = 1 \/ i = 2
             /\ Ended(Ended(EmptyBlock, t), u).store = None
<1>1. /\ Ended(EmptyBlock, t).terms = <<t>> /\ Ended(EmptyBlock, t).store = None
      /\ DOMAIN Ended(EmptyBlock, t) = {"store", "terms"}
  BY EndedFacts DEF Ended, EmptyBlock
<1>2. /\ Ended(Ended(EmptyBlock, t), u).terms = Append(<<t>>, u)
      /\ Ended(Ended(EmptyBlock, t), u).store = None
  BY <1>1 DEF Ended
<1>3. LET terms == Append(<<t>>, u)
      IN  /\ terms # <<>> /\ 1 \in DOMAIN terms /\ Head(terms) = terms[1]
          /\ terms[1] = t /\ terms[2] = u
          /\ \A i \in DOMAIN terms : i = 1 \/ i = 2
  OBVIOUS
<1> QED BY <1>2, <1>3

(* What a generator is to do with a pending node x, evaluating k levels    *)
(* below it: function c becomes d, and the nodes of new become pending.    *)
EmitRight(c, d, x, k, new) ==
  /\ new \in Seq(NodeInfos) /\ new # <<>>
  /\ \A i, j \in DOMAIN new : new[i].index = new[j].index => i = j
  /\ \A i \in DOMAIN new :
       /\ new[i].index \in Below(x.index) /\ Depth[new[i].index] = Depth[x.index] + k
       /\ NodeRight(d, new[i])
  /\ DOMAIN c \subseteq DOMAIN d
  /\ \A b \in DOMAIN c :
       b # x.eval /\ c[b] = EmptyBlock /\ b[1] \in EvalKinds \cup {"exit"} => d[b] = EmptyBlock
  /\ \A b \in DOMAIN d :
       /\ b \in Blocks
       /\ \/ BlockRight(d, b)
          \/ d[b] = EmptyBlock /\ \E i \in DOMAIN new : new[i].eval = b
          \/ b \in DOMAIN c /\ b # x.eval /\ d[b] = c[b]

(* L1IfThenElse does it, for one level.                                    *)
LEMMA IfThenElseEmits ==
  ASSUME NEW c, \A b \in DOMAIN c : b \in Blocks,
         NEW x \in NodeInfos, NodeRight(c, x), ~IsImplicit(x.index)
  PROVE  EmitRight(c, IfThenElseCode(c, x), x, 1, IfThenElseNodes(x))
<1> DEFINE n == x.index
           left == Block("left", n)
           right == Block("right", n)
           merge == Block("merge", n)
           d == IfThenElseCode(c, x)
           onLeft == NodeInfo(Tree[n].falseChild, left, merge)
           onRight == NodeInfo(Tree[n].trueChild, right, merge)
           new == IfThenElseNodes(x)
<1>1. /\ n \in Nodes
      /\ Tree[n].falseChild \in Nodes /\ Tree[n].trueChild \in Nodes
      /\ Tree[n].falseChild # Tree[n].trueChild
      /\ Depth[Tree[n].falseChild] = Depth[n] + 1 /\ Depth[Tree[n].trueChild] = Depth[n] + 1
      /\ Tree[n].falseChild \in Below(n) /\ Tree[n].trueChild \in Below(n)
      /\ Tree[n].falseChild # n /\ Tree[n].trueChild # n
  <2>1. n \in Nodes
    BY DEF NodeInfos
  <2>2. \A r \in BOOLEAN : /\ Child(n, r) \in Nodes /\ Depth[Child(n, r)] = Depth[n] + 1
                           /\ Child(n, r) \in Below(n)
    BY <2>1, ChildLevel, BelowClosed DEF Closed
  <2>3. Child(n, FALSE) # Child(n, TRUE)
    BY <2>1, OneParent
  <2>4. Child(n, FALSE) = Tree[n].falseChild /\ Child(n, TRUE) = Tree[n].trueChild
    BY DEF Child
  <2>5. /\ Tree[n].falseChild \in Nodes /\ Depth[Tree[n].falseChild] = Depth[n] + 1
        /\ Tree[n].falseChild \in Below(n)
    BY <2>2, <2>4
  <2>6. /\ Tree[n].trueChild \in Nodes /\ Depth[Tree[n].trueChild] = Depth[n] + 1
        /\ Tree[n].trueChild \in Below(n)
    BY <2>2, <2>4
  <2>7. Depth[n] \in Nat
    BY <2>1, ImplicitLevel
  <2>8. Tree[n].falseChild # n /\ Tree[n].trueChild # n
    BY <2>5, <2>6, <2>7
  <2> QED BY <2>1, <2>3, <2>4, <2>5, <2>6, <2>8
<1>2. /\ x.eval \in DOMAIN c /\ x.eval[1] \in EvalKinds /\ c[x.eval] = EmptyBlock
      /\ Subject(x.eval) = n /\ x.cont \in DOMAIN c /\ x.cont[1] \in WayOut
  BY DEF NodeRight, LeadsOut
<1>3. /\ left # right /\ left # merge /\ right # merge
      /\ x.eval # left /\ x.eval # right /\ x.eval # merge
      /\ left \in Blocks /\ right \in Blocks /\ merge \in Blocks
      /\ left[1] = "left" /\ right[1] = "right" /\ merge[1] = "merge"
      /\ Subject(left) = Tree[n].falseChild /\ Subject(right) = Tree[n].trueChild
  <2>1. /\ left[1] = "left" /\ right[1] = "right" /\ merge[1] = "merge"
        /\ Subject(left) = Tree[n].falseChild /\ Subject(right) = Tree[n].trueChild
    BY BlockFacts
  <2>2. left \in Blocks /\ right \in Blocks /\ merge \in Blocks
    BY <1>1 DEF Block, Blocks, EvalKinds, WayOut
  <2> HIDE DEF left, right, merge
  <2> QED BY <1>1, <1>2, <2>1, <2>2 DEF EvalKinds
<1>4. /\ DOMAIN d = DOMAIN c \cup {left, right, merge}
      /\ d[x.eval] = Ended(EmptyBlock, CondBr(n, right, left))
      /\ d[merge] = Ended(EmptyBlock, Br(x.cont))
      /\ d[left] = EmptyBlock /\ d[right] = EmptyBlock
      /\ \A b \in DOMAIN c : b \notin {x.eval, merge, left, right} => d[b] = c[b]
  <2>1. d = [b \in DOMAIN c \cup {left, right, merge} |->
               CASE b = x.eval -> Ended(c[b], CondBr(n, right, left))
                 [] b = merge -> Ended(EmptyBlock, Br(x.cont))
                 [] b \in {left, right} -> EmptyBlock
                 [] OTHER -> c[b]]
    BY DEF IfThenElseCode
  <2> HIDE DEF d, left, right, merge
  <2> QED BY <1>2, <1>3, <2>1
<1>5. new = <<onLeft, onRight>> /\ onLeft \in NodeInfos /\ onRight \in NodeInfos
  BY <1>1 DEF IfThenElseNodes, NodeInfo, NodeInfos, Block
<1>6. /\ onLeft.index = Tree[n].falseChild /\ onRight.index = Tree[n].trueChild
      /\ onLeft.eval = left /\ onRight.eval = right
      /\ onLeft.cont = merge /\ onRight.cont = merge
  BY DEF NodeInfo
<1> HIDE DEF onLeft, onRight, left, right, merge, new, d
<1>7. /\ new \in Seq(NodeInfos) /\ new # <<>> /\ DOMAIN new = {1, 2}
      /\ new[1] = onLeft /\ new[2] = onRight
  BY <1>5
<1>8. NodeRight(d, onLeft) /\ NodeRight(d, onRight)
  BY <1>3, <1>4, <1>6 DEF NodeRight, LeadsOut, EvalKinds, WayOut
<1>9. BlockRight(d, x.eval)
  <2>1. BranchRight(d, x.eval)
    BY <1>1, <1>2, <1>3, <1>4, Zenon DEF BranchRight, left, right
  <2> QED BY <2>1 DEF BlockRight
<1>10. BlockRight(d, merge)
  <2>1. LeadsOut(d, x.cont)
    BY <1>2, <1>4 DEF LeadsOut
  <2>2. LeaveRight(d, merge)
    BY <1>3, <1>4, <2>1 DEF LeaveRight
  <2> QED BY <2>2 DEF BlockRight
<1>11. ASSUME NEW b \in DOMAIN d
       PROVE  /\ b \in Blocks
              /\ \/ BlockRight(d, b)
                 \/ d[b] = EmptyBlock /\ \E i \in DOMAIN new : new[i].eval = b
                 \/ b \in DOMAIN c /\ b # x.eval /\ d[b] = c[b]
  BY <1>3, <1>4, <1>6, <1>7, <1>9, <1>10
<1>12. ASSUME NEW b \in DOMAIN c, b # x.eval, c[b] = EmptyBlock, b[1] \in EvalKinds \cup {"exit"}
       PROVE  d[b] = EmptyBlock
  BY <1>3, <1>4, <1>12 DEF EvalKinds
<1>13. \A i \in DOMAIN new :
         /\ new[i].index \in Below(n) /\ Depth[new[i].index] = Depth[n] + 1
         /\ NodeRight(d, new[i])
  BY <1>1, <1>6, <1>7, <1>8
<1>14. \A i, j \in DOMAIN new : new[i].index = new[j].index => i = j
  BY <1>1, <1>6, <1>7
<1>15. DOMAIN c \subseteq DOMAIN d
  BY <1>4
<1> QED BY <1>7, <1>11, <1>12, <1>13, <1>14, <1>15, Zenon DEF EmitRight, d, new

(* LXSubtreeSwitch does it, for as many levels as it has.                  *)
LEMMA SwitchEmits ==
  ASSUME NEW c, \A b \in DOMAIN c : b \in Blocks,
         NEW x \in NodeInfos, NodeRight(c, x),
         NEW k \in DepthsInUse, Depth[x.index] + k <= Levels
  PROVE  EmitRight(c, SwitchCode(c, x, k), x, k, SwitchNodes(x, k))
<1> DEFINE n == x.index
           paths == Paths[k][n]
           default == Block("default", n)
           return == Block("return", n)
           target(i) == Block("target", paths[i].dest)
           targets == {target(i) : i \in DOMAIN paths}
           d == SwitchCode(c, x, k)
           switch == Switch(PreOrder[k][n], SubtreeCases[k][n], default)
           new == SwitchNodes(x, k)
<1>0. n \in Nodes /\ k \in 1..MaxSubtreeLevels /\ k \in 0..MaxSubtreeLevels /\ k \in Nat \ {0}
  BY DepthsInUseRange DEF NodeInfos, MaxSubtreeLevels
<1>1. /\ paths \in Seq(EvaluationPaths) /\ Len(paths) # 0
      /\ \A i \in DOMAIN paths : /\ paths[i].dest \in Nodes /\ paths[i].dest \in Below(n)
                                 /\ Depth[paths[i].dest] = Depth[n] + k
                                 /\ paths[i].dest # n
      /\ \A i, j \in DOMAIN paths : paths[i].dest = paths[j].dest => i = j
  <2>1. PathsRight(n, k)
    BY <1>0, PathsPartition
  <2>2. /\ paths \in Seq(EvaluationPaths) /\ Len(paths) = ContinuationNodeCount[k]
        /\ \A i, j \in DOMAIN paths : paths[i].dest = paths[j].dest => i = j
    BY <2>1 DEF PathsRight
  <2>3. ContinuationNodeCount[k] \in Nat \ {0}
    BY <1>0, ContinuationNodeCountValues, Zenon
  <2>4. ASSUME NEW i \in DOMAIN paths
        PROVE  paths[i].dest \in Below(n) /\ Depth[paths[i].dest] = Depth[n] + k
    <3>1. PathRight(paths[i], n, k)
      BY <2>1, Zenon DEF PathsRight
    <3> QED BY <3>1, Zenon DEF PathRight
  <2>5. Below(n) \subseteq Nodes /\ Depth[n] \in Nat
    BY <1>0, BelowClosed, ImplicitLevel
  <2> HIDE DEF paths, n
  <2> QED BY <1>0, <2>2, <2>3, <2>4, <2>5
<1>2. /\ x.eval \in DOMAIN c /\ x.eval[1] \in EvalKinds /\ c[x.eval] = EmptyBlock
      /\ Subject(x.eval) = n /\ x.cont \in DOMAIN c /\ x.cont[1] \in WayOut
  BY DEF NodeRight, LeadsOut
<1>3. /\ default[1] = "default" /\ return[1] = "return"
      /\ default \in Blocks /\ return \in Blocks
      /\ \A i \in DOMAIN paths : /\ target(i)[1] = "target" /\ target(i) \in Blocks
                                 /\ Subject(target(i)) = paths[i].dest
  <2>1. /\ default[1] = "default" /\ return[1] = "return"
        /\ default \in Blocks /\ return \in Blocks
    BY <1>0 DEF Block, Blocks, EvalKinds, WayOut
  <2>2. ASSUME NEW m \in Nodes
        PROVE  LET t == Block("target", m)
               IN  t[1] = "target" /\ t \in Blocks /\ Subject(t) = m
    <3>1. Block("target", m) \in Blocks
      BY DEF Block, Blocks, EvalKinds, WayOut
    <3> QED BY <3>1, BlockFacts
  <2> QED BY <1>1, <2>1, <2>2
<1>4. /\ DOMAIN d = DOMAIN c \cup {return, default} \cup targets
      /\ d[x.eval] = Ended(EmptyBlock, switch)
      /\ d[default] = Ended(Ended(EmptyBlock, Unreachable), Br(return))
      /\ d[return] = Ended(EmptyBlock, Br(x.cont))
      /\ \A b \in targets : d[b] = EmptyBlock
      /\ \A b \in DOMAIN c : b \notin {x.eval, default, return} \cup targets => d[b] = c[b]
  <2>1. d = [b \in DOMAIN c \cup {return, default} \cup targets |->
               CASE b = x.eval -> Ended(c[b], switch)
                 [] b = default -> Ended(Ended(EmptyBlock, Unreachable), Br(return))
                 [] b = return -> Ended(EmptyBlock, Br(x.cont))
                 [] b \in targets -> EmptyBlock
                 [] OTHER -> c[b]]
    BY DEF SwitchCode
  <2>2. x.eval # default /\ x.eval # return /\ default # return
    BY <1>2, <1>3 DEF EvalKinds
  <2>3. \A b \in targets : b # x.eval /\ b # default /\ b # return
    BY <1>1, <1>2, <1>3
  <2> HIDE DEF d, default, return, targets, switch
  <2> QED BY <1>2, <2>1, <2>2, <2>3
<1>5. new = [i \in DOMAIN paths |-> NodeInfo(paths[i].dest, target(i), return)]
  BY DEF SwitchNodes
<1>6. ASSUME NEW m \in Nodes
      PROVE  NodeInfo(m, Block("target", m), return) \in NodeInfos
  BY <1>0 DEF NodeInfo, NodeInfos, Block
<1> HIDE DEF n, paths, default, return, d, new
<1>7. /\ DOMAIN new = DOMAIN paths
      /\ \A i \in DOMAIN new : /\ new[i] \in NodeInfos
                               /\ new[i].index = paths[i].dest
                               /\ new[i].eval = target(i) /\ new[i].cont = return
  <2>1. ASSUME NEW i \in DOMAIN paths PROVE NodeInfo(paths[i].dest, target(i), return) \in NodeInfos
    BY <1>1, <1>6
  <2> HIDE DEF target
  <2> QED BY <1>5, <2>1 DEF NodeInfo
<1>8. new \in Seq(NodeInfos) /\ new # <<>>
  <2>1. DOMAIN new = 1..Len(paths) /\ Len(paths) \in Nat \ {0}
    BY <1>1, <1>7
  <2>2. new \in [1..Len(paths) -> NodeInfos]
    BY <1>5, <1>7, <2>1
  <2>3. new \in Seq(NodeInfos)
    BY <2>1, <2>2, SeqDef
  <2> QED BY <2>1, <2>3
<1>9. ASSUME NEW i \in DOMAIN new PROVE NodeRight(d, new[i])
  <2>1. target(i) \in targets /\ target(i) \in DOMAIN d /\ d[target(i)] = EmptyBlock
    BY <1>4, <1>7
  <2>2. LeadsOut(d, return)
    BY <1>3, <1>4 DEF LeadsOut, WayOut
  <2>3. target(i)[1] \in EvalKinds /\ Subject(target(i)) = paths[i].dest
    BY <1>3, <1>7 DEF EvalKinds
  <2>4. new[i].index = paths[i].dest /\ new[i].eval = target(i) /\ new[i].cont = return
    BY <1>7
  <2> HIDE DEF target
  <2> QED BY <2>1, <2>2, <2>3, <2>4, Zenon DEF NodeRight
<1>10. BlockRight(d, x.eval)
  <2>1. \A i \in DOMAIN paths : target(i) \in DOMAIN d
    BY <1>4
  <2>2. default \in DOMAIN d
    BY <1>4
  <2>3. SwitchRight(d, x.eval)
    BY <1>0, <1>2, <1>4, <2>1, <2>2, Zenon
      DEF SwitchRight, SwitchOver, SubtreeSwitch, n, paths, default
  <2> QED BY <2>3 DEF BlockRight
<1>11. BlockRight(d, default)
  <2>1. LeadsOut(d, return)
    BY <1>3, <1>4 DEF LeadsOut, WayOut
  <2>2. DefaultRight(d, default)
    BY <1>3, <1>4, <2>1 DEF DefaultRight
  <2> QED BY <2>2 DEF BlockRight
<1>12. BlockRight(d, return)
  <2>1. LeadsOut(d, x.cont)
    BY <1>2, <1>4 DEF LeadsOut
  <2>2. LeaveRight(d, return)
    BY <1>3, <1>4, <2>1 DEF LeaveRight
  <2> QED BY <2>2 DEF BlockRight
<1>13. ASSUME NEW b \in DOMAIN d
       PROVE  /\ b \in Blocks
              /\ \/ BlockRight(d, b)
                 \/ d[b] = EmptyBlock /\ \E i \in DOMAIN new : new[i].eval = b
                 \/ b \in DOMAIN c /\ b # x.eval /\ d[b] = c[b]
  <2>1. CASE b \in targets
    <3>1. PICK i \in DOMAIN paths : b = target(i)
      BY <2>1
    <3> QED BY <2>1, <3>1, <1>3, <1>4, <1>7
  <2>2. CASE b \notin targets
    <3> HIDE DEF targets
    <3> QED BY <2>2, <1>3, <1>4, <1>10, <1>11, <1>12
  <2> QED BY <2>1, <2>2
<1>14. ASSUME NEW b \in DOMAIN c, b # x.eval, c[b] = EmptyBlock, b[1] \in EvalKinds \cup {"exit"}
       PROVE  d[b] = EmptyBlock
  <2>1. b # default /\ b # return
    BY <1>3, <1>14 DEF EvalKinds
  <2> HIDE DEF targets
  <2> QED BY <1>4, <1>14, <2>1
<1>15. \A i \in DOMAIN new :
         /\ new[i].index \in Below(n) /\ Depth[new[i].index] = Depth[n] + k
         /\ NodeRight(d, new[i])
  BY <1>1, <1>7, <1>9
<1>16. \A i, j \in DOMAIN new : new[i].index = new[j].index => i = j
  BY <1>1, <1>7
<1>17. DOMAIN c \subseteq DOMAIN d
  BY <1>4
<1> QED BY <1>8, <1>13, <1>14, <1>15, <1>16, <1>17, Zenon DEF EmitRight, d, new, n

(* What a generator is to do for the data sets: of the nodes that become   *)
(* pending, one is on their way; and nothing is stored yet.                *)
NothingStored(c) == \A b \in DOMAIN c : c[b].store = None

EmitSteers(c, d, x, new) ==
  /\ \A ds : \E i \in DOMAIN new : Walk(ds)[new[i].index] = Walk(ds)[x.index]
  /\ NothingStored(c) => NothingStored(d)

(* L1IfThenElse does it,                                                   *)
LEMMA IfThenElseSteers ==
  ASSUME NEW c, NEW x \in NodeInfos, NodeRight(c, x), ~IsImplicit(x.index)
  PROVE  EmitSteers(c, IfThenElseCode(c, x), x, IfThenElseNodes(x))
<1> DEFINE n == x.index
           left == Block("left", n)
           right == Block("right", n)
           merge == Block("merge", n)
           d == IfThenElseCode(c, x)
           new == IfThenElseNodes(x)
<1>1. n \in Nodes /\ x.eval \in DOMAIN c /\ c[x.eval] = EmptyBlock
  BY DEF NodeInfos, NodeRight
<1>2. ASSUME NEW ds PROVE \E i \in DOMAIN new : Walk(ds)[new[i].index] = Walk(ds)[n]
  <2>1. /\ DOMAIN new = {1, 2}
        /\ new[1].index = Child(n, FALSE) /\ new[2].index = Child(n, TRUE)
    BY DEF IfThenElseNodes, NodeInfo, Child
  <2>2. Walk(ds)[Child(n, GoesRight(n, ds))] = Walk(ds)[n]
    BY <1>1, WalkStep
  <2>3. Child(n, GoesRight(n, ds)) \in {Child(n, FALSE), Child(n, TRUE)}
    BY DEF Child
  <2> HIDE DEF new, n
  <2> QED BY <2>1, <2>2, <2>3
<1>3. ASSUME NothingStored(c), NEW b \in DOMAIN d PROVE d[b].store = None
  <2>1. d = [e \in DOMAIN c \cup {left, right, merge} |->
               CASE e = x.eval -> Ended(c[e], CondBr(n, right, left))
                 [] e = merge -> Ended(EmptyBlock, Br(x.cont))
                 [] e \in {left, right} -> EmptyBlock
                 [] OTHER -> c[e]]
    BY DEF IfThenElseCode
  <2>2. /\ EmptyBlock.store = None /\ Ended(EmptyBlock, CondBr(n, right, left)).store = None
        /\ Ended(EmptyBlock, Br(x.cont)).store = None
    BY EndedFacts DEF EmptyBlock
  <2> HIDE DEF d, left, right, merge, n
  <2> QED BY <1>1, <1>3, <2>1, <2>2 DEF NothingStored
<1> HIDE DEF d, new
<1>4. EmitSteers(c, d, x, new)
  BY <1>2, <1>3 DEF EmitSteers, NothingStored
<1> QED BY <1>4 DEF d, new

(* and LXSubtreeSwitch does it.                                            *)
LEMMA SwitchSteers ==
  ASSUME NEW c, NEW x \in NodeInfos, NodeRight(c, x),
         NEW k \in DepthsInUse, Depth[x.index] + k <= Levels
  PROVE  EmitSteers(c, SwitchCode(c, x, k), x, SwitchNodes(x, k))
<1> DEFINE n == x.index
           paths == Paths[k][n]
           default == Block("default", n)
           return == Block("return", n)
           targets == {Block("target", paths[i].dest) : i \in DOMAIN paths}
           d == SwitchCode(c, x, k)
           switch == Switch(PreOrder[k][n], SubtreeCases[k][n], default)
           new == SwitchNodes(x, k)
<1>1. n \in Nodes /\ x.eval \in DOMAIN c /\ c[x.eval] = EmptyBlock
  BY DEF NodeInfos, NodeRight
<1>2. ASSUME NEW ds PROVE \E i \in DOMAIN new : Walk(ds)[new[i].index] = Walk(ds)[n]
  <2>1. PathsRight(n, k)
    BY <1>1, DepthsInUseRange, PathsPartition
  <2>2. PICK i \in DOMAIN paths : Taken(paths[i], RightOnes(ds))
    BY <2>1, Zenon DEF PathsRight
  <2>3. PathRight(paths[i], n, k)
    BY <2>1, Zenon DEF PathsRight
  <2>4. Walk(ds)[paths[i].dest] = Walk(ds)[n]
    BY <2>2, <2>3, Zenon DEF PathRight
  <2>5. i \in DOMAIN new /\ new[i].index = paths[i].dest
    BY DEF SwitchNodes, NodeInfo
  <2> QED BY <2>4, <2>5
<1>3. ASSUME NothingStored(c), NEW b \in DOMAIN d PROVE d[b].store = None
  <2>1. d = [e \in DOMAIN c \cup {return, default} \cup targets |->
               CASE e = x.eval -> Ended(c[e], switch)
                 [] e = default -> Ended(Ended(EmptyBlock, Unreachable), Br(return))
                 [] e = return -> Ended(EmptyBlock, Br(x.cont))
                 [] e \in targets -> EmptyBlock
                 [] OTHER -> c[e]]
    BY DEF SwitchCode
  <2>2. /\ EmptyBlock.store = None /\ Ended(EmptyBlock, switch).store = None
        /\ Ended(EmptyBlock, Br(x.cont)).store = None
        /\ Ended(Ended(EmptyBlock, Unreachable), Br(return)).store = None
    BY EndedFacts, EndedTwiceFacts DEF EmptyBlock
  <2> HIDE DEF d, default, return, targets, switch, n
  <2> QED BY <1>1, <1>3, <2>1, <2>2 DEF NothingStored
<1> HIDE DEF d, new
<1>4. EmitSteers(c, d, x, new)
  BY <1>2, <1>3 DEF EmitSteers, NothingStored
<1> QED BY <1>4 DEF d, new

-----------------------------------------------------------------------------
(* A sequence that is not empty is its head and its tail.                  *)
LEMMA HeadTail ==
  ASSUME NEW S, NEW s \in Seq(S), s # <<>>
  PROVE  /\ 1 \in DOMAIN s /\ Head(s) = s[1] /\ Head(s) \in S /\ Tail(s) \in Seq(S)
         /\ \A i \in DOMAIN Tail(s) : i + 1 \in DOMAIN s /\ i + 1 # 1 /\ Tail(s)[i] = s[i + 1]
         /\ \A i \in DOMAIN s : \/ i = 1
                                \/ \E j \in DOMAIN Tail(s) : Tail(s)[j] = s[i]
<1>1. /\ Len(s) \in Nat /\ Len(s) # 0 /\ DOMAIN s = 1..Len(s)
      /\ Head(s) = s[1] /\ Tail(s) \in Seq(S) /\ Len(Tail(s)) = Len(s) - 1
      /\ \A i \in 1..Len(s) - 1 : Tail(s)[i] = s[i + 1]
  OBVIOUS
<1>2. DOMAIN Tail(s) = 1..Len(s) - 1
  BY <1>1
<1>3. ASSUME NEW i \in DOMAIN s, i # 1
      PROVE  \E j \in DOMAIN Tail(s) : Tail(s)[j] = s[i]
  <2>1. i - 1 \in DOMAIN Tail(s) /\ (i - 1) + 1 = i
    BY <1>1, <1>2, <1>3
  <2> QED BY <1>1, <1>2, <2>1
<1>4. s[1] \in S
  BY <1>1
<1> QED BY <1>1, <1>2, <1>3, <1>4

(* What is known of the first node to be processed.                        *)
LEMMA FirstRoot ==
  ASSUME CompilerInv, phase \in {"nested", "leaf"}, roots # <<>>
  PROVE  LET x == Head(roots)
         IN  /\ x = roots[1] /\ 1 \in DOMAIN roots
             /\ x \in NodeInfos /\ NodeRight(code, x) /\ x.index \in Nodes
             /\ Depth[x.index] = Levels - remaining /\ ~IsImplicit(x.index)
             /\ remaining \in 1..Levels /\ remaining \in 1..255
             /\ codegen \in GeneratorsInUse /\ codegen = selector[remaining]
             /\ selector \in [1..255 -> Generators]
             /\ codegen.depth \in 0..255
<1> DEFINE x == Head(roots)
<1>1. /\ x = roots[1] /\ 1 \in DOMAIN roots /\ x \in NodeInfos
  BY HeadTail DEF CompilerInv, PendingRight
<1>2. NodeRight(code, x)
  BY <1>1, Zenon DEF CompilerInv, PendingRight
<1>3. x.index \in Nodes /\ Depth[x.index] = Levels - remaining
  BY <1>1 DEF CompilerInv, LevelsMatch, NodeInfos
<1>4. remaining \in 1..Levels /\ Levels \in 1..255
  BY TreeAssumption DEF IsPerfect, CompilerInv, Progress
<1>5. ~IsImplicit(x.index)
  BY <1>3, <1>4, ImplicitLevel
<1>6. codegen = selector[remaining] /\ selector \in Selectors \cup {DefaultSelector}
  BY DEF CompilerInv, Progress
<1>7. remaining \in 1..255
  BY <1>4
<1>8. codegen \in GeneratorsInUse /\ selector \in [1..255 -> Generators]
  BY <1>6, <1>7, SelectorRange
<1> QED BY <1>1, <1>2, <1>3, <1>4, <1>5, <1>6, <1>7, <1>8, InUse

(* One step of emitting a level, whatever the generator.                   *)
LEMMA EmitKeeps ==
  ASSUME CompilerInv, phase = "nested", roots # <<>>, DepthFits,
         NEW new, EmitRight(code, code', Head(roots), codegen.depth, new),
         roots' = Tail(roots), next' = next \o new,
         UNCHANGED <<selector, phase, remaining, codegen, result>>
  PROVE  CompilerInv'
<1> DEFINE x == Head(roots)
           k == codegen.depth
<1>1. /\ x = roots[1] /\ 1 \in DOMAIN roots
      /\ x \in NodeInfos /\ NodeRight(code, x) /\ x.index \in Nodes
      /\ Depth[x.index] = Levels - remaining
  BY FirstRoot
<1>2. /\ roots \in Seq(NodeInfos) /\ next \in Seq(NodeInfos)
      /\ roots' \in Seq(NodeInfos)
      /\ \A i \in DOMAIN roots' : i + 1 \in DOMAIN roots /\ i + 1 # 1 /\ roots'[i] = roots[i + 1]
      /\ \A i \in DOMAIN roots : \/ i = 1
                                 \/ \E j \in DOMAIN roots' : roots'[j] = roots[i]
      /\ \A i \in DOMAIN roots' : i \in Int
  BY HeadTail DEF CompilerInv, PendingRight
<1>3. /\ new \in Seq(NodeInfos) /\ new # <<>>
      /\ \A i, j \in DOMAIN new : new[i].index = new[j].index => i = j
      /\ \A i \in DOMAIN new :
           /\ new[i].index \in Below(x.index) /\ Depth[new[i].index] = Depth[x.index] + k
           /\ NodeRight(code', new[i])
      /\ DOMAIN code \subseteq DOMAIN code'
      /\ \A b \in DOMAIN code :
           b # x.eval /\ code[b] = EmptyBlock /\ b[1] \in EvalKinds \cup {"exit"}
             => code'[b] = EmptyBlock
      /\ \A b \in DOMAIN code' :
           /\ b \in Blocks
           /\ \/ BlockRight(code', b)
              \/ code'[b] = EmptyBlock /\ \E i \in DOMAIN new : new[i].eval = b
              \/ b \in DOMAIN code /\ b # x.eval /\ code'[b] = code[b]
  BY Zenon DEF EmitRight
<1>4. /\ next' \in Seq(NodeInfos)
      /\ \A i \in DOMAIN next' :
           \/ i \in DOMAIN next /\ next'[i] = next[i]
           \/ i - Len(next) \in DOMAIN new /\ next'[i] = new[i - Len(next)]
      /\ \A i \in DOMAIN next' : i \in Int
      /\ Len(next) \in Int
  BY <1>2, <1>3, ConcatElements
<1>5. /\ \A i \in DOMAIN next : i \in DOMAIN next' /\ next'[i] = next[i]
      /\ \A i \in DOMAIN new : \E j \in DOMAIN next' : next'[j] = new[i]
  <2>1. /\ \A i \in DOMAIN next : i \in DOMAIN next' /\ next'[i] = next[i]
        /\ \A i \in DOMAIN new : /\ Len(next) + i \in DOMAIN next'
                                 /\ next'[Len(next) + i] = new[i]
    BY <1>2, <1>3, ConcatFound
  <2> QED BY <2>1
<1>6. x.index \in Below(x.index)
  BY <1>1, BelowClosed
<1>7. \A i \in DOMAIN roots : Depth[roots[i].index] = Levels - remaining /\ roots[i].index \in Nodes
  <2>1. \A i \in DOMAIN roots : roots[i] \in NodeInfos
    BY <1>2
  <2>2. \A i \in DOMAIN roots : Depth[roots[i].index] = Levels - remaining
    BY DEF CompilerInv, LevelsMatch
  <2> QED BY <2>1, <2>2 DEF NodeInfos
<1>8. Progress'
  <2>1. next' # <<>>
    <3>1. 1 \in DOMAIN new
      BY <1>3, HeadTail
    <3>2. PICK j \in DOMAIN next' : TRUE
      BY <1>5, <3>1
    <3> QED BY <3>2
  <2> QED BY <2>1 DEF CompilerInv, Progress, DepthFits
<1>9. LevelsMatch'
  <2>1. \A i \in DOMAIN next : Depth[next[i].index] = Levels - remaining + k
    BY DEF CompilerInv, LevelsMatch
  <2>2. \A i \in DOMAIN new : Depth[new[i].index] = Levels - remaining + k
    BY <1>1, <1>3
  <2>3. \A i \in DOMAIN next' : Depth[next'[i].index] = Levels - remaining + k
    BY <1>4, <2>1, <2>2
  <2>4. ASSUME NEW i \in DOMAIN roots' PROVE Depth[roots'[i].index] = Levels - remaining
    <3>1. i + 1 \in DOMAIN roots /\ roots'[i] = roots[i + 1]
      BY <1>2
    <3> QED BY <3>1, <1>7
  <2> QED BY <2>3, <2>4 DEF LevelsMatch
<1>10. ASSUME NEW y, NodeRight(code, y), y.index # x.index
       PROVE  NodeRight(code', y)
  <2>1. y.eval # x.eval
    BY <1>1, <1>10 DEF NodeRight
  <2>2. LeadsOut(code', y.cont)
    BY <1>3, <1>10 DEF NodeRight, LeadsOut
  <2>3. y.eval \in DOMAIN code' /\ code'[y.eval] = EmptyBlock
    BY <1>3, <1>10, <2>1 DEF NodeRight
  <2> QED BY <1>10, <2>2, <2>3 DEF NodeRight
<1>11. /\ \A i, j \in DOMAIN roots : roots[i].index = roots[j].index => i = j
       /\ \A i, j \in DOMAIN next : next[i].index = next[j].index => i = j
       /\ \A i \in DOMAIN roots : \A j \in DOMAIN next : next[j].index \notin Below(roots[i].index)
       /\ \A i \in DOMAIN roots : NodeRight(code, roots[i])
       /\ \A i \in DOMAIN next : NodeRight(code, next[i])
  BY Zenon DEF CompilerInv, PendingApart, PendingRight
<1>12. PendingRight'
  <2>1. ASSUME NEW i \in DOMAIN roots' PROVE NodeRight(code', roots'[i])
    <3>1. roots'[i] = roots[i + 1] /\ i + 1 \in DOMAIN roots /\ roots[i + 1].index # x.index
      BY <1>1, <1>2, <1>11
    <3> QED BY <3>1, <1>10, <1>11
  <2>2. ASSUME NEW i \in DOMAIN next' PROVE NodeRight(code', next'[i])
    <3>1. CASE i \in DOMAIN next /\ next'[i] = next[i]
      <4>1. next[i].index # x.index
        BY <3>1, <1>1, <1>6, <1>11
      <4> QED BY <3>1, <4>1, <1>10, <1>11
    <3>2. CASE i - Len(next) \in DOMAIN new /\ next'[i] = new[i - Len(next)]
      BY <3>2, <1>3
    <3> QED BY <3>1, <3>2, <1>4
  <2> QED BY <1>2, <1>4, <2>1, <2>2 DEF PendingRight
<1>13. PendingApart'
  <2>1. \A i, j \in DOMAIN roots' : roots'[i].index = roots'[j].index => i = j
    <3> SUFFICES ASSUME NEW i \in DOMAIN roots', NEW j \in DOMAIN roots',
                        roots'[i].index = roots'[j].index
                 PROVE  i = j
      OBVIOUS
    <3>1. i + 1 = j + 1
      BY <1>2, <1>11
    <3> QED BY <3>1, <1>2
  <2>2. \A i, j \in DOMAIN next' : next'[i].index = next'[j].index => i = j
    <3> SUFFICES ASSUME NEW i \in DOMAIN next', NEW j \in DOMAIN next',
                        next'[i].index = next'[j].index
                 PROVE  i = j
      OBVIOUS
    <3>1. \A p \in DOMAIN next : \A q \in DOMAIN new : next[p].index # new[q].index
      BY <1>1, <1>3, <1>11
    <3>2. CASE i \in DOMAIN next /\ next'[i] = next[i]
      BY <3>1, <3>2, <1>4, <1>11
    <3>3. CASE i - Len(next) \in DOMAIN new /\ next'[i] = new[i - Len(next)]
      <4>1. j - Len(next) \in DOMAIN new /\ next'[j] = new[j - Len(next)]
        BY <3>1, <3>3, <1>4
      <4>2. i - Len(next) = j - Len(next)
        BY <3>3, <4>1, <1>3
      <4> QED BY <4>2, <1>4
    <3> QED BY <3>2, <3>3, <1>4
  <2>3. ASSUME NEW i \in DOMAIN roots', NEW j \in DOMAIN next'
        PROVE  next'[j].index \notin Below(roots'[i].index)
    <3>1. /\ roots'[i] = roots[i + 1] /\ i + 1 \in DOMAIN roots
          /\ roots[i + 1].index # x.index /\ roots[i + 1].index \in Nodes
          /\ Depth[roots[i + 1].index] = Depth[x.index]
      BY <1>1, <1>2, <1>7, <1>11
    <3>2. Below(x.index) \cap Below(roots[i + 1].index) = {}
      BY <3>1, <1>1, BelowDisjoint
    <3> QED BY <3>1, <3>2, <1>3, <1>4, <1>11
  <2> QED BY <2>1, <2>2, <2>3 DEF PendingApart
<1>14. CodeRight'
  <2>1. /\ Entry \in DOMAIN code /\ Exit \in DOMAIN code /\ code[Exit] = EmptyBlock
        /\ \A b \in DOMAIN code : BlockRight(code, b) \/ (Open(b) /\ code[b] = EmptyBlock)
    BY DEF CompilerInv, CodeRight
  <2>2. Entry \in DOMAIN code' /\ Exit \in DOMAIN code' /\ code'[Exit] = EmptyBlock
    <3>1. Exit # x.eval /\ Exit[1] = "exit"
      BY <1>1, BlockFacts DEF NodeRight, Exit, EvalKinds
    <3> QED BY <2>1, <3>1, <1>3
  <2>3. ASSUME NEW b \in DOMAIN code'
        PROVE  b \in Blocks /\ (BlockRight(code', b) \/ (Open(b)' /\ code'[b] = EmptyBlock))
    <3>1. CASE code'[b] = EmptyBlock /\ \E i \in DOMAIN new : new[i].eval = b
      <4>1. \E i \in DOMAIN next' : next'[i].eval = b
        BY <3>1, <1>5
      <4> QED BY <3>1, <4>1, <1>3 DEF Open
    <3>2. CASE b \in DOMAIN code /\ b # x.eval /\ code'[b] = code[b]
      <4>1. CASE BlockRight(code, b)
        BY <3>2, <4>1, <1>3, BlockStaysRight
      <4>2. CASE Open(b) /\ code[b] = EmptyBlock
        <5>1. CASE b = Exit
          BY <5>1, <3>2, <4>2, <1>3 DEF Open
        <5>2. CASE \E i \in DOMAIN roots : roots[i].eval = b
          <6>1. PICK i \in DOMAIN roots : roots[i].eval = b
            BY <5>2
          <6>2. i # 1
            BY <6>1, <3>2, <1>1
          <6>3. \E j \in DOMAIN roots' : roots'[j].eval = b
            BY <6>1, <6>2, <1>2
          <6> QED BY <6>3, <3>2, <4>2, <1>3 DEF Open
        <5>3. CASE \E i \in DOMAIN next : next[i].eval = b
          <6>1. \E j \in DOMAIN next' : next'[j].eval = b
            BY <5>3, <1>5
          <6> QED BY <6>1, <3>2, <4>2, <1>3 DEF Open
        <5> QED BY <4>2, <5>1, <5>2, <5>3 DEF Open
      <4> QED BY <2>1, <3>2, <4>1, <4>2
    <3> QED BY <3>1, <3>2, <1>3
  <2> QED BY <2>2, <2>3 DEF CodeRight
<1>15. ResultRight'
  BY DEF CompilerInv, ResultRight
<1> QED BY <1>8, <1>9, <1>12, <1>13, <1>14, <1>15 DEF CompilerInv

(* What the emission of one node does, whichever generator emits it.        *)
LEMMA EmissionRight ==
  ASSUME CompilerInv, EmitEvaluation
  PROVE  /\ phase = "nested" /\ roots # <<>> /\ DepthFits /\ roots' = Tail(roots)
         /\ UNCHANGED <<selector, phase, remaining, codegen, result>>
         /\ \E new : /\ EmitRight(code, code', Head(roots), codegen.depth, new)
                     /\ EmitSteers(code, code', Head(roots), new)
                     /\ next' = next \o new
<1> DEFINE x == Head(roots)
<1>1. /\ phase = "nested" /\ roots # <<>> /\ CanEmitNested[codegen][x.index]
      /\ roots' = Tail(roots)
      /\ UNCHANGED <<selector, phase, remaining, codegen, result>>
  BY DEF EmitEvaluation
<1>2. /\ x \in NodeInfos /\ NodeRight(code, x) /\ x.index \in Nodes
      /\ Depth[x.index] = Levels - remaining /\ ~IsImplicit(x.index)
      /\ remaining \in 1..Levels /\ Levels \in Int
      /\ codegen \in GeneratorsInUse /\ codegen \in Generators /\ codegen.depth \in Int
  <2>1. /\ x \in NodeInfos /\ NodeRight(code, x) /\ x.index \in Nodes
        /\ Depth[x.index] = Levels - remaining /\ ~IsImplicit(x.index)
        /\ remaining \in 1..Levels /\ codegen \in GeneratorsInUse
    BY <1>1, FirstRoot
  <2>2. codegen \in Generators /\ codegen.depth \in 0..255
    BY <2>1, InUse
  <2>3. Levels \in Int
    BY TreeAssumption DEF IsPerfect
  <2> QED BY <2>1, <2>2, <2>3
<1>3. \A b \in DOMAIN code : b \in Blocks
  BY DEF CompilerInv, CodeRight
<1>4. codegen.depth \in 1..MaxSubtreeLevels /\ Depth[x.index] + codegen.depth <= Levels
  BY <1>1, <1>2, CanEmitWithin
<1>5. DepthFits
  BY <1>2, <1>4 DEF DepthFits
<1>6. CASE codegen.name = "L1IfThenElse"
  <2>1. code' = IfThenElseCode(code, x) /\ next' = next \o IfThenElseNodes(x)
    BY <1>6 DEF EmitEvaluation
  <2>2. codegen.depth = 1
    BY <1>2, <1>6, GeneratorDepth DEF L1IfThenElse
  <2>3. EmitRight(code, code', x, codegen.depth, IfThenElseNodes(x))
    BY <1>2, <1>3, <2>1, <2>2, IfThenElseEmits
  <2>4. EmitSteers(code, code', x, IfThenElseNodes(x))
    BY <1>2, <2>1, IfThenElseSteers
  <2> QED BY <1>1, <1>5, <2>1, <2>3, <2>4
<1>7. CASE codegen.name # "L1IfThenElse"
  <2> DEFINE k == codegen.depth
  <2>1. code' = SwitchCode(code, x, k) /\ next' = next \o SwitchNodes(x, k)
    BY <1>7 DEF EmitEvaluation
  <2>2. k \in DepthsInUse
    BY <1>2, <1>4, InUse
  <2>3. EmitRight(code, code', x, k, SwitchNodes(x, k))
    BY <1>2, <1>3, <1>4, <2>1, <2>2, SwitchEmits
  <2>4. EmitSteers(code, code', x, SwitchNodes(x, k))
    BY <1>2, <1>4, <2>1, <2>2, SwitchSteers
  <2> QED BY <1>1, <1>5, <2>1, <2>3, <2>4
<1> QED BY <1>6, <1>7

(* One turn of compileNestedSubtrees' loop: the generator's node becomes   *)
(* evaluated, and the nodes below it pending.                              *)
LEMMA EmitEvaluationKeeps ==
  ASSUME CompilerInv, EmitEvaluation
  PROVE  CompilerInv'
BY EmissionRight, EmitKeeps

(* The result of a node is stored in its block, which leads out then.      *)
LEMMA StoreCloses ==
  ASSUME NEW c, NEW d, NEW x \in NodeInfos, NodeRight(c, x), NEW val, Yields(x.index, val),
         d = [c EXCEPT ![x.eval] = Ended(Storing(@, val), Br(x.cont))]
  PROVE  /\ DOMAIN d = DOMAIN c /\ BlockRight(d, x.eval)
         /\ \A b \in DOMAIN c : b # x.eval => d[b] = c[b]
<1>1. /\ x.eval \in DOMAIN c /\ x.eval[1] \in EvalKinds /\ LeadsOut(c, x.cont)
      /\ Subject(x.eval) = x.index /\ c[x.eval] = EmptyBlock /\ x.index \in Nodes
  BY DEF NodeRight, NodeInfos
<1>2. /\ DOMAIN d = DOMAIN c /\ d[x.eval] = Ended(Storing(EmptyBlock, val), Br(x.cont))
      /\ \A b \in DOMAIN c : b # x.eval => d[b] = c[b]
  BY <1>1
<1>3. LeadsOut(d, x.cont)
  BY <1>1, <1>2 DEF LeadsOut
<1>4. StoreRight(d, x.eval)
  BY <1>1, <1>2, <1>3, Zenon DEF StoreRight
<1> QED BY <1>2, <1>4 DEF BlockRight

(* A list of pending nodes; what remains of it when the first is done; and *)
(* a function that differs from another in one block.                      *)
PendingList(c, s) ==
  /\ s \in Seq(NodeInfos)
  /\ \A i \in DOMAIN s : NodeRight(c, s[i])
  /\ \A i, j \in DOMAIN s : s[i].index = s[j].index => i = j

Remaining(s, t) ==
  /\ \A i \in DOMAIN s : \/ s[i].eval = Head(s).eval
                         \/ \E j \in DOMAIN t : t[j].eval = s[i].eval
  /\ \A i \in DOMAIN t : \E j \in DOMAIN s : t[i] = s[j]

Kept(c, d, block) == DOMAIN d = DOMAIN c /\ \A b \in DOMAIN c : b # block => d[b] = c[b]

(* What remains pending when the first of a list of nodes is done.         *)
LEMMA CloseFirst ==
  ASSUME NEW c, NEW d, NEW s, PendingList(c, s), s # <<>>, Kept(c, d, Head(s).eval)
  PROVE  PendingList(d, Tail(s)) /\ Remaining(s, Tail(s))
<1> DEFINE t == Tail(s)
<1>0. /\ s \in Seq(NodeInfos)
      /\ \A i \in DOMAIN s : NodeRight(c, s[i])
      /\ \A i, j \in DOMAIN s : s[i].index = s[j].index => i = j
      /\ DOMAIN d = DOMAIN c /\ \A b \in DOMAIN c : b # Head(s).eval => d[b] = c[b]
  BY Zenon DEF PendingList, Kept
<1>1. /\ 1 \in DOMAIN s /\ Head(s) = s[1] /\ t \in Seq(NodeInfos)
      /\ \A i \in DOMAIN t : i + 1 \in DOMAIN s /\ i + 1 # 1 /\ t[i] = s[i + 1]
      /\ \A i \in DOMAIN s : i = 1 \/ \E j \in DOMAIN t : t[j] = s[i]
  BY <1>0, HeadTail
<1>2. \A i \in DOMAIN t : i \in Int
  BY <1>1
<1> HIDE DEF t
<1>3. ASSUME NEW i \in DOMAIN t PROVE NodeRight(d, t[i])
  <2> DEFINE y == s[i + 1]
  <2>1. i + 1 \in DOMAIN s /\ t[i] = y /\ NodeRight(c, y) /\ y.index # s[1].index
    BY <1>0, <1>1
  <2>2. NodeRight(c, s[1])
    BY <1>0, <1>1
  <2> HIDE DEF y
  <2>3. y.eval # s[1].eval
    BY <2>1, <2>2 DEF NodeRight
  <2>4. NodeRight(d, y)
    BY <1>0, <1>1, <2>1, <2>3 DEF NodeRight, LeadsOut
  <2> QED BY <2>1, <2>4
<1>4. ASSUME NEW i \in DOMAIN t, NEW j \in DOMAIN t, t[i].index = t[j].index
      PROVE  i = j
  <2>1. i + 1 \in DOMAIN s /\ t[i] = s[i + 1] /\ j + 1 \in DOMAIN s /\ t[j] = s[j + 1]
    BY <1>1
  <2>2. i + 1 = j + 1
    BY <1>0, <1>4, <2>1
  <2> QED BY <2>2, <1>2
<1>5. ASSUME NEW i \in DOMAIN s
      PROVE  s[i].eval = Head(s).eval \/ \E j \in DOMAIN t : t[j].eval = s[i].eval
  BY <1>1
<1>6. PendingList(d, t)
  BY <1>1, <1>3, <1>4 DEF PendingList
<1>7. \A i \in DOMAIN t : \E j \in DOMAIN s : t[i] = s[j]
  BY <1>1
<1>8. Remaining(s, t)
  BY <1>5, <1>7, Zenon DEF Remaining
<1> QED BY <1>6, <1>8 DEF t

(* One turn of compileLeafSubtrees' loop: a table for the last levels.     *)
LEMMA EmitLeafEvaluationKeeps ==
  ASSUME CompilerInv, EmitLeafEvaluation
  PROVE  CompilerInv'
<1> DEFINE x == Head(roots)
           k == codegen.depth
<1>1. /\ phase = "leaf" /\ roots # <<>> /\ CanEmitLeaf[codegen][x.index]
      /\ code' = LeafCode(code, x, k) /\ roots' = Tail(roots)
      /\ UNCHANGED <<selector, phase, remaining, codegen, next, result>>
  BY DEF EmitLeafEvaluation
<1>2. /\ x = roots[1] /\ 1 \in DOMAIN roots /\ NodeRight(code, x)
      /\ x \in NodeInfos /\ x.index \in Nodes
      /\ Depth[x.index] = Levels - remaining /\ ~IsImplicit(x.index)
      /\ remaining \in 1..Levels /\ Levels \in Int /\ codegen \in GeneratorsInUse
  BY <1>1, FirstRoot, TreeAssumption DEF IsPerfect
<1>3. remaining = k /\ next = <<>>
  BY <1>1 DEF CompilerInv, Progress
<1>4. k \in 1..MaxSubtreeLevels /\ k \in DepthsInUse
  BY <1>1, <1>2, CanEmitWithin, InUse
<1>5. Yields(x.index, SubtreeTable[k][x.index])
  <2>1. Depth[x.index] + k = Levels
    BY <1>2, <1>3
  <2> QED BY <1>4, <2>1, Zenon DEF Yields
<1>6. code' = [code EXCEPT ![x.eval] = Ended(Storing(@, SubtreeTable[k][x.index]), Br(x.cont))]
  BY <1>1 DEF LeafCode
<1>7. /\ DOMAIN code' = DOMAIN code /\ BlockRight(code', x.eval)
      /\ \A b \in DOMAIN code : b # x.eval => code'[b] = code[b]
  BY <1>2, <1>5, <1>6, StoreCloses
<1>8. PendingList(code, roots) /\ Kept(code, code', x.eval)
  BY <1>7 DEF CompilerInv, PendingRight, PendingApart, PendingList, Kept
<1>9. /\ PendingList(code', roots')
      /\ \A i \in DOMAIN roots : \/ roots[i].eval = x.eval
                                 \/ \E j \in DOMAIN roots' : roots'[j].eval = roots[i].eval
      /\ \A i \in DOMAIN roots' : \E j \in DOMAIN roots : roots'[i] = roots[j]
  <2>1. roots # <<>> /\ roots' = Tail(roots)
    BY <1>1
  <2>2. PendingList(code', roots') /\ Remaining(roots, roots')
    BY <1>8, <2>1, CloseFirst
  <2> QED BY <2>2, Zenon DEF Remaining
<1> HIDE DEF x
<1>10. Progress'
  <2>1. DepthFits
    BY <1>2, <1>3, <1>4 DEF DepthFits
  <2> QED BY <1>1, <2>1 DEF CompilerInv, Progress, DepthFits
<1>11. LevelsMatch'
  BY <1>1, <1>3, <1>9 DEF CompilerInv, LevelsMatch
<1>12. PendingRight' /\ PendingApart'
  BY <1>1, <1>3, <1>9 DEF PendingRight, PendingApart, PendingList
<1>13. CodeRight'
  <2>1. /\ Entry \in DOMAIN code /\ Exit \in DOMAIN code /\ code[Exit] = EmptyBlock
        /\ \A b \in DOMAIN code : b \in Blocks /\ (BlockRight(code, b) \/ (Open(b) /\ code[b] = EmptyBlock))
    BY <1>1 DEF CompilerInv, CodeRight
  <2>2. Exit # x.eval
    BY <1>2, BlockFacts DEF NodeRight, Exit, EvalKinds
  <2>3. ASSUME NEW b \in DOMAIN code', b # x.eval
        PROVE  BlockRight(code', b) \/ (Open(b)' /\ code'[b] = EmptyBlock)
    <3>1. CASE BlockRight(code, b)
      BY <2>3, <3>1, <1>7, BlockStaysRight
    <3>2. CASE Open(b) /\ code[b] = EmptyBlock
      <4>1. b = Exit \/ \E i \in DOMAIN roots : roots[i].eval = b
        BY <1>3, <3>2 DEF Open
      <4>2. b = Exit \/ \E i \in DOMAIN roots' : roots'[i].eval = b
        BY <1>9, <2>3, <4>1
      <4> QED BY <4>2, <3>2, <2>3, <1>7 DEF Open
    <3> QED BY <2>1, <2>3, <3>1, <3>2, <1>7
  <2> QED BY <1>7, <2>1, <2>2, <2>3 DEF CodeRight
<1>14. ResultRight'
  BY <1>1 DEF CompilerInv, ResultRight
<1> QED BY <1>10, <1>11, <1>12, <1>13, <1>14 DEF CompilerInv

(* One turn of connectSubtreeEndpoints' loop: a result for an implicit node. *)
LEMMA ConnectEndpointKeeps ==
  ASSUME CompilerInv, ConnectEndpoint
  PROVE  CompilerInv'
<1> DEFINE x == Head(next)
<1>1. /\ phase = "select" /\ remaining = 0 /\ next # <<>>
      /\ code' = [code EXCEPT ![x.eval] = Ended(Storing(@, ConstVal(x.index)), Br(x.cont))]
      /\ next' = Tail(next)
      /\ UNCHANGED <<selector, phase, remaining, codegen, roots, result>>
  BY DEF ConnectEndpoint
<1>2. /\ next \in Seq(NodeInfos) /\ x = next[1] /\ 1 \in DOMAIN next /\ x \in NodeInfos
  BY <1>1, HeadTail DEF CompilerInv, PendingRight
<1>3. NodeRight(code, x)
  BY <1>2, Zenon DEF CompilerInv, PendingRight
<1>4. roots = <<>>
  BY <1>1 DEF CompilerInv, Progress
<1>5. Yields(x.index, ConstVal(x.index))
  <2>1. x.index \in Nodes
    BY <1>2 DEF NodeInfos
  <2>2. Depth[x.index] = Levels - 0 + 0
    BY <1>1, <1>2 DEF CompilerInv, LevelsMatch
  <2>3. IsImplicit(x.index)
    BY <2>1, <2>2, ImplicitLevel, TreeAssumption DEF IsPerfect
  <2> QED BY <2>3 DEF Yields
<1>6. /\ DOMAIN code' = DOMAIN code /\ BlockRight(code', x.eval)
      /\ \A b \in DOMAIN code : b # x.eval => code'[b] = code[b]
  BY <1>1, <1>2, <1>3, <1>5, StoreCloses
<1>7. PendingList(code, next) /\ Kept(code, code', x.eval)
  BY <1>6 DEF CompilerInv, PendingRight, PendingApart, PendingList, Kept
<1>8. /\ PendingList(code', next')
      /\ \A i \in DOMAIN next : \/ next[i].eval = x.eval
                                \/ \E j \in DOMAIN next' : next'[j].eval = next[i].eval
      /\ \A i \in DOMAIN next' : \E j \in DOMAIN next : next'[i] = next[j]
  <2>1. next # <<>> /\ next' = Tail(next)
    BY <1>1
  <2>2. PendingList(code', next') /\ Remaining(next, next')
    BY <1>7, <2>1, CloseFirst
  <2> QED BY <2>2, Zenon DEF Remaining
<1> HIDE DEF x
<1>9. Progress'
  BY <1>1 DEF CompilerInv, Progress, DepthFits
<1>10. LevelsMatch'
  BY <1>1, <1>4, <1>8 DEF CompilerInv, LevelsMatch
<1>11. PendingRight' /\ PendingApart'
  <2>1. /\ next' \in Seq(NodeInfos)
        /\ \A i \in DOMAIN next' : NodeRight(code', next'[i])
        /\ \A i, j \in DOMAIN next' : next'[i].index = next'[j].index => i = j
    BY <1>8, Zenon DEF PendingList
  <2>2. roots' \in Seq(NodeInfos) /\ DOMAIN roots' = {}
    BY <1>1, <1>4
  <2> QED BY <2>1, <2>2 DEF PendingRight, PendingApart
<1>12. CodeRight'
  <2>1. /\ Entry \in DOMAIN code /\ Exit \in DOMAIN code /\ code[Exit] = EmptyBlock
        /\ \A b \in DOMAIN code : b \in Blocks /\ (BlockRight(code, b) \/ (Open(b) /\ code[b] = EmptyBlock))
    BY <1>1 DEF CompilerInv, CodeRight
  <2>2. Exit # x.eval
    BY <1>3, BlockFacts DEF NodeRight, Exit, EvalKinds
  <2>3. ASSUME NEW b \in DOMAIN code', b # x.eval
        PROVE  BlockRight(code', b) \/ (Open(b)' /\ code'[b] = EmptyBlock)
    <3>1. CASE BlockRight(code, b)
      BY <2>3, <3>1, <1>6, BlockStaysRight
    <3>2. CASE Open(b) /\ code[b] = EmptyBlock
      <4>1. b = Exit \/ \E i \in DOMAIN next : next[i].eval = b
        BY <1>4, <3>2 DEF Open
      <4>2. b = Exit \/ \E i \in DOMAIN next' : next'[i].eval = b
        BY <1>8, <2>3, <4>1
      <4> QED BY <4>2, <3>2, <2>3, <1>6 DEF Open
    <3> QED BY <2>1, <2>3, <3>1, <3>2, <1>6
  <2> QED BY <1>6, <2>1, <2>2, <2>3 DEF CodeRight
<1>13. ResultRight'
  BY <1>1 DEF CompilerInv, ResultRight
<1> QED BY <1>9, <1>10, <1>11, <1>12, <1>13 DEF CompilerInv

(* A level begins: the nodes below the last one are to be processed.       *)
LEMMA SelectGeneratorKeeps ==
  ASSUME CompilerInv, SelectGenerator
  PROVE  CompilerInv'
<1>1. /\ phase = "select" /\ remaining > 0 /\ codegen' = selector[remaining]
      /\ roots' = next /\ next' = <<>> /\ phase' \in {"leaf", "nested"}
      /\ phase' = "leaf" => remaining = codegen'.depth
      /\ UNCHANGED <<selector, remaining, code, result>>
  BY DEF SelectGenerator
<1>2. /\ selector \in Selectors \cup {DefaultSelector} /\ remaining \in 0..Levels
      /\ roots = <<>> /\ next # <<>>
  BY <1>1 DEF CompilerInv, Progress
<1>3. codegen' \in Generators
  <2>1. remaining \in 1..255
    BY <1>1, <1>2, TreeAssumption DEF IsPerfect
  <2> QED BY <1>1, <1>2, <2>1, SelectorRange
<1>4. Progress'
  BY <1>1, <1>2, <1>3 DEF CompilerInv, Progress, DepthFits
<1>5. LevelsMatch'
  <2>1. \A i \in DOMAIN next : Depth[next[i].index] = Levels - remaining + 0
    BY <1>1 DEF CompilerInv, LevelsMatch
  <2>2. Levels - remaining + 0 = Levels - remaining
    BY <1>2, TreeAssumption DEF IsPerfect
  <2> QED BY <1>1, <2>1, <2>2 DEF LevelsMatch
<1>6. PendingRight' /\ PendingApart'
  BY <1>1 DEF CompilerInv, PendingRight, PendingApart
<1>7. CodeRight'
  BY <1>1, <1>2 DEF CompilerInv, CodeRight, Open
<1>8. ResultRight'
  BY <1>1 DEF CompilerInv, ResultRight
<1> QED BY <1>4, <1>5, <1>6, <1>7, <1>8 DEF CompilerInv

(* A level ends: its generator has used up the levels that it evaluates.   *)
LEMMA NextLevelKeeps ==
  ASSUME CompilerInv, NextLevel
  PROVE  CompilerInv'
<1>1. /\ phase = "nested" /\ roots = <<>> /\ phase' = "select"
      /\ remaining' = (remaining - codegen.depth) % 256
      /\ UNCHANGED <<selector, codegen, roots, next, code, result>>
  BY DEF NextLevel
<1>2. /\ DepthFits /\ next # <<>> /\ remaining \in 1..Levels /\ Levels \in 1..255
      /\ codegen = selector[remaining] /\ selector \in Selectors \cup {DefaultSelector}
      /\ Fits(selector) <=> FitsFrom(selector)[remaining]
  BY <1>1, TreeAssumption DEF IsPerfect, CompilerInv, Progress
<1>3. remaining' = remaining - codegen.depth /\ remaining' \in 0..Levels
  <2> DEFINE depth == codegen.depth
  <2>1. depth \in 1..4 /\ depth <= remaining
    BY <1>2 DEF DepthFits, MaxSubtreeLevels
  <2>2. remaining' = (remaining - depth) % 256
    BY <1>1
  <2> HIDE DEF depth
  <2>3. remaining - depth \in 0..255 /\ remaining - depth \in 0..Levels
    BY <1>2, <2>1
  <2>4. \A r \in 0..255 : r % 256 = r
    OBVIOUS
  <2>5. remaining' = remaining - depth
    BY <2>2, <2>3, <2>4
  <2> QED BY <2>3, <2>5 DEF depth
<1>4. Fits(selector) <=> FitsFrom(selector)[remaining']
  <2>1. selector \in [1..255 -> Generators]
    BY <1>2, SelectorRange
  <2>2. FitsFrom(selector)[remaining] <=>
          /\ codegen.depth \in 1..MaxSubtreeLevels /\ codegen.depth <= remaining
          /\ FitsFrom(selector)[remaining - codegen.depth]
    BY <1>2, <2>1, FitsEquation
  <2> QED BY <1>2, <1>3, <2>2 DEF DepthFits
<1>5. Progress'
  BY <1>1, <1>2, <1>3, <1>4 DEF CompilerInv, Progress
<1>6. LevelsMatch'
  <2>1. \A i \in DOMAIN next : Depth[next[i].index] = Levels - remaining + codegen.depth
    BY <1>1 DEF CompilerInv, LevelsMatch
  <2>2. Levels - remaining + codegen.depth = Levels - remaining' + 0
    <3>1. /\ remaining' = remaining - codegen.depth /\ codegen.depth \in Int
          /\ remaining \in Int /\ Levels \in Int
      BY <1>2, <1>3 DEF DepthFits, MaxSubtreeLevels
    <3> QED BY <3>1
  <2> QED BY <1>1, <2>1, <2>2 DEF LevelsMatch
<1>7. PendingRight' /\ PendingApart'
  BY <1>1 DEF CompilerInv, PendingRight, PendingApart
<1>8. CodeRight'
  BY <1>1 DEF CompilerInv, CodeRight, Open
<1>9. ResultRight'
  BY <1>1 DEF CompilerInv, ResultRight
<1> QED BY <1>5, <1>6, <1>7, <1>8, <1>9 DEF CompilerInv

(* A compilation begins with the root, its block and that of the exit.     *)
LEMMA BeginCompileKeeps ==
  ASSUME CompilerInv, BeginCompile
  PROVE  CompilerInv'
<1> DEFINE x == NodeInfo(Root, Entry, Exit)
<1>1. /\ phase = "idle" /\ phase' = "select" /\ remaining' = Levels
      /\ selector' = IF selector = None THEN DefaultSelector ELSE selector
      /\ code' = [b \in {Entry, Exit} |-> EmptyBlock]
      /\ next' = <<x>>
      /\ UNCHANGED <<codegen, roots, result>>
  BY DEF BeginCompile, Idle
<1>2. roots = <<>>
  BY <1>1 DEF CompilerInv, Progress
<1>3. /\ Root \in Nodes /\ Depth[Root] = 0 /\ Levels \in 1..255
  BY TreeAssumption DEF IsPerfect
<1>4. /\ x \in NodeInfos /\ x.index = Root /\ x.eval = Entry /\ x.cont = Exit
      /\ Entry \in Blocks /\ Exit \in Blocks
      /\ Entry[1] = "entry" /\ Exit[1] = "exit" /\ Subject(Entry) = Root
  BY <1>3, BlockFacts
    DEF NodeInfo, NodeInfos, Entry, Exit, Block, Blocks, EvalKinds, WayOut
<1>5. NodeRight(code', x)
  <2>1. DOMAIN code' = {Entry, Exit} /\ code'[Entry] = EmptyBlock
    BY <1>1
  <2> HIDE DEF x
  <2> QED BY <1>4, <2>1 DEF NodeRight, LeadsOut, EvalKinds, WayOut
<1> HIDE DEF x
<1>6. next' \in Seq(NodeInfos) /\ DOMAIN next' = {1} /\ next'[1] = x /\ next' # <<>>
  BY <1>1, <1>4
<1>7. roots' \in Seq(NodeInfos) /\ DOMAIN roots' = {}
  BY <1>1, <1>2
<1>8. Progress'
  <2>1. Fits(selector') <=> FitsFrom(selector')[Levels]
    BY DEF Fits, UsesUp, FitsFrom
  <2>2. selector' \in Selectors \cup {DefaultSelector}
    BY <1>1 DEF CompilerInv, Progress
  <2>3. codegen \in Generators \cup {None}
    BY DEF CompilerInv, Progress
  <2>4. remaining' \in 0..Levels
    BY <1>1, <1>3
  <2>5. roots' = <<>> /\ codegen' = codegen /\ phase' = "select" /\ remaining' = Levels
    BY <1>1, <1>2
  <2> QED BY <1>6, <2>1, <2>2, <2>3, <2>4, <2>5 DEF Progress
<1>9. LevelsMatch'
  <2>1. Levels - Levels + 0 = 0
    BY <1>3
  <2> QED BY <1>1, <1>3, <1>4, <1>6, <1>7, <2>1 DEF LevelsMatch
<1>10. PendingRight' /\ PendingApart'
  BY <1>5, <1>6, <1>7 DEF PendingRight, PendingApart
<1>11. CodeRight'
  <2>1. \E i \in DOMAIN next' : next'[i].eval = Entry
    BY <1>4, <1>6
  <2> QED BY <1>1, <1>4, <2>1 DEF CodeRight, Open
<1>12. ResultRight'
  BY <1>1 DEF CompilerInv, ResultRight
<1> QED BY <1>8, <1>9, <1>10, <1>11, <1>12 DEF CompilerInv

(* A compilation ends when no node is pending: the exit returns, and every *)
(* block of the function is complete.                                      *)
LEMMA FinishKeeps ==
  ASSUME CompilerInv, Finish
  PROVE  CompilerInv'
<1> DEFINE function == [code EXCEPT ![Exit] = Ended(@, Ret)]
<1>1. /\ phase \in {"leaf", "select"} /\ phase' = "idle"
      /\ result' = [code |-> function, success |-> VerifyFunction(function)]
      /\ code' = <<>> /\ remaining' = 0
      /\ UNCHANGED <<selector, codegen, roots, next>>
  BY DEF Finish
<1>2. roots = <<>> /\ next = <<>>
  BY DEF Finish, CompilerInv, Progress
<1>3. /\ Entry \in DOMAIN code /\ Exit \in DOMAIN code /\ code[Exit] = EmptyBlock
      /\ \A b \in DOMAIN code : b \in Blocks /\ (BlockRight(code, b) \/ b = Exit)
  <2>1. \A b : Open(b) => b = Exit
    BY <1>2 DEF Open
  <2> QED BY <1>1, <2>1 DEF CompilerInv, CodeRight
<1>4. /\ DOMAIN function = DOMAIN code /\ function[Exit] = Ended(EmptyBlock, Ret)
      /\ \A b \in DOMAIN code : b # Exit => function[b] = code[b]
  BY <1>3
<1>5. Levels \in 1..255
  BY TreeAssumption DEF IsPerfect
<1> HIDE DEF function
<1>6. BlockRight(function, Exit)
  <2>1. Exit[1] = "exit"
    BY BlockFacts DEF Exit
  <2>2. LeaveRight(function, Exit)
    BY <1>4, <2>1 DEF LeaveRight
  <2> QED BY <2>2 DEF BlockRight
<1>7. \A b \in DOMAIN function : b \in Blocks /\ BlockRight(function, b)
  BY <1>3, <1>4, <1>6, BlockStaysRight
<1>8. VerifyFunction(function) \in BOOLEAN
  BY DEF VerifyFunction, Broken
<1>9. result'.code = function /\ result'.success \in BOOLEAN
  BY <1>1, <1>8
<1>10. ResultRight'
  BY <1>3, <1>4, <1>7, <1>9 DEF ResultRight
<1>11. Progress'
  <2>1. selector \in Selectors \cup {DefaultSelector, None} /\ codegen \in Generators \cup {None}
    BY DEF CompilerInv, Progress
  <2>2. remaining' \in 0..Levels
    BY <1>1, <1>5
  <2>3. roots' = <<>> /\ next' = <<>>
    BY <1>1, <1>2
  <2> QED BY <1>1, <2>1, <2>2, <2>3 DEF Progress
<1>12. LevelsMatch' /\ PendingRight' /\ PendingApart'
  <2>1. roots' = <<>> /\ next' = <<>>
    BY <1>1, <1>2
  <2> QED BY <2>1 DEF LevelsMatch, PendingRight, PendingApart
<1>13. CodeRight'
  BY <1>1 DEF CodeRight
<1> QED BY <1>10, <1>11, <1>12, <1>13 DEF CompilerInv

(* An assertion fails only on the first node of a level, and only if the   *)
(* generator that the selector picked does not fit.                        *)
LEMMA AbortKeeps ==
  ASSUME CompilerInv, Abort
  PROVE  CompilerInv'
<1> DEFINE x == Head(roots)
<1>1. /\ phase \in {"nested", "leaf"} /\ roots # <<>> /\ phase' = "aborted"
      /\ \/ ~CanEmitNested[codegen][x.index]
         \/ ~CanEmitLeaf[codegen][x.index]
      /\ UNCHANGED <<selector, remaining, codegen, roots, next, code, result>>
  BY DEF Abort
<1>2. /\ x.index \in Nodes /\ Depth[x.index] = Levels - remaining /\ ~IsImplicit(x.index)
      /\ remaining \in 1..Levels /\ codegen \in GeneratorsInUse
      /\ codegen = selector[remaining] /\ selector \in [1..255 -> Generators]
      /\ codegen.depth \in 0..255
  BY <1>1, FirstRoot
<1>3. ~DepthFits
  <2>1. ~(codegen.depth \in 1..MaxSubtreeLevels /\ Depth[x.index] + codegen.depth <= Levels)
    BY <1>1, <1>2, CanEmitWithin
  <2> DEFINE depth == codegen.depth
             level == Depth[x.index]
  <2>2. depth \in 0..255 /\ level = Levels - remaining /\ remaining \in 1..Levels
    BY <1>2
  <2> HIDE DEF depth, level
  <2>3. Levels \in Int
    BY TreeAssumption DEF IsPerfect
  <2>4. depth <= remaining => level + depth <= Levels
    BY <2>2, <2>3
  <2> QED BY <2>1, <2>4 DEF DepthFits, depth, level
<1>4. next = <<>>
  BY <1>1, <1>3 DEF CompilerInv, Progress
<1>5. ~Fits(selector)
  <2>1. FitsFrom(selector)[remaining] =>
          codegen.depth \in 1..MaxSubtreeLevels /\ codegen.depth <= remaining
    BY <1>2, FitsEquation
  <2>2. Fits(selector) <=> FitsFrom(selector)[remaining]
    BY <1>1 DEF CompilerInv, Progress
  <2> QED BY <1>3, <2>1, <2>2 DEF DepthFits
<1>6. Progress'
  BY <1>1, <1>4, <1>5 DEF CompilerInv, Progress
<1>7. LevelsMatch'
  BY <1>1, <1>4 DEF CompilerInv, LevelsMatch
<1>8. PendingRight' /\ PendingApart'
  BY <1>1 DEF CompilerInv, PendingRight, PendingApart
<1>9. CodeRight'
  BY <1>1 DEF CompilerInv, CodeRight, Open
<1>10. ResultRight'
  BY <1>1 DEF CompilerInv, ResultRight
<1> QED BY <1>6, <1>7, <1>8, <1>9, <1>10 DEF CompilerInv

(* Calls of the compiled function do not disturb the compiler's invariant. *)
LEMMA CompilerAtRest ==
  ASSUME CompilerInv, UNCHANGED compilerVars
  PROVE  CompilerInv'
BY DEF CompilerInv, compilerVars, Progress, DepthFits, LevelsMatch, PendingRight,
  PendingApart, CodeRight, Open, ResultRight

(* Every step of the compiler keeps it, whichever selector was set.        *)
LEMMA CompilerStepKeeps ==
  ASSUME CompilerInv, [EvaluatorNext]_vars
  PROVE  CompilerInv'
<1>1. CASE SetCodegenSelector
  <2>1. PICK s \in Selectors :
          /\ phase = "idle" /\ selector' = s
          /\ UNCHANGED <<phase, remaining, codegen, roots, next, code, result>>
    BY <1>1 DEF SetCodegenSelector, Idle
  <2>2. Progress'
    BY <2>1 DEF CompilerInv, Progress
  <2>3. /\ LevelsMatch' /\ PendingRight' /\ PendingApart'
        /\ CodeRight' /\ ResultRight'
    BY <2>1 DEF CompilerInv, LevelsMatch, PendingRight, PendingApart, CodeRight,
      Open, ResultRight
  <2> QED BY <2>2, <2>3 DEF CompilerInv
<1>2. CASE BeginCompile
  BY <1>2, BeginCompileKeeps
<1>3. CASE SelectGenerator
  BY <1>3, SelectGeneratorKeeps
<1>4. CASE EmitEvaluation
  BY <1>4, EmitEvaluationKeeps
<1>5. CASE NextLevel
  BY <1>5, NextLevelKeeps
<1>6. CASE EmitLeafEvaluation
  BY <1>6, EmitLeafEvaluationKeeps
<1>7. CASE ConnectEndpoint
  BY <1>7, ConnectEndpointKeeps
<1>8. CASE Finish
  BY <1>8, FinishKeeps
<1>9. CASE Abort
  BY <1>9, AbortKeeps
<1>10. CASE Call
  BY <1>10, CompilerAtRest DEF Call
<1>11. CASE Execute
  BY <1>11, CompilerAtRest DEF Execute, ExecuteBr, ExecuteCondBr, ExecuteSwitch, ExecuteRet
<1>12. CASE UNCHANGED vars
  BY <1>12, CompilerAtRest DEF vars, compilerVars
<1> QED BY <1>1, <1>2, <1>3, <1>4, <1>5, <1>6, <1>7, <1>8, <1>9, <1>10, <1>11, <1>12
  DEF EvaluatorNext, CompilerStep, Next, Compile

(* What the compiler is about to do always fits what it has done, on every *)
(* tree and with every selector.                                           *)
THEOREM CompilerInvariant == EvaluatorSpec => []CompilerInv
<1>1. EvaluatorInit => CompilerInv
  <2> SUFFICES ASSUME Init PROVE CompilerInv
    BY DEF EvaluatorInit
  <2>1. Levels \in 1..255
    BY TreeAssumption DEF IsPerfect
  <2>2. Progress
    <3>1. /\ selector = None /\ phase = "idle" /\ remaining = 0 /\ codegen = None
          /\ roots = <<>> /\ next = <<>> /\ code = <<>>
      BY DEF Init
    <3>2. remaining \in 0..Levels /\ codegen \in Generators \cup {None}
          /\ selector \in Selectors \cup {DefaultSelector, None}
      BY <2>1, <3>1
    <3>3. /\ phase # "select" /\ phase # "nested" /\ phase # "leaf" /\ phase # "aborted"
      BY <3>1
    <3> QED BY <3>1, <3>2, <3>3 DEF Progress
  <2>3. LevelsMatch /\ PendingRight /\ PendingApart
    BY DEF Init, LevelsMatch, PendingRight, PendingApart
  <2>4. CodeRight /\ ResultRight
    BY DEF Init, CodeRight, ResultRight
  <2> QED BY <2>2, <2>3, <2>4 DEF CompilerInv
<1> QED BY <1>1, CompilerStepKeeps, PTL DEF EvaluatorSpec

(* The level counter and the depths of the pending nodes never part.       *)
THEOREM LevelsStayMatched == EvaluatorSpec => []LevelsMatch
<1>1. CompilerInv => LevelsMatch
  BY DEF CompilerInv
<1> QED BY <1>1, CompilerInvariant, PTL

(* An assertion of the compiler fails only if the selector does not fit.   *)
THEOREM AbortsOnMisfits == EvaluatorSpec => []AbortsOnlyOnMisfit
<1>1. CompilerInv => AbortsOnlyOnMisfit
  BY DEF CompilerInv, Progress, AbortsOnlyOnMisfit
<1> QED BY <1>1, CompilerInvariant, PTL

(* A selector that does not fit never gets a function compiled.            *)
THEOREM MisfitsAreStopped == EvaluatorSpec => MisfitsNeverFinish
<1>1. CompilerInv /\ [EvaluatorNext]_vars => [Finish => Fits(selector)]_compilerVars
  <2> SUFFICES ASSUME CompilerInv, Finish PROVE Fits(selector)
    OBVIOUS
  <2>1. /\ selector \in Selectors \cup {DefaultSelector} /\ remaining \in 0..Levels
        /\ Levels \in 1..255 /\ Fits(selector) <=> FitsFrom(selector)[remaining]
    BY TreeAssumption DEF IsPerfect, Finish, CompilerInv, Progress
  <2>2. selector \in [1..255 -> Generators]
    BY <2>1, SelectorRange
  <2>3. CASE phase = "select" /\ remaining = 0
    <3>1. FitsFrom(selector)[0]
      BY <2>2, FitsEquation
    <3> QED BY <2>1, <2>3, <3>1
  <2>4. CASE phase = "leaf" /\ roots = <<>>
    <3>1. DepthFits /\ codegen = selector[remaining] /\ remaining = codegen.depth /\ remaining > 0
      BY <2>4 DEF CompilerInv, Progress
    <3>2. remaining \in 1..Levels /\ remaining - codegen.depth = 0
      BY <2>1, <3>1
    <3>3. FitsFrom(selector)[remaining] <=>
            /\ selector[remaining].depth \in 1..MaxSubtreeLevels
            /\ selector[remaining].depth <= remaining
            /\ FitsFrom(selector)[remaining - selector[remaining].depth]
      <4>1. \A r \in 1..Levels :
              FitsFrom(selector)[r] <=>
                /\ selector[r].depth \in 1..MaxSubtreeLevels /\ selector[r].depth <= r
                /\ FitsFrom(selector)[r - selector[r].depth]
        BY <2>2, FitsEquation
      <4> QED BY <3>2, <4>1, Zenon
    <3>4. FitsFrom(selector)[0]
      BY <2>2, FitsEquation
    <3> QED BY <2>1, <3>1, <3>2, <3>3, <3>4 DEF DepthFits
  <2> QED BY <2>3, <2>4 DEF Finish
<1> QED BY <1>1, CompilerInvariant, PTL DEF EvaluatorSpec, MisfitsNeverFinish

-----------------------------------------------------------------------------
(* What holds of complete blocks holds of the code the compiler returns.   *)

(* A complete block has a terminator, one unless it is the default block,  *)
(* and control stays in the function.                                      *)
LEMMA TerminatorsRight ==
  ASSUME NEW c, NEW b, BlockRight(c, b)
  PROVE  /\ c[b].terms # <<>>
         /\ 1 \in DOMAIN c[b].terms /\ Head(c[b].terms) = c[b].terms[1]
         /\ b[1] # "default" => Len(c[b].terms) = 1
         /\ \A i \in DOMAIN c[b].terms : Successors(c[b].terms[i]) \subseteq DOMAIN c
<1> DEFINE Right(terms) == /\ terms # <<>>
                           /\ 1 \in DOMAIN terms /\ Head(terms) = terms[1]
                           /\ b[1] # "default" => Len(terms) = 1
                           /\ \A i \in DOMAIN terms : Successors(terms[i]) \subseteq DOMAIN c
<1>1. ASSUME NEW t, Successors(t) \subseteq DOMAIN c, c[b].terms = <<t>>
      PROVE  Right(c[b].terms)
  BY <1>1
<1>2. ASSUME NEW to, LeadsOut(c, to) PROVE Successors(Br(to)) \subseteq DOMAIN c
  BY <1>2 DEF Successors, Br, LeadsOut
<1>3. CASE BranchRight(c, b)
  <2> DEFINE left == Block("left", Subject(b))
             right == Block("right", Subject(b))
             t == CondBr(Subject(b), right, left)
  <2>1. left \in DOMAIN c /\ right \in DOMAIN c /\ c[b] = Ended(EmptyBlock, t)
    BY <1>3 DEF BranchRight
  <2>2. Successors(t) = {right, left}
    BY DEF Successors, CondBr
  <2> HIDE DEF left, right, t
  <2>3. c[b].terms = <<t>>
    BY <2>1, EndedFacts
  <2> QED BY <2>1, <2>2, <2>3, <1>1
<1>4. CASE SwitchRight(c, b)
  <2> DEFINE n == Subject(b)
             default == Block("default", n)
             t(k) == SubtreeSwitch(n, k)
  <2>1. PICK k \in DepthsInUse : n \in Nodes /\ SwitchOver(c, b, n, k)
    BY <1>4, Zenon DEF SwitchRight
  <2>2. /\ \A i \in DOMAIN Paths[k][n] : Block("target", Paths[k][n][i].dest) \in DOMAIN c
        /\ default \in DOMAIN c /\ c[b] = Ended(EmptyBlock, t(k))
    BY <2>1, Zenon DEF SwitchOver
  <2> DEFINE cases == SubtreeCases[k][n]
  <2>3. \A i \in DOMAIN cases : cases[i].target \in DOMAIN c
    BY <2>1, <2>2, CasesOfPaths
  <2>4. Successors(t(k)) = {default} \cup {cases[i].target : i \in DOMAIN cases}
    BY DEF Successors, Switch, SubtreeSwitch
  <2> HIDE DEF cases, default, n, t
  <2>5. Successors(t(k)) \subseteq DOMAIN c
    BY <2>2, <2>3, <2>4
  <2>6. c[b].terms = <<t(k)>>
    BY <2>2, EndedFacts
  <2> HIDE DEF Right
  <2> QED BY <2>5, <2>6, <1>1
<1>5. CASE StoreRight(c, b)
  <2>1. PICK val, to : LeadsOut(c, to) /\ c[b] = Ended(Storing(EmptyBlock, val), Br(to))
    BY <1>5 DEF StoreRight
  <2>2. c[b].terms = <<Br(to)>>
    BY <2>1, StoredFacts
  <2> HIDE DEF Right
  <2> QED BY <2>1, <2>2, <1>1, <1>2
<1>6. CASE LeaveRight(c, b)
  <2>1. CASE b[1] \in {"merge", "return"}
    <3>1. PICK to : LeadsOut(c, to) /\ c[b] = Ended(EmptyBlock, Br(to))
      BY <1>6, <2>1 DEF LeaveRight
    <3>2. c[b].terms = <<Br(to)>>
      BY <3>1, EndedFacts
    <3> HIDE DEF Right
    <3> QED BY <3>1, <3>2, <1>1, <1>2
  <2>2. CASE b[1] = "exit"
    <3>1. c[b] = Ended(EmptyBlock, Ret)
      BY <1>6, <2>2 DEF LeaveRight
    <3>2. Successors(Ret) = {}
      BY DEF Successors, Ret
    <3> QED BY <3>1, <3>2, <1>1, EndedFacts
  <2> QED BY <1>6, <2>1, <2>2 DEF LeaveRight
<1>7. CASE DefaultRight(c, b)
  <2>1. PICK to : /\ b[1] = "default" /\ LeadsOut(c, to)
                  /\ c[b] = Ended(Ended(EmptyBlock, Unreachable), Br(to))
    BY <1>7 DEF DefaultRight
  <2>2. LET terms == c[b].terms
        IN  /\ terms # <<>> /\ 1 \in DOMAIN terms /\ Head(terms) = terms[1] /\ terms[1] = Unreachable /\ terms[2] = Br(to)
            /\ \A i \in DOMAIN terms : i = 1 \/ i = 2
    BY <2>1, EndedTwiceFacts
  <2>3. Successors(Unreachable) = {}
    BY DEF Successors, Unreachable
  <2>4. Successors(Br(to)) \subseteq DOMAIN c
    BY <2>1, <1>2
  <2> HIDE DEF Right
  <2>5. \A i \in DOMAIN c[b].terms : Successors(c[b].terms[i]) \subseteq DOMAIN c
    <3> SUFFICES ASSUME NEW i \in DOMAIN c[b].terms
                 PROVE  Successors(c[b].terms[i]) \subseteq DOMAIN c
      OBVIOUS
    <3>1. CASE i = 1
      BY <2>2, <2>3, <3>1
    <3>2. CASE i = 2
      BY <2>2, <2>4, <3>2
    <3> QED BY <2>2, <3>1, <3>2
  <2> QED BY <2>1, <2>2, <2>5 DEF Right
<1>8. Right(c[b].terms)
  BY <1>3, <1>4, <1>5, <1>6, <1>7 DEF BlockRight
<1> QED BY <1>8

(* The cases that a condition vector jumps to.                             *)
Hits(cases, v) == {i \in DOMAIN cases : v \in cases[i].labels}

(* Every condition vector of a switch has the label of exactly one case.   *)
LEMMA OneCasePerVector ==
  ASSUME NEW k \in DepthsInUse, NEW n \in Nodes, Depth[n] + k <= Levels,
         NEW v \in SUBSET DOMAIN PreOrder[k][n]
  PROVE  \E one \in DOMAIN Paths[k][n] : Hits(SubtreeCases[k][n], v) = {one}
<1> DEFINE cases == SubtreeCases[k][n]
           paths == Paths[k][n]
           order == PreOrder[k][n]
<1>1. PICK one \in DOMAIN paths : \A j \in DOMAIN paths :
        v \in CaseValues(paths[j], order) <=> j = one
  BY DepthsInUseRange, OnePathPerVector
<1>2. /\ DOMAIN cases = DOMAIN paths
      /\ \A i \in DOMAIN cases : cases[i].labels = CaseValues(paths[i], order)
  BY CasesOfPaths
<1> HIDE DEF cases, paths, order
<1>3. Hits(cases, v) = {one}
  BY <1>1, <1>2 DEF Hits
<1> QED BY <1>1, <1>3 DEF cases, paths

(* The fields of the terminators.                                          *)
LEMMA TerminatorFields ==
  /\ \A to : Br(to).op = "br" /\ Br(to).to = to
  /\ \A n, right, left : LET t == CondBr(n, right, left)
                         IN  t.op = "condbr" /\ t.node = n /\ t.right = right /\ t.left = left
  /\ Unreachable.op = "unreachable" /\ Ret.op = "ret"
BY DEF Br, CondBr, Unreachable, Ret

(* The fields of the switch over a subtree's condition vectors.            *)
LEMMA SwitchFields ==
  ASSUME NEW n, NEW k
  PROVE  LET t == SubtreeSwitch(n, k)
         IN  /\ t.op = "switch" /\ t.default = Block("default", n)
             /\ t.order = PreOrder[k][n] /\ t.cases = SubtreeCases[k][n]
BY DEF SubtreeSwitch, Switch

(* The terminator that is executed at the end of a complete block, by what *)
(* the block is for.                                                       *)
LEMMA FirstTerminator ==
  ASSUME NEW c, NEW b, BlockRight(c, b)
  PROVE  LET op == Head(c[b].terms).op
         IN  /\ op = "condbr" => BranchRight(c, b)
             /\ op = "switch" => SwitchRight(c, b)
             /\ op = "br" => StoreRight(c, b) \/ (b[1] \in {"merge", "return"} /\ LeaveRight(c, b))
             /\ op = "ret" => b[1] = "exit"
<1> DEFINE op == Head(c[b].terms).op
<1>1. BranchRight(c, b) => op = "condbr"
  BY EndedFacts, TerminatorFields DEF BranchRight
<1>2. SwitchRight(c, b) => op = "switch"
  <2> SUFFICES ASSUME NEW k, SwitchOver(c, b, Subject(b), k) PROVE op = "switch"
    BY Zenon DEF SwitchRight
  <2>1. c[b] = Ended(EmptyBlock, SubtreeSwitch(Subject(b), k))
    BY DEF SwitchOver
  <2>2. SubtreeSwitch(Subject(b), k).op = "switch"
    BY SwitchFields
  <2> QED BY <2>1, <2>2, EndedFacts
<1>3. StoreRight(c, b) => op = "br"
  <2> SUFFICES ASSUME NEW val, NEW to, c[b] = Ended(Storing(EmptyBlock, val), Br(to))
               PROVE  op = "br"
    BY Zenon DEF StoreRight
  <2> QED BY StoredFacts, TerminatorFields
<1>4. LeaveRight(c, b) => \/ op = "br" /\ b[1] \in {"merge", "return"}
                          \/ op = "ret" /\ b[1] = "exit"
  <2>1. ASSUME b[1] \in {"merge", "return"}, NEW to, c[b] = Ended(EmptyBlock, Br(to))
        PROVE  op = "br"
    BY <2>1, EndedFacts, TerminatorFields
  <2>2. ASSUME c[b] = Ended(EmptyBlock, Ret) PROVE op = "ret"
    BY <2>2, EndedFacts, TerminatorFields
  <2> QED BY <2>1, <2>2 DEF LeaveRight
<1>5. DefaultRight(c, b) => op = "unreachable"
  <2> SUFFICES ASSUME NEW to, c[b] = Ended(Ended(EmptyBlock, Unreachable), Br(to))
               PROVE  op = "unreachable"
    BY Zenon DEF DefaultRight
  <2> QED BY EndedTwiceFacts, TerminatorFields
<1> HIDE DEF op
<1>6. /\ op = "condbr" => BranchRight(c, b)
      /\ op = "switch" => SwitchRight(c, b)
      /\ op = "br" => StoreRight(c, b) \/ (b[1] \in {"merge", "return"} /\ LeaveRight(c, b))
      /\ op = "ret" => b[1] = "exit"
  BY <1>1, <1>2, <1>3, <1>4, <1>5 DEF BlockRight
<1> QED BY <1>6 DEF op

(* No case label of a switch is missing or given twice, at any time.       *)
THEOREM SwitchesAreTotal == EvaluatorSpec => []SwitchesTotal
<1>1. CompilerInv => SwitchesTotal
  <2> SUFFICES ASSUME CompilerInv, NEW b \in DOMAIN code, code[b].terms # <<>>,
                      Head(code[b].terms).op = "switch",
                      NEW v \in SUBSET DOMAIN Head(code[b].terms).order
               PROVE  LET t == Head(code[b].terms)
                      IN  Cardinality({i \in DOMAIN t.cases : v \in t.cases[i].labels}) = 1
    BY DEF SwitchesTotal
  <2> DEFINE n == Subject(b)
             t(k) == SubtreeSwitch(n, k)
  <2>1. EmptyBlock.terms = <<>>
    BY DEF EmptyBlock
  <2>2. BlockRight(code, b)
    BY <2>1 DEF CompilerInv, CodeRight
  <2>3. SwitchRight(code, b)
    BY <2>2, FirstTerminator
  <2>4. PICK k \in DepthsInUse : n \in Nodes /\ SwitchOver(code, b, n, k)
    BY <2>3, Zenon DEF SwitchRight
  <2>5. Depth[n] + k <= Levels /\ code[b] = Ended(EmptyBlock, t(k))
    BY <2>4 DEF SwitchOver
  <2>6. t(k).order = PreOrder[k][n] /\ t(k).cases = SubtreeCases[k][n]
    BY SwitchFields
  <2> HIDE DEF t, n
  <2>7. Head(code[b].terms) = t(k)
    BY <2>5, EndedFacts
  <2>8. PICK one \in DOMAIN Paths[k][n] : Hits(SubtreeCases[k][n], v) = {one}
    <3>1. v \in SUBSET DOMAIN PreOrder[k][n]
      BY <2>6, <2>7
    <3>2. n \in Nodes /\ Depth[n] + k <= Levels
      BY <2>4, <2>5
    <3> QED BY <3>1, <3>2, OneCasePerVector
  <2>9. Cardinality({one}) = 1
    BY FS_Singleton
  <2> QED BY <2>6, <2>7, <2>8, <2>9, Zenon DEF Hits
<1> QED BY <1>1, CompilerInvariant, PTL

(* The function that is returned can be executed, block by block.          *)
THEOREM CodeIsExecutable == EvaluatorSpec => []Executable
<1>1. CompilerInv => Executable
  <2> SUFFICES ASSUME CompilerInv, result # None, NEW b \in DOMAIN result.code
               PROVE  /\ result.code[b].terms # <<>>
                      /\ b[1] # "default" => Len(result.code[b].terms) = 1
                      /\ Successors(Head(result.code[b].terms)) \subseteq DOMAIN result.code
    BY DEF Executable
  <2>1. BlockRight(result.code, b)
    BY DEF CompilerInv, ResultRight
  <2>2. /\ result.code[b].terms # <<>>
        /\ 1 \in DOMAIN result.code[b].terms
        /\ Head(result.code[b].terms) = result.code[b].terms[1]
        /\ b[1] # "default" => Len(result.code[b].terms) = 1
        /\ \A i \in DOMAIN result.code[b].terms :
             Successors(result.code[b].terms[i]) \subseteq DOMAIN result.code
    BY <2>1, TerminatorsRight
  <2> QED BY <2>2
<1> QED BY <1>1, CompilerInvariant, PTL

-----------------------------------------------------------------------------
(* Calls of the compiled function. A call in progress is of the last       *)
(* function compiled, the compiler rests, and what is stored is a node.    *)
CallRight ==
  /\ request \in DataSets \cup {None} /\ out \in Nodes /\ answer \in Nodes \cup {None}
  /\ request # None => result # None /\ phase = "idle" /\ at \in DOMAIN result.code

EvaluatorInv == CompilerInv /\ CallRight /\ OnCourse

(* What a call in progress executes is a complete block of the function.   *)
LEMMA BlockExecuted ==
  ASSUME EvaluatorInv, request # None
  PROVE  /\ at \in DOMAIN result.code /\ at \in Blocks /\ BlockRight(result.code, at)
         /\ request \in DataSets /\ out \in Nodes
BY DEF EvaluatorInv, CompilerInv, ResultRight, CallRight

(* It goes on in a block that evaluates a node still on course, or in one  *)
(* on the way out with the result stored.                                  *)
Continues ==
  /\ at' \in DOMAIN result.code
  /\ \/ /\ at'[1] \in EvalKinds /\ Walk(request)[Subject(at')] = Evaluate(request)
        /\ out' = out
     \/ at'[1] \in WayOut /\ out' = Evaluate(request) /\ out' \in Nodes

(* A step to such a block keeps the invariant.                             *)
LEMMA ContinuesKeeps ==
  ASSUME EvaluatorInv, request # None, Continues, UNCHANGED <<compilerVars, request, answer>>
  PROVE  EvaluatorInv'
<1>1. UNCHANGED <<selector, phase, remaining, codegen, roots, next, code, result>>
  BY DEF compilerVars
<1>2. CompilerInv'
  BY CompilerAtRest DEF EvaluatorInv, Call, ExecuteRet
<1>3. CallRight'
  BY <1>1 DEF EvaluatorInv, CallRight, Continues
<1>4. OnCourse'
  BY DEF OnCourse, Continues, EvalKinds, WayOut, Evaluate
<1> QED BY <1>2, <1>3, <1>4 DEF EvaluatorInv

(* What is stored for a node is the result of data sets that come by it.   *)
LEMMA StoredRight ==
  ASSUME NEW n \in Nodes, NEW val, Yields(n, val)
  PROVE  val # None /\ Stored(val) \in Nodes /\ Stored(val) = Walk(request)[n]
<1>1. CASE IsImplicit(n) /\ val = ConstVal(n)
  <2>1. val # None
    BY <1>1, StoreAssumption
  <2>2. Stored(val) = n
    BY <1>1 DEF Stored, ConstVal
  <2>3. Walk(request)[n] = n
    BY <1>1, WalkStep
  <2> QED BY <2>1, <2>2, <2>3
<1>2. ASSUME NEW k \in DepthsInUse, Depth[n] + k = Levels, val = SubtreeTable[k][n]
      PROVE  val # None /\ Stored(val) \in Nodes /\ Stored(val) = Walk(request)[n]
  <2>1. val # None
    BY <1>2, StoreAssumption
  <2>2. val.op = "table"
    BY <1>2 DEF SubtreeTable, TableVal
  <2>3. Stored(val) = val.data[ConditionVector(request, val.order)]
    BY <2>2 DEF Stored
  <2> QED BY <1>2, <2>1, <2>3, TableSteers
<1> QED BY <1>1, <1>2 DEF Yields

(* A branch out of a block stores the result, or keeps it.                 *)
LEMMA ExecuteBrKeeps ==
  ASSUME EvaluatorInv, ExecuteBr
  PROVE  EvaluatorInv'
<1> DEFINE c == result.code
<1>1. /\ request # None /\ Terminator.op = "br" /\ at' = Terminator.to /\ Store
      /\ UNCHANGED <<compilerVars, request, answer>>
  BY DEF ExecuteBr, Executing
<1>2. at \in DOMAIN c /\ BlockRight(c, at) /\ out \in Nodes
  BY <1>1, BlockExecuted
<1>3. StoreRight(c, at) \/ (at[1] \in {"merge", "return"} /\ LeaveRight(c, at))
  BY <1>1, <1>2, FirstTerminator DEF Terminator
<1>4. CASE StoreRight(c, at)
  <2> DEFINE n == Subject(at)
  <2>1. at[1] \in EvalKinds /\ n \in Nodes
    BY <1>4 DEF StoreRight
  <2>2. PICK val, to : /\ Yields(n, val) /\ LeadsOut(c, to)
                       /\ c[at] = Ended(Storing(EmptyBlock, val), Br(to))
    BY <1>4, Zenon DEF StoreRight
  <2>3. Terminator = Br(to) /\ c[at].store = val
    BY <2>2, StoredFacts DEF Terminator
  <2>4. at' = to
    BY <1>1, <2>3, TerminatorFields
  <2>5. Walk(request)[n] = Evaluate(request)
    BY <1>1, <2>1 DEF EvaluatorInv, OnCourse
  <2>6. out' = Stored(val) /\ Stored(val) \in Nodes /\ Stored(val) = Walk(request)[n]
    BY <1>1, <2>1, <2>2, <2>3, StoredRight DEF Store
  <2>7. Continues
    BY <2>2, <2>4, <2>5, <2>6 DEF Continues, LeadsOut
  <2> QED BY <1>1, <2>7, ContinuesKeeps
<1>5. CASE at[1] \in {"merge", "return"} /\ LeaveRight(c, at)
  <2>1. PICK to : LeadsOut(c, to) /\ c[at] = Ended(EmptyBlock, Br(to))
    BY <1>5 DEF LeaveRight
  <2>2. Terminator = Br(to) /\ c[at].store = None
    BY <2>1, EndedFacts DEF Terminator
  <2>3. at' = to /\ out' = out
    BY <1>1, <2>2, TerminatorFields DEF Store
  <2>4. out = Evaluate(request)
    BY <1>1, <1>5 DEF EvaluatorInv, OnCourse, EvalKinds
  <2>5. Continues
    BY <1>2, <2>1, <2>3, <2>4 DEF Continues, LeadsOut
  <2> QED BY <1>1, <2>5, ContinuesKeeps
<1> QED BY <1>3, <1>4, <1>5

(* A conditional branch goes to the child that the node's outcome selects. *)
LEMMA ExecuteCondBrKeeps ==
  ASSUME EvaluatorInv, ExecuteCondBr
  PROVE  EvaluatorInv'
<1> DEFINE c == result.code
           n == Subject(at)
           left == Block("left", n)
           right == Block("right", n)
           t == CondBr(n, right, left)
<1>1. /\ request # None /\ Terminator.op = "condbr" /\ Store
      /\ at' = IF GoesRight(Terminator.node, request) THEN Terminator.right ELSE Terminator.left
      /\ UNCHANGED <<compilerVars, request, answer>>
  BY DEF ExecuteCondBr, Executing
<1>2. at \in DOMAIN c /\ BlockRight(c, at)
  BY <1>1, BlockExecuted
<1>3. BranchRight(c, at)
  BY <1>1, <1>2, FirstTerminator DEF Terminator
<1>4. /\ at[1] \in EvalKinds /\ n \in Nodes /\ ~IsImplicit(n)
      /\ left \in DOMAIN c /\ right \in DOMAIN c /\ c[at] = Ended(EmptyBlock, t)
  BY <1>3, Zenon DEF BranchRight
<1>5. /\ left[1] = "left" /\ Subject(left) = Child(n, FALSE)
      /\ right[1] = "right" /\ Subject(right) = Child(n, TRUE)
  BY BlockFacts DEF Child
<1>6. t.node = n /\ t.right = right /\ t.left = left
  BY DEF CondBr
<1>7. Walk(request)[n] = Evaluate(request)
  BY <1>1, <1>4 DEF EvaluatorInv, OnCourse
<1>8. Walk(request)[Child(n, GoesRight(n, request))] = Walk(request)[n]
  BY <1>4, WalkStep
<1> HIDE DEF left, right, t, n
<1>9. Terminator = t /\ c[at].store = None
  BY <1>4, EndedFacts DEF Terminator
<1>10. out' = out
  BY <1>1, <1>9 DEF Store
<1>11. Walk(request)[Subject(at')] = Evaluate(request)
  <2>1. CASE GoesRight(n, request)
    <3>1. at' = right /\ Child(n, GoesRight(n, request)) = Child(n, TRUE)
      BY <1>1, <1>6, <1>9, <2>1 DEF Child
    <3> QED BY <3>1, <1>5, <1>7, <1>8
  <2>2. CASE ~GoesRight(n, request)
    <3>1. at' = left /\ Child(n, GoesRight(n, request)) = Child(n, FALSE)
      BY <1>1, <1>6, <1>9, <2>2 DEF Child
    <3> QED BY <3>1, <1>5, <1>7, <1>8
  <2> QED BY <2>1, <2>2
<1>12. at' \in {left, right}
  BY <1>1, <1>6, <1>9
<1>13. Continues
  BY <1>4, <1>5, <1>10, <1>11, <1>12 DEF Continues, EvalKinds
<1> QED BY <1>1, <1>13, ContinuesKeeps

(* A switch goes to the target of the one path that the data set takes.    *)
LEMMA ExecuteSwitchKeeps ==
  ASSUME EvaluatorInv, ExecuteSwitch
  PROVE  EvaluatorInv'
<1> DEFINE c == result.code
           n == Subject(at)
           t == Terminator
           vector == ConditionVector(request, t.order)
           hits == {i \in DOMAIN t.cases : vector \in t.cases[i].labels}
<1>1. /\ request # None /\ t.op = "switch" /\ Store
      /\ IF hits = {} THEN at' = t.default ELSE \E i \in hits : at' = t.cases[i].target
      /\ UNCHANGED <<compilerVars, request, answer>>
  BY DEF ExecuteSwitch, Executing
<1>2. at \in DOMAIN c /\ BlockRight(c, at) /\ out \in Nodes
  BY <1>1, BlockExecuted
<1>3. SwitchRight(c, at)
  BY <1>1, <1>2, FirstTerminator DEF Terminator
<1>4. at[1] \in EvalKinds /\ n \in Nodes
  BY <1>3 DEF SwitchRight
<1>5. PICK k \in DepthsInUse : SwitchOver(c, at, n, k)
  BY <1>3, Zenon DEF SwitchRight
<1>6. /\ Depth[n] + k <= Levels
      /\ \A i \in DOMAIN Paths[k][n] : Block("target", Paths[k][n][i].dest) \in DOMAIN c
      /\ c[at] = Ended(EmptyBlock, SubtreeSwitch(n, k))
  BY <1>5, Zenon DEF SwitchOver
<1>7. Walk(request)[n] = Evaluate(request)
  BY <1>1, <1>4 DEF EvaluatorInv, OnCourse
<1>8. t = SubtreeSwitch(n, k) /\ c[at].store = None
  BY <1>6, EndedFacts DEF Terminator
<1>9. t.order = PreOrder[k][n] /\ t.cases = SubtreeCases[k][n]
  BY <1>8, SwitchFields
<1>10. out' = out
  BY <1>1, <1>8 DEF Store
<1>11. PICK one \in DOMAIN Paths[k][n] : hits = {one}
  <2>1. vector \in SUBSET DOMAIN PreOrder[k][n]
    BY <1>9 DEF ConditionVector
  <2>2. Hits(t.cases, vector) = hits
    BY Zenon DEF Hits
  <2>3. n \in Nodes /\ Depth[n] + k <= Levels
    BY <1>4, <1>6
  <2> HIDE DEF t, vector, hits, n
  <2>4. \E one \in DOMAIN Paths[k][n] : Hits(SubtreeCases[k][n], vector) = {one}
    BY <2>1, <2>3, OneCasePerVector
  <2> QED BY <1>9, <2>2, <2>4
<1> DEFINE path == Paths[k][n][one]
<1>12. /\ DOMAIN t.cases = DOMAIN Paths[k][n]
       /\ t.cases[one].labels = CaseValues(path, PreOrder[k][n])
       /\ t.cases[one].target = Block("target", path.dest)
  BY <1>4, <1>9, CasesOfPaths
<1>13. Walk(request)[path.dest] = Walk(request)[n]
  <2>1. vector \in t.cases[one].labels
    BY <1>11
  <2>2. ConditionVector(request, PreOrder[k][n]) \in CaseValues(path, PreOrder[k][n])
    BY <1>9, <1>12, <2>1
  <2> QED BY <1>4, <1>6, <2>2, DepthsInUseRange, VectorSteers
<1> HIDE DEF hits, path, t
<1>14. at' = Block("target", path.dest)
  BY <1>1, <1>11, <1>12
<1>15. at'[1] = "target" /\ Subject(at') = path.dest
  BY <1>14, BlockFacts
<1>16. at' \in DOMAIN c
  BY <1>6, <1>14 DEF path
<1>17. Continues
  BY <1>7, <1>10, <1>13, <1>15, <1>16 DEF Continues, EvalKinds
<1> QED BY <1>1, <1>17, ContinuesKeeps

(* A call starts at the root, where every walk starts.                     *)
LEMMA CallKeeps ==
  ASSUME EvaluatorInv, Call
  PROVE  EvaluatorInv'
<1>1. PICK ds \in DataSets :
        /\ phase = "idle" /\ result # None
        /\ request' = ds /\ at' = Entry /\ out' = 0 /\ answer' = None
        /\ UNCHANGED <<selector, phase, remaining, codegen, roots, next, code, result>>
  BY DEF Call, Idle, compilerVars
<1>2. CompilerInv'
  BY CompilerAtRest DEF EvaluatorInv, Call, ExecuteRet
<1>3. Entry \in DOMAIN result.code
  BY <1>1 DEF EvaluatorInv, CompilerInv, ResultRight
<1>4. 0 \in Nodes /\ Root = 0
  BY TreeAssumption DEF IsPerfect, Root
<1>5. CallRight'
  BY <1>1, <1>3, <1>4 DEF CallRight
<1>6. Entry[1] = "entry" /\ Subject(Entry) = Root
  BY BlockFacts DEF Entry
<1>7. OnCourse'
  BY <1>1, <1>6 DEF OnCourse, EvalKinds, Evaluate
<1> QED BY <1>2, <1>5, <1>7 DEF EvaluatorInv

(* A call that returns answers with a node.                                *)
LEMMA ExecuteRetKeeps ==
  ASSUME EvaluatorInv, ExecuteRet
  PROVE  EvaluatorInv' /\ answer' = Evaluate(request)
<1>1. /\ request # None /\ Terminator.op = "ret" /\ answer' = out /\ request' = None
      /\ UNCHANGED <<selector, phase, remaining, codegen, roots, next, code, result, at, out>>
  BY DEF ExecuteRet, Executing, compilerVars
<1>2. CompilerInv'
  BY CompilerAtRest DEF EvaluatorInv, Call, ExecuteRet
<1>3. CallRight' /\ OnCourse'
  BY <1>1 DEF EvaluatorInv, CallRight, OnCourse
<1>4. BlockRight(result.code, at)
  BY <1>1, BlockExecuted
<1>5. at[1] = "exit"
  BY <1>1, <1>4, FirstTerminator DEF Terminator
<1>6. answer' = Evaluate(request)
  BY <1>1, <1>5 DEF EvaluatorInv, OnCourse, EvalKinds
<1> QED BY <1>2, <1>3, <1>6 DEF EvaluatorInv

(* Compiling and calling, in any order, keep the invariant of both.        *)
LEMMA EvaluatorStepKeeps ==
  ASSUME EvaluatorInv, [EvaluatorNext]_vars
  PROVE  EvaluatorInv'
<1>1. CASE CompilerStep
  <2>1. request = None /\ UNCHANGED <<request, at, out, answer>>
    BY <1>1 DEF CompilerStep, functionVars
  <2>2. CallRight' /\ OnCourse'
    BY <2>1 DEF EvaluatorInv, CallRight, OnCourse
  <2>3. CompilerInv'
    BY CompilerStepKeeps DEF EvaluatorInv
  <2> QED BY <2>2, <2>3 DEF EvaluatorInv
<1>2. CASE Call
  BY <1>2, CallKeeps
<1>3. CASE ExecuteBr
  BY <1>3, ExecuteBrKeeps
<1>4. CASE ExecuteCondBr
  BY <1>4, ExecuteCondBrKeeps
<1>5. CASE ExecuteSwitch
  BY <1>5, ExecuteSwitchKeeps
<1>6. CASE ExecuteRet
  BY <1>6, ExecuteRetKeeps
<1>7. CASE UNCHANGED vars
  <2>1. CompilerInv'
    BY <1>7, CompilerStepKeeps DEF EvaluatorInv
  <2>2. CallRight' /\ OnCourse'
    BY <1>7 DEF vars, EvaluatorInv, CallRight, OnCourse, Evaluate
  <2> QED BY <2>1, <2>2 DEF EvaluatorInv
<1> QED BY <1>1, <1>2, <1>3, <1>4, <1>5, <1>6, <1>7 DEF EvaluatorNext, Execute

(* The compiler's invariant and the function's, of every behaviour.        *)
THEOREM EvaluatorInvariant == EvaluatorSpec => []EvaluatorInv
<1>1. EvaluatorInit => CallRight /\ OnCourse
  BY TreeAssumption DEF EvaluatorInit, FunctionInit, CallRight, OnCourse, IsPerfect, Root
<1>2. EvaluatorInit /\ CompilerInv => EvaluatorInv
  BY <1>1 DEF EvaluatorInv
<1> QED BY <1>2, EvaluatorStepKeeps, CompilerInvariant, PTL DEF EvaluatorSpec

(* Blocks, stores and answers are what they should be; pending nodes have  *)
(* their blocks, and no branch leaves the function that is being emitted.  *)
THEOREM FunctionTypeCorrect == EvaluatorSpec => []FunctionTypeOK
<1>1. EvaluatorInv => FunctionTypeOK
  <2> SUFFICES ASSUME EvaluatorInv PROVE FunctionTypeOK
    OBVIOUS
  <2>1. CompilerInv
    BY DEF EvaluatorInv
  <2>2. /\ selector \in Selectors \cup {DefaultSelector, None}
        /\ phase \in {"idle", "select", "nested", "leaf", "aborted"}
        /\ remaining \in 0..255
        /\ codegen \in Generators \cup {None}
    <3>1. remaining \in 0..Levels /\ Levels \in 1..255
      BY <2>1, TreeAssumption DEF CompilerInv, Progress, IsPerfect
    <3>2. remaining \in 0..255
      BY <3>1
    <3> QED BY <2>1, <3>2 DEF CompilerInv, Progress
  <2>3. roots \in Seq(NodeInfos) /\ next \in Seq(NodeInfos)
    BY <2>1 DEF CompilerInv, PendingRight
  <2>4. ASSUME NEW node \in Pending PROVE {node.eval, node.cont} \subseteq DOMAIN code
    <3>1. NodeRight(code, node)
      BY <2>1, <2>4 DEF Pending, CompilerInv, PendingRight
    <3> QED BY <3>1 DEF NodeRight, LeadsOut
  <2>5. ASSUME NEW b \in DOMAIN code, NEW i \in DOMAIN code[b].terms
        PROVE  Successors(code[b].terms[i]) \subseteq DOMAIN code
    <3>1. CASE BlockRight(code, b)
      BY <3>1, <2>5, TerminatorsRight
    <3>2. CASE code[b] = EmptyBlock
      BY <3>2, <2>5 DEF EmptyBlock
    <3> QED BY <2>1, <3>1, <3>2 DEF CompilerInv, CodeRight
  <2>6. result # None => result.success \in BOOLEAN
    BY <2>1 DEF CompilerInv, ResultRight
  <2>7. TypeOK
    BY <2>2, <2>3, <2>4, <2>5, <2>6, Zenon DEF TypeOK
  <2> QED BY <2>7 DEF EvaluatorInv, CallRight, FunctionTypeOK
<1> QED BY <1>1, EvaluatorInvariant, PTL

(* Whatever generators the tree was compiled with, a call stays on its     *)
(* data set's way to the tree's result, and takes it out.                  *)
THEOREM FunctionStaysOnCourse == EvaluatorSpec => []OnCourse
<1>1. EvaluatorInv => OnCourse
  BY DEF EvaluatorInv
<1> QED BY <1>1, EvaluatorInvariant, PTL

(* The tree Evaluation speaks of is the compiler's.                        *)
LEMMA SameEvaluate ==
  ASSUME NEW ds
  PROVE  Promise!Evaluate(ds) = Evaluate(ds)
BY DEF Evaluate, Walk, Nodes, Root, IsImplicit, Child, GoesRight, Greater,
  Promise!Evaluate, Promise!Walk, Promise!Nodes, Promise!Root,
  Promise!IsImplicit, Promise!Child, Promise!GoesRight, Promise!Greater

(* Compiled code implements Evaluation, as the interpreter does: compiling *)
(* and executing a block are stutters of it, and the return is Return.     *)
THEOREM CompiledCodeImplementsEvaluation == EvaluatorSpec => AnswersRight
<1>1. EvaluatorInit => Promise!Init
  BY DEF EvaluatorInit, FunctionInit, Promise!Init
<1>2. EvaluatorInv /\ [EvaluatorNext]_vars => [Promise!Next]_(Promise!evaluation)
  <2> SUFFICES ASSUME EvaluatorInv, [EvaluatorNext]_vars
               PROVE  [Promise!Next]_(Promise!evaluation)
    OBVIOUS
  <2> USE DEF Promise!Next, Promise!evaluation
  <2>1. CASE CompilerStep
    BY <2>1 DEF CompilerStep, functionVars
  <2>2. CASE Call
    BY <2>2 DEF Call, Promise!Call
  <2>3. CASE ExecuteBr \/ ExecuteCondBr \/ ExecuteSwitch
    BY <2>3 DEF ExecuteBr, ExecuteCondBr, ExecuteSwitch
  <2>4. CASE ExecuteRet
    BY <2>4, ExecuteRetKeeps, SameEvaluate DEF ExecuteRet, Executing, Promise!Return
  <2>5. CASE UNCHANGED vars
    BY <2>5 DEF vars
  <2> QED BY <2>1, <2>2, <2>3, <2>4, <2>5 DEF EvaluatorNext, Execute
<1> QED BY <1>1, <1>2, EvaluatorInvariant, PTL DEF EvaluatorSpec, AnswersRight, Promise!Safety

-----------------------------------------------------------------------------
(* The frontier of compilation. The nodes that a data set visits are those *)
(* above its result.                                                       *)
LEMMA VisitedNodes ==
  ASSUME NEW ds \in DataSets
  PROVE  Visited[ds] = OnTrail(Root, ds)
<1> DEFINE Unfold(w) == [n \in Nodes |->
             {n} \cup IF IsImplicit(n) THEN {} ELSE w[Child(n, GoesRight(n, ds))]]
           trail == CHOOSE w : w = Unfold(w)
           witness == [n \in Nodes |-> OnTrail(n, ds)]
<1>1. witness = Unfold(witness)
  <2>1. ASSUME NEW n \in Nodes
        PROVE  witness[n] = {n} \cup IF IsImplicit(n) THEN {} ELSE witness[Child(n, GoesRight(n, ds))]
    BY OnTrailStep, ChildLevel
  <2> HIDE DEF witness
  <2>2. witness = [n \in Nodes |-> witness[n]]
    BY DEF witness
  <2> QED BY <2>1, <2>2
<1>2. Visited[ds] = trail[Root]
  BY DEF Visited
<1> HIDE DEF Unfold, witness
<1>3. trail = Unfold(trail)
  BY <1>1
<1> HIDE DEF trail
<1>4. \A n \in Nodes : trail[n] = OnTrail(n, ds)
  BY <1>3, TrailCollected DEF Unfold
<1> QED BY <1>2, <1>4, TreeAssumption DEF IsPerfect

(* Of every level, a data set visits one node.                            *)
LEMMA OneOnTrail ==
  ASSUME NEW ds \in DataSets, NEW m \in Visited[ds], NEW n \in Visited[ds], Depth[m] = Depth[n]
  PROVE  m = n
<1>1. Root \in Nodes
  BY TreeAssumption DEF IsPerfect
<1>2. m \in OnTrail(Root, ds) /\ n \in OnTrail(Root, ds)
  BY VisitedNodes
<1>3. m \in Nodes /\ n \in Nodes /\ Walk(ds)[Root] \in Below(m) \cap Below(n)
  BY <1>1, <1>2, BelowClosed DEF OnTrail
<1> QED BY <1>3, BelowDisjoint

(* A node below a pending one is visited if the walk from there leads to   *)
(* the same result; and only if the pending one is visited.                *)
LEMMA VisitedBelow ==
  ASSUME NEW ds \in DataSets, NEW n \in Below(Root), NEW m \in Below(n)
  PROVE  /\ m \in Visited[ds] => n \in Visited[ds]
         /\ n \in Visited[ds] /\ Walk(ds)[m] = Walk(ds)[n] => m \in Visited[ds]
<1>1. Root \in Nodes
  BY TreeAssumption DEF IsPerfect
<1>2. n \in Nodes /\ m \in Nodes /\ m \in Below(Root) /\ Below(m) \subseteq Below(n)
  BY <1>1, BelowClosed, BelowTransitive
<1>3. /\ m \in Visited[ds] <=> Walk(ds)[Root] \in Below(m)
      /\ n \in Visited[ds] <=> Walk(ds)[Root] \in Below(n)
  BY <1>2, VisitedNodes DEF OnTrail
<1>4. n \in Visited[ds] => Walk(ds)[n] = Walk(ds)[Root]
  BY <1>1, VisitedNodes, OnTrailWalk
<1>5. Walk(ds)[m] \in Below(m)
  BY <1>2, WalkEnds
<1> QED BY <1>2, <1>3, <1>4, <1>5

(* The pending nodes and the finished blocks on a data set's way; and what *)
(* is true of the frontier between them: every data set is at one of them. *)
PendingOn(ds) == {node \in Pending : node.index \in Visited[ds]}

FinishedOn(ds) ==
  {b \in DOMAIN code : /\ b[1] \in EvalKinds
                       /\ code[b].store # None
                       /\ Subject(b) \in Visited[ds]}

OneTurn(ds) ==
  \/ (\E node : PendingOn(ds) = {node}) /\ FinishedOn(ds) = {}
  \/ (\E b : FinishedOn(ds) = {b}) /\ PendingOn(ds) = {}

ResultsDue == phase = "leaf" \/ (phase = "select" /\ remaining = 0)

FrontierRight ==
  phase \in {"select", "nested", "leaf"} =>
    /\ \A node \in Pending : node.index \in Below(Root)
    /\ ~ResultsDue => NothingStored(code)
    /\ \A ds \in DataSets : OneTurn(ds)

(* The first node of a list is done: the others remain.                    *)
LEMMA FirstDone ==
  ASSUME NEW s \in Seq(NodeInfos), s # <<>>,
         \A i, j \in DOMAIN s : s[i].index = s[j].index => i = j
  PROVE  LET t == Tail(s)
         IN  /\ {t[i] : i \in DOMAIN t} = {s[i] : i \in DOMAIN s} \ {Head(s)}
             /\ \A i \in DOMAIN t : t[i].index # Head(s).index
             /\ Head(s) \in {s[i] : i \in DOMAIN s}
<1> DEFINE t == Tail(s)
<1>1. /\ 1 \in DOMAIN s /\ Head(s) = s[1]
      /\ \A i \in DOMAIN t : i + 1 \in DOMAIN s /\ i + 1 # 1 /\ t[i] = s[i + 1]
      /\ \A i \in DOMAIN s : i = 1 \/ \E j \in DOMAIN t : t[j] = s[i]
  BY HeadTail
<1> HIDE DEF t
<1>2. ASSUME NEW i \in DOMAIN t
      PROVE  t[i] \in {s[j] : j \in DOMAIN s} /\ t[i].index # s[1].index
  <2>1. i + 1 \in DOMAIN s /\ i + 1 # 1 /\ t[i] = s[i + 1]
    BY <1>1
  <2>2. s[i + 1].index # s[1].index
    BY <1>1, <2>1
  <2> QED BY <2>1, <2>2
<1>3. \A i \in DOMAIN t : t[i] # s[1]
  BY <1>2
<1>4. {t[i] : i \in DOMAIN t} = {s[i] : i \in DOMAIN s} \ {Head(s)}
  BY <1>1, <1>2, <1>3
<1> QED BY <1>1, <1>2, <1>4 DEF t

(* What a concatenation holds.                                             *)
LEMMA ConcatHolds ==
  ASSUME NEW s \in Seq(NodeInfos), NEW t \in Seq(NodeInfos)
  PROVE  LET u == s \o t
         IN  {u[i] : i \in DOMAIN u} = {s[i] : i \in DOMAIN s} \cup {t[i] : i \in DOMAIN t}
<1> DEFINE u == s \o t
<1>1. /\ \A i \in DOMAIN s : i \in DOMAIN u /\ u[i] = s[i]
      /\ \A i \in DOMAIN t : Len(s) + i \in DOMAIN u /\ u[Len(s) + i] = t[i]
      /\ \A i \in DOMAIN u : \/ i \in DOMAIN s /\ u[i] = s[i]
                             \/ i - Len(s) \in DOMAIN t /\ u[i] = t[i - Len(s)]
  BY ConcatFound, ConcatElements
<1> HIDE DEF u
<1>2. ASSUME NEW i \in DOMAIN u PROVE u[i] \in {s[j] : j \in DOMAIN s} \cup {t[j] : j \in DOMAIN t}
  BY <1>1
<1>3. ASSUME NEW i \in DOMAIN t PROVE t[i] \in {u[j] : j \in DOMAIN u}
  BY <1>1
<1>4. ASSUME NEW i \in DOMAIN s PROVE s[i] \in {u[j] : j \in DOMAIN u}
  BY <1>1
<1>5. {u[i] : i \in DOMAIN u} = {s[i] : i \in DOMAIN s} \cup {t[i] : i \in DOMAIN t}
  BY <1>2, <1>3, <1>4
<1> QED BY <1>5 DEF u

(* When a generator has emitted a pending node that a data set visits, one *)
(* of the nodes that become pending takes its turn.                        *)
LEMMA EmissionMoves ==
  ASSUME CompilerInv, FrontierRight, EmitEvaluation
  PROVE  FrontierRight'
<1> DEFINE x == Head(roots)
<1>1. /\ phase = "nested" /\ roots # <<>> /\ roots' = Tail(roots) /\ phase' = "nested"
      /\ UNCHANGED <<selector, phase, remaining, codegen, result>>
  BY EmissionRight
<1>2. PICK new : /\ EmitRight(code, code', x, codegen.depth, new)
                 /\ EmitSteers(code, code', x, new)
                 /\ next' = next \o new
  BY EmissionRight
<1> DEFINE New == {new[i] : i \in DOMAIN new}
<1>3. /\ new \in Seq(NodeInfos)
      /\ \A i, j \in DOMAIN new : new[i].index = new[j].index => i = j
      /\ \A i \in DOMAIN new :
           new[i].index \in Below(x.index) /\ Depth[new[i].index] = Depth[x.index] + codegen.depth
  BY <1>2, Zenon DEF EmitRight
<1>4. /\ \A ds : \E i \in DOMAIN new : Walk(ds)[new[i].index] = Walk(ds)[x.index]
      /\ NothingStored(code) => NothingStored(code')
  BY <1>2, Zenon DEF EmitSteers
<1>5. /\ roots \in Seq(NodeInfos) /\ next \in Seq(NodeInfos)
      /\ \A i, j \in DOMAIN roots : roots[i].index = roots[j].index => i = j
      /\ \A i \in DOMAIN roots : \A j \in DOMAIN next : next[j].index \notin Below(roots[i].index)
  BY DEF CompilerInv, PendingRight, PendingApart
<1>6. x = roots[1] /\ 1 \in DOMAIN roots /\ x \in NodeInfos /\ x.index \in Nodes
  BY <1>1, FirstRoot
<1>7. x \in Pending /\ Pending' = (Pending \ {x}) \cup New
  <2>1. /\ {roots'[i] : i \in DOMAIN roots'} = {roots[i] : i \in DOMAIN roots} \ {x}
        /\ x \in {roots[i] : i \in DOMAIN roots}
    BY <1>1, <1>5, FirstDone
  <2>2. {next'[i] : i \in DOMAIN next'} = {next[i] : i \in DOMAIN next} \cup New
    <3> DEFINE u == next \o new
    <3>1. {u[i] : i \in DOMAIN u} = {next[i] : i \in DOMAIN next} \cup New
      BY <1>3, <1>5, ConcatHolds
    <3>2. next' = u
      BY <1>2
    <3> HIDE DEF u, New
    <3> QED BY <3>1, <3>2
  <2>3. x \notin {next[i] : i \in DOMAIN next}
    BY <1>5, <1>6, BelowClosed
  <2> QED BY <2>1, <2>2, <2>3 DEF Pending
<1>8. /\ \A node \in Pending : node.index \in Below(Root)
      /\ NothingStored(code) /\ \A ds \in DataSets : OneTurn(ds)
  BY <1>1 DEF FrontierRight, ResultsDue
<1>9. Root \in Nodes
  BY TreeAssumption DEF IsPerfect
<1>10. \A node \in Pending' : node.index \in Below(Root)
  <2>1. Below(x.index) \subseteq Below(Root)
    BY <1>7, <1>8, <1>9, BelowTransitive
  <2> HIDE DEF x
  <2> QED BY <1>3, <1>7, <1>8, <2>1
<1>11. NothingStored(code')
  BY <1>4, <1>8
<1>12. ASSUME NEW ds \in DataSets PROVE OneTurn(ds)'
  <2>1. \A i \in DOMAIN new : new[i].index \in Visited[ds] => x.index \in Visited[ds]
    BY <1>3, <1>7, <1>8, VisitedBelow
  <2>2. ASSUME x.index \in Visited[ds]
        PROVE  \E one \in New : \A node \in New : node.index \in Visited[ds] <=> node = one
    <3>1. PICK i \in DOMAIN new : Walk(ds)[new[i].index] = Walk(ds)[x.index]
      BY <1>4
    <3>2. new[i].index \in Visited[ds]
      BY <1>3, <1>7, <1>8, <2>2, <3>1, VisitedBelow
    <3>3. ASSUME NEW j \in DOMAIN new, new[j].index \in Visited[ds] PROVE j = i
      <4>1. Depth[new[j].index] = Depth[new[i].index]
        BY <1>3
      <4> QED BY <1>3, <3>2, <3>3, <4>1, OneOnTrail
    <3> QED BY <3>2, <3>3
  <2>3. PICK node : {y \in Pending : y.index \in Visited[ds]} = {node}
    <3>1. FinishedOn(ds) = {}
      BY <1>8 DEF FinishedOn, NothingStored
    <3> QED BY <1>8, <3>1 DEF OneTurn, PendingOn
  <2> DEFINE V == Visited[ds]
  <2>4. \E one : {y \in Pending' : y.index \in V} = {one}
    <3>1. /\ \A y \in New : y.index \in V => x.index \in V
          /\ x.index \in V => \E one \in New : \A y \in New : y.index \in V <=> y = one
      BY <2>1, <2>2
    <3> HIDE DEF V, New, x
    <3>2. CASE x.index \in V
      <4>1. node = x
        BY <1>7, <2>3, <3>2 DEF V
      <4>2. PICK one \in New : \A y \in New : y.index \in V <=> y = one
        BY <3>1, <3>2
      <4> QED BY <1>7, <2>3, <4>1, <4>2 DEF V
    <3>3. CASE x.index \notin V
      BY <1>7, <2>3, <3>1, <3>3 DEF V
    <3> QED BY <3>2, <3>3
  <2>5. FinishedOn(ds)' = {}
    <3>1. \A b \in DOMAIN code' : code'[b].store = None
      BY <1>11, Zenon DEF NothingStored
    <3> QED BY <3>1, Zenon DEF FinishedOn
  <2>6. PendingOn(ds)' = {y \in Pending' : y.index \in V}
    BY DEF PendingOn
  <2> QED BY <2>4, <2>5, <2>6 DEF OneTurn
<1> QED BY <1>1, <1>10, <1>11, <1>12 DEF FrontierRight

(* When the result of a pending node is stored, its block takes the turn.  *)
LEMMA StoreMoves ==
  ASSUME FrontierRight, phase \in {"select", "leaf"}, ResultsDue,
         UNCHANGED <<phase, remaining>>,
         NEW x \in Pending, NodeRight(code, x), Pending' = Pending \ {x},
         NEW val, val # None, Kept(code, code', x.eval), code'[x.eval].store = val
  PROVE  FrontierRight'
<1>1. /\ \A node \in Pending : node.index \in Below(Root)
      /\ \A ds \in DataSets : OneTurn(ds)
  BY DEF FrontierRight
<1>2. /\ x.eval \in DOMAIN code /\ x.eval[1] \in EvalKinds /\ Subject(x.eval) = x.index
      /\ code[x.eval].store = None
  BY DEF NodeRight, EmptyBlock
<1>3. /\ DOMAIN code' = DOMAIN code
      /\ \A b \in DOMAIN code : b # x.eval => code'[b] = code[b]
  BY DEF Kept
<1>4. ASSUME NEW ds \in DataSets PROVE OneTurn(ds)'
  <2> DEFINE V == Visited[ds]
             P == {node \in Pending : node.index \in V}
             Q == {node \in Pending' : node.index \in V}
             F == {b \in DOMAIN code : b[1] \in EvalKinds /\ code[b].store # None /\ Subject(b) \in V}
             G == {b \in DOMAIN code' : b[1] \in EvalKinds /\ code'[b].store # None /\ Subject(b) \in V}
  <2>1. \/ (\E node : P = {node}) /\ F = {}
        \/ (\E b : F = {b}) /\ P = {}
    BY <1>1, Zenon DEF OneTurn, PendingOn, FinishedOn
  <2> HIDE DEF V
  <2>2. Q = P \ {x}
    OBVIOUS
  <2>3. x \in P <=> x.index \in V
    OBVIOUS
  <2>4. G = IF x.index \in V THEN F \cup {x.eval} ELSE F
    BY <1>2, <1>3
  <2> HIDE DEF P, Q, F, G
  <2>5. CASE x.index \in V
    <3>1. P = {x} /\ F = {}
      BY <2>1, <2>3, <2>5
    <3> QED BY <2>2, <2>4, <2>5, <3>1 DEF OneTurn, PendingOn, FinishedOn, Q, G, V
  <2>6. CASE x.index \notin V
    <3>1. Q = P /\ G = F
      BY <2>2, <2>3, <2>4, <2>6
    <3>2. \/ (\E node : Q = {node}) /\ G = {}
          \/ (\E b : G = {b}) /\ Q = {}
      BY <2>1, <3>1
    <3> QED BY <3>2, Zenon DEF OneTurn, PendingOn, FinishedOn, Q, G, V
  <2> QED BY <2>5, <2>6
<1>5. ResultsDue'
  BY DEF ResultsDue
<1>6. \A node \in Pending' : node.index \in Below(Root)
  BY <1>1
<1> QED BY <1>4, <1>5, <1>6, Zenon DEF FrontierRight

(* compileLeafSubtrees and connectSubtreeEndpoints store results.          *)
LEMMA LeafMoves ==
  ASSUME CompilerInv, FrontierRight, EmitLeafEvaluation
  PROVE  FrontierRight'
<1> DEFINE x == Head(roots)
           k == codegen.depth
           val == SubtreeTable[k][x.index]
<1>1. /\ phase = "leaf" /\ roots # <<>> /\ CanEmitLeaf[codegen][x.index]
      /\ code' = LeafCode(code, x, k) /\ roots' = Tail(roots)
      /\ UNCHANGED <<phase, remaining, next>>
  BY DEF EmitLeafEvaluation
<1>2. /\ NodeRight(code, x) /\ x \in NodeInfos /\ x.index \in Nodes
      /\ Depth[x.index] = Levels - remaining
      /\ ~IsImplicit(x.index) /\ Levels \in Int
      /\ remaining \in 1..Levels /\ codegen \in GeneratorsInUse
  BY <1>1, FirstRoot, TreeAssumption DEF IsPerfect
<1>3. k \in 1..MaxSubtreeLevels /\ k \in DepthsInUse
  BY <1>1, <1>2, CanEmitWithin, InUse
<1>4. val # None
  BY <1>2, <1>3, StoreAssumption
<1>5. x \in Pending /\ Pending' = Pending \ {x}
  <2>1. /\ roots \in Seq(NodeInfos) /\ next = <<>>
        /\ \A i, j \in DOMAIN roots : roots[i].index = roots[j].index => i = j
    BY <1>1 DEF CompilerInv, Progress, PendingRight, PendingApart
  <2>2. /\ {roots'[i] : i \in DOMAIN roots'} = {roots[i] : i \in DOMAIN roots} \ {x}
        /\ x \in {roots[i] : i \in DOMAIN roots}
    BY <1>1, <2>1, FirstDone
  <2>3. Pending = {roots[i] : i \in DOMAIN roots}
    BY <2>1 DEF Pending
  <2>4. Pending' = {roots'[i] : i \in DOMAIN roots'}
    BY <1>1, <2>1 DEF Pending
  <2> QED BY <2>2, <2>3, <2>4
<1>6. Kept(code, code', x.eval) /\ code'[x.eval].store = val
  <2>1. /\ x.eval \in DOMAIN code /\ code[x.eval] = EmptyBlock
    BY <1>2 DEF NodeRight
  <2>2. code' = [code EXCEPT ![x.eval] = Ended(Storing(@, val), Br(x.cont))]
    BY <1>1 DEF LeafCode
  <2>3. code'[x.eval] = Ended(Storing(EmptyBlock, val), Br(x.cont))
    BY <2>1, <2>2
  <2> HIDE DEF val
  <2> QED BY <2>2, <2>3, StoredFacts DEF Kept
<1> HIDE DEF val, x, k
<1>7. ResultsDue
  BY <1>1 DEF ResultsDue
<1> QED BY <1>1, <1>2, <1>4, <1>5, <1>6, <1>7, StoreMoves

(* Connecting the next endpoint, compile() stores its value: the endpoint  *)
(* is no longer pending, its block is finished.                            *)
LEMMA ConnectMoves ==
  ASSUME CompilerInv, FrontierRight, ConnectEndpoint
  PROVE  FrontierRight'
<1> DEFINE x == Head(next)
           val == ConstVal(x.index)
<1>1. /\ phase = "select" /\ remaining = 0 /\ next # <<>>
      /\ code' = [code EXCEPT ![x.eval] = Ended(Storing(@, val), Br(x.cont))]
      /\ next' = Tail(next)
      /\ UNCHANGED <<phase, remaining, roots>>
  BY DEF ConnectEndpoint
<1>2. /\ next \in Seq(NodeInfos) /\ roots = <<>> /\ x = next[1] /\ 1 \in DOMAIN next
      /\ \A i, j \in DOMAIN next : next[i].index = next[j].index => i = j
      /\ x \in NodeInfos /\ x.index \in Nodes
  <2>1. /\ next \in Seq(NodeInfos) /\ roots = <<>>
        /\ \A i, j \in DOMAIN next : next[i].index = next[j].index => i = j
    BY <1>1 DEF CompilerInv, Progress, PendingRight, PendingApart
  <2>2. x = next[1] /\ 1 \in DOMAIN next /\ x \in NodeInfos
    BY <1>1, <2>1, HeadTail
  <2> QED BY <2>1, <2>2 DEF NodeInfos
<1>3. NodeRight(code, x)
  BY <1>2, Zenon DEF CompilerInv, PendingRight
<1>4. val # None
  BY <1>2, StoreAssumption
<1>5. x \in Pending /\ Pending' = Pending \ {x}
  <2>1. /\ {next'[i] : i \in DOMAIN next'} = {next[i] : i \in DOMAIN next} \ {x}
        /\ x \in {next[i] : i \in DOMAIN next}
    BY <1>1, <1>2, FirstDone
  <2>2. Pending = {next[i] : i \in DOMAIN next}
    BY <1>2 DEF Pending
  <2>3. Pending' = {next'[i] : i \in DOMAIN next'}
    BY <1>1, <1>2 DEF Pending
  <2> QED BY <2>1, <2>2, <2>3
<1>6. Kept(code, code', x.eval) /\ code'[x.eval].store = val
  <2>1. /\ x.eval \in DOMAIN code /\ code[x.eval] = EmptyBlock
    BY <1>3 DEF NodeRight
  <2>2. code'[x.eval] = Ended(Storing(EmptyBlock, val), Br(x.cont))
    BY <1>1, <2>1
  <2> HIDE DEF val
  <2> QED BY <1>1, <2>2, StoredFacts DEF Kept
<1> HIDE DEF val, x
<1>7. ResultsDue
  BY <1>1 DEF ResultsDue
<1> QED BY <1>1, <1>3, <1>4, <1>5, <1>6, <1>7, StoreMoves

(* The frontier starts at the root, where every data set is; and the steps *)
(* between levels do not move it.                                          *)
LEMMA BeginSetsFrontier ==
  ASSUME CompilerInv, BeginCompile
  PROVE  FrontierRight'
<1> DEFINE root == NodeInfo(Root, Entry, Exit)
<1>1. /\ phase = "idle" /\ phase' = "select" /\ remaining' = Levels
      /\ code' = [b \in {Entry, Exit} |-> EmptyBlock]
      /\ next' = <<root>> /\ roots' = roots
  BY DEF BeginCompile, Idle
<1>2. Pending' = {root} /\ root.index = Root
  <2>1. roots = <<>>
    BY <1>1 DEF CompilerInv, Progress
  <2>2. root.index = Root
    BY DEF NodeInfo
  <2> HIDE DEF root
  <2> QED BY <1>1, <2>1, <2>2 DEF Pending
<1>3. Root \in Nodes /\ Root \in Below(Root)
  BY TreeAssumption, BelowClosed DEF IsPerfect
<1>4. NothingStored(code')
  BY <1>1 DEF NothingStored, EmptyBlock
<1> HIDE DEF root
<1>5. ASSUME NEW ds \in DataSets PROVE OneTurn(ds)'
  <2>1. Root \in Visited[ds]
    BY <1>3, VisitedNodes, WalkEnds DEF OnTrail
  <2>2. PendingOn(ds)' = {root}
    BY <1>2, <2>1 DEF PendingOn
  <2>3. \A b \in DOMAIN code' : code'[b].store = None
    BY <1>4, Zenon DEF NothingStored
  <2>4. FinishedOn(ds)' = {}
    BY <2>3, Zenon DEF FinishedOn
  <2> QED BY <2>2, <2>4 DEF OneTurn
<1>6. \A node \in Pending' : node.index \in Below(Root)
  BY <1>2, <1>3
<1> QED BY <1>4, <1>5, <1>6, Zenon DEF FrontierRight

(* What leaves the pending nodes and the code alone leaves the frontier    *)
(* as it was, and stores no result early.                                  *)
LEMMA FrontierStays ==
  ASSUME FrontierRight, phase \in {"select", "nested", "leaf"}, Pending' = Pending, code' = code,
         ResultsDue => ResultsDue'
  PROVE  FrontierRight'
<1>1. /\ \A node \in Pending : node.index \in Below(Root)
      /\ ~ResultsDue => NothingStored(code) /\ \A ds \in DataSets : OneTurn(ds)
  BY DEF FrontierRight
<1>2. ASSUME NEW ds \in DataSets PROVE OneTurn(ds)'
  <2>1. OneTurn(ds)
    BY DEF FrontierRight
  <2> QED BY <2>1 DEF OneTurn, PendingOn, FinishedOn
<1>3. \A node \in Pending' : node.index \in Below(Root)
  BY <1>1
<1>4. ~ResultsDue' => NothingStored(code')
  BY <1>1
<1> QED BY <1>2, <1>3, <1>4, Zenon DEF FrontierRight

(* No step of compile() or of a call tears the frontier.                   *)
LEMMA FrontierStepKeeps ==
  ASSUME CompilerInv, FrontierRight, [EvaluatorNext]_vars
  PROVE  FrontierRight'
<1>1. ASSUME phase' \notin {"select", "nested", "leaf"} PROVE FrontierRight'
  BY <1>1 DEF FrontierRight
<1>2. CASE SetCodegenSelector \/ Finish \/ Abort
  BY <1>1, <1>2 DEF SetCodegenSelector, Idle, Finish, Abort
<1>3. CASE BeginCompile
  BY <1>3, BeginSetsFrontier
<1>4. CASE SelectGenerator
  <2>1. /\ phase = "select" /\ remaining > 0 /\ roots' = next /\ next' = <<>> /\ code' = code
        /\ UNCHANGED remaining
    BY <1>4 DEF SelectGenerator
  <2>2. roots = <<>> /\ remaining \in Int
    BY <2>1, TreeAssumption DEF CompilerInv, Progress, IsPerfect
  <2>3. Pending' = Pending
    BY <2>1, <2>2 DEF Pending
  <2>4. ~ResultsDue
    BY <2>1, <2>2 DEF ResultsDue
  <2> QED BY <2>1, <2>3, <2>4, FrontierStays
<1>5. CASE NextLevel
  <2>1. phase = "nested" /\ UNCHANGED <<roots, next, code>>
    BY <1>5 DEF NextLevel
  <2>2. Pending' = Pending
    BY <2>1 DEF Pending
  <2>3. ~ResultsDue
    BY <2>1 DEF ResultsDue
  <2> QED BY <2>1, <2>2, <2>3, FrontierStays
<1>6. CASE EmitEvaluation
  BY <1>6, EmissionMoves
<1>7. CASE EmitLeafEvaluation
  BY <1>7, LeafMoves
<1>8. CASE ConnectEndpoint
  BY <1>8, ConnectMoves
<1>9. CASE UNCHANGED compilerVars
  <2>1. UNCHANGED <<phase, remaining, roots, next, code>>
    BY <1>9 DEF compilerVars
  <2>2. Pending' = Pending /\ (ResultsDue => ResultsDue')
    BY <2>1 DEF Pending, ResultsDue
  <2>3. CASE phase \in {"select", "nested", "leaf"}
    BY <2>1, <2>2, <2>3, FrontierStays
  <2>4. CASE phase \notin {"select", "nested", "leaf"}
    BY <1>1, <2>1, <2>4
  <2> QED BY <2>3, <2>4
<1>10. CASE Call \/ Execute \/ UNCHANGED vars
  <2>1. UNCHANGED compilerVars
    BY <1>10 DEF Call, Execute, ExecuteBr, ExecuteCondBr, ExecuteSwitch, ExecuteRet,
      vars, compilerVars
  <2> QED BY <1>9, <2>1
<1> QED BY <1>2, <1>3, <1>4, <1>5, <1>6, <1>7, <1>8, <1>10
  DEF EvaluatorNext, CompilerStep, Next, Compile

(* At every moment of a compilation, every data set is on its way to one   *)
(* pending node, or to one whose result is stored: no generator loses a    *)
(* subtree or queues it twice, and no mix of generators does.              *)
THEOREM FrontierNeverTorn == EvaluatorSpec => []Frontier
<1>1. EvaluatorInit => FrontierRight
  BY DEF EvaluatorInit, Init, FrontierRight
<1>2. FrontierRight => Frontier
  <2> SUFFICES ASSUME FrontierRight, phase \in {"select", "nested", "leaf"}, NEW ds \in DataSets
               PROVE  Cardinality(PendingOn(ds)) + Cardinality(FinishedOn(ds)) = 1
    BY DEF Frontier, PendingOn, FinishedOn
  <2>1. /\ Cardinality({}) = 0
        /\ \A x : Cardinality({x}) = 1
    BY FS_EmptySet, FS_Singleton
  <2>2. OneTurn(ds)
    BY DEF FrontierRight
  <2> DEFINE a == PendingOn(ds)
             b == FinishedOn(ds)
  <2>3. \/ (\E x : a = {x}) /\ b = {}
        \/ a = {} /\ (\E x : b = {x})
    BY <2>2, Zenon DEF OneTurn
  <2>4. CASE (\E x : a = {x}) /\ b = {}
    <3>1. Cardinality(a) = 1 /\ Cardinality(b) = 0
      BY <2>1, <2>4
    <3> HIDE DEF a, b
    <3>2. Cardinality(a) + Cardinality(b) = 1
      BY <3>1
    <3> QED BY <3>2 DEF a, b
  <2>5. CASE a = {} /\ (\E x : b = {x})
    <3>1. Cardinality(a) = 0 /\ Cardinality(b) = 1
      BY <2>1, <2>5
    <3> HIDE DEF a, b
    <3>2. Cardinality(a) + Cardinality(b) = 1
      BY <3>1
    <3> QED BY <3>2 DEF a, b
  <2> QED BY <2>3, <2>4, <2>5
<1> QED BY <1>1, <1>2, FrontierStepKeeps, CompilerInvariant, PTL DEF EvaluatorSpec
=============================================================================
