------------------------ MODULE EvaluationPath_proofs ------------------------
(***************************************************************************)
(* That the recursion fills a path to be the way from the subtree's root   *)
(* to the destination, that it answers as the abstract path does on which  *)
(* the condition vectors are built, and that comparing two of them is      *)
(* right, whatever the tree and the subtrees.                              *)
(***************************************************************************)
EXTENDS EvaluationPath, DecisionTree_proofs

PathsOf(k) == [steps : [1..k -> Step \cup {None}], dest : Nodes, insertIdx : 1..k + 1]

\* A filled step: it leads on towards the destination, as many levels above
\* it as there are steps left.
StepArranged(path, root, k, i) ==
  /\ path.steps[i] \in Step
  /\ ~IsImplicit(path.steps[i].from) /\ path.steps[i].from \in Below(root)
  /\ path.steps[i].to = Child(path.steps[i].from, path.steps[i].right)
  /\ path.dest \in Below(path.steps[i].to)
  /\ Depth[path.dest] = Depth[path.steps[i].from] + (k + 1 - i)
  /\ path.steps[i].to = IF i = k THEN path.dest ELSE path.steps[i + 1].from

\* A path that belongs to a subtree.
Arranged(path, root, k) ==
  /\ root \in Nodes /\ k \in 1..MaxSubtreeLevels
  /\ path \in PathsOf(k) /\ path.dest \in Below(root)
  /\ \E j \in DOMAIN Paths[k][root] : Paths[k][root][j].dest = path.dest
  /\ \A i \in 1..k : i < path.insertIdx => path.steps[i] = None
  /\ \A i \in 1..k : i >= path.insertIdx => StepArranged(path, root, k, i)

\* The nodes that the paths of a subtree end in.
Destinations(k, n) == {Paths[k][n][i].dest : i \in DOMAIN Paths[k][n]}

\* The calls lead from the root, a level each, to where paths of the subtree end.
CallsArranged(pending, root, k) ==
  /\ pending \in Seq(Call) /\ Len(pending) <= k
  /\ \A i \in 1..Len(pending) :
       /\ pending[i].node \in Below(root) /\ ~IsImplicit(pending[i].node)
       /\ Depth[pending[i].node] = Depth[root] + (Len(pending) - i)
       /\ Destinations(k - (Len(pending) - i), pending[i].node) \subseteq Destinations(k, root)
       /\ pending[i].node =
            IF i = Len(pending) THEN root ELSE Child(pending[i + 1].node, pending[i + 1].right)

\* A path as far as the calls that have returned have filled it.
PathReturned(path, pending, root, k) ==
  /\ Arranged(path, root, k)
  /\ First(path) = NodeReached(pending, root) /\ Len(pending) < path.insertIdx
  /\ IsImplicit(path.dest) \/ Depth[path.dest] = Depth[root] + k

\* While two paths are compared they are of one size and filled alike; the
\* loop is at the last step, or has found the last steps to be the same.
ComparedSoFar ==
  comparing > 0 =>
    LET k == subtrees[1].levels
    IN  /\ None \notin {paths[1], paths[2]} /\ verdict = None
        /\ subtrees[2].levels = k /\ paths[1].insertIdx = paths[2].insertIdx
        /\ paths[1].insertIdx <= k /\ comparing \in {k, k + 1}
        /\ comparing = k + 1 => SameStep(paths[1].steps[k], paths[2].steps[k])

PathInv ==
  /\ subtrees \in [Indices -> Subtrees \cup {None}]
  /\ calls \in [Indices -> Seq(Call)] /\ DOMAIN paths = Indices
  /\ \A p \in Indices : subtrees[p] = None => calls[p] = <<>> /\ paths[p] = None
  /\ \A p \in Indices : subtrees[p] # None =>
       CallsArranged(calls[p], subtrees[p].root, subtrees[p].levels)
  /\ \A p \in Indices : paths[p] # None =>
       PathReturned(paths[p], calls[p], subtrees[p].root, subtrees[p].levels)
  /\ comparing \in 0..MaxSubtreeLevels + 1
  /\ verdict \in {None, "equal", "different", "undefined"}
  /\ ComparedSoFar /\ ComparisonRight

-----------------------------------------------------------------------------
(* Paths as sequences                                                      *)

(* The steps of a path are an array of the subtree's levels.               *)
LEMMA PathFields ==
  ASSUME NEW k \in Nat, NEW path \in PathsOf(k)
  PROVE  /\ Len(path.steps) = k /\ DOMAIN path.steps = 1..k
         /\ path.steps \in [1..k -> Step \cup {None}]
         /\ path.dest \in Nodes /\ path.insertIdx \in 1..k + 1
<1>1. /\ path.steps \in [1..k -> Step \cup {None}]
      /\ path.dest \in Nodes /\ path.insertIdx \in 1..k + 1
  BY DEF PathsOf
<1> DEFINE steps == path.steps
           S == Step \cup {None}
<1>2. steps \in [1..k -> S]
  BY <1>1
<1> HIDE DEF steps, S
<1>3. steps \in Seq(S) /\ DOMAIN steps = 1..k
  BY <1>2, SeqDef
<1>4. Len(steps) = k
  BY <1>3, LenProperties
<1> QED BY <1>1, <1>3, <1>4 DEF steps

(* Two paths with the same fields are the same.                            *)
LEMMA SamePath ==
  ASSUME NEW k \in Nat, NEW lhs \in PathsOf(k), NEW rhs \in PathsOf(k),
         lhs.dest = rhs.dest, lhs.insertIdx = rhs.insertIdx,
         \A i \in 1..k : lhs.steps[i] = rhs.steps[i]
  PROVE  lhs = rhs
<1>1. lhs.steps = rhs.steps
  <2>1. lhs.steps \in [1..k -> Step \cup {None}] /\ rhs.steps \in [1..k -> Step \cup {None}]
    BY PathFields
  <2> HIDE DEF PathsOf
  <2> DEFINE l == lhs.steps
             r == rhs.steps
             S == Step \cup {None}
  <2>2. l \in [1..k -> S] /\ r \in [1..k -> S] /\ \A i \in 1..k : l[i] = r[i]
    BY <2>1
  <2> HIDE DEF l, r, S
  <2>3. l = r
    BY <2>2
  <2> QED BY <2>3 DEF l, r
<1> QED BY <1>1 DEF PathsOf

(* A step's outcome is told by the nodes that it leads from and to.        *)
LEMMA SameStepSame ==
  ASSUME NEW s \in Step, NEW t \in Step, ~IsImplicit(s.from), s.from = t.from, s.to = t.to,
         s.to = Child(s.from, s.right), t.to = Child(t.from, t.right)
  PROVE  s = t
<1>1. s.from \in Nodes /\ s.right \in BOOLEAN /\ t.right \in BOOLEAN
  BY DEF Step
<1>2. s.right = t.right
  BY <1>1, OneParent
<1> QED BY <1>2 DEF Step

-----------------------------------------------------------------------------
(* Where a path has got to                                                 *)

(* A node that the destination is below is found where its depth says.     *)
LEMMA FirstArranged ==
  ASSUME NEW path, NEW root, NEW k, Arranged(path, root, k)
  PROVE  /\ First(path) \in Below(root) /\ path.dest \in Below(First(path))
         /\ First(path) \in Nodes
         /\ Depth[path.dest] = Depth[First(path)] + (k + 1 - path.insertIdx)
<1>1. /\ k \in Nat /\ root \in Nodes /\ path \in PathsOf(k) /\ path.dest \in Below(root)
  BY DEF Arranged, MaxSubtreeLevels
<1>2. Len(path.steps) = k /\ path.dest \in Nodes /\ path.insertIdx \in 1..k + 1
  BY <1>1, PathFields
<1>3. CASE path.insertIdx = k + 1
  <2>1. First(path) = path.dest
    BY <1>2, <1>3 DEF First
  <2>2. path.dest \in Below(path.dest) /\ Depth[path.dest] \in Nat
    BY <1>2, BelowClosed, ImplicitLevel
  <2> QED BY <1>1, <1>2, <1>3, <2>1, <2>2
<1>4. CASE path.insertIdx # k + 1
  <2> DEFINE i == path.insertIdx
             step == path.steps[i]
  <2>1. i \in 1..k /\ i >= path.insertIdx
    BY <1>1, <1>2, <1>4
  <2>2. First(path) = step.from
    BY <1>2, <1>4 DEF First
  <2>3. StepArranged(path, root, k, i)
    BY <2>1 DEF Arranged
  <2> HIDE DEF i, step
  <2>4. /\ step \in Step /\ ~IsImplicit(step.from) /\ step.from \in Below(root)
        /\ step.to = Child(step.from, step.right) /\ path.dest \in Below(step.to)
        /\ Depth[path.dest] = Depth[step.from] + (k + 1 - i)
    BY <2>3 DEF StepArranged, step
  <2>5. step.from \in Nodes /\ step.right \in BOOLEAN
    BY <2>4 DEF Step
  <2>6. path.dest \in Below(step.from)
    BY <2>4, <2>5, BelowChildren
  <2> QED BY <2>2, <2>4, <2>5, <2>6 DEF i
<1> QED BY <1>3, <1>4

(* The steps of two paths to the same destination are the same, wherever   *)
(* both are filled.                                                        *)
LEMMA SameWay ==
  ASSUME NEW k \in Nat, NEW lhs, NEW rhs, NEW one, NEW other,
         Arranged(lhs, one, k), Arranged(rhs, other, k), lhs.dest = rhs.dest,
         NEW i \in 1..k, i >= lhs.insertIdx, i >= rhs.insertIdx
  PROVE  lhs.steps[i].from = rhs.steps[i].from
<1> DEFINE s == lhs.steps[i]
           t == rhs.steps[i]
           d == lhs.dest
<1>1. StepArranged(lhs, one, k, i) /\ StepArranged(rhs, other, k, i)
  BY DEF Arranged
<1>2. /\ s \in Step /\ t \in Step /\ ~IsImplicit(s.from) /\ ~IsImplicit(t.from)
      /\ s.to = Child(s.from, s.right) /\ t.to = Child(t.from, t.right)
      /\ d \in Below(s.to) /\ d \in Below(t.to)
      /\ Depth[d] = Depth[s.from] + (k + 1 - i) /\ Depth[d] = Depth[t.from] + (k + 1 - i)
  BY <1>1 DEF StepArranged
<1> HIDE DEF s, t, d
<1>3. s.from \in Nodes /\ t.from \in Nodes /\ s.right \in BOOLEAN /\ t.right \in BOOLEAN
  BY <1>2 DEF Step
<1>4. d \in Below(s.from) /\ d \in Below(t.from)
  BY <1>2, <1>3, BelowChildren
<1>5. Depth[s.from] \in Nat /\ Depth[t.from] \in Nat
  BY <1>3, ImplicitLevel
<1>6. Depth[s.from] = Depth[t.from]
  BY <1>2, <1>5
<1> QED BY <1>3, <1>4, <1>6, BelowDisjoint DEF s, t

(* Paths that end in the same node and are filled alike are the same.      *)
LEMMA PathsEqual ==
  ASSUME NEW k \in Nat, NEW lhs, NEW rhs, NEW one, NEW other,
         Arranged(lhs, one, k), Arranged(rhs, other, k), lhs.dest = rhs.dest,
         lhs.insertIdx = rhs.insertIdx
  PROVE  lhs = rhs
<1>1. lhs \in PathsOf(k) /\ rhs \in PathsOf(k)
  BY DEF Arranged
<1>2. lhs.insertIdx \in 1..k + 1
  BY <1>1, PathFields
<1>3. ASSUME NEW i \in 1..k PROVE lhs.steps[i] = rhs.steps[i]
  <2>1. CASE i < lhs.insertIdx
    BY <2>1 DEF Arranged
  <2>2. CASE i >= lhs.insertIdx
    <3> DEFINE s == lhs.steps[i]
               t == rhs.steps[i]
    <3>1. /\ s \in Step /\ t \in Step /\ ~IsImplicit(s.from)
          /\ s.to = Child(s.from, s.right) /\ t.to = Child(t.from, t.right)
          /\ s.to = IF i = k THEN lhs.dest ELSE lhs.steps[i + 1].from
          /\ t.to = IF i = k THEN lhs.dest ELSE rhs.steps[i + 1].from
      <4>1. StepArranged(lhs, one, k, i) /\ StepArranged(rhs, other, k, i)
        BY <2>2 DEF Arranged
      <4> QED BY <4>1 DEF StepArranged
    <3>2. s.from = t.from
      BY <2>2, SameWay
    <3>3. i # k => lhs.steps[i + 1].from = rhs.steps[i + 1].from
      <4> SUFFICES ASSUME i # k PROVE lhs.steps[i + 1].from = rhs.steps[i + 1].from
        OBVIOUS
      <4>1. i + 1 \in 1..k /\ i + 1 >= lhs.insertIdx /\ i + 1 >= rhs.insertIdx
        BY <1>2, <2>2
      <4> QED BY <4>1, SameWay
    <3> HIDE DEF s, t
    <3>4. s.to = t.to
      BY <3>1, <3>3
    <3>5. s = t
      BY <3>1, <3>2, <3>4, SameStepSame
    <3> QED BY <3>5 DEF s, t
  <2> QED BY <1>2, <2>1, <2>2
<1> QED BY <1>1, <1>3, SamePath

(* The constructor's path is arranged.                                     *)
LEMMA NewArranged ==
  ASSUME NEW subtree \in Subtrees,
         NEW destination \in Destinations(subtree.levels, subtree.root)
  PROVE  Arranged(EmptyPath(subtree.levels, destination), subtree.root, subtree.levels)
<1> DEFINE k == subtree.levels
           root == subtree.root
           path == EmptyPath(k, destination)
<1>1. root \in Nodes /\ k \in 1..MaxSubtreeLevels /\ k \in 0..MaxSubtreeLevels /\ k \in Nat
  BY DEF Subtrees, MaxSubtreeLevels
<1>2. PICK j \in DOMAIN Paths[k][root] : destination = Paths[k][root][j].dest
  BY DEF Destinations
<1> HIDE DEF k, root
<1>3. destination \in Below(root) /\ destination \in Nodes
  <2>1. PathDivides(Paths[k][root][j], root, k)
    BY <1>1, PathsDivide
  <2>2. destination \in Below(root)
    BY <1>2, <2>1 DEF PathDivides
  <2> QED BY <1>1, <2>2, BelowClosed
<1>4. path.dest = destination /\ path.insertIdx = k + 1 /\ path.steps = [i \in 1..k |-> None]
  BY DEF EmptyPath
<1>5. path \in PathsOf(k)
  BY <1>1, <1>3 DEF PathsOf, EmptyPath
<1>6. \A i \in 1..k : path.steps[i] = None /\ ~(i >= path.insertIdx)
  BY <1>1, <1>4
<1> HIDE DEF path
<1>7. Arranged(path, root, k)
  BY <1>1, <1>2, <1>3, <1>4, <1>5, <1>6 DEF Arranged
<1> QED BY <1>7 DEF path, k, root

(* Adding the parent of the node a path has got to keeps it arranged.      *)
LEMMA ParentArranged ==
  ASSUME NEW path, NEW root, NEW k, Arranged(path, root, k),
         ~IsFinalized(path), First(path) # root,
         NEW node \in Nodes, NEW right \in BOOLEAN, Child(node, right) = First(path)
  PROVE  Arranged(WithParent(path, node, right), root, k)
<1> DEFINE longer == WithParent(path, node, right)
           idx == path.insertIdx - 1
           added == [from |-> node, to |-> First(path), right |-> right]
<1>1. /\ k \in Nat /\ root \in Nodes /\ k \in 1..MaxSubtreeLevels
      /\ path \in PathsOf(k) /\ path.dest \in Below(root)
      /\ \E j \in DOMAIN Paths[k][root] : Paths[k][root][j].dest = path.dest
      /\ \A i \in 1..k : i < path.insertIdx => path.steps[i] = None
      /\ \A i \in 1..k : i >= path.insertIdx => StepArranged(path, root, k, i)
  BY DEF Arranged, MaxSubtreeLevels
<1>2. /\ path.dest \in Nodes /\ path.insertIdx \in 1..k + 1
      /\ path.steps \in [1..k -> Step \cup {None}] /\ Len(path.steps) = k
  BY <1>1, PathFields
<1>3. idx \in 1..k /\ path.insertIdx = idx + 1
  BY <1>1, <1>2 DEF IsFinalized
<1>4. /\ First(path) \in Below(root) /\ First(path) \in Nodes /\ path.dest \in Below(First(path))
      /\ Depth[path.dest] = Depth[First(path)] + (k + 1 - path.insertIdx)
  BY FirstArranged
<1>5. ~IsImplicit(node)
  <2>1. First(path) # NoNode
    BY <1>4, TreeAssumption DEF IsPerfect
  <2> QED BY <2>1 DEF Child, IsImplicit
<1>6. node \in Below(root)
  <2>1. PICK x \in Below(root) : \E r \in BOOLEAN : ~IsImplicit(x) /\ First(path) = Child(x, r)
    BY <1>1, <1>4, BelowParent
  <2>2. x \in Nodes
    BY <1>1, <2>1, BelowClosed
  <2>3. node = x
    BY <1>5, <2>1, <2>2, OneParent
  <2> QED BY <2>1, <2>3
<1>7. added \in Step
  BY <1>4 DEF Step
<1>8. longer = [path EXCEPT !.steps = [path.steps EXCEPT ![idx] = added], !.insertIdx = idx]
  BY <1>1 DEF WithParent, PathsOf
<1>9. /\ longer \in PathsOf(k) /\ longer.dest = path.dest /\ longer.insertIdx = idx
      /\ longer.steps = [path.steps EXCEPT ![idx] = added]
  <2> HIDE DEF longer, idx, added
  <2>1. [path.steps EXCEPT ![idx] = added] \in [1..k -> Step \cup {None}]
    BY <1>2, <1>7
  <2>2. idx \in 1..k + 1
    <3>1. k \in Nat
      BY <1>1
    <3> QED BY <1>3, <3>1
  <2> QED BY <1>1, <1>8, <2>1, <2>2 DEF PathsOf
<1>10. longer.steps[idx] = added /\ \A i \in 1..k : i # idx => longer.steps[i] = path.steps[i]
  <2> HIDE DEF longer, idx, added
  <2> QED BY <1>2, <1>3, <1>9
<1>11. \A i \in 1..k : i < longer.insertIdx => longer.steps[i] = None
  <2> HIDE DEF longer, idx, added
  <2>1. \A i \in 1..k : i < idx => i # idx /\ i < path.insertIdx
    BY <1>3
  <2> QED BY <1>1, <1>9, <1>10, <2>1
<1>12. ASSUME NEW i \in 1..k, i >= longer.insertIdx PROVE StepArranged(longer, root, k, i)
  <2>1. CASE i = idx
    <3>1. added.from = node /\ added.to = First(path) /\ added.right = right
      OBVIOUS
    <3>2. Depth[path.dest] = Depth[node] + (k + 1 - i)
      <4>1. Depth[First(path)] = Depth[node] + 1 /\ Depth[node] \in Nat
        BY <1>5, ChildLevel, ImplicitLevel
      <4> HIDE DEF idx
      <4> QED BY <1>1, <1>3, <1>4, <2>1, <4>1
    <3>3. First(path) = IF i = k THEN longer.dest ELSE longer.steps[i + 1].from
      <4>1. CASE i = k
        <5>1. path.insertIdx = Len(path.steps) + 1
          BY <1>2, <1>3, <2>1, <4>1
        <5> QED BY <1>9, <4>1, <5>1 DEF First
      <4>2. CASE i # k
        <5> HIDE DEF idx, longer, added
        <5>1. path.insertIdx # Len(path.steps) + 1 /\ i + 1 = path.insertIdx /\ i + 1 \in 1..k /\ i + 1 # idx
          BY <1>1, <1>2, <1>3, <2>1, <4>2
        <5>2. First(path) = path.steps[i + 1].from
          BY <5>1 DEF First
        <5> QED BY <1>10, <4>2, <5>1, <5>2
      <4> QED BY <4>1, <4>2
    <3> HIDE DEF added, longer, idx
    <3> QED BY <1>4, <1>5, <1>6, <1>7, <1>9, <1>10, <2>1, <3>1, <3>2, <3>3 DEF StepArranged
  <2>2. CASE i # idx
    <3> HIDE DEF longer, idx, added
    <3>1. i >= path.insertIdx /\ (i # k => i + 1 \in 1..k /\ i + 1 # idx)
      <4>1. k \in Nat
        BY <1>1
      <4>2. i >= idx
        BY <1>9, <1>12
      <4> QED BY <1>3, <2>2, <4>1, <4>2
    <3>2. StepArranged(path, root, k, i)
      BY <1>1, <3>1
    <3>3. longer.steps[i] = path.steps[i] /\ (i # k => longer.steps[i + 1] = path.steps[i + 1])
      BY <1>10, <2>2, <3>1
    <3> QED BY <1>9, <3>2, <3>3 DEF StepArranged
  <2> QED BY <2>1, <2>2
<1> HIDE DEF longer, idx, added
<1>13. Arranged(longer, root, k)
  BY <1>1, <1>9, <1>11, <1>12 DEF Arranged
<1> QED BY <1>13 DEF longer

(* A finalized path has got to the root of its subtree.                    *)
LEMMA FinalizedAtRoot ==
  ASSUME NEW path, NEW root, NEW k, Arranged(path, root, k), IsFinalized(path)
  PROVE  path.steps[1].from = root /\ Depth[path.dest] = Depth[root] + k
<1>1. /\ k \in Nat \ {0} /\ k \in 0..MaxSubtreeLevels /\ root \in Nodes /\ path \in PathsOf(k)
      /\ path.dest \in Below(root)
  BY DEF Arranged, MaxSubtreeLevels
<1>2. /\ First(path) \in Below(root)
      /\ Depth[path.dest] = Depth[First(path)] + (k + 1 - path.insertIdx)
  BY FirstArranged
<1>3. First(path) = path.steps[1].from
  <2>1. Len(path.steps) = k
    BY <1>1, PathFields
  <2> QED BY <1>1, <2>1 DEF First, IsFinalized
<1>4. Depth[path.dest] <= Depth[root] + k
  <2>1. PICK j \in DOMAIN Paths[k][root] : Paths[k][root][j].dest = path.dest
    BY DEF Arranged
  <2>2. PathDivides(Paths[k][root][j], root, k)
    BY <1>1, PathsDivide
  <2> QED BY <2>1, <2>2 DEF PathDivides
<1>5. /\ Depth[First(path)] \in Nat /\ Depth[root] \in Nat
      /\ First(path) # root => Depth[First(path)] > Depth[root]
  <2>1. First(path) \in Nodes /\ (First(path) # root => Depth[First(path)] > Depth[root])
    BY <1>1, <1>2, BelowDepth
  <2> QED BY <1>1, <2>1, ImplicitLevel
<1>6. Depth[path.dest] = Depth[First(path)] + k
  BY <1>1, <1>2 DEF IsFinalized
<1>7. First(path) = root
  BY <1>1, <1>4, <1>5, <1>6
<1> QED BY <1>3, <1>6, <1>7

-----------------------------------------------------------------------------
(* The recursion's calls                                                   *)

(* A subtree's paths end where those of its root's children do.            *)
LEMMA ChildDestinations ==
  ASSUME NEW k \in 0..MaxSubtreeLevels - 1, NEW n \in Nodes, ~IsImplicit(n), NEW right \in BOOLEAN
  PROVE  Destinations(k, Child(n, right)) \subseteq Destinations(k + 1, n)
<1> DEFINE half(r) == RecurseToChildNode(Paths[k], n, r)
           below == Paths[k][Child(n, right)]
           left == half(FALSE)
           other == half(TRUE)
           all == left \o other
<1>0. k \in 0..MaxSubtreeLevels
  BY DEF MaxSubtreeLevels
<1>1. \A r \in BOOLEAN : Child(n, r) \in Nodes /\ Child(n, r) # NoNode /\ PathsCounted(Child(n, r), k)
  BY <1>0, ChildLevel, PathsListed
<1>2. left \in Seq(EvaluationPaths) /\ other \in Seq(EvaluationPaths)
  <2>1. \A r \in BOOLEAN : half(r) \in Seq(EvaluationPaths)
    BY <1>1, HalfCounted
  <2> QED BY <2>1
<1>3. below \in Seq(EvaluationPaths)
  BY <1>1 DEF PathsCounted
<1>4. half(right) = [i \in DOMAIN below |-> AddParent(below[i], n, right)]
  BY <1>1 DEF RecurseToChildNode
<1>5. Paths[k + 1][n] = all
  BY PathsHalves
<1> SUFFICES ASSUME NEW i \in DOMAIN below
             PROVE  \E j \in DOMAIN all : all[j].dest = below[i].dest
  BY <1>5 DEF Destinations
<1>6. i \in DOMAIN half(right) /\ half(right)[i].dest = below[i].dest
  <2> DEFINE e == below[i]
  <2>1. e \in EvaluationPaths
    BY <1>3
  <2>2. half(right)[i] = AddParent(e, n, right) /\ i \in DOMAIN half(right)
    BY <1>4
  <2> HIDE DEF e, half
  <2>3. AddParent(e, n, right).dest = e.dest
    BY <2>1, AddParentPath
  <2> QED BY <2>2, <2>3 DEF e
<1> HIDE DEF below
<1>7. CASE right = FALSE
  <2>1. i \in DOMAIN left /\ left[i].dest = below[i].dest
    BY <1>6, <1>7
  <2> HIDE DEF left, other
  <2>2. i \in DOMAIN all /\ all[i] = left[i]
    BY <1>2, <2>1, ConcatFound
  <2> HIDE DEF all
  <2> QED BY <2>1, <2>2
<1>8. CASE right = TRUE
  <2>1. i \in DOMAIN other /\ other[i].dest = below[i].dest
    BY <1>6, <1>8
  <2> HIDE DEF left, other
  <2>2. Len(left) + i \in DOMAIN all /\ all[Len(left) + i] = other[i]
    BY <1>2, <2>1, ConcatFound
  <2> HIDE DEF all
  <2> QED BY <2>1, <2>2
<1> QED BY <1>7, <1>8

(* The node that the calls have got to is as many levels below the root,   *)
(* and the paths from there end where paths of the subtree do.             *)
LEMMA ReachedArranged ==
  ASSUME NEW pending, NEW root \in Nodes, NEW k \in 1..MaxSubtreeLevels,
         CallsArranged(pending, root, k)
  PROVE  LET node == NodeReached(pending, root)
         IN  /\ node \in Below(root) /\ node \in Nodes
             /\ Depth[node] = Depth[root] + Len(pending)
             /\ Len(pending) \in 0..k /\ k - Len(pending) \in 0..MaxSubtreeLevels
             /\ Destinations(k - Len(pending), node) \subseteq Destinations(k, root)
<1> DEFINE node == NodeReached(pending, root)
           n == Len(pending)
<1>1. pending \in Seq(Call) /\ n \in Nat /\ n <= k /\ k \in Nat /\ Depth[root] \in Nat
  BY ImplicitLevel DEF CallsArranged
<1>2. n \in 0..k /\ k - n \in 0..MaxSubtreeLevels
  BY <1>1 DEF MaxSubtreeLevels
<1>3. CASE pending = <<>>
  <2>1. node = root /\ n = 0
    BY <1>3 DEF NodeReached
  <2>2. root \in Below(root)
    BY BelowClosed
  <2> HIDE DEF node, n
  <2>3. Depth[root] = Depth[root] + n /\ k - n = k
    BY <1>1, <2>1
  <2>4. Depth[node] = Depth[root] + n /\ Destinations(k - n, node) = Destinations(k, root)
    BY <2>1, <2>3
  <2> QED BY <1>2, <2>1, <2>2, <2>4 DEF node, n
<1>4. CASE pending # <<>>
  <2> DEFINE call == pending[1]
             m == call.node
             j == k - n
  <2>1. n >= 1 /\ Head(pending) = call /\ call \in Call
    BY <1>1, <1>4
  <2>2. m \in Nodes /\ call.right \in BOOLEAN /\ node = Child(m, call.right)
    BY <1>4, <2>1 DEF NodeReached, Call
  <2>3. /\ m \in Below(root) /\ ~IsImplicit(m) /\ Depth[m] = Depth[root] + (n - 1)
        /\ Destinations(k - (n - 1), m) \subseteq Destinations(k, root)
    <3>1. 1 \in 1..n
      BY <1>1, <2>1
    <3> QED BY <3>1 DEF CallsArranged
  <2> HIDE DEF m
  <2>4. node \in Nodes /\ Depth[node] = Depth[m] + 1
    BY <2>2, <2>3, ChildLevel
  <2>5. node \in Below(root)
    BY <2>2, <2>3, BelowClosed DEF Closed
  <2>6. j \in 0..MaxSubtreeLevels - 1 /\ k - (n - 1) = j + 1
    BY <1>1, <2>1 DEF MaxSubtreeLevels
  <2> HIDE DEF node, j, call
  <2>7. Destinations(j, node) \subseteq Destinations(j + 1, m)
    BY <2>2, <2>3, <2>6, ChildDestinations
  <2>8. Destinations(j, node) \subseteq Destinations(k, root)
    BY <2>3, <2>6, <2>7
  <2>9. Depth[node] = Depth[root] + n
    <3> HIDE DEF n
    <3> QED BY <1>1, <2>3, <2>4
  <2> QED BY <1>2, <2>4, <2>5, <2>8, <2>9 DEF node, j
<1> QED BY <1>3, <1>4

(* One call more, from an inner node, with levels remaining.               *)
LEMMA CallsDescend ==
  ASSUME NEW pending, NEW root \in Nodes, NEW k \in 1..MaxSubtreeLevels,
         CallsArranged(pending, root, k), Len(pending) # k,
         ~IsLeaf(NodeReached(pending, root)), NEW right \in BOOLEAN
  PROVE  CallsArranged(<<[node |-> NodeReached(pending, root), right |-> right]>> \o pending, root, k)
<1> DEFINE n == Len(pending)
           node == NodeReached(pending, root)
           call == [node |-> node, right |-> right]
           deeper == <<call>> \o pending
<1>1. /\ node \in Below(root) /\ node \in Nodes /\ Depth[node] = Depth[root] + n
      /\ Destinations(k - n, node) \subseteq Destinations(k, root)
  BY ReachedArranged
<1>2. ~IsImplicit(node)
  BY <1>1, ImplicitLevel
<1>3. pending \in Seq(Call) /\ n \in Nat /\ n <= k /\ n # k /\ k \in Nat
  BY DEF CallsArranged
<1>4. call \in Call
  BY <1>1 DEF Call
<1>5. /\ deeper \in Seq(Call) /\ Len(deeper) = n + 1 /\ deeper[1] = call
      /\ \A i \in 1..n : deeper[i + 1] = pending[i]
  <2> HIDE DEF call
  <2> QED BY <1>3, <1>4
<1>6. call.node = node /\ call.right = right
  OBVIOUS
<1>7. node = IF n = 0 THEN root ELSE Child(pending[1].node, pending[1].right)
  BY <1>3 DEF NodeReached
<1> HIDE DEF node, call, deeper
<1>8. ASSUME NEW i \in 1..Len(deeper)
      PROVE  /\ deeper[i].node \in Below(root) /\ ~IsImplicit(deeper[i].node)
             /\ Depth[deeper[i].node] = Depth[root] + (Len(deeper) - i)
             /\ Destinations(k - (Len(deeper) - i), deeper[i].node) \subseteq Destinations(k, root)
             /\ deeper[i].node =
                  IF i = Len(deeper) THEN root ELSE Child(deeper[i + 1].node, deeper[i + 1].right)
  <2>1. CASE i = 1
    <3>1. Len(deeper) - i = n /\ (i = Len(deeper) <=> n = 0) /\ (n # 0 => deeper[i + 1] = pending[1])
      BY <1>3, <1>5, <2>1
    <3>2. deeper[i].node = node
      BY <1>5, <1>6, <2>1
    <3>3. node = IF i = Len(deeper) THEN root ELSE Child(deeper[i + 1].node, deeper[i + 1].right)
      BY <1>7, <3>1
    <3> HIDE DEF n
    <3> QED BY <1>1, <1>2, <3>1, <3>2, <3>3
  <2>2. CASE i # 1
    <3> DEFINE j == i - 1
    <3>1. j \in 1..n /\ i = j + 1 /\ Len(deeper) - i = n - j /\ (i = Len(deeper) <=> j = n)
      BY <1>3, <1>5, <2>2
    <3>2. /\ pending[j].node \in Below(root) /\ ~IsImplicit(pending[j].node)
          /\ Depth[pending[j].node] = Depth[root] + (n - j)
          /\ Destinations(k - (n - j), pending[j].node) \subseteq Destinations(k, root)
          /\ pending[j].node = IF j = n THEN root ELSE Child(pending[j + 1].node, pending[j + 1].right)
      BY <3>1 DEF CallsArranged
    <3> HIDE DEF j
    <3>3. deeper[i] = pending[j] /\ (j # n => deeper[i + 1] = pending[j + 1])
      <4>1. j # n => j + 1 \in 1..n
        BY <1>3, <3>1
      <4> QED BY <1>5, <3>1, <4>1
    <3> HIDE DEF n
    <3> QED BY <3>1, <3>2, <3>3
  <2> QED BY <2>1, <2>2
<1>9. Len(deeper) <= k
  BY <1>3, <1>5
<1>10. CallsArranged(deeper, root, k)
  BY <1>5, <1>8, <1>9 DEF CallsArranged
<1> QED BY <1>10 DEF deeper, call, node

(* The innermost call returns to the node that it came from.               *)
LEMMA CallsReturn ==
  ASSUME NEW pending, NEW root \in Nodes, NEW k \in 1..MaxSubtreeLevels,
         CallsArranged(pending, root, k), pending # <<>>
  PROVE  /\ CallsArranged(Tail(pending), root, k) /\ Len(Tail(pending)) = Len(pending) - 1
         /\ Returning(pending).node \in Nodes /\ Returning(pending).right \in BOOLEAN
         /\ NodeReached(Tail(pending), root) = Returning(pending).node
         /\ Child(Returning(pending).node, Returning(pending).right) = NodeReached(pending, root)
<1> DEFINE n == Len(pending)
           rest == Tail(pending)
<1>1. pending \in Seq(Call) /\ n \in Nat /\ n >= 1 /\ n <= k /\ k \in Nat
  BY DEF CallsArranged
<1>2. /\ rest \in Seq(Call) /\ Len(rest) = n - 1 /\ Head(pending) = pending[1] /\ pending[1] \in Call
      /\ \A i \in 1..n - 1 : rest[i] = pending[i + 1]
  BY <1>1
<1>3. Returning(pending) = pending[1]
  BY <1>2 DEF Returning
<1>4. Child(pending[1].node, pending[1].right) = NodeReached(pending, root)
  BY <1>2 DEF NodeReached
<1>5. pending[1].node \in Nodes /\ pending[1].right \in BOOLEAN
  BY <1>2 DEF Call
<1>6. NodeReached(rest, root) = pending[1].node
  <2>1. pending[1].node = IF 1 = n THEN root ELSE Child(pending[2].node, pending[2].right)
    <3>1. 1 \in 1..n /\ 1 + 1 = 2
      BY <1>1
    <3>2. pending[1].node = IF 1 = n THEN root ELSE Child(pending[1 + 1].node, pending[1 + 1].right)
      BY <3>1 DEF CallsArranged
    <3> QED BY <3>1, <3>2
  <2>2. CASE n = 1
    <3> HIDE DEF rest
    <3>1. rest = <<>>
      BY <1>2, <2>2, EmptySeq
    <3> QED BY <2>1, <2>2, <3>1 DEF NodeReached
  <2>3. CASE n # 1
    <3> HIDE DEF rest, n
    <3>1. 1 \in 1..n - 1 /\ 1 + 1 = 2 /\ Len(rest) # 0
      BY <1>1, <1>2, <2>3
    <3>2. rest # <<>> /\ Head(rest) = rest[1]
      BY <1>2, <3>1
    <3>3. rest[1] = pending[1 + 1]
      BY <1>2, <3>1
    <3>4. rest # <<>> /\ Head(rest) = pending[2]
      BY <3>1, <3>2, <3>3
    <3> QED BY <2>1, <2>3, <3>4 DEF NodeReached, n
  <2> QED BY <2>2, <2>3
<1> HIDE DEF rest
<1>7. ASSUME NEW i \in 1..n - 1
      PROVE  /\ rest[i].node \in Below(root) /\ ~IsImplicit(rest[i].node)
             /\ Depth[rest[i].node] = Depth[root] + (n - 1 - i)
             /\ Destinations(k - (n - 1 - i), rest[i].node) \subseteq Destinations(k, root)
             /\ rest[i].node = IF i = n - 1 THEN root ELSE Child(rest[i + 1].node, rest[i + 1].right)
  <2> DEFINE j == i + 1
  <2>1. j \in 1..n /\ n - 1 - i = n - j /\ (i = n - 1 <=> j = n) /\ (j # n => j \in 1..n - 1)
    BY <1>1
  <2>2. /\ pending[j].node \in Below(root) /\ ~IsImplicit(pending[j].node)
        /\ Depth[pending[j].node] = Depth[root] + (n - j)
        /\ Destinations(k - (n - j), pending[j].node) \subseteq Destinations(k, root)
        /\ pending[j].node = IF j = n THEN root ELSE Child(pending[j + 1].node, pending[j + 1].right)
    BY <2>1 DEF CallsArranged
  <2>3. rest[i] = pending[j] /\ (j # n => rest[j] = pending[j + 1])
    BY <1>2, <2>1
  <2> HIDE DEF n
  <2> QED BY <2>1, <2>2, <2>3
<1>8. Len(rest) <= k
  BY <1>1, <1>2
<1> HIDE DEF n
<1>9. CallsArranged(rest, root, k)
  BY <1>2, <1>7, <1>8 DEF CallsArranged
<1> QED BY <1>2, <1>3, <1>4, <1>5, <1>6, <1>9 DEF rest, n

-----------------------------------------------------------------------------
(* What a finalized path answers                                           *)

(* Every step leaves a node on the way to the destination to its side.     *)
LEMMA StepTurns ==
  ASSUME NEW path, NEW root, NEW k, Arranged(path, root, k), IsFinalized(path), NEW i \in 1..k
  PROVE  /\ path.steps[i] \in Step /\ path.steps[i].right \in BOOLEAN
         /\ path.steps[i].from \in Turns(root, path.dest, path.steps[i].right)
<1>1. path \in PathsOf(k) /\ k \in Nat /\ i \in Nat
  BY DEF Arranged, MaxSubtreeLevels
<1>2. i >= path.insertIdx
  BY <1>1 DEF IsFinalized
<1>3. StepArranged(path, root, k, i)
  BY <1>2 DEF Arranged
<1> DEFINE step == path.steps[i]
<1>4. /\ step \in Step /\ ~IsImplicit(step.from) /\ step.from \in Below(root)
      /\ step.to = Child(step.from, step.right) /\ path.dest \in Below(step.to)
  BY <1>3 DEF StepArranged
<1> HIDE DEF step
<1>5. step.right \in BOOLEAN
  BY <1>4 DEF Step
<1>6. path.dest \in Below(Child(step.from, step.right))
  BY <1>4
<1>7. step.from \in Turns(root, path.dest, step.right)
  BY <1>4, <1>6 DEF Turns
<1> QED BY <1>4, <1>5, <1>7 DEF step

(* And no node on that way is missing from the steps.                      *)
LEMMA TurnsAreSteps ==
  ASSUME NEW path, NEW root, NEW k, Arranged(path, root, k), IsFinalized(path),
         NEW side \in BOOLEAN, NEW m \in Turns(root, path.dest, side)
  PROVE  \E i \in 1..k : path.steps[i].from = m /\ path.steps[i].right = side
<1> DEFINE i == Depth[m] - Depth[root] + 1
           step == path.steps[i]
           d == path.dest
<1>1. k \in Nat /\ root \in Nodes /\ path \in PathsOf(k)
  BY DEF Arranged, MaxSubtreeLevels
<1>2. m \in Below(root) /\ ~IsImplicit(m) /\ d \in Below(Child(m, side))
  BY DEF Turns
<1>3. m \in Nodes /\ Depth[m] >= Depth[root] /\ Depth[m] \in Nat /\ Depth[root] \in Nat
  BY <1>1, <1>2, BelowDepth, ImplicitLevel
<1>4. Depth[d] = Depth[root] + k
  BY FinalizedAtRoot
<1>5. Depth[d] >= Depth[m] + 1 /\ d \in Below(m)
  <2>1. Child(m, side) \in Nodes /\ Depth[Child(m, side)] = Depth[m] + 1
    BY <1>2, <1>3, ChildLevel
  <2>2. Depth[d] >= Depth[Child(m, side)]
    BY <1>2, <2>1, BelowDepth
  <2>3. d \in Below(m)
    BY <1>2, <1>3, BelowChildren
  <2> QED BY <2>1, <2>2, <2>3
<1>6. i \in 1..k
  BY <1>1, <1>3, <1>4, <1>5
<1>7. i >= path.insertIdx
  BY <1>6 DEF IsFinalized
<1>8. StepArranged(path, root, k, i)
  BY <1>6, <1>7 DEF Arranged
<1>9. /\ step \in Step /\ ~IsImplicit(step.from) /\ d \in Below(Child(step.from, step.right))
      /\ Depth[d] = Depth[step.from] + (k + 1 - i)
  BY <1>8 DEF StepArranged
<1> HIDE DEF step, d
<1>10. step.from \in Nodes /\ step.right \in BOOLEAN
  BY <1>9 DEF Step
<1>11. Depth[step.from] \in Nat
  BY <1>10, ImplicitLevel
<1>12. Depth[step.from] = Depth[m]
  BY <1>1, <1>3, <1>4, <1>9, <1>11
<1>13. d \in Below(step.from)
  BY <1>9, <1>10, BelowChildren
<1>14. step.from = m
  BY <1>3, <1>5, <1>10, <1>12, <1>13, BelowDisjoint
<1>15. step.right = side
  <2>1. Below(Child(m, FALSE)) \cap Below(Child(m, TRUE)) = {}
    BY <1>2, <1>3, ChildrenApart
  <2>2. d \in Below(Child(m, step.right)) /\ d \in Below(Child(m, side))
    BY <1>2, <1>9, <1>14
  <2>3. CASE side = TRUE /\ step.right = FALSE
    BY <2>1, <2>2, <2>3
  <2>4. CASE side = FALSE /\ step.right = TRUE
    BY <2>1, <2>2, <2>4
  <2>5. \/ step.right = side
        \/ side = TRUE /\ step.right = FALSE
        \/ side = FALSE /\ step.right = TRUE
    <3> DEFINE r == step.right
    <3>1. r \in BOOLEAN
      BY <1>10
    <3> HIDE DEF r
    <3>2. r = side \/ (side = TRUE /\ r = FALSE) \/ (side = FALSE /\ r = TRUE)
      BY <3>1
    <3> QED BY <3>2 DEF r
  <2> QED BY <2>3, <2>4, <2>5, Zenon
<1> QED BY <1>6, <1>14, <1>15 DEF step

(* Asked for the step from a node, a path answers with one of its steps,   *)
(* or that there is none.                                                  *)
LEMMA StepFound ==
  ASSUME NEW k \in Nat, NEW path \in PathsOf(k), NEW n
  PROVE  LET step == StepFromNode(path, n)
         IN  \/ step = None /\ \A i \in 1..k : path.steps[i].from # n
             \/ \E i \in 1..k : step = path.steps[i] /\ path.steps[i].from = n
<1> DEFINE I == {i \in 1..k : path.steps[i].from = n}
           first == CHOOSE i \in I : \A j \in I : i <= j
<1>1. DOMAIN path.steps = 1..k
  BY PathFields
<1>2. StepFromNode(path, n) = IF I = {} THEN None ELSE path.steps[first]
  BY <1>1 DEF StepFromNode
<1>3. CASE I = {}
  BY <1>2, <1>3
<1>4. CASE I # {}
  <2>1. I \in SUBSET Nat
    OBVIOUS
  <2> HIDE DEF I
  <2>2. \E i \in I : \A j \in I : i <= j
    BY <1>4, <2>1, LeastNumber
  <2>3. first \in I
    BY <2>2
  <2> HIDE DEF first
  <2>4. first \in 1..k /\ path.steps[first].from = n
    BY <2>3 DEF I
  <2> QED BY <1>2, <1>4, <2>4
<1> QED BY <1>3, <1>4

(* A finalized path answers as the abstract one to its destination.        *)
LEMMA PathAnswers ==
  ASSUME NEW path, NEW root, NEW k, Arranged(path, root, k), IsFinalized(path),
         NEW promised, promised.dest = path.dest,
         promised.one = Turns(root, path.dest, TRUE), promised.zero = Turns(root, path.dest, FALSE),
         NEW n
  PROVE  /\ HasNodeIn(path, n) <=> HasNode(promised, n)
         /\ n \in promised.one <=> StepFromNode(path, n) # None /\ StepFromNode(path, n).right
<1> DEFINE turns(side) == Turns(root, path.dest, side)
           steps == path.steps
<1>1. k \in Nat /\ path \in PathsOf(k)
  BY DEF Arranged, MaxSubtreeLevels
<1>2. DOMAIN path.steps = 1..k
  BY <1>1, PathFields
<1>3. \A i \in 1..k : steps[i] \in Step /\ steps[i].right \in BOOLEAN /\ steps[i].from \in turns(steps[i].right)
  BY StepTurns
<1>4. \A side \in BOOLEAN : \A m \in turns(side) : \E i \in 1..k : steps[i].from = m /\ steps[i].right = side
  BY TurnsAreSteps
<1>5. HasNodeIn(path, n) <=> (\E i \in 1..k : steps[i].from = n) \/ n = path.dest
  BY <1>2 DEF HasNodeIn
<1>6. HasNode(promised, n) <=> n \in turns(FALSE) \/ n \in turns(TRUE) \/ n = path.dest
  BY DEF HasNode
<1>7. \/ StepFromNode(path, n) = None /\ \A i \in 1..k : steps[i].from # n
      \/ \E i \in 1..k : StepFromNode(path, n) = steps[i] /\ steps[i].from = n
  BY <1>1, StepFound
<1>8. turns(FALSE) \cap turns(TRUE) = {}
  <2> SUFFICES ASSUME NEW m \in turns(FALSE), m \in turns(TRUE) PROVE FALSE
    OBVIOUS
  <2>1. m \in Below(root) /\ ~IsImplicit(m) /\ path.dest \in Below(Child(m, FALSE)) \cap Below(Child(m, TRUE))
    BY DEF Turns
  <2>2. m \in Nodes
    <3>1. root \in Nodes
      BY DEF Arranged
    <3> QED BY <2>1, <3>1, BelowClosed
  <2> QED BY <2>1, <2>2, ChildrenApart
<1> HIDE DEF turns, steps
<1>9. (\E i \in 1..k : steps[i].from = n) <=> n \in turns(FALSE) \/ n \in turns(TRUE)
  BY <1>3, <1>4
<1>10. n \in turns(TRUE) <=> StepFromNode(path, n) # None /\ StepFromNode(path, n).right
  <2>1. ASSUME n \in turns(TRUE)
        PROVE  StepFromNode(path, n) # None /\ StepFromNode(path, n).right
    <3>1. \E i \in 1..k : steps[i].from = n
      BY <1>4, <2>1
    <3>2. PICK i \in 1..k : StepFromNode(path, n) = steps[i] /\ steps[i].from = n
      BY <1>7, <3>1
    <3>3. steps[i] \in Step /\ steps[i].right \in BOOLEAN /\ n \in turns(steps[i].right)
      BY <1>3, <3>2
    <3>4. steps[i].right = TRUE
      BY <1>8, <2>1, <3>3
    <3> QED BY <3>2, <3>3, <3>4, NoneAssumption
  <2>2. ASSUME StepFromNode(path, n) # None, StepFromNode(path, n).right
        PROVE  n \in turns(TRUE)
    <3>1. PICK i \in 1..k : StepFromNode(path, n) = steps[i] /\ steps[i].from = n
      BY <1>7, <2>2
    <3>2. steps[i].right \in BOOLEAN /\ n \in turns(steps[i].right)
      BY <1>3, <3>1
    <3>3. steps[i].right
      BY <2>2, <3>1
    <3>4. steps[i].right = TRUE
      BY <3>2, <3>3
    <3> QED BY <3>2, <3>4
  <2> QED BY <2>1, <2>2
<1> QED BY <1>5, <1>6, <1>9, <1>10 DEF turns

-----------------------------------------------------------------------------
(* The invariant                                                           *)

(* While a path is built nothing is compared, and the other one is left    *)
(* alone.                                                                  *)
LEMMA BuildStep ==
  ASSUME PathInv, comparing = 0, verdict = None, UNCHANGED <<comparing, verdict>>,
         NEW p \in Indices,
         subtrees' \in [Indices -> Subtrees \cup {None}], calls' \in [Indices -> Seq(Call)],
         DOMAIN paths' = Indices,
         \A q \in Indices \ {p} : /\ subtrees'[q] = subtrees[q] /\ calls'[q] = calls[q]
                                  /\ paths'[q] = paths[q],
         subtrees'[p] = None => calls'[p] = <<>> /\ paths'[p] = None,
         subtrees'[p] # None => CallsArranged(calls'[p], subtrees'[p].root, subtrees'[p].levels),
         paths'[p] # None => PathReturned(paths'[p], calls'[p], subtrees'[p].root, subtrees'[p].levels)
  PROVE  PathInv'
<1>2. ASSUME NEW q \in Indices
      PROVE  /\ subtrees'[q] = None => calls'[q] = <<>> /\ paths'[q] = None
             /\ subtrees'[q] # None =>
                  CallsArranged(calls'[q], subtrees'[q].root, subtrees'[q].levels)
             /\ paths'[q] # None =>
                  PathReturned(paths'[q], calls'[q], subtrees'[q].root, subtrees'[q].levels)
  <2>1. CASE q = p
    BY <2>1
  <2>2. CASE q # p
    BY <2>2 DEF PathInv
  <2> QED BY <2>1, <2>2
<1>3. (comparing \in 0..MaxSubtreeLevels + 1)' /\ (verdict \in {None, "equal", "different", "undefined"})'
  BY DEF PathInv
<1>4. ComparedSoFar'
  BY DEF ComparedSoFar
<1>5. ComparisonRight'
  BY NoneAssumption DEF ComparisonRight
<1> QED BY <1>2, <1>3, <1>4, <1>5 DEF PathInv

(* What the invariant says of a run that has begun.                        *)
LEMMA RunThere ==
  ASSUME PathInv, NEW p \in Indices, subtrees[p] # None
  PROVE  LET k == subtrees[p].levels
             root == subtrees[p].root
         IN  /\ subtrees[p] \in Subtrees /\ root \in Nodes /\ k \in 1..MaxSubtreeLevels /\ k \in Nat
             /\ calls[p] \in Seq(Call) /\ CallsArranged(calls[p], root, k)
BY DEF PathInv, Subtrees, MaxSubtreeLevels

(* What it says of a path that there is.                                   *)
LEMMA PathThere ==
  ASSUME PathInv, NEW p \in Indices, paths[p] # None
  PROVE  LET k == subtrees[p].levels
         IN  /\ subtrees[p] # None /\ subtrees[p] \in Subtrees /\ k \in 1..MaxSubtreeLevels /\ k \in Nat
             /\ PathReturned(paths[p], calls[p], subtrees[p].root, k)
             /\ Arranged(paths[p], subtrees[p].root, k) /\ paths[p] \in PathsOf(k)
             /\ Len(paths[p].steps) = k /\ paths[p].insertIdx \in 1..k + 1
<1> DEFINE k == subtrees[p].levels
<1>1. subtrees[p] # None /\ PathReturned(paths[p], calls[p], subtrees[p].root, k)
  BY DEF PathInv
<1>2. subtrees[p] \in Subtrees /\ k \in 1..MaxSubtreeLevels /\ k \in Nat
  BY <1>1, RunThere
<1>3. Arranged(paths[p], subtrees[p].root, k)
  BY <1>1 DEF PathReturned
<1>4. paths[p] \in PathsOf(k)
  BY <1>3 DEF Arranged
<1> HIDE DEF k
<1>5. Len(paths[p].steps) = k /\ paths[p].insertIdx \in 1..k + 1
  BY <1>2, <1>4, PathFields
<1> QED BY <1>1, <1>2, <1>3, <1>4, <1>5 DEF k

(* BeginPath *)
LEMMA BeginPathKeeps ==
  ASSUME PathInv, comparing = 0, verdict = None,
         NEW p \in Indices, NEW subtree \in Subtrees, BeginPath(p, subtree)
  PROVE  PathInv'
<1>1. /\ subtrees[p] = None /\ subtrees' = [subtrees EXCEPT ![p] = subtree]
      /\ UNCHANGED <<calls, paths, comparing, verdict>>
  BY DEF BeginPath
<1>2. /\ calls[p] = <<>> /\ paths[p] = None /\ calls \in [Indices -> Seq(Call)] /\ DOMAIN paths = Indices
      /\ subtrees \in [Indices -> Subtrees \cup {None}]
  BY <1>1 DEF PathInv
<1>3. CallsArranged(<<>>, subtree.root, subtree.levels)
  BY DEF CallsArranged, Subtrees, MaxSubtreeLevels
<1>4. /\ subtrees' \in [Indices -> Subtrees \cup {None}] /\ subtrees'[p] = subtree
      /\ \A q \in Indices \ {p} : subtrees'[q] = subtrees[q]
  BY <1>1, <1>2
<1> QED BY <1>1, <1>2, <1>3, <1>4, BuildStep

(* Descend *)
LEMMA DescendKeeps ==
  ASSUME PathInv, comparing = 0, verdict = None,
         NEW p \in Indices, NEW right \in BOOLEAN, Descend(p, right)
  PROVE  PathInv'
<1> DEFINE subtree == subtrees[p]
           node == NodeReached(calls[p], subtree.root)
           pending == <<[node |-> node, right |-> right]>> \o calls[p]
<1>1. /\ subtree # None /\ paths[p] = None /\ ~IsLeaf(node) /\ Len(calls[p]) # subtree.levels
      /\ calls' = [calls EXCEPT ![p] = pending]
      /\ UNCHANGED <<subtrees, paths, comparing, verdict>>
  BY DEF Descend, IsContinuation
<1>2. /\ subtree \in Subtrees /\ subtree.root \in Nodes /\ subtree.levels \in 1..MaxSubtreeLevels
      /\ CallsArranged(calls[p], subtree.root, subtree.levels)
  BY <1>1, RunThere
<1>3. CallsArranged(pending, subtree.root, subtree.levels)
  BY <1>1, <1>2, CallsDescend
<1>4. pending \in Seq(Call)
  BY <1>3 DEF CallsArranged
<1> HIDE DEF pending
<1>5. /\ calls' \in [Indices -> Seq(Call)] /\ calls'[p] = pending
      /\ \A q \in Indices \ {p} : calls'[q] = calls[q]
      /\ subtrees \in [Indices -> Subtrees \cup {None}] /\ DOMAIN paths = Indices
  BY <1>1, <1>4 DEF PathInv
<1> QED BY <1>1, <1>2, <1>3, <1>5, BuildStep

(* NewPath *)
LEMMA NewPathKeeps ==
  ASSUME PathInv, comparing = 0, verdict = None, NEW p \in Indices, NewPath(p)
  PROVE  PathInv'
<1> DEFINE subtree == subtrees[p]
           k == subtree.levels
           root == subtree.root
           n == NodeReached(calls[p], root)
           path == EmptyPath(k, n)
<1>1. /\ subtree # None /\ paths' = [paths EXCEPT ![p] = path]
      /\ IsLeaf(n) \/ Len(calls[p]) = k
      /\ UNCHANGED <<subtrees, calls, comparing, verdict>>
  BY DEF NewPath, IsContinuation
<1>2. /\ subtree \in Subtrees /\ root \in Nodes /\ k \in 1..MaxSubtreeLevels /\ k \in Nat
      /\ calls[p] \in Seq(Call) /\ CallsArranged(calls[p], root, k)
  BY <1>1, RunThere
<1> HIDE DEF k, root
<1>3. /\ n \in Nodes /\ Depth[n] = Depth[root] + Len(calls[p])
      /\ Len(calls[p]) \in 0..k /\ k - Len(calls[p]) \in 0..MaxSubtreeLevels
      /\ Destinations(k - Len(calls[p]), n) \subseteq Destinations(k, root)
  BY <1>2, ReachedArranged
<1> HIDE DEF n
<1>4. n \in Destinations(k - Len(calls[p]), n)
  <2> DEFINE j == k - Len(calls[p])
  <2>1. Paths[j][n] = <<PathTo(n)>>
    <3>1. CASE j = 0
      BY <1>3, <3>1, PathsEquation DEF PathsToSelf
    <3>2. CASE j # 0
      <4>1. IsLeaf(n)
        BY <1>1, <1>2, <1>3, <3>2
      <4>2. j - 1 \in 0..MaxSubtreeLevels - 1 /\ (j - 1) + 1 = j
        BY <1>3, <3>2 DEF MaxSubtreeLevels
      <4> HIDE DEF j
      <4>3. Paths[j] = PathsStep(Paths[j - 1])
        BY <4>2, PathsEquation
      <4> QED BY <1>3, <4>1, <4>3 DEF PathsStep
    <3> QED BY <3>1, <3>2
  <2>2. PathTo(n).dest = n
    BY DEF PathTo
  <2> HIDE DEF j
  <2>3. 1 \in DOMAIN Paths[j][n] /\ Paths[j][n][1] = PathTo(n)
    BY <2>1
  <2>4. n \in Destinations(j, n)
    BY <2>2, <2>3 DEF Destinations
  <2> QED BY <2>4 DEF j
<1>5. Arranged(path, root, k)
  <2>1. n \in Destinations(subtree.levels, subtree.root)
    BY <1>3, <1>4 DEF k, root
  <2> QED BY <1>2, <2>1, NewArranged DEF k, root
<1>6. path.dest = n /\ path.insertIdx = k + 1 /\ path.steps = [i \in 1..k |-> None]
  BY DEF EmptyPath
<1>7. Len(path.steps) = k
  <2>1. path \in PathsOf(k)
    BY <1>5 DEF Arranged
  <2> QED BY <1>2, <2>1, PathFields
<1> HIDE DEF path
<1>8. First(path) = n
  BY <1>6, <1>7 DEF First
<1>9. Len(calls[p]) < path.insertIdx
  BY <1>2, <1>3, <1>6
<1>10. IsImplicit(path.dest) \/ Depth[path.dest] = Depth[root] + k
  BY <1>1, <1>3, <1>6, ImplicitLevel
<1>11. PathReturned(path, calls[p], root, k)
  BY <1>5, <1>8, <1>9, <1>10 DEF PathReturned, n
<1>12. /\ DOMAIN paths' = Indices /\ paths'[p] = path
       /\ \A q \in Indices \ {p} : paths'[q] = paths[q]
       /\ subtrees \in [Indices -> Subtrees \cup {None}] /\ calls \in [Indices -> Seq(Call)]
  BY <1>1 DEF PathInv
<1>13. /\ CallsArranged(calls[p], subtrees[p].root, subtrees[p].levels)
       /\ PathReturned(path, calls[p], subtrees[p].root, subtrees[p].levels)
  BY <1>2, <1>11 DEF k, root
<1> QED BY <1>1, <1>12, <1>13, BuildStep

(* AddParentStep *)
LEMMA AddParentKeeps ==
  ASSUME PathInv, comparing = 0, verdict = None, NEW p \in Indices, AddParentStep(p)
  PROVE  PathInv'
<1> DEFINE subtree == subtrees[p]
           k == subtree.levels
           root == subtree.root
           pending == calls[p]
           rest == Tail(pending)
           call == Returning(pending)
           path == paths[p]
           longer == WithParent(path, call.node, call.right)
<1>1. /\ path # None /\ pending # <<>> /\ ~IsFinalized(path)
      /\ paths' = [paths EXCEPT ![p] = longer] /\ calls' = [calls EXCEPT ![p] = rest]
      /\ UNCHANGED <<subtrees, comparing, verdict>>
  BY DEF AddParentStep
<1>2. subtree # None /\ PathReturned(path, pending, root, k) /\ path.insertIdx \in 1..k + 1
  BY <1>1, PathThere
<1>3. /\ subtree \in Subtrees /\ root \in Nodes /\ k \in 1..MaxSubtreeLevels /\ k \in Nat
      /\ pending \in Seq(Call) /\ CallsArranged(pending, root, k)
  BY <1>2, RunThere
<1> HIDE DEF k, root, pending
<1>4. /\ Arranged(path, root, k) /\ First(path) = NodeReached(pending, root)
      /\ Len(pending) < path.insertIdx
      /\ IsImplicit(path.dest) \/ Depth[path.dest] = Depth[root] + k
  BY <1>2 DEF PathReturned
<1>5. /\ CallsArranged(rest, root, k) /\ Len(rest) = Len(pending) - 1
      /\ call.node \in Nodes /\ call.right \in BOOLEAN /\ NodeReached(rest, root) = call.node
      /\ Child(call.node, call.right) = NodeReached(pending, root)
  BY <1>1, <1>3, CallsReturn
<1>6. First(path) # root
  <2>1. Depth[NodeReached(pending, root)] = Depth[root] + Len(pending) /\ Len(pending) \in 0..k
    BY <1>3, ReachedArranged
  <2>2. Len(pending) # 0 /\ Depth[root] \in Nat
    BY <1>1, <1>3, ImplicitLevel
  <2>3. Depth[NodeReached(pending, root)] # Depth[root]
    BY <2>1, <2>2
  <2> QED BY <1>4, <2>3
<1>7. Arranged(longer, root, k)
  BY <1>1, <1>4, <1>5, <1>6, ParentArranged
<1>8. longer.dest = path.dest /\ longer.insertIdx = path.insertIdx - 1 /\ First(longer) = call.node
  <2>1. path \in PathsOf(k) /\ path.steps \in [1..k -> Step \cup {None}] /\ Len(path.steps) = k
    BY <1>3, <1>4, PathFields DEF Arranged
  <2> DEFINE i == path.insertIdx - 1
             added == [from |-> call.node, to |-> First(path), right |-> call.right]
  <2>2. longer = [path EXCEPT !.steps = [path.steps EXCEPT ![i] = added], !.insertIdx = i]
    BY <2>1 DEF WithParent, PathsOf
  <2>3. i \in 1..k /\ i # k + 1
    BY <1>1, <1>2, <1>3 DEF IsFinalized
  <2>4. added.from = call.node
    OBVIOUS
  <2> HIDE DEF added, i, longer
  <2>5. /\ longer.dest = path.dest /\ longer.insertIdx = i
        /\ longer.steps = [path.steps EXCEPT ![i] = added]
    BY <2>1, <2>2 DEF PathsOf
  <2>6. longer.steps[i] = added
    BY <2>1, <2>3, <2>5
  <2>7. Len(longer.steps) = k
    <3>1. longer \in PathsOf(k)
      BY <1>7 DEF Arranged, longer
    <3> QED BY <1>3, <3>1, PathFields
  <2>8. First(longer) = longer.steps[i].from
    BY <2>3, <2>5, <2>7 DEF First
  <2> QED BY <2>4, <2>5, <2>6, <2>8 DEF i
<1> HIDE DEF longer, call, rest, path
<1>9. Len(rest) < longer.insertIdx
  <2>1. Len(pending) \in Nat
    BY <1>3
  <2> QED BY <1>2, <1>3, <1>4, <1>5, <1>8, <2>1
<1>10. PathReturned(longer, rest, root, k)
  BY <1>4, <1>5, <1>7, <1>8, <1>9 DEF PathReturned
<1>11. rest \in Seq(Call)
  BY <1>5 DEF CallsArranged
<1>12. /\ DOMAIN paths' = Indices /\ paths'[p] = longer
       /\ calls' \in [Indices -> Seq(Call)] /\ calls'[p] = rest
       /\ \A q \in Indices \ {p} : paths'[q] = paths[q] /\ calls'[q] = calls[q]
       /\ subtrees \in [Indices -> Subtrees \cup {None}]
  BY <1>1, <1>11 DEF PathInv
<1>13. /\ CallsArranged(rest, subtrees[p].root, subtrees[p].levels)
       /\ PathReturned(longer, rest, subtrees[p].root, subtrees[p].levels)
  BY <1>5, <1>10 DEF k, root
<1> QED BY <1>1, <1>2, <1>12, <1>13, BuildStep

(* Once the last call has returned, the path of a complete subtree is      *)
(* finalized.                                                              *)
LEMMA ReturnedFinalized ==
  ASSUME NEW path, NEW root, NEW k \in 1..MaxSubtreeLevels, PathReturned(path, <<>>, root, k),
         PathsComplete(root, k), path.insertIdx \in 1..k + 1
  PROVE  IsFinalized(path)
<1>1. Arranged(path, root, k) /\ First(path) = root /\ (IsImplicit(path.dest) \/ Depth[path.dest] = Depth[root] + k)
  BY DEF PathReturned, NodeReached
<1>2. root \in Nodes /\ path.dest \in Nodes /\ k \in Nat /\ k \in 0..MaxSubtreeLevels
  <2>1. k \in Nat /\ path \in PathsOf(k) /\ root \in Nodes /\ k \in 0..MaxSubtreeLevels
    BY <1>1 DEF Arranged, MaxSubtreeLevels
  <2> QED BY <2>1, PathFields
<1>3. Depth[path.dest] = Depth[root] + (k + 1 - path.insertIdx)
  BY <1>1, FirstArranged
<1>4. Depth[root] + k <= Levels
  BY <1>2, PathsCompleteWithin
<1>5. Depth[root] \in Nat /\ Levels \in Nat /\ (IsImplicit(path.dest) => Depth[path.dest] = Levels)
  BY <1>2, ImplicitLevel, TreeAssumption DEF IsPerfect
<1> QED BY <1>1, <1>2, <1>3, <1>4, <1>5 DEF IsFinalized

(* Comparing changes no path, so that what is said of each stays true.     *)
LEMMA ComparingKeepsPaths ==
  ASSUME PathInv, UNCHANGED <<subtrees, calls, paths>>,
         comparing' \in 0..MaxSubtreeLevels + 1,
         verdict' \in {None, "equal", "different", "undefined"},
         ComparedSoFar', ComparisonRight'
  PROVE  PathInv'
BY DEF PathInv

(* BeginCompare                                                            *)
LEMMA BeginKeeps ==
  ASSUME PathInv, BeginCompare
  PROVE  PathInv'
<1> DEFINE lhs == paths[1]
           rhs == paths[2]
           k == subtrees[1].levels
           j == subtrees[2].levels
<1>1. /\ lhs # None /\ rhs # None /\ comparing = 0 /\ verdict = None
      /\ UNCHANGED <<subtrees, calls, paths>>
  BY DEF BeginCompare
<1>2. /\ k \in 1..MaxSubtreeLevels /\ k \in Nat /\ Len(lhs.steps) = k /\ lhs.insertIdx \in 1..k + 1
      /\ j \in Nat /\ Len(rhs.steps) = j /\ rhs.insertIdx \in 1..j + 1
      /\ Arranged(lhs, subtrees[1].root, k) /\ Arranged(rhs, subtrees[2].root, j)
  BY <1>1, PathThere DEF Indices
<1>3. CASE k = j /\ lhs.insertIdx = rhs.insertIdx /\ k >= lhs.insertIdx
  <2>1. comparing' = k /\ verdict' = None
    BY <1>1, <1>2, <1>3 DEF BeginCompare
  <2>2. comparing' \in 0..MaxSubtreeLevels + 1
    BY <1>2, <2>1 DEF MaxSubtreeLevels
  <2>3. ComparedSoFar'
    BY <1>1, <1>2, <1>3, <2>1 DEF ComparedSoFar
  <2>4. ComparisonRight'
    BY <2>1, NoneAssumption DEF ComparisonRight
  <2> QED BY <1>1, <2>1, <2>2, <2>3, <2>4, ComparingKeepsPaths
<1>4. CASE ~(k = j /\ lhs.insertIdx = rhs.insertIdx /\ k >= lhs.insertIdx)
  <2>1. /\ comparing' = 0
        /\ verdict' = IF k = j /\ lhs.insertIdx = rhs.insertIdx /\ lhs.dest = rhs.dest
                      THEN "equal" ELSE "different"
    BY <1>1, <1>2, <1>4 DEF BeginCompare
  <2>2. (k = j /\ lhs.insertIdx = rhs.insertIdx /\ lhs.dest = rhs.dest) <=> lhs = rhs
    <3>1. ASSUME k = j, lhs.insertIdx = rhs.insertIdx, lhs.dest = rhs.dest PROVE lhs = rhs
      BY <1>2, <3>1, PathsEqual
    <3> HIDE DEF lhs, rhs, k, j
    <3> QED BY <1>2, <3>1
  <2>3. ComparisonRight'
    <3>1. verdict' = IF lhs = rhs THEN "equal" ELSE "different"
      BY <2>1, <2>2
    <3>2. paths'[1] = lhs /\ paths'[2] = rhs
      BY <1>1
    <3> QED BY <3>1, <3>2 DEF ComparisonRight
  <2>4. ComparedSoFar'
    BY <2>1 DEF ComparedSoFar
  <2>5. comparing' \in 0..MaxSubtreeLevels + 1 /\ verdict' \in {None, "equal", "different", "undefined"}
    BY <2>1 DEF MaxSubtreeLevels
  <2> QED BY <1>1, <2>3, <2>4, <2>5, ComparingKeepsPaths
<1> QED BY <1>3, <1>4

(* What the invariant says while the loop runs.                            *)
LEMMA LoopThere ==
  ASSUME PathInv, comparing > 0
  PROVE  LET k == subtrees[1].levels
         IN  /\ paths[1] # None /\ paths[2] # None /\ verdict = None
             /\ k \in 1..MaxSubtreeLevels /\ k \in Nat /\ Len(paths[1].steps) = k
             /\ paths[1] \in PathsOf(k)
             /\ Arranged(paths[1], subtrees[1].root, k) /\ Arranged(paths[2], subtrees[2].root, k)
             /\ paths[1].insertIdx \in 1..k /\ paths[1].insertIdx = paths[2].insertIdx
             /\ comparing \in {k, k + 1}
             /\ comparing = k + 1 => SameStep(paths[1].steps[k], paths[2].steps[k])
<1> DEFINE k == subtrees[1].levels
<1>1. /\ paths[1] # None /\ paths[2] # None /\ verdict = None /\ subtrees[2].levels = k
      /\ paths[1].insertIdx = paths[2].insertIdx /\ paths[1].insertIdx <= k
      /\ comparing \in {k, k + 1}
      /\ comparing = k + 1 => SameStep(paths[1].steps[k], paths[2].steps[k])
  BY DEF PathInv, ComparedSoFar
<1>2. /\ k \in 1..MaxSubtreeLevels /\ k \in Nat /\ Len(paths[1].steps) = k
      /\ paths[1].insertIdx \in 1..k + 1 /\ paths[1] \in PathsOf(k)
      /\ Arranged(paths[1], subtrees[1].root, k)
  BY <1>1, PathThere DEF Indices
<1>3. Arranged(paths[2], subtrees[2].root, k)
  BY <1>1, PathThere DEF Indices
<1> HIDE DEF k
<1>4. paths[1].insertIdx \in 1..k
  BY <1>1, <1>2
<1> QED BY <1>1, <1>2, <1>3, <1>4 DEF k

(* The last step leads to the destination.                                 *)
LEMMA LastStep ==
  ASSUME NEW k \in Nat \ {0}, NEW path, NEW root, Arranged(path, root, k), path.insertIdx \in 1..k
  PROVE  path.steps[k].to = path.dest
<1>1. StepArranged(path, root, k, k)
  BY DEF Arranged
<1> QED BY <1>1 DEF StepArranged

(* CompareStep                                                             *)
LEMMA CompareKeeps ==
  ASSUME PathInv, CompareStep
  PROVE  PathInv'
<1> DEFINE k == subtrees[1].levels
           same == SameStep(paths[1].steps[comparing], paths[2].steps[comparing])
<1>1. /\ paths[1] # None /\ paths[2] # None /\ verdict = None
      /\ k \in 1..MaxSubtreeLevels /\ k \in Nat /\ Len(paths[1].steps) = k
      /\ paths[1].insertIdx \in 1..k /\ paths[1].insertIdx = paths[2].insertIdx
      /\ comparing \in {k, k + 1}
  BY LoopThere DEF CompareStep
<1>2. subtrees[2].levels = k
  BY DEF PathInv, ComparedSoFar, CompareStep
<1>3. /\ comparing <= Len(paths[1].steps) /\ UNCHANGED <<subtrees, calls, paths>>
      /\ IF same THEN comparing' = comparing + 1 /\ UNCHANGED verdict
         ELSE comparing' = 0 /\ verdict' = "different"
  BY DEF CompareStep
<1>4. comparing = k
  BY <1>1, <1>3
<1>5. CASE same
  <2>1. comparing' = k + 1 /\ verdict' = None
    BY <1>1, <1>3, <1>4, <1>5
  <2>2. comparing' \in 0..MaxSubtreeLevels + 1
    BY <1>1, <2>1 DEF MaxSubtreeLevels
  <2>3. SameStep(paths[1].steps[k], paths[2].steps[k])
    BY <1>4, <1>5
  <2>4. ComparedSoFar'
    <3>1. SameStep(paths'[1].steps[k], paths'[2].steps[k])
      BY <1>3, <2>3
    <3>2. subtrees'[1].levels = k /\ subtrees'[2].levels = k
      BY <1>2, <1>3
    <3>3. /\ None \notin {paths'[1], paths'[2]} /\ paths'[1].insertIdx = paths'[2].insertIdx
          /\ paths'[1].insertIdx <= k
      BY <1>1, <1>3
    <3> HIDE DEF k, same
    <3> QED BY <2>1, <3>1, <3>2, <3>3 DEF ComparedSoFar
  <2>5. ComparisonRight'
    BY <2>1, NoneAssumption DEF ComparisonRight
  <2>6. verdict' \in {None, "equal", "different", "undefined"}
    BY <2>1
  <2> QED BY <1>3, <2>2, <2>4, <2>5, <2>6, ComparingKeepsPaths
<1>6. CASE ~same
  <2>1. comparing' = 0 /\ verdict' = "different"
    BY <1>3, <1>6
  <2>2. paths[1] # paths[2]
    BY <1>6 DEF SameStep
  <2>3. ComparedSoFar' /\ ComparisonRight'
    BY <1>3, <2>1, <2>2 DEF ComparedSoFar, ComparisonRight
  <2>4. comparing' \in 0..MaxSubtreeLevels + 1 /\ verdict' \in {None, "equal", "different", "undefined"}
    BY <2>1 DEF MaxSubtreeLevels
  <2> QED BY <1>3, <2>3, <2>4, ComparingKeepsPaths
<1> QED BY <1>5, <1>6

(* CompareOutside: only paths that are equal get there.                    *)
LEMMA OutsideKeeps ==
  ASSUME PathInv, CompareOutside
  PROVE  PathInv'
<1> DEFINE k == subtrees[1].levels
           lhs == paths[1]
           rhs == paths[2]
<1>1. /\ comparing > 0 /\ comparing > Len(lhs.steps) /\ comparing' = 0 /\ verdict' = "undefined"
      /\ UNCHANGED <<subtrees, calls, paths>>
  BY DEF CompareOutside
<1>2. /\ k \in Nat \ {0} /\ Len(lhs.steps) = k
      /\ Arranged(lhs, subtrees[1].root, k) /\ Arranged(rhs, subtrees[2].root, k)
      /\ lhs.insertIdx \in 1..k /\ lhs.insertIdx = rhs.insertIdx
      /\ comparing \in {k, k + 1}
      /\ comparing = k + 1 => SameStep(lhs.steps[k], rhs.steps[k])
  BY <1>1, LoopThere
<1>3. SameStep(lhs.steps[k], rhs.steps[k])
  BY <1>1, <1>2
<1>4. lhs.dest = rhs.dest
  <2>1. lhs.steps[k].to = lhs.dest /\ rhs.steps[k].to = rhs.dest
    BY <1>2, LastStep
  <2> QED BY <1>3, <2>1 DEF SameStep
<1>5. lhs = rhs
  BY <1>2, <1>4, PathsEqual
<1>6. ComparedSoFar' /\ ComparisonRight'
  BY <1>1, <1>5 DEF ComparedSoFar, ComparisonRight
<1>7. comparing' \in 0..MaxSubtreeLevels + 1 /\ verdict' \in {None, "equal", "different", "undefined"}
  BY <1>1 DEF MaxSubtreeLevels
<1> QED BY <1>1, <1>6, <1>7, ComparingKeepsPaths

(* In every state, each path that there is leads from where it has got to  *)
(* down to its destination, one parent at a time, and the comparison has   *)
(* answered rightly or is at the last step of two paths filled alike.      *)
THEOREM PathsInvariant == Spec => []PathInv
<1>1. Init => PathInv
  <2> SUFFICES ASSUME Init PROVE PathInv
    OBVIOUS
  <2>1. \A p \in Indices : subtrees[p] = None /\ calls[p] = <<>> /\ paths[p] = None
    BY DEF Init
  <2>2. /\ subtrees \in [Indices -> Subtrees \cup {None}] /\ calls \in [Indices -> Seq(Call)]
        /\ DOMAIN paths = Indices
    BY DEF Init
  <2>3. comparing = 0 /\ verdict = None
    BY DEF Init
  <2>4. ComparedSoFar /\ ComparisonRight
    BY <2>3, NoneAssumption DEF ComparedSoFar, ComparisonRight
  <2>5. comparing \in 0..MaxSubtreeLevels + 1
    BY <2>3 DEF MaxSubtreeLevels
  <2> QED BY <2>1, <2>2, <2>3, <2>4, <2>5 DEF PathInv
<1>2. PathInv /\ [Next]_vars => PathInv'
  <2> SUFFICES ASSUME PathInv, [Next]_vars PROVE PathInv'
    OBVIOUS
  <2>1. ASSUME comparing = 0, verdict = None, NEW p \in Indices,
               \/ \E subtree \in Subtrees : BeginPath(p, subtree)
               \/ \E right \in BOOLEAN : Descend(p, right)
        PROVE  PathInv'
    BY <2>1, BeginPathKeeps, DescendKeeps
  <2>2. ASSUME comparing = 0, verdict = None, NEW p \in Indices, NewPath(p) \/ AddParentStep(p)
        PROVE  PathInv'
    BY <2>2, NewPathKeeps, AddParentKeeps
  <2>3. CASE BeginCompare
    BY <2>3, BeginKeeps
  <2>4. CASE CompareStep
    BY <2>4, CompareKeeps
  <2>5. CASE CompareOutside
    BY <2>5, OutsideKeeps
  <2>6. CASE UNCHANGED vars
    BY <2>6 DEF vars, PathInv, ComparedSoFar, ComparisonRight
  <2> QED BY <2>1, <2>2, <2>3, <2>4, <2>5, <2>6 DEF Next
<1> QED BY <1>1, <1>2, PTL DEF Spec

-----------------------------------------------------------------------------
(* Its consequences                                                        *)

(* Every path is typed: empty up to its insert index, filled from there.   *)
THEOREM PathsTypeCorrect == Spec => []TypeOK
<1>1. PathInv => TypeOK
  <2>0. ASSUME PathInv
        PROVE  /\ subtrees \in [Indices -> Subtrees \cup {None}]
               /\ calls \in [Indices -> Seq(Call)]
               /\ \A p \in Indices : subtrees[p] # None => Len(calls[p]) <= subtrees[p].levels
               /\ comparing \in 0..MaxSubtreeLevels + 1
               /\ verdict \in {None, "equal", "different", "undefined"}
    BY <2>0 DEF PathInv, CallsArranged
  <2> SUFFICES ASSUME PathInv, NEW p \in Indices, paths[p] # None
               PROVE  /\ subtrees[p] \in Subtrees
                      /\ paths[p].insertIdx \in 1..subtrees[p].levels + 1
                      /\ paths[p].dest \in Nodes
                      /\ \A i \in DOMAIN paths[p].steps :
                           IF i < paths[p].insertIdx THEN paths[p].steps[i] = None
                           ELSE paths[p].steps[i] \in Step
    BY <2>0 DEF TypeOK
  <2> DEFINE path == paths[p]
             k == subtrees[p].levels
  <2>1. /\ subtrees[p] \in Subtrees /\ k \in Nat /\ path.insertIdx \in 1..k + 1
        /\ path \in PathsOf(k) /\ Arranged(path, subtrees[p].root, k)
    BY PathThere
  <2>2. path.dest \in Nodes /\ DOMAIN path.steps = 1..k
    BY <2>1, PathFields
  <2>3. ASSUME NEW i \in 1..k
        PROVE  IF i < path.insertIdx THEN path.steps[i] = None ELSE path.steps[i] \in Step
    <3>1. CASE i < path.insertIdx
      BY <2>1, <3>1 DEF Arranged
    <3>2. CASE ~(i < path.insertIdx)
      <4>1. i >= path.insertIdx
        BY <2>1, <3>2
      <4>2. StepArranged(path, subtrees[p].root, k, i)
        BY <2>1, <4>1 DEF Arranged
      <4> QED BY <3>2, <4>2 DEF StepArranged
    <3> QED BY <3>1, <3>2
  <2> QED BY <2>1, <2>2, <2>3
<1> QED BY <1>1, PathsInvariant, PTL

(* The steps of every path, finished or not, are connected: each goes the  *)
(* way its outcome says, to where the next begins, the last one to the     *)
(* destination; and the parent of every pending call has its place.        *)
THEOREM StepsStayConnected == Spec => []StepsConnected
<1>1. PathInv => StepsConnected
  <2>0. ASSUME PathInv, NEW p \in Indices, paths[p] # None, calls[p] # <<>>
        PROVE  ~IsFinalized(paths[p])
    <3>1. PathReturned(paths[p], calls[p], subtrees[p].root, subtrees[p].levels) /\ subtrees[p] # None
      BY <2>0, PathThere
    <3>2. Len(calls[p]) < paths[p].insertIdx
      BY <3>1 DEF PathReturned
    <3>3. Len(calls[p]) \in Nat /\ Len(calls[p]) # 0
      BY <2>0 DEF PathInv
    <3> QED BY <3>2, <3>3 DEF IsFinalized
  <2> SUFFICES ASSUME PathInv, NEW p \in Indices, paths[p] # None,
                      NEW i \in paths[p].insertIdx..Len(paths[p].steps)
               PROVE  /\ Child(paths[p].steps[i].from, paths[p].steps[i].right) = paths[p].steps[i].to
                      /\ paths[p].steps[i].to = IF i = Len(paths[p].steps) THEN paths[p].dest
                                                ELSE paths[p].steps[i + 1].from
    BY <2>0 DEF StepsConnected
  <2> DEFINE path == paths[p]
             k == subtrees[p].levels
  <2>1. /\ k \in Nat /\ path.insertIdx \in 1..k + 1 /\ Len(path.steps) = k
        /\ Arranged(path, subtrees[p].root, k)
    BY PathThere
  <2>2. i \in 1..k /\ i >= path.insertIdx
    BY <2>1
  <2>3. StepArranged(path, subtrees[p].root, k, i)
    BY <2>1, <2>2 DEF Arranged
  <2> QED BY <2>1, <2>3 DEF StepArranged
<1> QED BY <1>1, PathsInvariant, PTL

(* When its calls have returned, the path of a complete subtree is         *)
(* finalized and answers as the abstract one does on which the condition   *)
(* vectors are built.                                                      *)
THEOREM PathsAnswerAlike == Spec => []AnswersAsPaths
<1>1. PathInv => AnswersAsPaths
  <2> SUFFICES ASSUME PathInv, NEW p \in Indices, paths[p] # None, calls[p] = <<>>,
                      PathsComplete(subtrees[p].root, subtrees[p].levels)
               PROVE  /\ IsFinalized(paths[p]) /\ paths[p].steps[1].from = subtrees[p].root
                      /\ \E i \in DOMAIN Paths[subtrees[p].levels][subtrees[p].root] :
                           LET promised == Paths[subtrees[p].levels][subtrees[p].root][i]
                           IN  /\ promised.dest = paths[p].dest
                               /\ \A n \in Nodes :
                                    /\ HasNodeIn(paths[p], n) <=> HasNode(promised, n)
                                    /\ LET step == StepFromNode(paths[p], n)
                                       IN  n \in promised.one <=> step # None /\ step.right
    BY DEF AnswersAsPaths
  <2> DEFINE path == paths[p]
             k == subtrees[p].levels
             root == subtrees[p].root
  <2>0. k \in 1..MaxSubtreeLevels /\ PathReturned(path, calls[p], root, k) /\ path.insertIdx \in 1..k + 1
    BY PathThere
  <2>1. k \in 1..MaxSubtreeLevels /\ Arranged(path, root, k) /\ IsFinalized(path)
    BY <2>0, ReturnedFinalized DEF PathReturned
  <2>2. path.steps[1].from = root
    BY <2>1, FinalizedAtRoot
  <2>3. PICK i \in DOMAIN Paths[k][root] : Paths[k][root][i].dest = path.dest
    BY <2>1 DEF Arranged
  <2> DEFINE promised == Paths[k][root][i]
  <2>4. PathDivides(promised, root, k)
    <3>1. root \in Nodes /\ k \in 0..MaxSubtreeLevels
      BY <2>1 DEF Arranged, MaxSubtreeLevels
    <3> QED BY <2>3, <3>1, PathsDivide
  <2>5. /\ promised.dest = path.dest /\ promised.one = Turns(root, path.dest, TRUE)
        /\ promised.zero = Turns(root, path.dest, FALSE)
    BY <2>3, <2>4 DEF PathDivides
  <2> HIDE DEF promised
  <2>6. ASSUME NEW n \in Nodes
        PROVE  /\ HasNodeIn(path, n) <=> HasNode(promised, n)
               /\ n \in promised.one <=> StepFromNode(path, n) # None /\ StepFromNode(path, n).right
    BY <2>1, <2>5, PathAnswers
  <2>7. /\ promised.dest = path.dest
        /\ \A n \in Nodes :
             /\ HasNodeIn(path, n) <=> HasNode(promised, n)
             /\ LET step == StepFromNode(path, n)
                IN  n \in promised.one <=> step # None /\ step.right
    BY <2>5, <2>6
  <2> QED BY <2>1, <2>2, <2>3, <2>7, Zenon DEF promised
<1> QED BY <1>1, PathsInvariant, PTL

(* The comparison leaves the array for equal paths only, and when it       *)
(* returns, its answer is right.                                           *)
THEOREM ComparisonStaysRight == Spec => []ComparisonRight
<1>1. PathInv => ComparisonRight
  BY DEF PathInv
<1> QED BY <1>1, PathsInvariant, PTL
=============================================================================
