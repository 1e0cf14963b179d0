------------------------ MODULE DecisionTree_proofs -------------------------
(***************************************************************************)
(* What the operators of DecisionTree do, for every perfect tree: the      *)
(* recursion equations of its recursive functions and the facts about      *)
(* evaluation paths and condition vectors that generated code rests on.    *)
(***************************************************************************)
EXTENDS DecisionTree, TLAPS, SequenceTheorems, FiniteSetTheorems, WellFoundedInduction

(* A node is an implicit result node exactly if it is on the last level.   *)
LEMMA ImplicitLevel ==
  ASSUME NEW n \in Nodes
  PROVE  /\ Depth[n] \in 0..Levels
         /\ IsImplicit(n) <=> Depth[n] = Levels
         /\ IsLeaf(n) <=> Depth[n] = Levels
BY TreeAssumption DEF IsPerfect, IsImplicit, IsLeaf, HasLeftChild, HasRightChild

(* Whatever its outcome, an inner node has a child one level further down. *)
LEMMA ChildLevel ==
  ASSUME NEW n \in Nodes, ~IsImplicit(n), NEW right
  PROVE  /\ Child(n, right) \in Nodes /\ Child(n, right) # NoNode
         /\ Depth[Child(n, right)] = Depth[n] + 1
<1>1. Depth[n] < Levels
  BY ImplicitLevel, TreeAssumption DEF IsPerfect
<1> QED BY <1>1, TreeAssumption DEF IsPerfect, Child

(* A set of natural numbers has a least one: that `<` is well-founded says *)
(* so, of sets. It makes up for the induction theorems on predicates.      *)
LEMMA LeastNumber ==
  ASSUME NEW T \in SUBSET Nat, T # {}
  PROVE  \E x \in T : \A y \in T : x <= y
<1> DEFINE less == {p \in Nat \X Nat : p[1] < p[2]}
<1>1. IsWellFoundedOn(less, Nat)
  BY NatLessThanWellFounded DEF OpToRel
<1>2. \A p \in Nat \X Nat : p[1] < p[2] => p \in less
  OBVIOUS
<1> HIDE DEF less
<1>3. PICK x \in T : \A y \in T : ~(<<y, x>> \in less)
  BY <1>1, WFMin, Zenon
<1>4. ASSUME NEW y \in T PROVE x <= y
  <2>1. <<y, x>> \in Nat \X Nat /\ <<y, x>>[1] = y /\ <<y, x>>[2] = x
    OBVIOUS
  <2>2. ~(y < x)
    BY <1>2, <1>3, <2>1
  <2> QED BY <2>2
<1> QED BY <1>4

(* Induction from 0 up to a bound, for a set of numbers.                   *)
LEMMA IntervalInduction ==
  ASSUME NEW N \in Nat, NEW S \in SUBSET (0..N),
         0 \in S, \A i \in 0..N - 1 : i \in S => i + 1 \in S
  PROVE  S = 0..N
<1> DEFINE T == (0..N) \ S
<1> SUFFICES ASSUME T # {} PROVE FALSE
  OBVIOUS
<1>1. T \in SUBSET Nat
  OBVIOUS
<1>2. PICK x \in T : \A y \in T : x <= y
  BY <1>1, LeastNumber
<1>3. x \in 1..N /\ x - 1 \in 0..N - 1
  BY <1>2
<1>4. x - 1 \in S
  <2>1. x - 1 \in 0..N /\ ~(x <= x - 1)
    BY <1>3
  <2> QED BY <1>2, <2>1
<1>5. (x - 1) + 1 \in S /\ (x - 1) + 1 = x
  BY <1>3, <1>4
<1> QED BY <1>2, <1>5

(* Induction from the results up to the root, for a set of nodes.          *)
LEMMA UpwardInduction ==
  ASSUME NEW S \in SUBSET Nodes,
         \A n \in Nodes : IsImplicit(n) => n \in S,
         \A n \in Nodes : ~IsImplicit(n) /\ Child(n, FALSE) \in S /\ Child(n, TRUE) \in S => n \in S
  PROVE  S = Nodes
<1> DEFINE T == {Levels - Depth[n] : n \in Nodes \ S}
<1>0. \A n \in Nodes : Depth[n] \in 0..Levels /\ Levels - Depth[n] \in Nat
  BY ImplicitLevel, TreeAssumption DEF IsPerfect
<1> SUFFICES ASSUME Nodes \ S # {} PROVE FALSE
  OBVIOUS
<1>1. T \in SUBSET Nat /\ T # {}
  BY <1>0
<1>2. PICK x \in T : \A y \in T : x <= y
  BY <1>1, LeastNumber
<1>3. PICK n \in Nodes \ S : x = Levels - Depth[n]
  OBVIOUS
<1>4. ~IsImplicit(n)
  BY <1>3
<1>5. ASSUME NEW right \in BOOLEAN PROVE Child(n, right) \in S
  <2>1. Child(n, right) \in Nodes /\ Depth[Child(n, right)] = Depth[n] + 1
    BY <1>3, <1>4, ChildLevel
  <2>2. Levels - (Depth[n] + 1) < Levels - Depth[n]
    BY <1>0, <1>3, TreeAssumption DEF IsPerfect
  <2>3. Levels - Depth[Child(n, right)] \notin T
    <3>1. ~(x <= Levels - Depth[Child(n, right)])
      BY <1>0, <1>3, <2>1, <2>2
    <3> QED BY <1>2, <3>1
  <2> QED BY <2>1, <2>3
<1> QED BY <1>3, <1>4, <1>5

-----------------------------------------------------------------------------
(* Evaluation is tail recursive, so its recursion equation needs no        *)
(* induction: any result that is reached from a node is also what is       *)
(* reached from its child.                                                 *)
THEOREM WalkEquation ==
  ASSUME NEW ds
  PROVE  Walk(ds) = [n \in Nodes |->
           IF IsImplicit(n) THEN n ELSE Walk(ds)[Child(n, GoesRight(n, ds))]]
<1> DEFINE Succ(n) == Child(n, GoesRight(n, ds))
           Closed(S) == \A m \in S : ~IsImplicit(m) => Succ(m) \in S
           Reach(n) == {m \in Nodes : \A S \in SUBSET Nodes :
                                        n \in S /\ Closed(S) => m \in S}
           Ends(n) == {m \in Reach(n) : IsImplicit(m)}
           ends == [n \in Nodes |-> CHOOSE m : m \in Ends(n)]
<1>1. \A n \in Nodes : ~IsImplicit(n) => Succ(n) \in Nodes
  BY ChildLevel
<1> HIDE DEF Succ
<1>2. ASSUME NEW n \in Nodes, IsImplicit(n)
      PROVE  ends[n] = n
  <2>1. {n} \in SUBSET Nodes /\ n \in {n} /\ Closed({n})
    BY <1>2
  <2>2. Reach(n) = {n}
    BY <2>1
  <2>3. Ends(n) = {n}
    BY <2>2, <1>2
  <2> QED BY <2>3
<1>3. ASSUME NEW n \in Nodes, ~IsImplicit(n)
      PROVE  ends[n] = ends[Succ(n)]
  <2>1. ASSUME NEW m \in Reach(Succ(n)), IsImplicit(m)
        PROVE  m \in Reach(n)
    BY <2>1, <1>3
  <2>2. ASSUME NEW m \in Reach(n), IsImplicit(m)
        PROVE  m \in Reach(Succ(n))
    <3> SUFFICES ASSUME NEW S \in SUBSET Nodes, Succ(n) \in S, Closed(S)
                 PROVE  m \in S
      OBVIOUS
    <3>1. S \cup {n} \in SUBSET Nodes /\ n \in S \cup {n} /\ Closed(S \cup {n})
      OBVIOUS
    <3>2. m \in S \cup {n}
      BY <3>1
    <3> QED BY <3>2, <2>2, <1>3
  <2>3. Ends(n) = Ends(Succ(n))
    BY <2>1, <2>2
  <2> QED BY <2>3, <1>1, <1>3
<1> DEFINE Unfold(w) ==
      [n \in Nodes |-> IF IsImplicit(n) THEN n ELSE w[Child(n, GoesRight(n, ds))]]
<1>4. ends = Unfold(ends)
  <2> HIDE DEF ends
  <2>1. ASSUME NEW n \in Nodes
        PROVE  ends[n] = IF IsImplicit(n) THEN n ELSE ends[Succ(n)]
    BY <1>2, <1>3
  <2>2. ends = [n \in Nodes |-> ends[n]]
    BY DEF ends
  <2> QED BY <2>1, <2>2 DEF Succ
<1>5. Walk(ds) = CHOOSE w : w = Unfold(w)
  BY DEF Walk
<1> HIDE DEF Unfold, ends
<1>6. Walk(ds) = Unfold(Walk(ds))
  BY <1>4, <1>5
<1> QED BY <1>6 DEF Unfold

(* Walking on from a node's child ends where walking from the node ends.   *)
COROLLARY WalkStep ==
  ASSUME NEW ds, NEW n \in Nodes
  PROVE  /\ IsImplicit(n) => Walk(ds)[n] = n
         /\ ~IsImplicit(n) => Walk(ds)[Child(n, GoesRight(n, ds))] = Walk(ds)[n]
BY WalkEquation

-----------------------------------------------------------------------------
(* The recursions over subtree levels end after MaxSubtreeLevels steps, so *)
(* that their values can be written down.                                  *)

(* Collecting subtree nodes in preorder (copyNodesPreOrder), one level     *)
(* more at a time.                                                         *)
LEMMA PreOrderEquation ==
  /\ PreOrder[0] = NoNodes
  /\ \A k \in 0..MaxSubtreeLevels - 1 : PreOrder[k + 1] = PreOrderStep(PreOrder[k])
<1> DEFINE Unfold(p) == [k \in 0..MaxSubtreeLevels |->
                           IF k = 0 THEN NoNodes ELSE PreOrderStep(p[k - 1])]
           p1 == PreOrderStep(NoNodes)
           p2 == PreOrderStep(p1)
           p3 == PreOrderStep(p2)
           all == [k \in 0..MaxSubtreeLevels |->
                     IF k = 0 THEN NoNodes ELSE IF k = 1 THEN p1
                     ELSE IF k = 2 THEN p2 ELSE IF k = 3 THEN p3
                     ELSE PreOrderStep(p3)]
<1>1. all = Unfold(all)
  <2> HIDE DEF p1, p2, p3
  <2>1. /\ all[0] = NoNodes /\ all[1] = p1 /\ all[2] = p2 /\ all[3] = p3
        /\ all[4] = PreOrderStep(p3)
    BY DEF MaxSubtreeLevels
  <2>2. \A k \in 0..MaxSubtreeLevels :
          all[k] = IF k = 0 THEN NoNodes ELSE PreOrderStep(all[k - 1])
    BY <2>1 DEF MaxSubtreeLevels, p1, p2, p3
  <2> HIDE DEF all
  <2>3. all = [k \in 0..MaxSubtreeLevels |-> all[k]]
    BY DEF all
  <2> QED BY <2>2, <2>3
<1>2. PreOrder = CHOOSE p : p = Unfold(p)
  BY DEF PreOrder
<1> HIDE DEF Unfold, all
<1>3. PreOrder = Unfold(PreOrder)
  BY <1>1, <1>2
<1> QED BY <1>3 DEF Unfold, MaxSubtreeLevels

(* Building the evaluation paths of subtrees                               *)
(* (buildEvaluationPathsRecursively), one level more at a time.            *)
LEMMA PathsEquation ==
  /\ Paths[0] = PathsToSelf
  /\ \A k \in 0..MaxSubtreeLevels - 1 : Paths[k + 1] = PathsStep(Paths[k])
<1> DEFINE Unfold(p) == [k \in 0..MaxSubtreeLevels |->
                           IF k = 0 THEN PathsToSelf ELSE PathsStep(p[k - 1])]
           p1 == PathsStep(PathsToSelf)
           p2 == PathsStep(p1)
           p3 == PathsStep(p2)
           all == [k \in 0..MaxSubtreeLevels |->
                     IF k = 0 THEN PathsToSelf ELSE IF k = 1 THEN p1
                     ELSE IF k = 2 THEN p2 ELSE IF k = 3 THEN p3
                     ELSE PathsStep(p3)]
<1>1. all = Unfold(all)
  <2> HIDE DEF p1, p2, p3
  <2>1. /\ all[0] = PathsToSelf /\ all[1] = p1 /\ all[2] = p2 /\ all[3] = p3
        /\ all[4] = PathsStep(p3)
    BY DEF MaxSubtreeLevels
  <2>2. \A k \in 0..MaxSubtreeLevels :
          all[k] = IF k = 0 THEN PathsToSelf ELSE PathsStep(all[k - 1])
    BY <2>1 DEF MaxSubtreeLevels, p1, p2, p3
  <2> HIDE DEF all
  <2>3. all = [k \in 0..MaxSubtreeLevels |-> all[k]]
    BY DEF all
  <2> QED BY <2>2, <2>3
<1>2. Paths = CHOOSE p : p = Unfold(p)
  BY DEF Paths
<1> HIDE DEF Unfold, all
<1>3. Paths = Unfold(Paths)
  BY <1>1, <1>2
<1> QED BY <1>3 DEF Unfold, MaxSubtreeLevels

(* The number of continuation nodes (getContinuationNodeCount) doubles     *)
(* with every level, and is never 0.                                       *)
LEMMA ContinuationNodeCountValues ==
  /\ ContinuationNodeCount[0] = 1
  /\ \A k \in 0..MaxSubtreeLevels - 1 :
       ContinuationNodeCount[k + 1] = 2 * ContinuationNodeCount[k]
  /\ \A k \in 0..MaxSubtreeLevels : ContinuationNodeCount[k] \in Nat \ {0}
<1> DEFINE Unfold(c) == [k \in 0..MaxSubtreeLevels |->
                           IF k = 0 THEN 1 ELSE 2 * c[k - 1]]
           all == [k \in 0..MaxSubtreeLevels |->
                     IF k = 0 THEN 1 ELSE IF k = 1 THEN 2
                     ELSE IF k = 2 THEN 4 ELSE IF k = 3 THEN 8 ELSE 16]
<1>1. all = Unfold(all)
  <2>1. \A k \in 0..MaxSubtreeLevels :
          all[k] = IF k = 0 THEN 1 ELSE 2 * all[k - 1]
    BY DEF MaxSubtreeLevels
  <2> HIDE DEF all
  <2>2. all = [k \in 0..MaxSubtreeLevels |-> all[k]]
    BY DEF all
  <2> QED BY <2>1, <2>2
<1>2. ContinuationNodeCount = CHOOSE c : c = Unfold(c)
  BY DEF ContinuationNodeCount
<1> HIDE DEF Unfold, all
<1>3. ContinuationNodeCount = Unfold(ContinuationNodeCount)
  BY <1>1, <1>2
<1>4. /\ ContinuationNodeCount[0] = 1
      /\ \A k \in 0..MaxSubtreeLevels - 1 :
           ContinuationNodeCount[k + 1] = 2 * ContinuationNodeCount[k]
  BY <1>3 DEF Unfold, MaxSubtreeLevels
<1> QED BY <1>4 DEF MaxSubtreeLevels

-----------------------------------------------------------------------------
(***************************************************************************)
(* The nodes of the subtree below a node: those in every set of nodes that *)
(* holds the node and, with an inner node, its children.                   *)
(***************************************************************************)
Closed(S) == \A m \in S : ~IsImplicit(m) => \A right \in BOOLEAN : Child(m, right) \in S
Below(n) == {m \in Nodes : \A S \in SUBSET Nodes : n \in S /\ Closed(S) => m \in S}

(* A subtree holds its root and, with an inner node, its children.         *)
LEMMA BelowClosed ==
  ASSUME NEW n \in Nodes
  PROVE  n \in Below(n) /\ Below(n) \subseteq Nodes /\ Closed(Below(n))
<1>1. n \in Below(n) /\ Below(n) \subseteq Nodes
  BY DEF Below
<1>2. ASSUME NEW m \in Below(n), ~IsImplicit(m), NEW right \in BOOLEAN
      PROVE  Child(m, right) \in Below(n)
  <2>1. Child(m, right) \in Nodes
    BY <1>1, <1>2, ChildLevel
  <2>2. ASSUME NEW S \in SUBSET Nodes, n \in S, Closed(S)
        PROVE  Child(m, right) \in S
    <3>1. m \in S
      BY <2>2 DEF Below
    <3> QED BY <3>1, <2>2, <1>2 DEF Closed
  <2> QED BY <2>1, <2>2 DEF Below
<1> QED BY <1>1, <1>2 DEF Closed

(* The subtree of a node of a subtree is part of it.                       *)
LEMMA BelowTransitive ==
  ASSUME NEW n \in Nodes, NEW m \in Below(n)
  PROVE  Below(m) \subseteq Below(n)
BY BelowClosed DEF Below

(* It lies below its root, and nothing but the root is on the root's level.*)
LEMMA BelowDepth ==
  ASSUME NEW n \in Nodes, NEW m \in Below(n)
  PROVE  m \in Nodes /\ Depth[m] >= Depth[n] /\ (m # n => Depth[m] > Depth[n])
<1> DEFINE S == {n} \cup {x \in Nodes : Depth[x] > Depth[n]}
<1>1. S \in SUBSET Nodes /\ n \in S
  OBVIOUS
<1>2. Closed(S)
  <2> SUFFICES ASSUME NEW x \in S, ~IsImplicit(x), NEW right \in BOOLEAN
               PROVE  Child(x, right) \in S
    BY DEF Closed
  <2>1. x \in Nodes /\ Child(x, right) \in Nodes /\ Depth[Child(x, right)] = Depth[x] + 1
    BY ChildLevel
  <2>2. Depth[x] \in Int /\ Depth[n] \in Int /\ Depth[x] >= Depth[n]
    BY <2>1, ImplicitLevel
  <2> QED BY <2>1, <2>2
<1>3. m \in S /\ m \in Nodes
  BY <1>1, <1>2 DEF Below
<1> QED BY <1>3, ImplicitLevel

(* What is below an inner node is the node itself or below a child.        *)
LEMMA BelowChildren ==
  ASSUME NEW n \in Nodes, ~IsImplicit(n)
  PROVE  /\ \A right \in BOOLEAN : Below(Child(n, right)) \subseteq Below(n) \ {n}
         /\ Below(n) = {n} \cup Below(Child(n, FALSE)) \cup Below(Child(n, TRUE))
<1> DEFINE S == {n} \cup Below(Child(n, FALSE)) \cup Below(Child(n, TRUE))
<1>1. \A right \in BOOLEAN : /\ Child(n, right) \in Nodes /\ Child(n, right) \in Below(n)
                             /\ Depth[Child(n, right)] = Depth[n] + 1
  BY ChildLevel, BelowClosed DEF Closed
<1>2. \A right \in BOOLEAN : Below(Child(n, right)) \subseteq Below(n)
  BY <1>1, BelowTransitive
<1>3. ASSUME NEW right \in BOOLEAN PROVE n \notin Below(Child(n, right))
  <2> SUFFICES ASSUME n \in Below(Child(n, right)) PROVE FALSE
    OBVIOUS
  <2>1. Depth[n] >= Depth[Child(n, right)]
    BY <1>1, BelowDepth
  <2> QED BY <2>1, <1>1, ImplicitLevel
<1>4. S \in SUBSET Nodes /\ n \in S
  BY <1>1, BelowClosed
<1>5. Closed(S)
  <2> SUFFICES ASSUME NEW x \in S, ~IsImplicit(x), NEW right \in BOOLEAN
               PROVE  Child(x, right) \in S
    BY DEF Closed
  <2>1. CASE x = n
    BY <2>1, <1>1, BelowClosed
  <2>2. CASE \E r \in BOOLEAN : x \in Below(Child(n, r))
    BY <2>2, <1>1, BelowClosed DEF Closed
  <2> QED BY <2>1, <2>2
<1>6. Below(n) \subseteq S
  BY <1>4, <1>5 DEF Below
<1> QED BY <1>2, <1>3, <1>6, BelowClosed

(* A node has one parent.                                                  *)
LEMMA OneParent ==
  ASSUME NEW m \in Nodes, NEW n \in Nodes, ~IsImplicit(m), ~IsImplicit(n),
         NEW right \in BOOLEAN, NEW other \in BOOLEAN,
         Child(m, right) = Child(n, other)
  PROVE  m = n /\ right = other
<1>1. Depth[m] < Levels /\ Depth[n] < Levels
  BY ImplicitLevel, TreeAssumption DEF IsPerfect
<1>2. /\ Tree[m].falseChild # Tree[n].trueChild /\ Tree[n].falseChild # Tree[m].trueChild
      /\ m # n => /\ Tree[m].falseChild # Tree[n].falseChild
                  /\ Tree[m].trueChild # Tree[n].trueChild
  BY <1>1, TreeAssumption DEF IsATree
<1> QED BY <1>2 DEF Child

(* Every node below another is it, or a child of one below it.             *)
LEMMA BelowParent ==
  ASSUME NEW n \in Nodes, NEW c \in Below(n), c # n
  PROVE  \E x \in Below(n) : \E right \in BOOLEAN : ~IsImplicit(x) /\ c = Child(x, right)
<1> SUFFICES ASSUME \A x \in Below(n) : \A right \in BOOLEAN : ~IsImplicit(x) => c # Child(x, right)
             PROVE  FALSE
  OBVIOUS
<1> DEFINE S == Below(n) \ {c}
<1>1. S \in SUBSET Nodes /\ n \in S
  BY BelowClosed
<1>2. Closed(S)
  BY BelowClosed DEF Closed
<1> QED BY <1>1, <1>2 DEF Below

(* The subtrees of two nodes of a level have no node in common.            *)
LEMMA BelowDisjoint ==
  ASSUME NEW m \in Nodes, NEW n \in Nodes, Depth[m] = Depth[n], m # n
  PROVE  Below(m) \cap Below(n) = {}
<1> DEFINE S == Below(m) \ Below(n)
<1>1. S \in SUBSET Nodes /\ m \in S
  BY BelowClosed, BelowDepth, ImplicitLevel
<1>2. Closed(S)
  <2> SUFFICES ASSUME NEW x \in S, ~IsImplicit(x), NEW right \in BOOLEAN
               PROVE  Child(x, right) \in S
    BY DEF Closed
  <2>1. Child(x, right) \in Below(m)
    BY BelowClosed DEF Closed
  <2>2. ASSUME Child(x, right) \in Below(n) PROVE FALSE
    <3>1. Child(x, right) # n
      <4>1. Depth[x] >= Depth[m] /\ x \in Nodes
        BY BelowDepth
      <4>2. Depth[Child(x, right)] = Depth[x] + 1
        BY <4>1, ChildLevel
      <4> QED BY <4>1, <4>2, ImplicitLevel
    <3>2. PICK y \in Below(n), other \in BOOLEAN :
            ~IsImplicit(y) /\ Child(x, right) = Child(y, other)
      BY <2>2, <3>1, BelowParent
    <3>3. x = y
      BY <3>2, OneParent, BelowClosed
    <3> QED BY <3>2, <3>3
  <2> QED BY <2>1, <2>2
<1>3. Below(m) \subseteq S
  BY <1>1, <1>2 DEF Below
<1> QED BY <1>3

-----------------------------------------------------------------------------
(* The elements of a concatenation, by the part they come from.            *)
LEMMA ConcatElements ==
  ASSUME NEW S, NEW s \in Seq(S), NEW t \in Seq(S)
  PROVE  /\ s \o t \in Seq(S) /\ Len(s) \in Nat /\ Len(t) \in Nat
         /\ Len(s \o t) = Len(s) + Len(t)
         /\ DOMAIN s = 1..Len(s) /\ DOMAIN t = 1..Len(t) /\ DOMAIN (s \o t) = 1..Len(s) + Len(t)
         /\ \A i \in DOMAIN s : (s \o t)[i] = s[i]
         /\ \A i \in DOMAIN t : (s \o t)[Len(s) + i] = t[i]
         /\ \A i \in DOMAIN (s \o t) :
              \/ i \in DOMAIN s /\ (s \o t)[i] = s[i]
              \/ i - Len(s) \in DOMAIN t /\ (s \o t)[i] = t[i - Len(s)]
BY ConcatProperties, LenProperties

(* Concatenation keeps the elements of both sequences, those of the        *)
(* second behind those of the first.                                       *)
LEMMA ConcatFound ==
  ASSUME NEW S, NEW s \in Seq(S), NEW t \in Seq(S)
  PROVE  /\ \A i \in DOMAIN s : i \in DOMAIN (s \o t) /\ (s \o t)[i] = s[i]
         /\ \A i \in DOMAIN t : /\ Len(s) + i \in DOMAIN (s \o t)
                               /\ (s \o t)[Len(s) + i] = t[i]
<1>1. /\ DOMAIN s = 1..Len(s) /\ DOMAIN t = 1..Len(t) /\ DOMAIN (s \o t) = 1..Len(s) + Len(t)
      /\ Len(s) \in Nat /\ Len(t) \in Nat
  BY ConcatElements
<1>2. /\ \A i \in DOMAIN s : (s \o t)[i] = s[i]
      /\ \A i \in DOMAIN t : (s \o t)[Len(s) + i] = t[i]
  BY ConcatElements
<1> QED BY <1>1, <1>2

(* Two sequences that repeat no element and share none, concatenated,      *)
(* repeat none.                                                            *)
LEMMA ConcatInjective ==
  ASSUME NEW S, NEW s \in Seq(S), NEW t \in Seq(S),
         \A i, j \in DOMAIN s : s[i] = s[j] => i = j,
         \A i, j \in DOMAIN t : t[i] = t[j] => i = j,
         \A i \in DOMAIN s : \A j \in DOMAIN t : s[i] # t[j]
  PROVE  \A i, j \in DOMAIN (s \o t) : (s \o t)[i] = (s \o t)[j] => i = j
<1> SUFFICES ASSUME NEW i \in DOMAIN (s \o t), NEW j \in DOMAIN (s \o t),
                    (s \o t)[i] = (s \o t)[j]
             PROVE  i = j
  OBVIOUS
<1>1. /\ \/ i \in DOMAIN s /\ (s \o t)[i] = s[i]
         \/ i - Len(s) \in DOMAIN t /\ (s \o t)[i] = t[i - Len(s)]
      /\ \/ j \in DOMAIN s /\ (s \o t)[j] = s[j]
         \/ j - Len(s) \in DOMAIN t /\ (s \o t)[j] = t[j - Len(s)]
  BY ConcatElements, Zenon
<1>2. Len(s) \in Int /\ i \in Int /\ j \in Int
  BY ConcatElements
<1> QED BY <1>1, <1>2

(* The number of nodes of a subtree (getNodeCount): a root and two         *)
(* subtrees of one level less.                                             *)
LEMMA NodeCounts ==
  /\ NodeCount(0) = 0
  /\ \A k \in 0..MaxSubtreeLevels : NodeCount(k) \in Nat
  /\ \A k \in 0..MaxSubtreeLevels - 1 : NodeCount(k + 1) = 1 + NodeCount(k) + NodeCount(k)
<1>1. ContinuationNodeCount[0] = 1
  BY ContinuationNodeCountValues
<1>2. \A k \in 0..MaxSubtreeLevels : ContinuationNodeCount[k] \in Nat \ {0}
  BY ContinuationNodeCountValues
<1>3. ASSUME NEW k \in 0..MaxSubtreeLevels - 1
      PROVE  NodeCount(k + 1) = 1 + NodeCount(k) + NodeCount(k)
  <2>1. ContinuationNodeCount[k + 1] = 2 * ContinuationNodeCount[k]
    BY ContinuationNodeCountValues, Zenon
  <2>2. ContinuationNodeCount[k] \in Int
    BY <1>2 DEF MaxSubtreeLevels
  <2> QED BY <2>1, <2>2 DEF NodeCount
<1> QED BY <1>1, <1>2, <1>3 DEF NodeCount

(* What the pre-order list of the k-level subtree below a node holds.      *)
ListRight(n, k) ==
  LET order == PreOrder[k][n]
  IN  /\ order \in Seq(Nodes) /\ Len(order) = NodeCount(k)
      /\ \A i \in DOMAIN order : order[i] \in Below(n) /\ Depth[order[i]] < Depth[n] + k
      /\ \A i, j \in DOMAIN order : order[i] = order[j] => i = j

SubtreeRight(k) == \A n \in Nodes : Depth[n] + k <= Levels => ListRight(n, k)

(* The list of a subtree is its root and the lists of its two halves.      *)
LEMMA PreOrderHalves ==
  ASSUME NEW k \in 0..MaxSubtreeLevels - 1, NEW n \in Nodes, ~IsImplicit(n)
  PROVE  PreOrder[k + 1][n] = <<n>> \o PreOrder[k][Child(n, FALSE)] \o PreOrder[k][Child(n, TRUE)]
<1>1. HasLeftChild(n) /\ HasRightChild(n)
  BY ChildLevel DEF HasLeftChild, HasRightChild, Child
<1>2. PreOrder[k + 1] = PreOrderStep(PreOrder[k])
  BY PreOrderEquation, Zenon
<1> QED BY <1>1, <1>2 DEF PreOrderStep, Child

(* If the preorder lists of both children are right, so is that of their   *)
(* parent with one level more.                                             *)
LEMMA ListStep ==
  ASSUME NEW k \in 0..MaxSubtreeLevels - 1, NEW n \in Nodes, ~IsImplicit(n),
         \A right \in BOOLEAN : ListRight(Child(n, right), k)
  PROVE  ListRight(n, k + 1)
<1> DEFINE l == PreOrder[k][Child(n, FALSE)]
           r == PreOrder[k][Child(n, TRUE)]
           one == <<n>>
           part == one \o l
           order == part \o r
           below == Depth[n] + (k + 1)
<1>0. k \in Nat /\ Depth[n] \in Nat
  BY ImplicitLevel DEF MaxSubtreeLevels
<1>1. /\ \A right \in BOOLEAN : /\ Child(n, right) \in Nodes
                                /\ Depth[Child(n, right)] = Depth[n] + 1
      /\ Child(n, FALSE) # Child(n, TRUE)
  BY ChildLevel, OneParent
<1>2. \A right \in BOOLEAN : Depth[Child(n, right)] + k = below
  BY <1>0, <1>1
<1>3. /\ l \in Seq(Nodes) /\ Len(l) = NodeCount(k)
      /\ \A i \in DOMAIN l : l[i] \in Below(Child(n, FALSE)) /\ Depth[l[i]] < below
      /\ \A i, j \in DOMAIN l : l[i] = l[j] => i = j
  BY <1>2, Zenon DEF ListRight
<1>4. /\ r \in Seq(Nodes) /\ Len(r) = NodeCount(k)
      /\ \A i \in DOMAIN r : r[i] \in Below(Child(n, TRUE)) /\ Depth[r[i]] < below
      /\ \A i, j \in DOMAIN r : r[i] = r[j] => i = j
  BY <1>2, Zenon DEF ListRight
<1>5. PreOrder[k + 1][n] = order
  BY PreOrderHalves
<1>6. one \in Seq(Nodes) /\ Len(one) = 1 /\ DOMAIN one = {1} /\ one[1] = n
  OBVIOUS
<1>7. Below(Child(n, FALSE)) \cap Below(Child(n, TRUE)) = {}
  BY <1>1, BelowDisjoint
<1>8. /\ \A right \in BOOLEAN : Below(Child(n, right)) \subseteq Below(n) \ {n}
      /\ n \in Below(n)
  BY BelowChildren, BelowClosed
<1>9. Depth[n] < below
  BY <1>0
<1> HIDE DEF l, r, one, below
<1>10. part \in Seq(Nodes) /\ Len(part) = 1 + NodeCount(k)
  <2>1. part \in Seq(Nodes) /\ Len(part) = Len(one) + Len(l)
    BY <1>3, <1>6, ConcatElements, Zenon
  <2> QED BY <2>1, <1>3, <1>6
<1>11. ASSUME NEW i \in DOMAIN part
       PROVE  part[i] \in Below(n) \ Below(Child(n, TRUE)) /\ Depth[part[i]] < below
  <2>1. \/ i \in DOMAIN one /\ part[i] = one[i]
        \/ i - Len(one) \in DOMAIN l /\ part[i] = l[i - Len(one)]
    BY <1>3, <1>6, ConcatElements, Zenon
  <2> QED BY <2>1, <1>3, <1>6, <1>7, <1>8, <1>9
<1>12. \A i, j \in DOMAIN part : part[i] = part[j] => i = j
  <2>1. \A i \in DOMAIN one : \A j \in DOMAIN l : one[i] # l[j]
    BY <1>3, <1>6, <1>8
  <2>2. \A i, j \in DOMAIN one : one[i] = one[j] => i = j
    BY <1>6
  <2> QED BY <2>1, <2>2, <1>3, <1>6, ConcatInjective
<1> HIDE DEF part
<1>13. order \in Seq(Nodes) /\ Len(order) = NodeCount(k + 1)
  <2>1. NodeCount(k + 1) = 1 + NodeCount(k) + NodeCount(k)
    BY NodeCounts, Zenon
  <2>2. order \in Seq(Nodes) /\ Len(order) = Len(part) + Len(r)
    BY <1>4, <1>10, ConcatElements
  <2> QED BY <2>1, <2>2, <1>4, <1>10
<1>14. ASSUME NEW i \in DOMAIN order
       PROVE  order[i] \in Below(n) /\ Depth[order[i]] < below
  <2>1. \/ i \in DOMAIN part /\ order[i] = part[i]
        \/ i - Len(part) \in DOMAIN r /\ order[i] = r[i - Len(part)]
    BY <1>4, <1>10, ConcatElements, Zenon
  <2> QED BY <2>1, <1>4, <1>8, <1>11
<1>15. \A i, j \in DOMAIN order : order[i] = order[j] => i = j
  <2>1. \A i \in DOMAIN part : \A j \in DOMAIN r : part[i] # r[j]
    BY <1>4, <1>11
  <2> QED BY <2>1, <1>4, <1>10, <1>12, ConcatInjective
<1> QED BY <1>5, <1>13, <1>14, <1>15, Zenon DEF ListRight, below

(* If all subtrees of k levels are listed right, so are those of k + 1.    *)
LEMMA SubtreeStep ==
  ASSUME NEW k \in 0..MaxSubtreeLevels - 1, SubtreeRight(k)
  PROVE  SubtreeRight(k + 1)
<1> SUFFICES ASSUME NEW n \in Nodes, Depth[n] + (k + 1) <= Levels
             PROVE  ListRight(n, k + 1)
  BY DEF SubtreeRight
<1>1. k \in Nat /\ Depth[n] \in Nat /\ Levels \in Nat
  BY ImplicitLevel, TreeAssumption DEF IsPerfect, MaxSubtreeLevels
<1>2. ~IsImplicit(n)
  BY <1>1, ImplicitLevel
<1>3. ASSUME NEW right \in BOOLEAN PROVE ListRight(Child(n, right), k)
  <2>1. Child(n, right) \in Nodes /\ Depth[Child(n, right)] = Depth[n] + 1
    BY <1>2, ChildLevel
  <2> QED BY <2>1, <1>1 DEF SubtreeRight
<1> QED BY <1>2, <1>3, ListStep

(* Subtrees of up to four levels that end within the tree are complete:    *)
(* their lists hold every node they should, and none twice.                *)
THEOREM SubtreesComplete == \A k \in 0..MaxSubtreeLevels : SubtreeRight(k)
<1>1. SubtreeRight(0)
  <2> SUFFICES ASSUME NEW n \in Nodes PROVE ListRight(n, 0)
    BY DEF SubtreeRight
  <2>1. PreOrder[0][n] = <<>>
    BY PreOrderEquation DEF NoNodes
  <2> QED BY <2>1, NodeCounts DEF ListRight
<1>2. SubtreeRight(1) /\ SubtreeRight(2) /\ SubtreeRight(3) /\ SubtreeRight(4)
  <2>1. SubtreeRight(0 + 1)
    BY <1>1, SubtreeStep DEF MaxSubtreeLevels
  <2>2. SubtreeRight(1 + 1)
    BY <2>1, SubtreeStep DEF MaxSubtreeLevels
  <2>3. SubtreeRight(2 + 1)
    BY <2>2, SubtreeStep DEF MaxSubtreeLevels
  <2>4. SubtreeRight(3 + 1)
    BY <2>3, SubtreeStep DEF MaxSubtreeLevels
  <2> QED BY <2>1, <2>2, <2>3, <2>4
<1>3. \A k \in 0..MaxSubtreeLevels : k = 0 \/ k = 1 \/ k = 2 \/ k = 3 \/ k = 4
  BY DEF MaxSubtreeLevels
<1> QED BY <1>1, <1>2, <1>3

-----------------------------------------------------------------------------
(* A path is taken if exactly the nodes it leaves to the right go right.   *)
Taken(path, rightOnes) == path.one \subseteq rightOnes /\ path.zero \cap rightOnes = {}

RightOnes(ds) == {m \in Nodes : GoesRight(m, ds)}

EvaluationPaths == [dest : Nodes, zero : SUBSET Nodes, one : SUBSET Nodes]

(* What is true of one evaluation path below node n, of k levels: it leaves *)
(* nodes of the subtree, each to one side, for a node k levels down; and    *)
(* data sets that take it continue on their way.                            *)
PathRight(path, n, k) ==
  /\ path.dest \in Below(n) /\ Depth[path.dest] = Depth[n] + k
  /\ path.zero \cup path.one \subseteq Range(PreOrder[k][n])
  /\ path.zero \cap path.one = {}
  /\ \A ds : Taken(path, RightOnes(ds)) => Walk(ds)[path.dest] = Walk(ds)[n]

(* What is true of all of them: every outcome of the nodes' evaluations    *)
(* takes exactly one, and no two end in the same node.                     *)
PathsRight(n, k) ==
  LET paths == Paths[k][n]
  IN  /\ paths \in Seq(EvaluationPaths) /\ Len(paths) = ContinuationNodeCount[k]
      /\ \A i \in DOMAIN paths : PathRight(paths[i], n, k)
      /\ \A i, j \in DOMAIN paths : paths[i].dest = paths[j].dest => i = j
      /\ \A rightOnes : \E i \in DOMAIN paths : Taken(paths[i], rightOnes)
      /\ \A rightOnes : \A i, j \in DOMAIN paths :
           Taken(paths[i], rightOnes) /\ Taken(paths[j], rightOnes) => i = j

(* A path with a parent added leaves the parent, too.                      *)
LEMMA AddParentPath ==
  ASSUME NEW path \in EvaluationPaths, NEW n \in Nodes, NEW right
  PROVE  /\ AddParent(path, n, right) \in EvaluationPaths
         /\ AddParent(path, n, right).dest = path.dest
         /\ AddParent(path, n, right).one = IF right THEN path.one \cup {n} ELSE path.one
         /\ AddParent(path, n, right).zero = IF right THEN path.zero ELSE path.zero \cup {n}
BY DEF AddParent, EvaluationPaths

(* The list of a node is the node and the lists of its two halves.         *)
LEMMA ListHalves ==
  ASSUME NEW k \in 0..MaxSubtreeLevels - 1, NEW n \in Nodes, ~IsImplicit(n),
         \A right \in BOOLEAN : ListRight(Child(n, right), k)
  PROVE  \A right \in BOOLEAN :
           /\ {n} \cup Range(PreOrder[k][Child(n, right)]) \subseteq Range(PreOrder[k + 1][n])
           /\ Range(PreOrder[k][Child(n, right)]) \subseteq Below(Child(n, right))
<1> DEFINE l == PreOrder[k][Child(n, FALSE)]
           r == PreOrder[k][Child(n, TRUE)]
           one == <<n>>
<1>0. one \in Seq(Nodes) /\ DOMAIN one = {1} /\ one[1] = n
  OBVIOUS
<1>1. /\ l \in Seq(Nodes) /\ r \in Seq(Nodes)
      /\ \A i \in DOMAIN l : l[i] \in Below(Child(n, FALSE))
      /\ \A i \in DOMAIN r : r[i] \in Below(Child(n, TRUE))
  BY Zenon DEF ListRight
<1>2. PreOrder[k + 1][n] = one \o l \o r
  BY PreOrderHalves
<1>3. /\ Range(l) \subseteq Below(Child(n, FALSE)) /\ Range(r) \subseteq Below(Child(n, TRUE))
      /\ Range(one) = {n}
  BY <1>0, <1>1 DEF Range
<1> DEFINE part == one \o l
<1> HIDE DEF l, r, one
<1>4. part \in Seq(Nodes) /\ Range(part) = {n} \cup Range(l)
  BY <1>0, <1>1, <1>3, ConcatProperties, RangeConcatenation
<1> HIDE DEF part
<1>5. Range(part \o r) = Range(part) \cup Range(r)
  BY <1>1, <1>4, RangeConcatenation
<1> QED BY <1>2, <1>3, <1>4, <1>5 DEF l, r, part

(* The paths of a node that go on below one of its children.               *)
LEMMA HalfPath ==
  ASSUME NEW k \in 0..MaxSubtreeLevels - 1, NEW n \in Nodes, ~IsImplicit(n),
         \A right \in BOOLEAN : ListRight(Child(n, right), k),
         NEW right \in BOOLEAN,
         NEW path \in EvaluationPaths, PathRight(path, Child(n, right), k)
  PROVE  LET longer == AddParent(path, n, right)
         IN  /\ PathRight(longer, n, k + 1)
             /\ \A rightOnes : Taken(longer, rightOnes) <=>
                  Taken(path, rightOnes) /\ (n \in rightOnes <=> right)
<1> DEFINE c == Child(n, right)
           longer == AddParent(path, n, right)
<1>1. c \in Nodes /\ Depth[c] = Depth[n] + 1
  BY ChildLevel
<1>2. /\ longer.dest = path.dest
      /\ longer.one = IF right THEN path.one \cup {n} ELSE path.one
      /\ longer.zero = IF right THEN path.zero ELSE path.zero \cup {n}
  BY DEF AddParent, EvaluationPaths
<1>3. /\ path.dest \in Below(c) /\ Depth[path.dest] = Depth[c] + k
      /\ path.zero \cup path.one \subseteq Range(PreOrder[k][c])
      /\ path.zero \cap path.one = {}
      /\ \A ds : Taken(path, RightOnes(ds)) => Walk(ds)[path.dest] = Walk(ds)[c]
  BY Zenon DEF PathRight
<1>4. Below(c) \subseteq Below(n) \ {n}
  BY BelowChildren
<1>5. {n} \cup Range(PreOrder[k][c]) \subseteq Range(PreOrder[k + 1][n])
  BY ListHalves
<1>6. n \notin path.zero \cup path.one
  BY <1>3, <1>4, ListHalves
<1>7. ASSUME NEW rightOnes
      PROVE  Taken(longer, rightOnes) <=> Taken(path, rightOnes) /\ (n \in rightOnes <=> right)
  BY <1>2, <1>6 DEF Taken
<1>8. ASSUME NEW ds, Taken(longer, RightOnes(ds))
      PROVE  Walk(ds)[longer.dest] = Walk(ds)[n]
  <2>1. Taken(path, RightOnes(ds)) /\ (n \in RightOnes(ds) <=> right)
    BY <1>7, <1>8
  <2>2. GoesRight(n, ds) <=> right
    BY <2>1 DEF RightOnes
  <2>3. Child(n, GoesRight(n, ds)) = c
    BY <2>2 DEF Child
  <2>4. Walk(ds)[c] = Walk(ds)[n]
    BY <2>3, WalkStep
  <2> QED BY <1>2, <1>3, <2>1, <2>4, Zenon
<1>9. Depth[longer.dest] = Depth[n] + (k + 1)
  BY <1>1, <1>2, <1>3, ImplicitLevel DEF MaxSubtreeLevels
<1>10. longer.zero \cup longer.one \subseteq Range(PreOrder[k + 1][n]) /\ longer.zero \cap longer.one = {}
  BY <1>2, <1>3, <1>5, <1>6
<1>11. longer.dest \in Below(n)
  BY <1>2, <1>3, <1>4
<1> QED BY <1>7, <1>8, <1>9, <1>10, <1>11, Zenon DEF PathRight

(* All paths of a node that go on below one of its children.               *)
LEMMA HalfPaths ==
  ASSUME NEW k \in 0..MaxSubtreeLevels - 1, NEW n \in Nodes, ~IsImplicit(n),
         \A right \in BOOLEAN : ListRight(Child(n, right), k),
         NEW right \in BOOLEAN, PathsRight(Child(n, right), k)
  PROVE  LET half == RecurseToChildNode(Paths[k], n, right)
         IN  /\ half \in Seq(EvaluationPaths) /\ Len(half) = ContinuationNodeCount[k]
             /\ \A i \in DOMAIN half : PathRight(half[i], n, k + 1)
             /\ \A i \in DOMAIN half : half[i].dest \in Below(Child(n, right))
             /\ \A i, j \in DOMAIN half : half[i].dest = half[j].dest => i = j
             /\ \A rightOnes : (n \in rightOnes <=> right) =>
                  \E i \in DOMAIN half : Taken(half[i], rightOnes)
             /\ \A rightOnes : \A i \in DOMAIN half : Taken(half[i], rightOnes) =>
                  (n \in rightOnes <=> right)
             /\ \A rightOnes : \A i, j \in DOMAIN half :
                  Taken(half[i], rightOnes) /\ Taken(half[j], rightOnes) => i = j
<1> DEFINE paths == Paths[k][Child(n, right)]
           half == RecurseToChildNode(Paths[k], n, right)
<1>1. half = [i \in DOMAIN paths |-> AddParent(paths[i], n, right)]
  BY ChildLevel DEF RecurseToChildNode
<1>2. /\ paths \in Seq(EvaluationPaths) /\ Len(paths) = ContinuationNodeCount[k]
      /\ \A i \in DOMAIN paths : PathRight(paths[i], Child(n, right), k)
      /\ \A i, j \in DOMAIN paths : paths[i].dest = paths[j].dest => i = j
      /\ \A rightOnes : \E i \in DOMAIN paths : Taken(paths[i], rightOnes)
      /\ \A rightOnes : \A i, j \in DOMAIN paths :
           Taken(paths[i], rightOnes) /\ Taken(paths[j], rightOnes) => i = j
  BY Zenon DEF PathsRight
<1> HIDE DEF paths, half
<1>3. Len(paths) \in Nat /\ DOMAIN paths = 1..Len(paths) /\ DOMAIN half = DOMAIN paths
  BY <1>1, <1>2
<1>4. ASSUME NEW i \in DOMAIN half
      PROVE  /\ i \in DOMAIN paths
             /\ half[i] \in EvaluationPaths /\ half[i].dest = paths[i].dest
             /\ half[i].dest \in Below(Child(n, right))
             /\ PathRight(half[i], n, k + 1)
             /\ \A rightOnes : Taken(half[i], rightOnes) <=>
                  Taken(paths[i], rightOnes) /\ (n \in rightOnes <=> right)
  <2> DEFINE path == paths[i]
  <2>1. i \in DOMAIN paths /\ half[i] = AddParent(path, n, right)
    BY <1>1, <1>3
  <2>2. path \in EvaluationPaths /\ PathRight(path, Child(n, right), k)
    BY <1>2, <1>3, <2>1
  <2> HIDE DEF path
  <2>3. AddParent(path, n, right) \in EvaluationPaths /\ AddParent(path, n, right).dest = path.dest
    BY <2>2, AddParentPath
  <2>4. PathRight(AddParent(path, n, right), n, k + 1)
    BY <2>2, HalfPath
  <2>5. \A rightOnes : Taken(AddParent(path, n, right), rightOnes) <=>
          Taken(path, rightOnes) /\ (n \in rightOnes <=> right)
    BY <2>2, HalfPath
  <2>6. path.dest \in Below(Child(n, right))
    BY <2>2 DEF PathRight
  <2> QED BY <2>1, <2>3, <2>4, <2>5, <2>6 DEF path
<1>5. half \in Seq(EvaluationPaths) /\ Len(half) = ContinuationNodeCount[k]
  <2>1. half \in [1..Len(paths) -> EvaluationPaths]
    BY <1>1, <1>3, <1>4
  <2>2. half \in Seq(EvaluationPaths)
    BY <2>1, <1>3, SeqDef
  <2> QED BY <2>2, <1>2, <1>3, LenProperties
<1>6. \A i, j \in DOMAIN half : half[i].dest = half[j].dest => i = j
  BY <1>2, <1>4
<1>7. ASSUME NEW rightOnes, n \in rightOnes <=> right
      PROVE  \E i \in DOMAIN half : Taken(half[i], rightOnes)
  BY <1>2, <1>3, <1>4, <1>7
<1>8. \A rightOnes : \A i, j \in DOMAIN half :
        Taken(half[i], rightOnes) /\ Taken(half[j], rightOnes) => i = j
  BY <1>2, <1>4
<1> QED BY <1>4, <1>5, <1>6, <1>7, <1>8 DEF half

(* The paths through a node are those through its left child, then those   *)
(* through its right child.                                                *)
LEMMA PathsHalves ==
  ASSUME NEW k \in 0..MaxSubtreeLevels - 1, NEW n \in Nodes, ~IsImplicit(n)
  PROVE  Paths[k + 1][n] = RecurseToChildNode(Paths[k], n, FALSE)
                             \o RecurseToChildNode(Paths[k], n, TRUE)
<1>1. ~IsLeaf(n)
  BY ImplicitLevel
<1>2. Paths[k + 1] = PathsStep(Paths[k])
  BY PathsEquation, Zenon
<1> QED BY <1>1, <1>2 DEF PathsStep

(* If the paths of both children are right, so are those of their parent   *)
(* with one level more.                                                    *)
LEMMA PathsBranch ==
  ASSUME NEW k \in 0..MaxSubtreeLevels - 1, NEW n \in Nodes, ~IsImplicit(n),
         \A right \in BOOLEAN : ListRight(Child(n, right), k) /\ PathsRight(Child(n, right), k)
  PROVE  PathsRight(n, k + 1)
<1> DEFINE l == RecurseToChildNode(Paths[k], n, FALSE)
           r == RecurseToChildNode(Paths[k], n, TRUE)
           paths == l \o r
<1>1. /\ l \in Seq(EvaluationPaths) /\ Len(l) = ContinuationNodeCount[k]
      /\ \A i \in DOMAIN l : PathRight(l[i], n, k + 1)
      /\ \A i \in DOMAIN l : l[i].dest \in Below(Child(n, FALSE))
      /\ \A i, j \in DOMAIN l : l[i].dest = l[j].dest => i = j
      /\ \A rightOnes : n \notin rightOnes => \E i \in DOMAIN l : Taken(l[i], rightOnes)
      /\ \A rightOnes : \A i \in DOMAIN l : Taken(l[i], rightOnes) => n \notin rightOnes
      /\ \A rightOnes : \A i, j \in DOMAIN l :
           Taken(l[i], rightOnes) /\ Taken(l[j], rightOnes) => i = j
  BY HalfPaths
<1>2. /\ r \in Seq(EvaluationPaths) /\ Len(r) = ContinuationNodeCount[k]
      /\ \A i \in DOMAIN r : PathRight(r[i], n, k + 1)
      /\ \A i \in DOMAIN r : r[i].dest \in Below(Child(n, TRUE))
      /\ \A i, j \in DOMAIN r : r[i].dest = r[j].dest => i = j
      /\ \A rightOnes : n \in rightOnes => \E i \in DOMAIN r : Taken(r[i], rightOnes)
      /\ \A rightOnes : \A i \in DOMAIN r : Taken(r[i], rightOnes) => n \in rightOnes
      /\ \A rightOnes : \A i, j \in DOMAIN r :
           Taken(r[i], rightOnes) /\ Taken(r[j], rightOnes) => i = j
  BY HalfPaths
<1>3. Paths[k + 1][n] = paths
  BY PathsHalves
<1>4. Below(Child(n, FALSE)) \cap Below(Child(n, TRUE)) = {}
  BY ChildLevel, OneParent, BelowDisjoint
<1> HIDE DEF l, r
<1>5. paths \in Seq(EvaluationPaths) /\ Len(paths) = ContinuationNodeCount[k + 1]
  <2>1. ContinuationNodeCount[k + 1] = 2 * ContinuationNodeCount[k]
    BY ContinuationNodeCountValues, Zenon
  <2>2. paths \in Seq(EvaluationPaths) /\ Len(paths) = Len(l) + Len(r) /\ Len(l) \in Nat
    <3>1. l \in Seq(EvaluationPaths) /\ r \in Seq(EvaluationPaths)
      BY <1>1, <1>2
    <3>2. paths \in Seq(EvaluationPaths)
      BY <3>1
    <3>3. Len(paths) = Len(l) + Len(r) /\ Len(l) \in Nat
      BY <3>1
    <3> QED BY <3>2, <3>3
  <2>3. Len(l) = ContinuationNodeCount[k] /\ Len(r) = ContinuationNodeCount[k]
    BY <1>1, <1>2
  <2> QED BY <2>1, <2>2, <2>3
<1>6. \A i \in DOMAIN paths :
        \/ i \in DOMAIN l /\ paths[i] = l[i]
        \/ i - Len(l) \in DOMAIN r /\ paths[i] = r[i - Len(l)]
  BY <1>1, <1>2, ConcatElements, Zenon
<1>7. /\ \A i \in DOMAIN l : i \in DOMAIN paths /\ paths[i] = l[i]
      /\ \A i \in DOMAIN r : Len(l) + i \in DOMAIN paths /\ paths[Len(l) + i] = r[i]
  BY <1>1, <1>2, ConcatFound
<1>8. \A i \in DOMAIN paths : i \in Int
  BY <1>5
<1>13. Len(l) \in Int
  BY <1>1
<1> HIDE DEF paths
<1>9. \A i \in DOMAIN paths : PathRight(paths[i], n, k + 1)
  BY <1>1, <1>2, <1>6
<1>10. ASSUME NEW i \in DOMAIN paths, NEW j \in DOMAIN paths, paths[i].dest = paths[j].dest
       PROVE  i = j
  <2>1. CASE i \in DOMAIN l /\ paths[i] = l[i]
    <3>1. paths[i].dest \in Below(Child(n, FALSE))
      BY <2>1, <1>1
    <3>2. j \in DOMAIN l /\ paths[j] = l[j]
      BY <3>1, <1>2, <1>4, <1>6, <1>10
    <3> QED BY <2>1, <3>2, <1>1, <1>10
  <2>2. CASE i - Len(l) \in DOMAIN r /\ paths[i] = r[i - Len(l)]
    <3>1. paths[i].dest \in Below(Child(n, TRUE))
      BY <2>2, <1>2
    <3>2. j - Len(l) \in DOMAIN r /\ paths[j] = r[j - Len(l)]
      BY <3>1, <1>1, <1>4, <1>6, <1>10
    <3>3. i - Len(l) = j - Len(l)
      BY <2>2, <3>2, <1>2, <1>10
    <3> QED BY <3>3, <1>8, <1>13
  <2> QED BY <2>1, <2>2, <1>6
<1>11. ASSUME NEW rightOnes PROVE \E i \in DOMAIN paths : Taken(paths[i], rightOnes)
  <2>1. CASE n \notin rightOnes
    BY <2>1, <1>1, <1>7
  <2>2. CASE n \in rightOnes
    BY <2>2, <1>2, <1>7
  <2> QED BY <2>1, <2>2
<1>12. ASSUME NEW rightOnes, NEW i \in DOMAIN paths, NEW j \in DOMAIN paths,
              Taken(paths[i], rightOnes), Taken(paths[j], rightOnes)
       PROVE  i = j
  BY <1>1, <1>2, <1>6, <1>8, <1>12, <1>13
<1> QED BY <1>3, <1>5, <1>9, <1>10, <1>11, <1>12 DEF PathsRight

(* The evaluation paths of a subtree of up to four levels that ends within *)
(* the tree are those its nodes can take.                                  *)
THEOREM PathsPartition ==
  \A k \in 0..MaxSubtreeLevels : \A n \in Nodes :
    Depth[n] + k <= Levels => PathsRight(n, k)
<1> DEFINE All(k) == \A n \in Nodes : Depth[n] + k <= Levels => PathsRight(n, k)
<1>1. All(0)
  <2> SUFFICES ASSUME NEW n \in Nodes PROVE PathsRight(n, 0)
    OBVIOUS
  <2> DEFINE path == PathTo(n)
  <2>1. Paths[0][n] = <<path>>
    BY PathsEquation DEF PathsToSelf
  <2>2. path \in EvaluationPaths /\ path.dest = n /\ path.zero = {} /\ path.one = {}
    BY DEF PathTo, EvaluationPaths
  <2>3. PathRight(path, n, 0)
    BY <2>2, BelowClosed, ImplicitLevel DEF PathRight
  <2>4. \A rightOnes : Taken(path, rightOnes)
    BY <2>2 DEF Taken
  <2>5. ContinuationNodeCount[0] = 1
    BY ContinuationNodeCountValues
  <2> HIDE DEF path
  <2>6. /\ <<path>> \in Seq(EvaluationPaths) /\ Len(<<path>>) = 1 /\ DOMAIN <<path>> = {1}
        /\ <<path>>[1] = path
    BY <2>2
  <2> QED BY <2>1, <2>3, <2>4, <2>5, <2>6 DEF PathsRight
<1>2. ASSUME NEW k \in 0..MaxSubtreeLevels - 1, All(k) PROVE All(k + 1)
  <2> SUFFICES ASSUME NEW n \in Nodes, Depth[n] + (k + 1) <= Levels
               PROVE  PathsRight(n, k + 1)
    OBVIOUS
  <2>1. k \in Nat /\ Depth[n] \in Nat /\ Levels \in Nat
    BY ImplicitLevel, TreeAssumption DEF IsPerfect, MaxSubtreeLevels
  <2>2. ~IsImplicit(n)
    BY <2>1, ImplicitLevel
  <2>3. ASSUME NEW right \in BOOLEAN
        PROVE  ListRight(Child(n, right), k) /\ PathsRight(Child(n, right), k)
    <3>1. Child(n, right) \in Nodes /\ Depth[Child(n, right)] = Depth[n] + 1
      BY <2>2, ChildLevel
    <3>2. Depth[Child(n, right)] + k <= Levels
      BY <3>1, <2>1
    <3>3. k \in 0..MaxSubtreeLevels
      BY DEF MaxSubtreeLevels
    <3> QED BY <3>1, <3>2, <3>3, <1>2, SubtreesComplete DEF SubtreeRight
  <2> QED BY <2>2, <2>3, PathsBranch
<1> HIDE DEF All
<1>3. All(1) /\ All(2) /\ All(3) /\ All(4)
  <2>1. All(0 + 1)
    BY <1>1, <1>2 DEF MaxSubtreeLevels
  <2>2. All(1 + 1)
    BY <2>1, <1>2 DEF MaxSubtreeLevels
  <2>3. All(2 + 1)
    BY <2>2, <1>2 DEF MaxSubtreeLevels
  <2>4. All(3 + 1)
    BY <2>3, <1>2 DEF MaxSubtreeLevels
  <2> QED BY <2>1, <2>2, <2>3, <2>4
<1>4. \A k \in 0..MaxSubtreeLevels : k = 0 \/ k = 1 \/ k = 2 \/ k = 3 \/ k = 4
  BY DEF MaxSubtreeLevels
<1>5. \A k \in 0..MaxSubtreeLevels : All(k)
  BY <1>1, <1>3, <1>4
<1> QED BY <1>5 DEF All

-----------------------------------------------------------------------------
(* A subtree that would reach below the results has fewer paths.           *)
PathsCounted(n, k) ==
  LET paths == Paths[k][n]
  IN  /\ paths \in Seq(EvaluationPaths) /\ Len(paths) <= ContinuationNodeCount[k]
      /\ Depth[n] + k > Levels => Len(paths) < ContinuationNodeCount[k]

(* Prepending the parent to a child's paths makes as many paths.           *)
LEMMA HalfCounted ==
  ASSUME NEW k \in 0..MaxSubtreeLevels - 1, NEW n \in Nodes, ~IsImplicit(n),
         NEW right \in BOOLEAN, PathsCounted(Child(n, right), k)
  PROVE  LET half == RecurseToChildNode(Paths[k], n, right)
         IN  half \in Seq(EvaluationPaths) /\ Len(half) = Len(Paths[k][Child(n, right)])
<1> DEFINE paths == Paths[k][Child(n, right)]
           half == RecurseToChildNode(Paths[k], n, right)
<1>1. half = [i \in DOMAIN paths |-> AddParent(paths[i], n, right)]
  BY ChildLevel DEF RecurseToChildNode
<1>2. paths \in Seq(EvaluationPaths)
  BY DEF PathsCounted
<1> HIDE DEF paths, half
<1>3. Len(paths) \in Nat /\ DOMAIN paths = 1..Len(paths) /\ DOMAIN half = DOMAIN paths
  BY <1>1, <1>2
<1>4. ASSUME NEW i \in DOMAIN half PROVE half[i] \in EvaluationPaths
  <2> DEFINE path == paths[i]
  <2>1. path \in EvaluationPaths /\ half[i] = AddParent(path, n, right)
    BY <1>1, <1>2, <1>3
  <2> HIDE DEF path
  <2>2. AddParent(path, n, right) \in EvaluationPaths
    BY <2>1, AddParentPath
  <2> QED BY <2>1, <2>2
<1>5. half \in [1..Len(paths) -> EvaluationPaths]
  BY <1>1, <1>3, <1>4
<1>6. half \in Seq(EvaluationPaths)
  BY <1>5, <1>3, SeqDef
<1>7. Len(half) = Len(paths)
  BY <1>6, <1>3, LenProperties
<1> QED BY <1>6, <1>7 DEF half, paths

(* If no subtree of k levels has more paths than continuation nodes, and   *)
(* one that would reach below the results fewer, the same is true of k +   *)
(* 1.                                                                      *)
LEMMA CountStep ==
  ASSUME NEW k \in 0..MaxSubtreeLevels - 1, \A n \in Nodes : PathsCounted(n, k), NEW n \in Nodes
  PROVE  PathsCounted(n, k + 1)
<1>0. /\ k \in Nat /\ Depth[n] \in Nat /\ Levels \in Nat
      /\ ContinuationNodeCount[k] \in Nat \ {0}
      /\ ContinuationNodeCount[k + 1] = 2 * ContinuationNodeCount[k]
  <2>1. k \in Nat /\ Depth[n] \in Nat /\ Levels \in Nat
    BY ImplicitLevel, TreeAssumption DEF IsPerfect, MaxSubtreeLevels
  <2>2. ContinuationNodeCount[k + 1] = 2 * ContinuationNodeCount[k]
    BY ContinuationNodeCountValues, Zenon
  <2>3. k \in 0..MaxSubtreeLevels
    BY DEF MaxSubtreeLevels
  <2>4. ContinuationNodeCount[k] \in Nat \ {0}
    BY <2>3, ContinuationNodeCountValues, Zenon
  <2> QED BY <2>1, <2>2, <2>4
<1>1. CASE IsImplicit(n)
  <2> DEFINE path == PathTo(n)
  <2>1. IsLeaf(n)
    BY <1>1, ImplicitLevel
  <2>2. Paths[k + 1] = PathsStep(Paths[k])
    BY PathsEquation, Zenon
  <2>3. Paths[k + 1][n] = <<path>>
    BY <2>1, <2>2 DEF PathsStep
  <2>4. path \in EvaluationPaths
    BY DEF PathTo, EvaluationPaths
  <2> HIDE DEF path
  <2>5. <<path>> \in Seq(EvaluationPaths) /\ Len(<<path>>) = 1
    BY <2>4
  <2> QED BY <1>0, <2>3, <2>5 DEF PathsCounted
<1>2. CASE ~IsImplicit(n)
  <2> DEFINE l == RecurseToChildNode(Paths[k], n, FALSE)
             r == RecurseToChildNode(Paths[k], n, TRUE)
             pl == Paths[k][Child(n, FALSE)]
             pr == Paths[k][Child(n, TRUE)]
  <2>1. \A right \in BOOLEAN : /\ Child(n, right) \in Nodes
                               /\ Depth[Child(n, right)] = Depth[n] + 1
                               /\ PathsCounted(Child(n, right), k)
    BY <1>2, ChildLevel
  <2>2. l \in Seq(EvaluationPaths) /\ Len(l) = Len(pl) /\ r \in Seq(EvaluationPaths) /\ Len(r) = Len(pr)
    BY <1>2, <2>1, HalfCounted
  <2>3. /\ Len(pl) <= ContinuationNodeCount[k] /\ Len(pr) <= ContinuationNodeCount[k]
        /\ Depth[n] + 1 + k > Levels => /\ Len(pl) < ContinuationNodeCount[k]
                                        /\ Len(pr) < ContinuationNodeCount[k]
    BY <2>1 DEF PathsCounted
  <2>4. Paths[k + 1][n] = l \o r
    BY <1>2, PathsHalves
  <2> HIDE DEF l, r, pl, pr
  <2>5. l \o r \in Seq(EvaluationPaths) /\ Len(l \o r) = Len(l) + Len(r)
    BY <2>2, ConcatProperties
  <2>6. Len(l) \in Nat /\ Len(r) \in Nat
    BY <2>2
  <2>7. Depth[n] + (k + 1) > Levels => Depth[n] + 1 + k > Levels
    BY <1>0
  <2> QED BY <1>0, <2>2, <2>3, <2>4, <2>5, <2>6, <2>7 DEF PathsCounted
<1> QED BY <1>1, <1>2

(* Every subtree's paths are a list, with no more of them than             *)
(* continuation nodes.                                                     *)
LEMMA PathsListed ==
  ASSUME NEW k \in 0..MaxSubtreeLevels, NEW n \in Nodes
  PROVE  PathsCounted(n, k)
<1> DEFINE All(j) == \A m \in Nodes : PathsCounted(m, j)
<1>1. All(0)
  <2> SUFFICES ASSUME NEW m \in Nodes PROVE PathsCounted(m, 0)
    OBVIOUS
  <2>1. Depth[m] + 0 <= Levels /\ Depth[m] \in Nat /\ Levels \in Nat
    BY ImplicitLevel, TreeAssumption DEF IsPerfect
  <2>2. PathsRight(m, 0)
    BY <2>1, PathsPartition DEF MaxSubtreeLevels
  <2>3. ContinuationNodeCount[0] = 1
    BY ContinuationNodeCountValues
  <2> QED BY <2>1, <2>2, <2>3 DEF PathsRight, PathsCounted
<1>2. ASSUME NEW j \in 0..MaxSubtreeLevels - 1, All(j) PROVE All(j + 1)
  BY <1>2, CountStep
<1> HIDE DEF All
<1>3. All(1) /\ All(2) /\ All(3) /\ All(4)
  <2>1. All(0 + 1)
    BY <1>1, <1>2 DEF MaxSubtreeLevels
  <2>2. All(1 + 1)
    BY <2>1, <1>2 DEF MaxSubtreeLevels
  <2>3. All(2 + 1)
    BY <2>2, <1>2 DEF MaxSubtreeLevels
  <2>4. All(3 + 1)
    BY <2>3, <1>2 DEF MaxSubtreeLevels
  <2> QED BY <2>1, <2>2, <2>3, <2>4
<1>4. \A j \in 0..MaxSubtreeLevels : j = 0 \/ j = 1 \/ j = 2 \/ j = 3 \/ j = 4
  BY DEF MaxSubtreeLevels
<1> QED BY <1>1, <1>3, <1>4 DEF All

(* The assertion of CGEvaluationPathsBuilder::run holds for the subtrees   *)
(* that end within the tree, and for no other.                             *)
THEOREM PathsCompleteWithin ==
  ASSUME NEW k \in 0..MaxSubtreeLevels, NEW n \in Nodes
  PROVE  PathsComplete(n, k) <=> Depth[n] + k <= Levels
<1>5. PathsCounted(n, k)
  BY PathsListed
<1>6. Depth[n] + k <= Levels => Len(Paths[k][n]) = ContinuationNodeCount[k]
  BY PathsPartition DEF PathsRight
<1>7. /\ Depth[n] \in Nat /\ Levels \in Nat /\ k \in Nat
      /\ ContinuationNodeCount[k] \in Nat /\ Len(Paths[k][n]) \in Nat
  <2>1. ContinuationNodeCount[k] \in Nat
    BY ContinuationNodeCountValues, Zenon
  <2>2. Depth[n] \in Nat /\ Levels \in Nat /\ k \in Nat
    BY ImplicitLevel, TreeAssumption DEF IsPerfect, MaxSubtreeLevels
  <2> QED BY <2>1, <2>2, <1>5 DEF PathsCounted
<1> QED BY <1>5, <1>6, <1>7 DEF PathsCounted, PathsComplete

-----------------------------------------------------------------------------
(* The case values of a path are the condition vectors that take it.       *)
LEMMA CaseValuesTaken ==
  ASSUME NEW k \in 0..MaxSubtreeLevels, NEW n \in Nodes, Depth[n] + k <= Levels,
         NEW path \in EvaluationPaths, PathRight(path, n, k),
         NEW vector \in SUBSET DOMAIN PreOrder[k][n]
  PROVE  LET order == PreOrder[k][n]
         IN  vector \in CaseValues(path, order) <=> Taken(path, {order[i] : i \in vector})
<1> DEFINE order == PreOrder[k][n]
           rightOnes == {order[i] : i \in vector}
           fixed == FixedBits(path, order)
           varied == VariableBits(path, order)
<1>1. ListRight(n, k)
  BY SubtreesComplete DEF SubtreeRight
<1>2. /\ path.zero \cup path.one \subseteq Range(order) /\ path.zero \cap path.one = {}
      /\ Depth[path.dest] = Depth[n] + k
  BY DEF PathRight
<1>3. /\ \A i \in DOMAIN order : order[i] # path.dest
      /\ \A i, j \in DOMAIN order : order[i] = order[j] => i = j
      /\ \A m \in path.zero \cup path.one : \E i \in DOMAIN order : order[i] = m
  <2>1. \A i \in DOMAIN order : order[i] \in Nodes /\ Depth[order[i]] < Depth[n] + k
    BY <1>1, BelowClosed DEF ListRight
  <2>2. \A i \in DOMAIN order : order[i] # path.dest
    BY <2>1, <1>2, ImplicitLevel
  <2>3. \A i, j \in DOMAIN order : order[i] = order[j] => i = j
    BY <1>1 DEF ListRight
  <2> QED BY <2>2, <2>3, <1>2 DEF Range
<1> HIDE DEF order
<1>4. /\ \A i \in DOMAIN order : i \in fixed <=> order[i] \in path.one
      /\ \A i \in DOMAIN order : i \in varied <=> order[i] \notin path.zero \cup path.one
      /\ fixed \subseteq DOMAIN order /\ varied \subseteq DOMAIN order
  BY <1>3 DEF FixedBits, VariableBits, HasNode
<1> HIDE DEF fixed, varied
<1>5. vector \in CaseValues(path, order) <=> fixed \subseteq vector /\ vector \subseteq fixed \cup varied
  <2>1. CaseValues(path, order) = {fixed \cup vary : vary \in SUBSET varied}
    BY DEF CaseValues, Variants, fixed, varied
  <2>2. ASSUME fixed \subseteq vector, vector \subseteq fixed \cup varied
        PROVE  vector \in {fixed \cup vary : vary \in SUBSET varied}
    <3>1. vector \cap varied \in SUBSET varied /\ vector = fixed \cup (vector \cap varied)
      BY <2>2
    <3> QED BY <3>1
  <2> QED BY <2>1, <2>2
<1>6. \A i \in DOMAIN order : order[i] \in rightOnes <=> i \in vector
  BY <1>3 DEF order
<1>7. Taken(path, rightOnes) <=> /\ \A i \in DOMAIN order : order[i] \in path.one => i \in vector
                                 /\ \A i \in DOMAIN order : order[i] \in path.zero => i \notin vector
  <2> HIDE DEF rightOnes
  <2> QED BY <1>3, <1>6 DEF Taken
<1>8. vector \subseteq DOMAIN order
  BY DEF order
<1>9. vector \in CaseValues(path, order) <=> Taken(path, rightOnes)
  <2> HIDE DEF rightOnes
  <2> QED BY <1>2, <1>4, <1>5, <1>7, <1>8
<1> QED BY <1>9 DEF order

(* Every condition vector of a subtree is a case value of exactly one of   *)
(* its evaluation paths.                                                   *)
THEOREM OnePathPerVector ==
  ASSUME NEW k \in 0..MaxSubtreeLevels, NEW n \in Nodes, Depth[n] + k <= Levels,
         NEW vector \in SUBSET DOMAIN PreOrder[k][n]
  PROVE  LET paths == Paths[k][n]
             order == PreOrder[k][n]
         IN  \E i \in DOMAIN paths : \A j \in DOMAIN paths :
               vector \in CaseValues(paths[j], order) <=> j = i
<1> DEFINE paths == Paths[k][n]
           order == PreOrder[k][n]
           rightOnes == {order[i] : i \in vector}
<1>1. PathsRight(n, k)
  BY PathsPartition
<1>2. /\ \A i \in DOMAIN paths : paths[i] \in EvaluationPaths /\ PathRight(paths[i], n, k)
      /\ \E i \in DOMAIN paths : Taken(paths[i], rightOnes)
      /\ \A i, j \in DOMAIN paths :
           Taken(paths[i], rightOnes) /\ Taken(paths[j], rightOnes) => i = j
  <2>1. \A i \in DOMAIN paths : paths[i] \in EvaluationPaths
    BY <1>1 DEF PathsRight
  <2> QED BY <2>1, <1>1, Zenon DEF PathsRight
<1> HIDE DEF paths
<1>3. \A i \in DOMAIN paths :
        vector \in CaseValues(paths[i], order) <=> Taken(paths[i], rightOnes)
  BY <1>2, CaseValuesTaken
<1> HIDE DEF order, rightOnes
<1>4. \E i \in DOMAIN paths : \A j \in DOMAIN paths :
        vector \in CaseValues(paths[j], order) <=> j = i
  BY <1>2, <1>3
<1> QED BY <1>4 DEF paths, order

(* What the nodes of a subtree evaluate to at run time is a case value of  *)
(* the path that the data set takes: the path ends where evaluation of the *)
(* data set continues.                                                     *)
THEOREM VectorSteers ==
  ASSUME NEW k \in 0..MaxSubtreeLevels, NEW n \in Nodes, Depth[n] + k <= Levels,
         NEW ds, NEW i \in DOMAIN Paths[k][n],
         ConditionVector(ds, PreOrder[k][n]) \in CaseValues(Paths[k][n][i], PreOrder[k][n])
  PROVE  Walk(ds)[Paths[k][n][i].dest] = Walk(ds)[n]
<1> DEFINE path == Paths[k][n][i]
           order == PreOrder[k][n]
           vector == ConditionVector(ds, order)
           rightOnes == {order[j] : j \in vector}
<1>1. PathsRight(n, k) /\ ListRight(n, k)
  BY PathsPartition, SubtreesComplete DEF SubtreeRight
<1>2. path \in EvaluationPaths
  BY <1>1 DEF PathsRight
<1>3. PathRight(path, n, k)
  BY <1>1, Zenon DEF PathsRight
<1> HIDE DEF path
<1>4. vector \in SUBSET DOMAIN order
  BY DEF ConditionVector
<1>5. Taken(path, rightOnes)
  <2>1. vector \in CaseValues(path, order)
    BY DEF path
  <2> QED BY <1>2, <1>3, <1>4, <2>1, CaseValuesTaken
<1>6. \A j \in DOMAIN order : order[j] \in Nodes
  BY <1>1 DEF ListRight
<1> HIDE DEF order
<1>7. \A m \in Range(order) : m \in rightOnes <=> m \in RightOnes(ds)
  BY <1>6 DEF Range, ConditionVector, RightOnes
<1>8. path.zero \cup path.one \subseteq Range(order)
  BY <1>3 DEF PathRight, order
<1>9. Taken(path, RightOnes(ds))
  <2> HIDE DEF rightOnes
  <2> QED BY <1>5, <1>7, <1>8 DEF Taken
<1>10. Walk(ds)[path.dest] = Walk(ds)[n]
  BY <1>3, <1>9, Zenon DEF PathRight
<1> QED BY <1>10 DEF path

-----------------------------------------------------------------------------
(* Evaluation of a data set ends, in a result below the node it starts at. *)
THEOREM WalkEnds ==
  ASSUME NEW ds, NEW n \in Nodes
  PROVE  Walk(ds)[n] \in Below(n) /\ Walk(ds)[n] \in Nodes /\ IsImplicit(Walk(ds)[n])
<1> DEFINE S == {m \in Nodes : Walk(ds)[m] \in Below(m) /\ IsImplicit(Walk(ds)[m])}
<1>1. ASSUME NEW m \in Nodes, IsImplicit(m) PROVE m \in S
  BY <1>1, WalkStep, BelowClosed
<1>2. ASSUME NEW m \in Nodes, ~IsImplicit(m), Child(m, FALSE) \in S, Child(m, TRUE) \in S
      PROVE  m \in S
  <2> DEFINE right == GoesRight(m, ds)
  <2>1. Child(m, right) \in S
    BY <1>2 DEF Child
  <2>2. Walk(ds)[Child(m, right)] = Walk(ds)[m]
    BY <1>2, WalkStep
  <2>3. Below(Child(m, right)) \subseteq Below(m)
    <3>1. Child(m, right) \in {Child(m, FALSE), Child(m, TRUE)}
      BY DEF Child
    <3>2. Below(Child(m, FALSE)) \subseteq Below(m) /\ Below(Child(m, TRUE)) \subseteq Below(m)
      BY <1>2, BelowChildren
    <3> QED BY <3>1, <3>2
  <2> HIDE DEF right
  <2> QED BY <2>1, <2>2, <2>3
<1> HIDE DEF S
<1>3. S \in SUBSET Nodes
  BY DEF S
<1>4. S = Nodes
  BY <1>1, <1>2, <1>3, UpwardInduction
<1> QED BY <1>4, BelowClosed DEF S

(* The nodes that evaluation of a data set comes by, starting from node n: *)
(* those of its subtree that are above the result.                         *)
OnTrail(n, ds) == {m \in Below(n) : Walk(ds)[n] \in Below(m)}

(* At a result the trail ends, and it enters the child that evaluation     *)
(* goes to.                                                                *)
LEMMA OnTrailStep ==
  ASSUME NEW ds, NEW n \in Nodes
  PROVE  /\ IsImplicit(n) => OnTrail(n, ds) = {n}
         /\ ~IsImplicit(n) =>
              OnTrail(n, ds) = {n} \cup OnTrail(Child(n, GoesRight(n, ds)), ds)
<1> DEFINE r == Walk(ds)[n]
<1>1. r \in Below(n) /\ n \in Below(n)
  BY WalkEnds, BelowClosed
<1>2. CASE IsImplicit(n)
  <2>1. ASSUME NEW m \in Below(n) PROVE m = n
    BY <1>2, BelowDepth, ImplicitLevel, TreeAssumption DEF IsPerfect
  <2> QED BY <1>1, <1>2, <2>1 DEF OnTrail
<1>3. CASE ~IsImplicit(n)
  <2> DEFINE right == GoesRight(n, ds)
             c == Child(n, right)
  <2>1. PICK other \in BOOLEAN : /\ {c, Child(n, other)} = {Child(n, FALSE), Child(n, TRUE)}
                                 /\ c # Child(n, other)
    <3>1. Child(n, FALSE) # Child(n, TRUE)
      BY <1>3, OneParent
    <3>2. c = Child(n, TRUE) \/ c = Child(n, FALSE)
      BY DEF Child
    <3> QED BY <3>1, <3>2
  <2> DEFINE d == Child(n, other)
  <2>2. c \in Nodes /\ d \in Nodes /\ Depth[c] = Depth[d]
    BY <1>3, ChildLevel
  <2>3. Below(n) = {n} \cup Below(c) \cup Below(d) /\ n \notin Below(c)
    <3>1. /\ Below(n) = {n} \cup Below(Child(n, FALSE)) \cup Below(Child(n, TRUE))
          /\ n \notin Below(Child(n, FALSE)) /\ n \notin Below(Child(n, TRUE))
      BY <1>3, BelowChildren
    <3>2. \/ c = Child(n, FALSE) /\ d = Child(n, TRUE)
          \/ c = Child(n, TRUE) /\ d = Child(n, FALSE)
      BY <2>1
    <3> QED BY <3>1, <3>2
  <2>4. Walk(ds)[c] = r
    BY <1>3, WalkStep
  <2>5. r \in Below(c)
    BY <2>2, <2>4, WalkEnds
  <2>6. Below(c) \cap Below(d) = {}
    BY <2>1, <2>2, BelowDisjoint
  <2>7. ASSUME NEW m \in Below(d) PROVE r \notin Below(m)
    BY <2>2, <2>5, <2>6, BelowTransitive
  <2> HIDE DEF c, d, r
  <2>8. {m \in Below(n) : r \in Below(m)} = {n} \cup {m \in Below(c) : r \in Below(m)}
    BY <1>1, <2>3, <2>7
  <2> QED BY <1>3, <2>4, <2>8 DEF OnTrail, c, r
<1> QED BY <1>2, <1>3

(* No node on the trail leads away from the result.                        *)
LEMMA OnTrailWalk ==
  ASSUME NEW ds, NEW n \in Nodes, NEW m \in OnTrail(n, ds)
  PROVE  Walk(ds)[m] = Walk(ds)[n]
<1> DEFINE S == {x \in Nodes : \A y \in OnTrail(x, ds) : Walk(ds)[y] = Walk(ds)[x]}
<1>1. ASSUME NEW x \in Nodes, IsImplicit(x) PROVE x \in S
  BY <1>1, OnTrailStep
<1>2. ASSUME NEW x \in Nodes, ~IsImplicit(x), Child(x, FALSE) \in S, Child(x, TRUE) \in S
      PROVE  x \in S
  <2> DEFINE c == Child(x, GoesRight(x, ds))
  <2>1. c \in S
    BY <1>2 DEF Child
  <2>2. Walk(ds)[c] = Walk(ds)[x]
    BY <1>2, WalkStep
  <2>3. OnTrail(x, ds) = {x} \cup OnTrail(c, ds)
    BY <1>2, OnTrailStep
  <2> HIDE DEF c
  <2> QED BY <2>1, <2>2, <2>3
<1>3. S \in SUBSET Nodes
  OBVIOUS
<1> HIDE DEF S
<1>4. S = Nodes
  BY <1>1, <1>2, <1>3, UpwardInduction
<1> QED BY <1>4 DEF S

(* Collecting the nodes from a node down, along the outcomes, collects the *)
(* nodes of its trail, whatever function satisfies the recursion equation. *)
LEMMA TrailCollected ==
  ASSUME NEW ds,
         NEW trail, trail = [n \in Nodes |->
           {n} \cup IF IsImplicit(n) THEN {} ELSE trail[Child(n, GoesRight(n, ds))]]
  PROVE  \A n \in Nodes : trail[n] = OnTrail(n, ds)
<1> DEFINE S == {n \in Nodes : trail[n] = OnTrail(n, ds)}
<1>0. \A n \in Nodes : /\ IsImplicit(n) => trail[n] = {n}
                       /\ ~IsImplicit(n) => trail[n] = {n} \cup trail[Child(n, GoesRight(n, ds))]
  OBVIOUS
<1>1. ASSUME NEW n \in Nodes, IsImplicit(n) PROVE n \in S
  BY <1>0, <1>1, OnTrailStep
<1>2. ASSUME NEW n \in Nodes, ~IsImplicit(n), Child(n, FALSE) \in S, Child(n, TRUE) \in S
      PROVE  n \in S
  <2> DEFINE c == Child(n, GoesRight(n, ds))
  <2>1. c \in S
    BY <1>2 DEF Child
  <2>2. OnTrail(n, ds) = {n} \cup OnTrail(c, ds)
    BY <1>2, OnTrailStep
  <2>3. trail[n] = {n} \cup trail[c]
    BY <1>0, <1>2
  <2> HIDE DEF c
  <2> QED BY <2>1, <2>2, <2>3
<1>3. S \in SUBSET Nodes
  OBVIOUS
<1> HIDE DEF S
<1>4. S = Nodes
  BY <1>1, <1>2, <1>3, UpwardInduction
<1> QED BY <1>4 DEF S

-----------------------------------------------------------------------------
(* The nodes below node n from which the way to node d turns to a side.    *)
Turns(n, d, side) == {m \in Below(n) : ~IsImplicit(m) /\ d \in Below(Child(m, side))}

(* The two subtrees below a node have no node in common.                   *)
LEMMA ChildrenApart ==
  ASSUME NEW n \in Nodes, ~IsImplicit(n)
  PROVE  Below(Child(n, FALSE)) \cap Below(Child(n, TRUE)) = {}
BY ChildLevel, OneParent, BelowDisjoint

(* No way turns in a node to get to that node, or to one above.            *)
LEMMA NoTurns ==
  ASSUME NEW n \in Nodes, NEW side \in BOOLEAN
  PROVE  Turns(n, n, side) = {}
<1> SUFFICES ASSUME NEW m \in Below(n), ~IsImplicit(m), n \in Below(Child(m, side))
             PROVE  FALSE
  BY DEF Turns
<1>1. m \in Nodes /\ Depth[m] >= Depth[n] /\ Depth[m] \in Nat /\ Depth[n] \in Nat
  BY BelowDepth, ImplicitLevel
<1>2. Child(m, side) \in Nodes /\ Depth[Child(m, side)] = Depth[m] + 1
  BY <1>1, ChildLevel
<1>3. Depth[n] >= Depth[m] + 1
  BY <1>2, BelowDepth
<1> QED BY <1>1, <1>3

(* The way from a node to one below its child turns there, and then as the *)
(* way from the child does.                                                *)
LEMMA TurnsStep ==
  ASSUME NEW n \in Nodes, ~IsImplicit(n), NEW right \in BOOLEAN, NEW side \in BOOLEAN,
         NEW d \in Below(Child(n, right))
  PROVE  Turns(n, d, side) = Turns(Child(n, right), d, side) \cup IF side = right THEN {n} ELSE {}
<1>1. /\ \A r \in BOOLEAN : /\ Child(n, r) \in Nodes /\ Below(Child(n, r)) \subseteq Below(n)
                            /\ Below(Child(n, r)) \subseteq Nodes
      /\ Below(n) = {n} \cup Below(Child(n, FALSE)) \cup Below(Child(n, TRUE))
  BY ChildLevel, BelowChildren, BelowClosed
<1>2. \A r \in BOOLEAN : d \in Below(Child(n, r)) <=> r = right
  BY ChildrenApart
<1>3. ASSUME NEW m \in Below(n), ~IsImplicit(m), d \in Below(Child(m, side)), m # n
      PROVE  m \in Below(Child(n, right))
  <2>1. PICK r \in BOOLEAN : m \in Below(Child(n, r))
    BY <1>1, <1>3
  <2>2. Child(m, side) \in Below(m)
    <3>1. m \in Nodes /\ m \in Below(m) /\ Closed(Below(m))
      BY <1>1, <2>1, BelowClosed
    <3> QED BY <1>3, <3>1 DEF Closed
  <2>3. d \in Below(Child(n, r))
    <3>1. Child(m, side) \in Below(Child(n, r))
      BY <1>1, <2>1, <2>2, BelowTransitive
    <3> QED BY <1>1, <1>3, <3>1, BelowTransitive
  <2> QED BY <1>2, <2>1, <2>3
<1>4. n \in Turns(n, d, side) <=> side = right
  BY <1>1, <1>2 DEF Turns
<1>5. n \notin Below(Child(n, right))
  BY BelowChildren
<1> QED BY <1>1, <1>3, <1>4, <1>5 DEF Turns

(* An evaluation path from node n: it ends below, and leaves to each side  *)
(* the nodes from which the way to its end turns there.                    *)
PathDivides(path, n, k) ==
  /\ path \in EvaluationPaths
  /\ path.dest \in Below(n) /\ Depth[path.dest] <= Depth[n] + k
  /\ path.one = Turns(n, path.dest, TRUE)
  /\ path.zero = Turns(n, path.dest, FALSE)

AllDivide(n, k) ==
  \A i \in DOMAIN Paths[k][n] : PathDivides(Paths[k][n][i], n, k)

(* A path that ends where it begins leaves no node.                        *)
LEMMA PathToDivides ==
  ASSUME NEW n \in Nodes, NEW k \in Nat
  PROVE  PathDivides(PathTo(n), n, k)
<1>1. PathTo(n) \in EvaluationPaths
  BY DEF PathTo, EvaluationPaths
<1>2. n \in Below(n) /\ Depth[n] \in Nat
  BY BelowClosed, ImplicitLevel
<1>3. Turns(n, n, TRUE) = {} /\ Turns(n, n, FALSE) = {}
  BY NoTurns
<1>4. PathTo(n).dest = n /\ PathTo(n).one = {} /\ PathTo(n).zero = {}
  BY DEF PathTo
<1>5. Depth[n] <= Depth[n] + k
  BY <1>2
<1> QED BY <1>1, <1>2, <1>3, <1>4, <1>5, Zenon DEF PathDivides

(* Adding the parent adds its turn.                                        *)
LEMMA DivideStep ==
  ASSUME NEW k \in 0..MaxSubtreeLevels - 1, \A n \in Nodes : AllDivide(n, k), NEW n \in Nodes
  PROVE  AllDivide(n, k + 1)
<1>0. k \in Nat
  BY DEF MaxSubtreeLevels
<1>1. CASE IsImplicit(n)
  <2>1. IsLeaf(n)
    BY <1>1, ImplicitLevel
  <2>2. Paths[k + 1] = PathsStep(Paths[k])
    BY PathsEquation, Zenon
  <2>3. Paths[k + 1][n] = <<PathTo(n)>>
    BY <2>1, <2>2 DEF PathsStep
  <2>4. PathDivides(PathTo(n), n, k + 1)
    BY <1>0, PathToDivides
  <2> HIDE <2>2
  <2>5. \A i \in DOMAIN <<PathTo(n)>> : <<PathTo(n)>>[i] = PathTo(n)
    OBVIOUS
  <2> QED BY <2>3, <2>4, <2>5, Zenon DEF AllDivide
<1>2. CASE ~IsImplicit(n)
  <2> DEFINE half(right) == RecurseToChildNode(Paths[k], n, right)
  <2>1. ASSUME NEW right \in BOOLEAN
        PROVE  /\ \A i \in DOMAIN half(right) : PathDivides(half(right)[i], n, k + 1)
               /\ half(right) \in Seq(EvaluationPaths)
    <3> DEFINE c == Child(n, right)
               paths == Paths[k][c]
    <3>1. c \in Nodes /\ c # NoNode /\ Depth[c] = Depth[n] + 1 /\ Depth[n] \in Nat
      BY <1>2, ChildLevel, ImplicitLevel
    <3>2. half(right) = [i \in DOMAIN paths |-> AddParent(paths[i], n, right)]
      BY <3>1 DEF RecurseToChildNode
    <3>3. ASSUME NEW i \in DOMAIN half(right)
          PROVE  PathDivides(half(right)[i], n, k + 1)
      <4> DEFINE path == paths[i]
                 longer == AddParent(path, n, right)
      <4>1. half(right)[i] = longer /\ i \in DOMAIN paths
        BY <3>2
      <4>2. PathDivides(path, c, k)
        BY <3>1, <4>1 DEF AllDivide
      <4> HIDE DEF path, half, c
      <4>3. /\ path \in EvaluationPaths /\ path.dest \in Below(c)
            /\ Depth[path.dest] <= Depth[c] + k
            /\ path.one = Turns(c, path.dest, TRUE) /\ path.zero = Turns(c, path.dest, FALSE)
        BY <4>2 DEF PathDivides
      <4>4. /\ longer \in EvaluationPaths /\ longer.dest = path.dest
            /\ longer.one = IF right THEN path.one \cup {n} ELSE path.one
            /\ longer.zero = IF right THEN path.zero ELSE path.zero \cup {n}
        <5>1. path \in EvaluationPaths
          BY <4>3
        <5>2. CASE right
          BY <5>1, <5>2 DEF longer, AddParent, EvaluationPaths
        <5>3. CASE ~right
          BY <5>1, <5>3 DEF longer, AddParent, EvaluationPaths
        <5> QED BY <5>2, <5>3
      <4> HIDE DEF longer
      <4>5. Below(c) \subseteq Below(n) /\ path.dest \in Nodes /\ Depth[path.dest] \in Nat
        <5>1. Below(c) \subseteq Below(n)
          BY <1>2, BelowChildren DEF c
        <5>2. path.dest \in Nodes
          BY <3>1, <4>3, BelowClosed
        <5> QED BY <5>1, <5>2, ImplicitLevel
      <4>6. Depth[path.dest] <= Depth[n] + (k + 1)
        BY <1>0, <3>1, <4>3, <4>5
      <4>7. \A side \in BOOLEAN :
              Turns(n, path.dest, side) = Turns(c, path.dest, side) \cup IF side = right THEN {n} ELSE {}
        BY <1>2, <4>3, TurnsStep DEF c
      <4>8. longer.one = Turns(n, path.dest, TRUE) /\ longer.zero = Turns(n, path.dest, FALSE)
        BY <4>3, <4>4, <4>7
      <4> QED BY <4>1, <4>3, <4>4, <4>5, <4>6, <4>8 DEF PathDivides
    <3>4. half(right) \in Seq(EvaluationPaths)
      <4>1. paths \in Seq(EvaluationPaths)
        <5>1. PathsCounted(c, k)
          <6>1. k \in 0..MaxSubtreeLevels
            BY DEF MaxSubtreeLevels
          <6> QED BY <3>1, <6>1, PathsListed
        <5> QED BY <5>1 DEF PathsCounted
      <4> HIDE DEF c, half
      <4>2. Len(paths) \in Nat /\ DOMAIN paths = 1..Len(paths)
        BY <4>1
      <4>3. \A i \in DOMAIN paths : half(right)[i] \in EvaluationPaths
        BY <3>2, <3>3 DEF PathDivides
      <4>4. half(right) \in [1..Len(paths) -> EvaluationPaths]
        BY <3>2, <4>2, <4>3
      <4> QED BY <4>2, <4>4, SeqDef
    <3> QED BY <3>3, <3>4
  <2>2. Paths[k + 1][n] = half(FALSE) \o half(TRUE)
    BY <1>2, PathsHalves
  <2> HIDE DEF half
  <2>3. half(FALSE) \in Seq(EvaluationPaths) /\ half(TRUE) \in Seq(EvaluationPaths)
    BY <2>1
  <2>4. \A i \in DOMAIN (half(FALSE) \o half(TRUE)) :
          \E right \in BOOLEAN : \E j \in DOMAIN half(right) :
            (half(FALSE) \o half(TRUE))[i] = half(right)[j]
    <3> DEFINE l == half(FALSE)
               r == half(TRUE)
    <3>1. l \in Seq(EvaluationPaths) /\ r \in Seq(EvaluationPaths)
      BY <2>3
    <3> HIDE DEF l, r
    <3>2. \A i \in DOMAIN (l \o r) :
            \/ \E j \in DOMAIN l : (l \o r)[i] = l[j]
            \/ \E j \in DOMAIN r : (l \o r)[i] = r[j]
      BY <3>1, ConcatElements
    <3> QED BY <3>2, Zenon DEF l, r
  <2> QED BY <2>1, <2>2, <2>4, Zenon DEF AllDivide
<1> QED BY <1>1, <1>2

(* Every evaluation path of a subtree, complete or not, leaves to each     *)
(* side the nodes that the way to its end leaves there.                    *)
THEOREM PathsDivide ==
  ASSUME NEW k \in 0..MaxSubtreeLevels, NEW n \in Nodes, NEW i \in DOMAIN Paths[k][n]
  PROVE  PathDivides(Paths[k][n][i], n, k)
<1> DEFINE S == {j \in 0..MaxSubtreeLevels : \A m \in Nodes : AllDivide(m, j)}
<1>1. 0 \in S
  <2>1. ASSUME NEW m \in Nodes PROVE AllDivide(m, 0)
    <3>1. Paths[0][m] = <<PathTo(m)>>
      BY PathsEquation DEF PathsToSelf
    <3>2. \A j \in DOMAIN <<PathTo(m)>> : <<PathTo(m)>>[j] = PathTo(m)
      OBVIOUS
    <3>3. PathDivides(PathTo(m), m, 0)
      BY PathToDivides
    <3> QED BY <3>1, <3>2, <3>3, Zenon DEF AllDivide
  <2> QED BY <2>1 DEF MaxSubtreeLevels
<1>2. ASSUME NEW j \in 0..MaxSubtreeLevels - 1, j \in S PROVE j + 1 \in S
  <2>1. \A m \in Nodes : AllDivide(m, j + 1)
    BY <1>2, DivideStep
  <2>2. j + 1 \in 0..MaxSubtreeLevels
    BY DEF MaxSubtreeLevels
  <2> QED BY <2>1, <2>2
<1>3. S \in SUBSET (0..MaxSubtreeLevels) /\ MaxSubtreeLevels \in Nat
  BY DEF MaxSubtreeLevels
<1> HIDE DEF S
<1>4. k \in S
  BY <1>1, <1>2, <1>3, IntervalInduction
<1> QED BY <1>4 DEF S, AllDivide
=============================================================================
