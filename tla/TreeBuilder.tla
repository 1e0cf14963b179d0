---------------------------- MODULE TreeBuilder ----------------------------
(***************************************************************************)
(* How a DecisionTree is built: the constructor reserves space, addNode    *)
(* puts the inner nodes into an unordered_map, and finalize adds the       *)
(* results to the map while it iterates over it. The C++ standard says     *)
(* that an insertion may invalidate the iterator; what happens is up to    *)
(* the library the build links, libc++: a singly linked list of all nodes, *)
(* the nodes of one bucket next to each other, whose iterator is a pointer *)
(* to a node. Whether the loop meets every node depends on where in the    *)
(* list an insertion or a rehash puts nodes.                               *)
(*                                                                         *)
(* Of a node only the children matter here; finalize reads nothing else.   *)
(***************************************************************************)
EXTENDS TreeFactory, Sequences, SequencesExt

CONSTANTS
  MaxLevels,       \* bound on the levels of the trees built
  AnyOrderLevels   \* bound on those whose nodes are added in any order

\* PowerOf2 asserts that a tree has no more than 63 levels (Utils.h:22).
ASSUME BoundsAssumption ==
  MaxLevels \in 1..63 /\ AnyOrderLevels \in 0..MaxLevels

\* NoNodeIdx, the largest 64-bit number, is no index of a tree.
ASSUME NoNodeAssumption == NoNode \notin InnerNodes(MaxLevels + 1)

VARIABLES
  levels,          \* DecisionTree::Levels
  nodes,           \* DecisionTree::Nodes, index -> children
  map,             \* its list of indices and its number of buckets
  firstResultIdx,  \* DecisionTree::FirstResultIdx, NoNode until finalize
  iterator,        \* the node finalize's loop is at, NoNode at its end
  finalized        \* DecisionTree::Finalized

vars == <<levels, nodes, map, firstResultIdx, iterator, finalized>>

-----------------------------------------------------------------------------
(* libc++'s unordered_map from uint64_t, whose hash is the number itself   *)

Maps == [list : Seq(Nat), buckets : Nat]

IsPowerOf2(n) == PowerOf2[Log2(n)] = n
IsPrime(n) == n > 1 /\ \A d \in 2..n - 1 : n % d # 0
NextPrime(n) ==
  CHOOSE p \in n..2 * n : IsPrime(p) /\ \A q \in n..p - 1 : ~IsPrime(q)

\* Bertrand's postulate, for the numbers of buckets that a map is asked for.
ASSUME PrimesAssumption ==
  \A n \in 2..PowerOf2[MaxLevels + 2] : \E p \in n..2 * n : IsPrime(p)

BucketCount(n) == CASE n = 1 -> 2
                    [] n > 1 /\ IsPowerOf2(n) -> n
                    [] OTHER -> NextPrime(n)

\* The position of the first node of idx's bucket, 0 if the bucket is empty.
BucketStart(list, buckets, idx) ==
  SelectInSeq(list, LAMBDA other : other % buckets = idx % buckets)

\* In front of its bucket, or of everything if it is the first of its bucket.
Place(list, buckets, idx) ==
  LET start == BucketStart(list, buckets, idx)
  IN  IF start = 0 THEN <<idx>> \o list ELSE InsertAt(list, start, idx)

\* Relinking a node behind those relinked before: a node stays in its place
\* unless its bucket has begun earlier, with another bucket's nodes in between.
Relink[buckets \in Nat] == [idx \in Nat |->
  [list \in Seq(Nat) |->
     LET start == BucketStart(list, buckets, idx)
     IN  IF start = 0 \/ Last(list) % buckets = idx % buckets
         THEN Append(list, idx)
         ELSE InsertAt(list, start, idx)]]

\* Mutant: a rehash that puts bucket after bucket at the front of the list, as
\* libstdc++'s does. (No bucket has two nodes when these maps are rehashed.)
RehashFront(m, n) ==
  [buckets |-> BucketCount(n), list |-> Reverse(m.list)]

\* Every node relinked, in the order of the list.
Relinked(list, buckets) ==
  LET done[i \in 0..Len(list)] ==
        IF i = 0 THEN <<>> ELSE Relink[buckets][list[i]][done[i - 1]]
  IN  done[Len(list)]

Rehash(m, n) ==
  LET buckets == BucketCount(n)
  IN  [list |-> Relinked(m.list, buckets), buckets |-> buckets]

\* The map doubles its buckets, to a prime number, when it would hold more
\* nodes than buckets.
Grow(m) ==
  LET size == Len(m.list) + 1
      doubled == 2 * m.buckets + (IF m.buckets > 2 /\ IsPowerOf2(m.buckets) THEN 0 ELSE 1)
  IN  IF size <= m.buckets THEN m
      ELSE Rehash(m, IF doubled > size THEN doubled ELSE size)

Insert(idx) ==
  [m \in Maps |-> [m EXCEPT !.list = Place(m.list, m.buckets, idx)]]

\* emplace; a node whose index is in the map already is dropped.
Emplace(idx) ==
  [m \in Maps |-> IF Contains(m.list, idx) THEN m ELSE Insert(idx)[Grow(m)]]

\* operator++ of the iterator, NoNode for end()
Successor(list, idx) ==
  LET i == SelectInSeq(list, LAMBDA other : other = idx)
  IN  IF i = Len(list) THEN NoNode ELSE list[i + 1]

-----------------------------------------------------------------------------
(* DecisionTree and its factories                                          *)

NoChildren == [falseChild |-> NoNode, trueChild |-> NoNode]

\* Nodes, with a node added at some indices; a node that is there stays.
NodesWith(idxs, node) ==
  [n \in DOMAIN nodes \cup idxs |-> IF n \in DOMAIN nodes THEN nodes[n] ELSE node]

\* The constructor, which reserves buckets for the inner nodes.
Init ==
  /\ levels \in 1..MaxLevels
  /\ nodes = <<>>
  /\ map = Rehash([list |-> <<>>, buckets |-> 0], TreeNodes(levels))
  /\ firstResultIdx = NoNode
  /\ iterator = NoNode
  /\ finalized = FALSE

\* addNode, with the children every factory gives a node. The factories add
\* nodes by index, other callers of addNode and addNodes may do as they like.
AddNode(idx) ==
  /\ ~finalized /\ firstResultIdx = NoNode
  /\ idx \in InnerNodes(levels) \ DOMAIN nodes
  /\ levels > AnyOrderLevels => idx = Cardinality(DOMAIN nodes)
  /\ nodes' = NodesWith({idx}, [falseChild |-> FalseChildIdx(idx),
                                trueChild |-> FalseChildIdx(idx) + 1])
  /\ map' = Emplace(idx)[map]
  /\ UNCHANGED <<levels, firstResultIdx, iterator, finalized>>

\* Mutant: the largest index is taken for the last result.
BeginFinalizeLate ==
  /\ ~finalized /\ firstResultIdx = NoNode
  /\ Cardinality(DOMAIN nodes) = TreeNodes(levels)
  /\ firstResultIdx' = 2 + Max(DOMAIN nodes)
  /\ iterator' = Head(map.list)
  /\ UNCHANGED <<levels, nodes, map, finalized>>

\* finalize, up to its loop; it aborts unless all inner nodes have been added.
BeginFinalize ==
  /\ ~finalized /\ firstResultIdx = NoNode
  /\ Cardinality(DOMAIN nodes) = TreeNodes(levels)
  /\ firstResultIdx' = 1 + Max(DOMAIN nodes)
  /\ iterator' = Head(map.list)
  /\ UNCHANGED <<levels, nodes, map, finalized>>

\* Mutant: the first result is missed.
IsResultButFirst(idx) == idx # NoNode /\ idx > firstResultIdx

IsResult(idx) == idx # NoNode /\ idx >= firstResultIdx

\* addResultNodeIfNecessary
AddResult(m, idx) == IF IsResult(idx) THEN Emplace(idx)[m] ELSE m

AddResults(node) ==
  /\ nodes' = NodesWith({c \in {node.falseChild, node.trueChild} : IsResult(c)}, NoChildren)
  /\ map' = AddResult(AddResult(map, node.falseChild), node.trueChild)

\* Mutant: the loop begins anew after each call of addImplicitNode.
VisitNodeAnew ==
  /\ iterator # NoNode
  /\ AddResults(nodes[iterator])
  /\ iterator' = IF \E c \in {nodes[iterator].falseChild, nodes[iterator].trueChild} : IsResult(c)
                 THEN Head(map'.list)
                 ELSE Successor(map'.list, iterator)
  /\ UNCHANGED <<levels, firstResultIdx, finalized>>

\* A turn of the loop adds the results below the node and goes on to the next.
VisitNode ==
  /\ iterator # NoNode
  /\ AddResults(nodes[iterator])
  /\ iterator' = Successor(map'.list, iterator)
  /\ UNCHANGED <<levels, firstResultIdx, finalized>>

EndFinalize ==
  /\ firstResultIdx # NoNode /\ iterator = NoNode
  /\ ~finalized
  /\ finalized' = TRUE
  /\ UNCHANGED <<levels, nodes, map, firstResultIdx, iterator>>

Finalizing == BeginFinalize \/ VisitNode \/ EndFinalize
Next == (\E idx \in InnerNodes(MaxLevels) : AddNode(idx)) \/ Finalizing

\* Callers may stop adding nodes; finalize, once called, runs on.
Spec ==
  /\ Init /\ [][Next]_vars
  /\ WF_vars(Finalizing)

-----------------------------------------------------------------------------
(* Properties *)

\* The list of the map holds every node once, and no more than its buckets.
TypeOK ==
  /\ levels \in 1..MaxLevels
  /\ DOMAIN nodes \subseteq InnerNodes(levels + 1)
  /\ \A n \in DOMAIN nodes :
       {nodes[n].falseChild, nodes[n].trueChild} \subseteq InnerNodes(levels + 1) \cup {NoNode}
  /\ IsInjective(map.list) /\ Range(map.list) = DOMAIN nodes
  /\ Len(map.list) <= map.buckets
  /\ firstResultIdx \in 1..TreeNodes(levels) \cup {NoNode}
  /\ iterator \in DOMAIN nodes \cup {NoNode}
  /\ finalized \in BOOLEAN

Ahead ==
  LET i == SelectInSeq(map.list, LAMBDA idx : idx = iterator)
  IN  IF iterator = NoNode THEN {} ELSE Range(SubSeq(map.list, i, Len(map.list)))

\* Though insertions and rehashes reorder the list under the iterator, no node
\* whose results are still missing is ever left behind by finalize's loop.
StillAhead ==
  firstResultIdx # NoNode =>
    \A n \in InnerNodes(levels) \ Ahead :
      {nodes[n].falseChild, nodes[n].trueChild} \subseteq DOMAIN nodes

\* A finalized tree is the one TreeFactory says a factory makes: finalize adds
\* exactly the results below its last level, each an implicit node.
AllResults ==
  LET promised == MakePerfectDistinctUniformTree(levels)
  IN  finalized =>
        nodes = [n \in DOMAIN promised |->
                   [falseChild |-> promised[n].falseChild,
                    trueChild |-> promised[n].trueChild]]

\* Although the loop adds nodes to the map it iterates over, it ends.
FinalizeEnds == (firstResultIdx # NoNode) ~> finalized
=============================================================================
