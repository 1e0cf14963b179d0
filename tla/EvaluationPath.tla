--------------------------- MODULE EvaluationPath ---------------------------
(***************************************************************************)
(* CGEvaluationPath as the code has it: an array of steps that is filled   *)
(* from its end, one parent at a time, and an index of the first one that  *)
(* is filled. DecisionTree's Paths abstracts it to the nodes that the path *)
(* leaves to either side. Two paths are followed through the recursion     *)
(* that builds all of a subtree's, and may be compared.                    *)
(*                                                                         *)
(* Array indices begin at 1 here; InsertIdx of the code is insertIdx - 1.  *)
(***************************************************************************)
EXTENDS DecisionTree

CONSTANT None        \* no path yet, a step that is not filled, no verdict

Step == [from : Nodes, to : Nodes, right : BOOLEAN]

Call == [node : Nodes, right : BOOLEAN]

ASSUME NoneAssumption ==
  /\ None \notin Step
  /\ None \notin {"equal", "different", "undefined"}

VARIABLES
  subtrees,          \* the subtree that each path belongs to
  calls,             \* the recursion's calls above it, the innermost one first
  paths,             \* the two paths
  comparing,         \* the index of the comparison's loop, 0 outside of it
  verdict            \* the outcome of the comparison

vars == <<subtrees, calls, paths, comparing, verdict>>

Indices == {1, 2}

Init ==
  /\ subtrees = [p \in Indices |-> None]
  /\ calls = [p \in Indices |-> <<>>]
  /\ paths = [p \in Indices |-> None]
  /\ comparing = 0 /\ verdict = None

-----------------------------------------------------------------------------
(* Building a path: down to the node it ends in, and back                  *)

\* run
BeginPath(p, subtree) ==
  /\ subtrees[p] = None
  /\ SubtreeRefValid(subtree.root, subtree.levels)
  /\ subtrees' = [subtrees EXCEPT ![p] = subtree]
  /\ UNCHANGED <<calls, paths, comparing, verdict>>

\* The node that the calls have got to, from the subtree's root.
NodeReached(pending, root) ==
  IF pending = <<>> THEN root ELSE Child(Head(pending).node, Head(pending).right)

\* The first test of buildPathsRecursively.
IsContinuation(pending, subtree) ==
  \/ IsLeaf(NodeReached(pending, subtree.root))
  \/ Len(pending) = subtree.levels

\* recurseToChildNode's call, for one of the two outcomes.
Descend(p, right) ==
  /\ subtrees[p] # None /\ paths[p] = None
  /\ ~IsContinuation(calls[p], subtrees[p])
  /\ LET node == NodeReached(calls[p], subtrees[p].root)
     IN  /\ Child(node, right) # NoNode
         /\ calls' = [calls EXCEPT ![p] = <<[node |-> node, right |-> right]>> \o @]
  /\ UNCHANGED <<subtrees, paths, comparing, verdict>>

\* The constructor.
EmptyPath(levels, destination) ==
  [steps |-> [i \in 1..levels |-> None], dest |-> destination, insertIdx |-> levels + 1]

NewPath(p) ==
  /\ subtrees[p] # None /\ paths[p] = None
  /\ IsContinuation(calls[p], subtrees[p])
  /\ paths' = [paths EXCEPT ![p] =
       EmptyPath(subtrees[p].levels, NodeReached(calls[p], subtrees[p].root))]
  /\ UNCHANGED <<subtrees, calls, comparing, verdict>>

IsFinalized(path) == path.insertIdx = 1

\* The child that addParent adds a parent to.
First(path) ==
  IF path.insertIdx = Len(path.steps) + 1 THEN path.dest
  ELSE path.steps[path.insertIdx].from

\* Mutant: every step leads to the destination.
WithParentOfDest(path, node, right) ==
  [path EXCEPT !.steps[path.insertIdx - 1] =
                 [from |-> node, to |-> path.dest, right |-> right],
               !.insertIdx = @ - 1]

\* Mutant: the insert index stays where it is.
WithParentUnmoved(path, node, right) ==
  [path EXCEPT !.steps[path.insertIdx - 1] =
                 [from |-> node, to |-> First(path), right |-> right]]

WithParent(path, node, right) ==
  [path EXCEPT !.steps[path.insertIdx - 1] =
                 [from |-> node, to |-> First(path), right |-> right],
               !.insertIdx = @ - 1]

\* Mutant: the calls return in the order in which they were made.
ReturningFirst(pending) == pending[Len(pending)]

\* The call that returns next.
Returning(pending) == Head(pending)

\* addParent, in recurseToChildNode once the call below has returned.
AddParentStep(p) ==
  /\ paths[p] # None /\ calls[p] # <<>>
  /\ ~IsFinalized(paths[p])
  /\ LET call == Returning(calls[p])
     IN  paths' = [paths EXCEPT ![p] = WithParent(paths[p], call.node, call.right)]
  /\ calls' = [calls EXCEPT ![p] = Tail(calls[p])]
  /\ UNCHANGED <<subtrees, comparing, verdict>>

-----------------------------------------------------------------------------
(* Questions to a finalized path                                           *)

\* findStepFromNode, None if there is no such step.
StepFromNode(path, node) ==
  LET i == {i \in DOMAIN path.steps : path.steps[i].from = node}
  IN  IF i = {} THEN None ELSE path.steps[CHOOSE first \in i : \A j \in i : first <= j]

\* Mutant: the destination is forgotten.
HasNodeOnWay(path, node) == \E i \in DOMAIN path.steps : path.steps[i].from = node

\* hasNode
HasNodeIn(path, node) ==
  \/ \E i \in DOMAIN path.steps : path.steps[i].from = node
  \/ node = path.dest

-----------------------------------------------------------------------------
(* Comparing the paths, operator==                                         *)

\* Mutant: two steps from the same node are taken to be equal.
SameStepFrom(lhs, rhs) == lhs.from = rhs.from

\* operator== of steps; by its assertion, equal steps have equal outcomes.
SameStep(lhs, rhs) == lhs.from = rhs.from /\ lhs.to = rhs.to

\* The sizes, the insert indices, and the first test of the loop's condition.
BeginCompare ==
  LET lhs == paths[1]
      rhs == paths[2]
      size == Len(lhs.steps)
  IN  /\ None \notin {lhs, rhs} /\ comparing = 0 /\ verdict = None
      /\ IF size = Len(rhs.steps) /\ lhs.insertIdx = rhs.insertIdx /\ size >= lhs.insertIdx
         THEN comparing' = size /\ UNCHANGED verdict
         ELSE /\ verdict' = IF size = Len(rhs.steps) /\ lhs.insertIdx = rhs.insertIdx
                                 /\ lhs.dest = rhs.dest
                            THEN "equal" ELSE "different"
              /\ UNCHANGED comparing
      /\ UNCHANGED <<subtrees, calls, paths>>

\* A turn of the loop that returns or goes on...
CompareStep ==
  /\ comparing > 0 /\ comparing <= Len(paths[1].steps)
  /\ IF SameStep(paths[1].steps[comparing], paths[2].steps[comparing])
     THEN comparing' = comparing + 1 /\ UNCHANGED verdict
     ELSE comparing' = 0 /\ verdict' = "different"
  /\ UNCHANGED <<subtrees, calls, paths>>

\* ...upwards: behind the array it reads memory that is not the array's, and
\* nothing can be said of what follows.
CompareOutside ==
  /\ comparing > 0 /\ comparing > Len(paths[1].steps)
  /\ comparing' = 0 /\ verdict' = "undefined"
  /\ UNCHANGED <<subtrees, calls, paths>>

Subtrees == [root : Nodes, levels : 1..MaxSubtreeLevels]

Next ==
  \/ /\ comparing = 0 /\ verdict = None
     /\ \E p \in Indices :
          \/ \E subtree \in Subtrees : BeginPath(p, subtree)
          \/ \E right \in BOOLEAN : Descend(p, right)
          \/ NewPath(p) \/ AddParentStep(p)
  \/ BeginCompare \/ CompareStep \/ CompareOutside

Spec == Init /\ [][Next]_vars

-----------------------------------------------------------------------------
(* Properties *)

TypeOK ==
  /\ subtrees \in [Indices -> Subtrees \cup {None}]
  /\ calls \in [Indices -> Seq(Call)]
  /\ \A p \in Indices : subtrees[p] # None => Len(calls[p]) <= subtrees[p].levels
  /\ \A p \in Indices : paths[p] # None =>
       /\ subtrees[p] \in Subtrees
       /\ paths[p].insertIdx \in 1..subtrees[p].levels + 1
       /\ paths[p].dest \in Nodes
       /\ \A i \in DOMAIN paths[p].steps :
            IF i < paths[p].insertIdx THEN paths[p].steps[i] = None
            ELSE paths[p].steps[i] \in Step
  /\ comparing \in 0..MaxSubtreeLevels + 1
  /\ verdict \in {None, "equal", "different", "undefined"}

(* Whatever the recursion has filled of the array is one way down the      *)
(* tree: every step begins where the one before ended, goes the way its    *)
(* outcome says, and the last one ends in the destination. There is room   *)
(* for the parent of every call that has still to return: the assertion    *)
(* of addParent (CGEvaluationPath.h:80-87) never fails.                    *)
StepsConnected ==
  \A p \in Indices : paths[p] # None =>
    LET path == paths[p]
        size == Len(path.steps)
    IN  /\ \A i \in path.insertIdx..size :
             /\ Child(path.steps[i].from, path.steps[i].right) = path.steps[i].to
             /\ path.steps[i].to =
                  IF i = size THEN path.dest ELSE path.steps[i + 1].from
        /\ calls[p] # <<>> => ~IsFinalized(path)

(* When all calls have returned and run's assertion holds, the path is     *)
(* finalized and answers as the abstract one of its subtree does on which  *)
(* the condition vectors are built: it begins in the root, has the same    *)
(* nodes, and the same outcome for each of them.                           *)
AnswersAsPaths ==
  \A p \in {p \in Indices : paths[p] # None /\ calls[p] = <<>>} :
    LET path == paths[p]
        subtree == subtrees[p]
    IN  PathsComplete(subtree.root, subtree.levels) =>
          /\ IsFinalized(path) /\ path.steps[1].from = subtree.root
          /\ \E i \in DOMAIN Paths[subtree.levels][subtree.root] :
               LET promised == Paths[subtree.levels][subtree.root][i]
               IN  /\ promised.dest = path.dest
                   /\ \A n \in Nodes :
                        /\ HasNodeIn(path, n) <=> HasNode(promised, n)
                        /\ LET step == StepFromNode(path, n)
                           IN  n \in promised.one <=> step # None /\ step.right

(* The comparison of two paths leaves the array only if they are equal;    *)
(* and when it returns, its answer is right (CGEvaluationPath.h:57-70).    *)
ComparisonRight ==
  /\ verdict \in {"equal", "undefined"} => paths[1] = paths[2]
  /\ verdict = "different" => paths[1] # paths[2]
=============================================================================
