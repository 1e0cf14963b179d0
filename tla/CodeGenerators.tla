--------------------------- MODULE CodeGenerators ---------------------------
(***************************************************************************)
(* The code generators, by what getJointSubtreeDepth and                   *)
(* canEmitLeafEvaluation say of them, and the selectors that choose among  *)
(* them by the number of levels that remain.                               *)
(***************************************************************************)
EXTENDS Integers

L1IfThenElse == [name |-> "L1IfThenElse", depth |-> 1, leaf |-> FALSE]
LXSubtreeSwitch(k) == [name |-> "LXSubtreeSwitch", depth |-> k, leaf |-> TRUE]
L3SubtreeSwitchAVX == [name |-> "L3SubtreeSwitchAVX", depth |-> 3, leaf |-> TRUE]

Generators == {L1IfThenElse, L3SubtreeSwitchAVX}
                \cup {LXSubtreeSwitch(k) : k \in 0..255}

DefaultSelector == [r \in 1..255 |->
  IF r = 3 THEN L3SubtreeSwitchAVX
  ELSE IF r = 2 THEN LXSubtreeSwitch(2) ELSE L1IfThenElse]

(* Whether a selector uses up exactly the levels of a tree, with generators *)
(* of at most maxDepth levels: those compile() is able to compile it with.  *)
UsesUp(selector, levels, maxDepth) ==
  LET fits[r \in 0..levels] ==
        r > 0 => /\ selector[r].depth \in 1..maxDepth /\ selector[r].depth <= r
                 /\ fits[r - selector[r].depth]
  IN  fits[levels]

(* Whether the compilation of a tree asks the selector for a generator that *)
(* emits AVX instructions.                                                  *)
UsesAvx(selector, levels) ==
  LET uses[r \in 0..levels] ==
        /\ r > 0
        /\ \/ selector[r] = L3SubtreeSwitchAVX
           \/ selector[r].depth \in 1..r /\ uses[r - selector[r].depth]
  IN  uses[levels]
=============================================================================
