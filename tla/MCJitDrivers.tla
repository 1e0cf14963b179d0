---------------------------- MODULE MCJitDrivers ----------------------------
(* Two trees, selectors with and without AVX; two runs per driver. *)
EXTENDS JitDrivers

MCTrees == {[name |-> "a", levels |-> 2], [name |-> "b", levels |-> 3]}

MCSelectors ==
  { [r \in 1..255 |-> L1IfThenElse],
    [r \in 1..255 |-> IF r >= 3 THEN L3SubtreeSwitchAVX ELSE L1IfThenElse] }
=============================================================================
