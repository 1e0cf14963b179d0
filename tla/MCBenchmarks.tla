---------------------------- MODULE MCBenchmarks ----------------------------
(* One run per driver, of the shared trees with the benchmarks' selectors. *)
EXTENDS Benchmarks

MCTrees == SharedTrees

MCSelectors ==
  {Registered[i].selector : i \in DOMAIN Registered} \ {None}
=============================================================================
