------------------------------- MODULE MCWbBus -------------------------------
(* Model checking instance of WbBus: cells of a kind and values are alike. *)
EXTENDS WbBus, TLC

Alike == Permutations(BdCells) \cup Permutations(RamCells) \cup Permutations(Values)
=============================================================================
