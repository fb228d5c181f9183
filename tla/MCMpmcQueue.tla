---------------------------- MODULE MCMpmcQueue ----------------------------
(* MpmcQueue for TLC. *)
EXTENDS MpmcQueue, TLC

Symmetry == Permutations(Producers) \cup Permutations(Consumers)
=============================================================================
