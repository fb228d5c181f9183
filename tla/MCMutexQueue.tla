---------------------------- MODULE MCMutexQueue ----------------------------
(* MutexQueue for TLC. *)
EXTENDS MutexQueue, TLC

Symmetry ==
  Permutations(Producers) \cup Permutations(Consumers) \cup Permutations(Closers)
=============================================================================
