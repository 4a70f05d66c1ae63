------------------------- MODULE MCConcurrentQueue -------------------------
(* ConcurrentQueue, instantiated for TLC: four threads, one more than the   *)
(* producers that try_dequeue() chooses among.                              *)
EXTENDS ConcurrentQueue

Symmetry == Permutations(Threads) \cup Permutations(Consumers)
=============================================================================
