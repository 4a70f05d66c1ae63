----------------------------- MODULE MCFreeList -----------------------------
(* FreeList, instantiated for TLC: the threads of each kind, and the blocks, *)
(* are interchangeable.                                                      *)
EXTENDS FreeList, TLC

Symmetry == Permutations(Nodes) \cup Permutations(Getters \ Putters)
=============================================================================
