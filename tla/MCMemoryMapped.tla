--------------------------- MODULE MCMemoryMapped ---------------------------
(* MemoryMapped, instantiated for TLC: pages of two bytes, an empty file,   *)
(* files of one page and more, and one that has no place in the address     *)
(* space.                                                                   *)
EXTENDS MemoryMapped
=============================================================================
