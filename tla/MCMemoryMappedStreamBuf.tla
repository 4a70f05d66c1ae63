----------------------- MODULE MCMemoryMappedStreamBuf -----------------------
(* MemoryMappedStreamBuf, instantiated for TLC. *)
EXTENDS MemoryMappedStreamBuf

MCSizes == 0 .. 11
=============================================================================
