------------------------------ MODULE MCTokens ------------------------------
(* Tokens, instantiated for TLC. *)
EXTENDS Tokens
=============================================================================
