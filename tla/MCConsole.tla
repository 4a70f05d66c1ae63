------------------------------ MODULE MCConsole ------------------------------
(***************************************************************************)
(* Console, instantiated for TLC: the parser may count a row and reports   *)
(* twice, the merge filter has completed none and reports once.            *)
(***************************************************************************)
EXTENDS Console

CONSTANTS parser, merger

MCTicks == [s \in Stages |-> IF s = parser THEN 1 ELSE 0]
MCReports == [s \in Stages |-> IF s = parser THEN 2 ELSE 1]
=============================================================================
