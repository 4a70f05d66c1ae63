----------------------- MODULE MCImplicitProducerHash -----------------------
(* ImplicitProducerHash, instantiated for TLC.  Every id hashes to slots of *)
(* its own but for two that collide, and wrap around in the first table.    *)
EXTENDS ImplicitProducerHash, TLC

CONSTANTS a, b, c

MCHash == [id \in Ids |-> CASE id = a -> 3 [] id = b -> 3 [] OTHER -> 4]

\* One thread calls again, after the others may have changed the tables.
MCCalls == [id \in Ids |-> IF id = a THEN 2 ELSE 1]
=============================================================================
