------------------------- MODULE MCImplicitProducer -------------------------
(* ImplicitProducer, instantiated for TLC. *)
EXTENDS ImplicitProducer, TLC

ConsumerSymmetry == Permutations(Consumers)
=============================================================================
