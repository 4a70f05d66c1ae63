---------------------------- MODULE MCQueueLink ----------------------------
(***************************************************************************)
(* QueueLink on small instances.  Two elements are enough to tell one      *)
(* order from another; MaxSent exceeds MaxCapacity, so that the queue      *)
(* fills, blocks its producer, and drains again before the end.            *)
(***************************************************************************)
EXTENDS QueueLink
=============================================================================
