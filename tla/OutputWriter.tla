---------------------------- MODULE OutputWriter ----------------------------
(***************************************************************************)
(* OutputWriter<DaySpread>: opens the output file, then writes a row for   *)
(* each DaySpread until QueueEndException.                                 *)
(***************************************************************************)
EXTENDS DataStructures

CONSTANTS MinCapacity, MaxCapacity

VARIABLES dayRelSpreadQueue,
          writer,     \* "open", "take", "done" or "failed"
          written,    \* the rows of the output file
          msgs

In == INSTANCE AtomicQueue WITH q <- dayRelSpreadQueue

Open == /\ writer = "open"
        /\ writer' = "take"
        /\ UNCHANGED <<dayRelSpreadQueue, written, heap, wild, msgs>>

\* ios::failure("Unable to open output file"), or Counter::start() throws.
Fail == /\ writer = "open"
        /\ writer' = "failed"
        /\ UNCHANGED <<dayRelSpreadQueue, written, heap, wild, msgs>>

TryFails == /\ writer = "take"
            /\ In!Miss
            /\ UNCHANGED <<writer, written, heap, wild, msgs>>

Sleeps == /\ writer = "take"
          /\ In!Wait
          /\ UNCHANGED <<writer, written, heap, wild, msgs>>

Write == /\ writer = "take"
         /\ In!Dequeue
         /\ written' = Append(written, In!Front)
         /\ Access(DayCells(In!Front), DayCells(In!Front), {})
         /\ UNCHANGED <<writer, msgs>>

AtEnd == /\ writer = "take"
         /\ In!ThrowEnd
         /\ writer' = "done"
         /\ msgs' = msgs \cup {[sender |-> "OUTPUT_WRITER", text |-> "Finished !"]}
         /\ UNCHANGED <<written, heap, wild>>

Step == Open \/ TryFails \/ Sleeps \/ Write \/ AtEnd
=============================================================================
