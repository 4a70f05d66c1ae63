---------------------------- MODULE EndedStream ----------------------------
(***************************************************************************)
(* What a stage of the pipeline may rely on when it reads from, or writes  *)
(* to, the queue next to it: a bounded first-in first-out stream that its  *)
(* writer closes once and whose reader is told, once, that the end has     *)
(* been reached.                                                           *)
(*                                                                         *)
(* The promise is deliberately the one AtomicQueue keeps, not the one its  *)
(* interface suggests: End does not ask for received = sent.  A reader can *)
(* be told "at end" with elements still in the queue (see QueueLink), so a *)
(* suffix of the stream may be lost; nothing else may go wrong.            *)
(***************************************************************************)
EXTENDS Naturals, Sequences

CONSTANTS Elem,       \* what travels on the stream
          Capacity    \* the most elements that are ever under way

VARIABLES sent,       \* everything written so far, oldest first
          received,   \* everything read so far, oldest first
          closed,     \* the writer has declared the end
          ended       \* the reader has been told so

vars == <<sent, received, closed, ended>>

Init == /\ sent = <<>> /\ received = <<>>
        /\ closed = FALSE /\ ended = FALSE

Send(e) == /\ ~closed
           /\ Len(sent) - Len(received) < Capacity
           /\ sent' = Append(sent, e)
           /\ UNCHANGED <<received, closed, ended>>

Close == /\ ~closed
         /\ closed' = TRUE
         /\ UNCHANGED <<sent, received, ended>>

Receive == /\ ~ended
           /\ Len(received) < Len(sent)
           /\ received' = Append(received, sent[Len(received) + 1])
           /\ UNCHANGED <<sent, closed, ended>>

End == /\ closed /\ ~ended
       /\ ended' = TRUE
       /\ UNCHANGED <<sent, received, closed>>

Next == (\E e \in Elem : Send(e)) \/ Close \/ Receive \/ End

\* The reader keeps reading: it is never left waiting for ever while there is
\* something to read or the stream is closed.
Fairness == WF_vars(Receive \/ End)

Spec == Init /\ [][Next]_vars

FairSpec == Spec /\ Fairness
=============================================================================
