------------------------------- MODULE Stage -------------------------------
(***************************************************************************)
(* What the four middle stages share: an input queue, an output queue, the *)
(* message queue, and a loop that takes one element at a time until        *)
(* QueueEndException.  Filter (Filter.h) declares it for three of them,    *)
(* DayRelSpreadProcessor repeats it.                                       *)
(*                                                                         *)
(* stage is the thread's local state:                                      *)
(*   pc      "take": in dequeue();  "emit": in enqueue(Head(outbox));      *)
(*           "close": past the catch block's loop, about to report and     *)
(*           close;  "done";  "failed": a std::exception left run().       *)
(*           DayRelSpreadProcessor adds "peek" and "clean".                *)
(*   buffer  m_buffer                                                      *)
(*   outbox  what the running handler has yet to enqueue                   *)
(*   hand    the element a handler held when an exception left it          *)
(*   ending  the catch block of QueueEndException has been through its     *)
(*           buffer: what the outbox holds are the last rows               *)
(* A handler's buffer is updated before its outbox is emptied; no other    *)
(* thread can see the difference.                                          *)
(***************************************************************************)
EXTENDS DataStructures

CONSTANTS MinCapacity, MaxCapacity,
          Sender              \* the stage's name in its messages

VARIABLES inputQueue, outputQueue, stage,
          msgs,               \* the messages other than the counters'
          dropped             \* history: the lines whose observation was deleted

In == INSTANCE AtomicQueue WITH q <- inputQueue
Out == INSTANCE AtomicQueue WITH q <- outputQueue

NewStage == [pc |-> "take", buffer |-> <<>>, outbox |-> <<>>, hand |-> <<>>,
             ending |-> FALSE]

\* ConcurrentQueue keeps no order between its producers.
Report(text) == msgs' = msgs \cup {[sender |-> Sender, text |-> text]}

SrcOfAll(rows) == UNION {r.src : r \in ToSet(rows)}
Drop(rows) == dropped' = dropped \cup SrcOfAll(rows)

NoHeapUse == UNCHANGED <<heap, wild, dropped>>
Quiet == UNCHANGED <<heap, wild, msgs, dropped>>

-----------------------------------------------------------------------------
\* The loop of dequeue() or peek() around a failed try.
TryFails == /\ stage.pc \in {"take", "peek"}
            /\ In!Miss
            /\ UNCHANGED <<outputQueue, stage>> /\ Quiet

Sleeps == /\ stage.pc \in {"take", "peek"}
          /\ In!Wait
          /\ UNCHANGED <<outputQueue, stage>> /\ Quiet

\* dequeue() returns In!Front to the handler.
Takes == stage.pc = "take" /\ In!Dequeue

\* dequeue() or peek() throws QueueEndException, which the handler catches.
EndsInput == stage.pc \in {"take", "peek"} /\ In!ThrowEnd

\* Where a handler goes once it has prepared what it enqueues.
After(rows, ending) ==
  IF rows # <<>> THEN "emit" ELSE IF ending THEN "close" ELSE "take"

\* Slip: the element stays in the outbox.
EmitsAgain(next) ==
  /\ stage.pc = "emit"
  /\ Out!Enqueue(Head(stage.outbox))
  /\ stage' = [stage EXCEPT !.pc = next]
  /\ UNCHANGED inputQueue /\ Quiet

\* Slip: a try_enqueue without the loop, whose failure is ignored.
EmitsOrDrops(next) ==
  /\ stage.pc = "emit"
  /\ \/ Out!Enqueue(Head(stage.outbox))
     \/ Out!EnqueueBlocked
  /\ stage' = [stage EXCEPT !.outbox = Tail(@), !.pc = next]
  /\ UNCHANGED inputQueue /\ Quiet

Emits(next) ==
  /\ stage.pc = "emit"
  /\ Out!Enqueue(Head(stage.outbox))
  /\ stage' = [stage EXCEPT !.outbox = Tail(@), !.pc = next]
  /\ UNCHANGED inputQueue /\ Quiet

EmitBlocks == /\ stage.pc = "emit"
              /\ Out!EnqueueBlocked
              /\ UNCHANGED <<inputQueue, stage>> /\ Quiet

\* Slip: setQueueEnd() is missing.
ClosesNothing == /\ stage.pc = "close"
                 /\ stage' = [stage EXCEPT !.pc = "done"]
                 /\ Report("Finished !")
                 /\ UNCHANGED <<inputQueue, outputQueue>> /\ NoHeapUse

\* m_msgQueue->enqueue("Finished !"); m_outputQueue->setQueueEnd();
Closes == /\ stage.pc = "close"
          /\ Out!SetQueueEnd
          /\ stage' = [stage EXCEPT !.pc = "done"]
          /\ Report("Finished !")
          /\ UNCHANGED inputQueue /\ NoHeapUse

(***************************************************************************)
(* A std::exception (bad_alloc from new or push_back, system_error from    *)
(* Counter::start) leaves the handler: with the element it has just        *)
(* dequeued, between two elements, or from the catch block of              *)
(* QueueEndException before the last rows are ready to be enqueued.        *)
(* Callable::operator() prints it and the thread ends with its buffers; it *)
(* never reads its input again.                                            *)
(***************************************************************************)
Raises ==
  /\ \/ /\ stage.pc = "take" /\ In!Dequeue
        /\ stage' = [stage EXCEPT !.pc = "failed", !.hand = <<In!Front>>]
     \/ /\ stage.pc \in {"take", "peek"} /\ ~inputQueue.missed
        /\ stage' = [stage EXCEPT !.pc = "failed"]
        /\ UNCHANGED inputQueue
     \/ /\ EndsInput
        /\ stage' = [stage EXCEPT !.pc = "failed"]
  /\ Quiet

\* RelSpreadProcessor::run() and DayRelSpreadProcessor::run() let it pass ...
RaisesSilently == Raises /\ UNCHANGED outputQueue

\* Slip: the exception is caught inside the loop, which then goes on.
RaisesAndGoesOn == /\ stage.pc = "take" /\ ~inputQueue.missed
                   /\ Out!SetQueueEnd
                   /\ UNCHANGED <<inputQueue, stage>> /\ Quiet

\* ... Filter::run() sets the end of its output before it rethrows.
RaisesAndCloses == Raises /\ Out!SetQueueEnd
=============================================================================
