---------------------------- MODULE AtomicQueue ----------------------------
(***************************************************************************)
(* The class AtomicQueue<T> (AtomicQueue.h): a bounded single-producer     *)
(* single-consumer queue with an end-of-stream flag, the only way two      *)
(* stages of the pipeline communicate.                                     *)
(*                                                                         *)
(* The module has the object as its one variable and one action per        *)
(* outcome of an iteration of the loops in enqueue(), dequeue() and        *)
(* peek().  The modules of the threads (QueueLink, the stages) conjoin     *)
(* these actions with what the calling thread does.                        *)
(*                                                                         *)
(* Atomicity.  try_enqueue, try_dequeue and ReaderWriterQueue::peek are    *)
(* one step each.  m_empty is written by the consumer only and m_full by   *)
(* the producer only, so the store that follows a successful try is part   *)
(* of the same step; the only other readers are the counters' display      *)
(* callbacks.  A failed try and the evaluation of end() that follows it    *)
(* are two steps: the producer can run between them.                       *)
(***************************************************************************)
EXTENDS Naturals, Sequences

CONSTANTS
  MinCapacity,  \* the room ReaderWriterQueue guarantees (its maxSize)
  MaxCapacity   \* the room it has when no block is partly consumed

ASSUME CapacityAssumption ==
  /\ MinCapacity \in Nat \ {0}
  /\ MaxCapacity \in Nat
  /\ MinCapacity <= MaxCapacity

\* items: the elements in m_queue.  atEnd, full, empty: m_atEnd, m_full, m_empty.
\* missed: the consumer's last try failed and it has yet to evaluate end().
VARIABLE q

(***************************************************************************)
(* The constructor sets m_atEnd and m_full and leaves m_empty             *)
(* uninitialized: either value.                                            *)
(***************************************************************************)
NewQueue(garbage) == [items |-> <<>>, atEnd |-> FALSE, full |-> FALSE,
                      empty |-> garbage, missed |-> FALSE]

QueueInit == \E garbage \in BOOLEAN : q = NewQueue(garbage)

QueueType(Elem) == [items : Seq(Elem), atEnd : BOOLEAN, full : BOOLEAN,
                    empty : BOOLEAN, missed : BOOLEAN]

-----------------------------------------------------------------------------
(* The producer. *)

\* enqueue(): try_enqueue finds room, m_full = false, the call returns.
Enqueue(e) == /\ Len(q.items) < MaxCapacity
              /\ q' = [q EXCEPT !.items = Append(@, e), !.full = FALSE]

\* enqueue(): try_enqueue finds no room, m_full = true, the loop sleeps.
EnqueueBlocked == /\ Len(q.items) >= MinCapacity
                  /\ q' = [q EXCEPT !.full = TRUE]

\* Slip: m_atEnd is not set.
SetQueueEndForgotten == q' = q

SetQueueEnd == q' = [q EXCEPT !.atEnd = TRUE]

-----------------------------------------------------------------------------
(* The consumer. *)

\* end(): m_atEnd is read first, then the consumer's own m_empty.
AtEnd == q.atEnd /\ q.empty

\* A try succeeds when the queue has an element; both loops try only when no
\* failed try is being followed up.
CanTake == ~q.missed /\ q.items # <<>>

Front == Head(q.items)

\* Slip: the element is copied out but stays in the queue.
DequeueKeeps == /\ CanTake
                /\ q' = [q EXCEPT !.empty = FALSE]

\* dequeue(): try_dequeue delivers Front, m_empty = false, the call returns.
Dequeue == /\ CanTake
           /\ q' = [q EXCEPT !.items = Tail(@), !.empty = FALSE]

\* peek(): a pointer to Front is returned, m_empty = false.
Peek == /\ CanTake
        /\ q' = [q EXCEPT !.empty = FALSE]

\* Slip: a try may miss an element that is already there (no acquire fence).
MissStale == /\ ~q.missed
             /\ q' = [q EXCEPT !.missed = TRUE]

\* Either loop: the try finds nothing.
Miss == /\ ~q.missed
        /\ q.items = <<>>
        /\ q' = [q EXCEPT !.missed = TRUE]

\* Slip: m_empty = true is missing.
WaitStaysFull == /\ q.missed
                 /\ ~AtEnd
                 /\ q' = [q EXCEPT !.missed = FALSE]

\* Either loop, after a failed try: not end(), so m_empty = true and sleep.
Wait == /\ q.missed
        /\ ~AtEnd
        /\ q' = [q EXCEPT !.empty = TRUE, !.missed = FALSE]

\* Either loop, after a failed try: end(), so QueueEndException is thrown.
ThrowEnd == /\ q.missed
            /\ AtEnd
            /\ q' = [q EXCEPT !.missed = FALSE]
=============================================================================
