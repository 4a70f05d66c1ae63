----------------------------- MODULE QueueLink -----------------------------
(***************************************************************************)
(* One AtomicQueue with the two threads that share it.  The producer calls *)
(* enqueue() any number of times and then setQueueEnd(), as every stage    *)
(* does on its output; the consumer calls dequeue(), or peek() and then    *)
(* dequeue(), until QueueEndException reaches it, as every stage does on   *)
(* its input.                                                              *)
(***************************************************************************)
EXTENDS AtomicQueue

CONSTANTS
  Elem,         \* the elements
  NoElem,       \* no element
  MaxSent       \* bound: how many elements the producer enqueues at most

ASSUME LinkAssumption ==
  /\ NoElem \notin Elem
  /\ MaxSent \in Nat

VARIABLES
  prod,         \* the producer: between calls, in enqueue(), or done
  pending,      \* the argument of the running enqueue()
  cons,         \* the consumer: between calls, in a call, or told of the end
  peeked,       \* what the last peek() showed, until the next dequeue()
  sent,         \* history: everything enqueued
  received,     \* history: everything dequeued
  sentAtMiss,   \* history: Len(sent) when the consumer's last try failed
  closedAtMiss  \* history: whether the end had been set by then

vars == <<q, prod, pending, cons, peeked, sent, received, sentAtMiss, closedAtMiss>>
prodVars == <<prod, pending, sent>>
consVars == <<cons, peeked, received, sentAtMiss, closedAtMiss>>

Init == /\ QueueInit
        /\ prod = "idle" /\ pending = NoElem
        /\ cons = "idle" /\ peeked = NoElem
        /\ sent = <<>> /\ received = <<>>
        /\ sentAtMiss = 0 /\ closedAtMiss = FALSE

-----------------------------------------------------------------------------
(* The producer's thread. *)

CallEnqueue(e) == /\ prod = "idle"
                  /\ Len(sent) < MaxSent
                  /\ prod' = "enqueue" /\ pending' = e
                  /\ UNCHANGED <<q, sent, consVars>>

EnqueueReturns == /\ prod = "enqueue"
                  /\ Enqueue(pending)
                  /\ sent' = Append(sent, pending)
                  /\ prod' = "idle" /\ pending' = NoElem
                  /\ UNCHANGED consVars

EnqueueRetries == /\ prod = "enqueue"
                  /\ EnqueueBlocked
                  /\ UNCHANGED <<prodVars, consVars>>

Finish == /\ prod = "idle"
          /\ SetQueueEnd
          /\ prod' = "done"
          /\ UNCHANGED <<pending, sent, consVars>>

Producer == \/ \E e \in Elem : CallEnqueue(e)
            \/ EnqueueReturns \/ EnqueueRetries \/ Finish

-----------------------------------------------------------------------------
(* The consumer's thread. *)

InCall == cons \in {"dequeue", "peek"}

\* A stage that has looked at the front always takes it next.
Call == /\ cons = "idle"
        /\ cons' \in IF peeked = NoElem THEN {"dequeue", "peek"} ELSE {"dequeue"}
        /\ UNCHANGED <<q, prodVars, peeked, received, sentAtMiss, closedAtMiss>>

DequeueReturns == /\ cons = "dequeue"
                  /\ Dequeue
                  /\ received' = Append(received, Front)
                  /\ cons' = "idle" /\ peeked' = NoElem
                  /\ UNCHANGED <<prodVars, sentAtMiss, closedAtMiss>>

PeekReturns == /\ cons = "peek"
               /\ Peek
               /\ peeked' = Front
               /\ cons' = "idle"
               /\ UNCHANGED <<prodVars, received, sentAtMiss, closedAtMiss>>

TryFails == /\ InCall
            /\ Miss
            /\ sentAtMiss' = Len(sent)
            /\ closedAtMiss' = q.atEnd
            /\ UNCHANGED <<prodVars, cons, peeked, received>>

CallSleeps == /\ InCall
              /\ Wait
              /\ UNCHANGED <<prodVars, consVars>>

CallThrows == /\ InCall
              /\ ThrowEnd
              /\ cons' = "ended"
              /\ UNCHANGED <<prodVars, peeked, received, sentAtMiss, closedAtMiss>>

Consumer == Call \/ DequeueReturns \/ PeekReturns \/ TryFails \/ CallSleeps \/ CallThrows

\* Both threads are through with the queue.
Terminated == prod = "done" /\ cons = "ended" /\ UNCHANGED vars

Next == Producer \/ Consumer \/ Terminated

Spec == Init /\ [][Next]_vars

\* Both loops retry every 25 ms and no thread is suspended for ever.  A retry is
\* sure to succeed only below MinCapacity; a stage stops calling enqueue() when
\* its own input ends and then calls setQueueEnd().
Fairness == /\ WF_vars(EnqueueReturns /\ Len(q.items) < MinCapacity)
            /\ WF_vars(Finish)
            /\ WF_vars(Consumer)

FairSpec == Spec /\ Fairness

-----------------------------------------------------------------------------
TypeOK == /\ q \in QueueType(Elem)
          /\ prod \in {"idle", "enqueue", "done"}
          /\ pending \in Elem \cup {NoElem}
          /\ prod = "enqueue" <=> pending \in Elem
          /\ cons \in {"idle", "dequeue", "peek", "ended"}
          /\ peeked \in Elem \cup {NoElem}
          /\ sent \in Seq(Elem) /\ received \in Seq(Elem)
          /\ sentAtMiss \in Nat /\ closedAtMiss \in BOOLEAN

\* Nothing is lost, duplicated or reordered between enqueue() and dequeue():
\* what was enqueued is what was dequeued followed by what is in the queue.
InOrderDelivery == sent = received \o q.items

\* The pointer peek() returned still points at the front of the queue when
\* pollDayObs dereferences it, whatever the producer has done since, and the
\* dequeue() that follows returns that very element.
PeekedStaysInFront == peeked # NoElem => q.items # <<>> /\ Front = peeked

\* QueueEndException never reaches a consumer whose producer may still enqueue,
\* not even on the first failed try with m_empty uninitialized.
EndAfterClose == cons = "ended" => prod = "done" /\ pending = NoElem

\* What QueueEndException does guarantee: every element that was in the queue
\* before the consumer's last failed try has been delivered.  The ones enqueued
\* between that try and the reading of m_atEnd are abandoned.
DeliveredUpToLastMiss ==
  cons = "ended" => received = SubSeq(sent, 1, sentAtMiss)

\* Nothing is abandoned if setQueueEnd() came before the last failed try: the
\* loss needs the producer to enqueue and to close inside the consumer's window.
CleanEndIfClosedBeforeMiss ==
  cons = "ended" /\ closedAtMiss => received = sent

\* What the exception says of itself, "Queue is at end." (AtomicQueue.h:29): the
\* consumer that gets it has received everything.  The code does not keep this.
QueueIsAtEnd == cons = "ended" => received = sent

\* The inductive invariant behind the properties above, by parts.  Closing the
\* queue is the last thing its producer does to it.
CloseIsLast == /\ q.atEnd <=> prod = "done"
               /\ cons = "ended" => q.atEnd
               /\ closedAtMiss => q.atEnd

\* While a failed try is being followed up, and after the exception, the consumer
\* has exactly what had been enqueued at that try, and the queue is still empty if
\* it was closed by then.
FollowsMiss == q.missed \/ cons = "ended"

AfterMiss == /\ q.missed => InCall
             /\ FollowsMiss => Len(received) = sentAtMiss
             /\ FollowsMiss /\ closedAtMiss => q.items = <<>>

LinkInv == /\ TypeOK
           /\ InOrderDelivery
           /\ PeekedStaysInFront
           /\ CloseIsLast
           /\ AfterMiss

Stream == INSTANCE EndedStream
            WITH Capacity <- MaxCapacity, closed <- q.atEnd, ended <- (cons = "ended")

\* The queue and its two loops implement the bounded, closable, in-order stream.
ImplementsStream == Stream!Spec

\* ... and never leave the reader waiting when there is something to report.
ImplementsFairStream == Stream!FairSpec
=============================================================================
