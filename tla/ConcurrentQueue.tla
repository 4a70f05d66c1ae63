-------------------------- MODULE ConcurrentQueue --------------------------
(***************************************************************************)
(* ConcurrentQueue (include/concurentqueue/concurrentqueue.h), as msgQueue *)
(* is used: enqueue() and try_dequeue() without tokens.  It is the list of *)
(* the producers, one for each thread that has put a message in, the       *)
(* newest in front, and try_dequeue() chooses among their streams.         *)
(*                                                                         *)
(* A stream is taken for what SharedStream says of one producer, and       *)
(* ImplicitProducer is shown to implement: its dequeue() may find nothing  *)
(* if there was nothing when it began, or if another dequeue() of the same *)
(* producer overlapped it.  How a thread finds its producer is in          *)
(* ImplicitProducerHash.                                                   *)
(***************************************************************************)
EXTENDS Integers, Sequences, SequencesExt

CONSTANTS
  Threads,      \* those that call enqueue()
  Consumers,    \* those that call try_dequeue()
  NoProducer,   \* nullptr
  MaxPuts       \* bound on the messages of each thread

ASSUME QueueAssumption == NoProducer \notin Threads /\ MaxPuts \in Nat

VARIABLES
  producerList,           \* from producerListTail on, by the thread of each producer
  tailIndex, headIndex,   \* of each producer: its stream is headIndex .. tailIndex - 1
  cons,                   \* where each consumer is, and its local variables
  mayMiss,                \* history: see SharedStream
  unseen                  \* history: the producers there were when a consumer's call
                          \* began that it has not yet found empty

vars == <<producerList, tailIndex, headIndex, cons, mayMiss, unseen>>

\* ptr: the rest of the list; tail: what size_approx() has loaded; missable: dequeue()
\* of Head(ptr) may find nothing.
Idle == [pc |-> "idle", ptr |-> <<>>, tail |-> 0, nonEmptyCount |-> 0,
         best |-> NoProducer, bestSize |-> 0, missable |-> FALSE, got |-> <<>>]

\* The constructor: no producers yet.
Init == /\ producerList = <<>>
        /\ tailIndex = [p \in Threads |-> 0] /\ headIndex = [p \in Threads |-> 0]
        /\ cons = [c \in Consumers |-> Idle]
        /\ mayMiss = [c \in Consumers |-> FALSE]
        /\ unseen = [c \in Consumers |-> {}]

-----------------------------------------------------------------------------
(* enqueue(): get_or_add_implicit_producer(), then the producer's enqueue(). *)

AddProducer(t) ==
  /\ t \notin ToSet(producerList)
  /\ producerList' = <<t>> \o producerList
  /\ UNCHANGED <<tailIndex, headIndex, cons, mayMiss, unseen>>

Enqueue(t) ==
  /\ t \in ToSet(producerList) /\ tailIndex[t] < MaxPuts
  /\ tailIndex' = [tailIndex EXCEPT ![t] = @ + 1]
  /\ UNCHANGED <<producerList, headIndex, cons, mayMiss, unseen>>

-----------------------------------------------------------------------------
(* try_dequeue(). *)

At(c, pc) == cons[c].pc = pc
EmptyStream(p) == headIndex[p] = tailIndex[p]

CallOf(c) == CASE At(c, "idle") -> <<"idle">>
               [] At(c, "took") -> cons[c].got
               [] OTHER -> <<"asking">>

Stream == INSTANCE SharedStream WITH
  Producers <- Threads, puts <- tailIndex,
  items <- [p \in Threads |-> [k \in 1 .. tailIndex[p] - headIndex[p] |-> headIndex[p] + k - 1]],
  call <- [c \in Consumers |-> CallOf(c)]

\* The loop over the producers goes on, or a producer is chosen, or all were empty.
Scored(me) ==
  IF me.nonEmptyCount < 3 /\ me.ptr # <<>> THEN [me EXCEPT !.pc = "loadTail"]
  ELSE IF me.nonEmptyCount = 0 THEN [me EXCEPT !.pc = "missed"]
  ELSE [me EXCEPT !.pc = "dequeue", !.ptr = <<me.best>>]

Goes(c, state) == cons' = [cons EXCEPT ![c] = state]

TryDequeue(c) ==
  /\ At(c, "idle")
  /\ Goes(c, Scored([Idle EXCEPT !.ptr = producerList]))
  /\ mayMiss' = Stream!Overlap(c)
  /\ unseen' = [unseen EXCEPT ![c] = ToSet(producerList)]
  /\ UNCHANGED <<producerList, tailIndex, headIndex>>

\* size_approx(), which loads the one index, then the other.
LoadTail(c) ==
  /\ At(c, "loadTail")
  /\ Goes(c, [cons[c] EXCEPT !.pc = "loadHead", !.tail = tailIndex[Head(cons[c].ptr)]])
  /\ UNCHANGED <<producerList, tailIndex, headIndex, mayMiss, unseen>>

\* circular_less_than(head, tail): consumers may have passed the tail meanwhile.
SizeApprox(c) == LET size == cons[c].tail - headIndex[Head(cons[c].ptr)] IN
                 IF size > 0 THEN size ELSE 0

\* Slip: an empty producer ends the search for the best one.
LoadHeadStopping(c) ==
  LET me == cons[c]  p == Head(me.ptr)  size == SizeApprox(c) IN
  /\ At(c, "loadHead")
  /\ Goes(c, Scored(IF size = 0 THEN [me EXCEPT !.ptr = <<>>]
                    ELSE [me EXCEPT !.ptr = Tail(@), !.nonEmptyCount = @ + 1,
                                    !.best = IF size > me.bestSize THEN p ELSE @,
                                    !.bestSize = IF size > @ THEN size ELSE @]))
  /\ unseen' = IF size = 0 THEN [unseen EXCEPT ![c] = @ \ {p}] ELSE unseen
  /\ UNCHANGED <<producerList, tailIndex, headIndex, mayMiss>>

\* The best is the first of the largest, of at most three that are not empty.
LoadHead(c) ==
  LET me == cons[c]  p == Head(me.ptr)  size == SizeApprox(c) IN
  /\ At(c, "loadHead")
  /\ Goes(c, Scored(IF size = 0 THEN [me EXCEPT !.ptr = Tail(@)]
                    ELSE [me EXCEPT !.ptr = Tail(@), !.nonEmptyCount = @ + 1,
                                    !.best = IF size > me.bestSize THEN p ELSE @,
                                    !.bestSize = IF size > @ THEN size ELSE @]))
  /\ unseen' = IF size = 0 THEN [unseen EXCEPT ![c] = @ \ {p}] ELSE unseen
  /\ UNCHANGED <<producerList, tailIndex, headIndex, mayMiss>>

\* The producer's dequeue() begins: it and the others that run for this producer may
\* find nothing if there are such others.
Dequeue(c) ==
  LET p == Head(cons[c].ptr)
      others == {d \in Consumers \ {c} : At(d, "dequeuing") /\ Head(cons[d].ptr) = p} IN
  /\ At(c, "dequeue")
  /\ cons' = [d \in Consumers |->
                IF d = c THEN [cons[c] EXCEPT !.pc = "dequeuing",
                                              !.missable = EmptyStream(p) \/ others # {}]
                ELSE IF d \in others THEN [cons[d] EXCEPT !.missable = TRUE]
                ELSE cons[d]]
  /\ UNCHANGED <<producerList, tailIndex, headIndex, mayMiss, unseen>>

DequeueTakes(c) ==
  LET p == Head(cons[c].ptr) IN
  /\ At(c, "dequeuing") /\ ~EmptyStream(p)
  /\ headIndex' = [headIndex EXCEPT ![p] = @ + 1]
  /\ Goes(c, [Idle EXCEPT !.pc = "took", !.got = <<"took", p, headIndex[p]>>])
  /\ UNCHANGED <<producerList, tailIndex, mayMiss, unseen>>

\* Slip: only the best one is tried.
NoOthers(c) == <<>>

\* The best one is tried first, then all but that one.
Others(c) == LET me == cons[c] IN
             IF me.nonEmptyCount > 0 THEN RemoveFirst(producerList, me.best)
             ELSE Tail(me.ptr)

\* nonEmptyCount = 0 says from here on that the second loop is running.
DequeueMisses(c) ==
  /\ At(c, "dequeuing") /\ cons[c].missable
  /\ Goes(c, [cons[c] EXCEPT !.pc = IF Others(c) = <<>> THEN "missed" ELSE "dequeue",
                             !.ptr = Others(c), !.nonEmptyCount = 0])
  /\ unseen' = [unseen EXCEPT ![c] = @ \ {Head(cons[c].ptr)}]
  /\ UNCHANGED <<producerList, tailIndex, headIndex, mayMiss>>

\* true with the message, or false.
Return(c) ==
  /\ At(c, "took") \/ At(c, "missed")
  /\ Goes(c, Idle)
  /\ mayMiss' = [mayMiss EXCEPT ![c] = FALSE]
  /\ unseen' = [unseen EXCEPT ![c] = {}]
  /\ UNCHANGED <<producerList, tailIndex, headIndex>>

Next == \/ \E t \in Threads : AddProducer(t) \/ Enqueue(t)
        \/ \E c \in Consumers : \/ TryDequeue(c) \/ LoadTail(c) \/ LoadHead(c)
                                \/ Dequeue(c) \/ DequeueTakes(c) \/ DequeueMisses(c)
                                \/ Return(c)

Spec == Init /\ [][Next]_vars

-----------------------------------------------------------------------------
\* "Returns false if all producer streams appeared empty at the time they were checked"
\* (concurrentqueue.h:965), however few of them were scored and whatever the other
\* consumers took meanwhile.
EveryProducerChecked == \A c \in Consumers : At(c, "missed") => unseen[c] = {}

\* The streams of all threads: a try_dequeue() that no other one overlaps, like each of
\* the console thread's, returns false only if there was nothing when it was called.
ImplementsStreams == Stream!Spec
=============================================================================
