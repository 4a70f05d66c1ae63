-------------------------- MODULE QueueLinkProofs --------------------------
(***************************************************************************)
(* Proofs about one queue and its two threads, for every set of elements,  *)
(* every capacity and every number of elements.                            *)
(***************************************************************************)
EXTENDS QueueLink, SequenceTheorems, TLAPS

LEMMA InitTypeOK == Init => TypeOK
<1> SUFFICES ASSUME Init
             PROVE  TypeOK
  OBVIOUS
<1>1. q \in QueueType(Elem)
  <2>1. PICK garbage \in BOOLEAN : q = NewQueue(garbage)
    BY DEF Init, QueueInit
  <2>2. <<>> \in Seq(Elem)
    OBVIOUS
  <2> QED
    BY <2>1, <2>2, Zenon DEF NewQueue, QueueType
<1>2. pending \notin Elem /\ prod # "enqueue"
  BY LinkAssumption DEF Init
<1>3. sent \in Seq(Elem) /\ received \in Seq(Elem)
  BY DEF Init
<1> QED
  BY <1>1, <1>2, <1>3 DEF Init, TypeOK

LEMMA TypeStep == TypeOK /\ [Next]_vars => TypeOK'
<1> SUFFICES ASSUME TypeOK, [Next]_vars
             PROVE  TypeOK'
  OBVIOUS
<1> USE LinkAssumption DEF TypeOK, QueueType, prodVars, consVars
<1>1. ASSUME NEW e \in Elem, CallEnqueue(e)
      PROVE  TypeOK'
  BY <1>1 DEF CallEnqueue
<1>2. CASE EnqueueReturns
  <2>1. pending \in Elem
    BY <1>2 DEF EnqueueReturns
  <2>2. Append(q.items, pending) \in Seq(Elem) /\ sent' \in Seq(Elem)
    BY <1>2, <2>1 DEF EnqueueReturns
  <2>3. q' \in QueueType(Elem)
    BY <1>2, <2>2 DEF EnqueueReturns, Enqueue
  <2> QED
    BY <1>2, <2>2, <2>3 DEF EnqueueReturns
<1>3. CASE EnqueueRetries
  BY <1>3 DEF EnqueueRetries, EnqueueBlocked
<1>4. CASE Finish
  BY <1>4 DEF Finish, SetQueueEnd
<1>5. CASE Call
  BY <1>5 DEF Call
<1>6. CASE DequeueReturns
  <2>1. Head(q.items) \in Elem /\ Tail(q.items) \in Seq(Elem)
    BY <1>6 DEF DequeueReturns, Dequeue, CanTake
  <2>2. received' \in Seq(Elem)
    BY <1>6, <2>1 DEF DequeueReturns, Front
  <2>3. q' \in QueueType(Elem)
    BY <1>6, <2>1 DEF DequeueReturns, Dequeue
  <2> QED
    BY <1>6, <2>2, <2>3 DEF DequeueReturns
<1>7. CASE PeekReturns
  <2>1. Head(q.items) \in Elem
    BY <1>7 DEF PeekReturns, Peek, CanTake
  <2>2. q' \in QueueType(Elem)
    BY <1>7 DEF PeekReturns, Peek
  <2> QED
    BY <1>7, <2>1, <2>2 DEF PeekReturns, Front
<1>8. CASE TryFails
  <2>1. q' \in QueueType(Elem)
    BY <1>8 DEF TryFails, Miss
  <2>2. Len(sent) \in Nat /\ q.atEnd \in BOOLEAN
    OBVIOUS
  <2> QED
    BY <1>8, <2>1, <2>2 DEF TryFails
<1>9. CASE CallSleeps
  BY <1>9 DEF CallSleeps, Wait
<1>10. CASE CallThrows
  BY <1>10 DEF CallThrows, ThrowEnd
<1>11. CASE UNCHANGED vars
  BY <1>11 DEF vars
<1> QED
  BY <1>1, <1>2, <1>3, <1>4, <1>5, <1>6, <1>7, <1>8, <1>9, <1>10, <1>11
     DEF Next, Producer, Consumer, Terminated

(* Every variable keeps its type. *)
THEOREM TypeCorrect == Spec => []TypeOK
  BY InitTypeOK, TypeStep, PTL DEF Spec

-----------------------------------------------------------------------------
(* What the proofs need to know about sequences. *)

(* Moving the front of the queue to the end of what was received leaves their
   concatenation, hence the order of delivery, as it was. *)
LEMMA MoveFront ==
  ASSUME NEW S, NEW r \in Seq(S), NEW t \in Seq(S), t # <<>>
  PROVE  Append(r, Head(t)) \o Tail(t) = r \o t
<1>1. Head(t) \in S /\ Tail(t) \in Seq(S) /\ Len(Tail(t)) = Len(t) - 1
  BY HeadTailProperties
<1>2. \A i \in 1 .. Len(Tail(t)) : Tail(t)[i] = t[i + 1]
  BY HeadTailProperties
<1>3. t[1] = Head(t)
  OBVIOUS
<1> DEFINE ra == Append(r, Head(t))
<1>4. /\ ra \in Seq(S) /\ Len(ra) = Len(r) + 1
      /\ \A i \in 1 .. Len(r) : ra[i] = r[i]
      /\ ra[Len(r) + 1] = Head(t)
  BY <1>1, AppendProperties
<1> HIDE DEF ra
<1>5. /\ ra \o Tail(t) \in Seq(S)
      /\ Len(ra \o Tail(t)) = Len(ra) + Len(Tail(t))
      /\ \A i \in 1 .. Len(ra) + Len(Tail(t)) : (ra \o Tail(t))[i] =
            IF i <= Len(ra) THEN ra[i] ELSE Tail(t)[i - Len(ra)]
  BY <1>1, <1>4, ConcatProperties
<1>6. /\ r \o t \in Seq(S)
      /\ Len(r \o t) = Len(r) + Len(t)
      /\ \A i \in 1 .. Len(r) + Len(t) : (r \o t)[i] =
            IF i <= Len(r) THEN r[i] ELSE t[i - Len(r)]
  BY ConcatProperties
<1>7. Len(r) \in Nat /\ Len(t) \in Nat
  OBVIOUS
<1>8. ASSUME NEW i \in 1 .. Len(ra \o Tail(t))
      PROVE  (ra \o Tail(t))[i] = (r \o t)[i]
  <2>1. CASE i <= Len(r)
    BY <2>1, <1>1, <1>4, <1>5, <1>6, <1>7
  <2>2. CASE i = Len(r) + 1
    BY <2>2, <1>1, <1>3, <1>4, <1>5, <1>6, <1>7
  <2>3. CASE i > Len(r) + 1
    <3>1. i - Len(ra) \in 1 .. Len(Tail(t))
      BY <2>3, <1>1, <1>4, <1>5, <1>7
    <3>2. (ra \o Tail(t))[i] = t[i - Len(ra) + 1]
      BY <2>3, <3>1, <1>1, <1>2, <1>4, <1>5, <1>7
    <3> QED
      BY <2>3, <3>2, <1>1, <1>4, <1>5, <1>6, <1>7
  <2> QED
    BY <2>1, <2>2, <2>3, <1>1, <1>4, <1>5, <1>7
<1> QED
  BY <1>1, <1>4, <1>5, <1>6, <1>7, <1>8, SeqEqual

(* The first part of a concatenation is its prefix of that length, and the
   element after it is the front of the second part. *)
LEMMA FirstPart ==
  ASSUME NEW S, NEW r \in Seq(S), NEW t \in Seq(S)
  PROVE  /\ SubSeq(r \o t, 1, Len(r)) = r
         /\ Len(r \o t) = Len(r) + Len(t)
         /\ t # <<>> => (r \o t)[Len(r) + 1] = Head(t)
<1> DEFINE s == r \o t
<1>1. /\ s \in Seq(S)
      /\ Len(s) = Len(r) + Len(t)
      /\ \A i \in 1 .. Len(r) + Len(t) :
            s[i] = IF i <= Len(r) THEN r[i] ELSE t[i - Len(r)]
  BY ConcatProperties
<1> HIDE DEF s
<1>2. Len(r) \in Nat /\ Len(t) \in Nat
  OBVIOUS
<1>3. SubSeq(s, 1, Len(r)) = r
  <2>1. \A i \in 1 .. Len(r) : s[i] = r[i] /\ s[i] \in S
    BY <1>1, <1>2, ElementOfSeq
  <2>2. /\ SubSeq(s, 1, Len(r)) \in Seq(S)
        /\ Len(SubSeq(s, 1, Len(r))) = IF 1 <= Len(r) THEN Len(r) - 1 + 1 ELSE 0
        /\ \A i \in 1 .. Len(r) - 1 + 1 : SubSeq(s, 1, Len(r))[i] = s[1 + i - 1]
    BY <2>1, <1>2, SubSeqProperties
  <2>3. Len(SubSeq(s, 1, Len(r))) = Len(r)
    BY <2>2, <1>2
  <2>4. \A i \in 1 .. Len(r) : SubSeq(s, 1, Len(r))[i] = r[i]
    BY <2>1, <2>2, <1>2
  <2> QED
    BY <2>2, <2>3, <2>4, SeqEqual
<1>4. t # <<>> => s[Len(r) + 1] = Head(t)
  <2> SUFFICES ASSUME t # <<>> PROVE s[Len(r) + 1] = Head(t)
    OBVIOUS
  <2>1. Len(t) >= 1
    BY <1>2, EmptySeq
  <2> QED
    BY <2>1, <1>1, <1>2
<1> QED
  BY <1>1, <1>3, <1>4 DEF s

-----------------------------------------------------------------------------
(* The inductive invariant. *)

LEMMA InitLinkInv == Init => LinkInv
<1> SUFFICES ASSUME Init
             PROVE  LinkInv
  OBVIOUS
<1>1. /\ q.items = <<>> /\ q.atEnd = FALSE /\ q.missed = FALSE
  BY DEF Init, QueueInit, NewQueue
<1>2. InOrderDelivery
  <2>1. sent = <<>> /\ received = <<>>
    BY DEF Init
  <2> QED
    BY <1>1, <2>1 DEF InOrderDelivery
<1>3. PeekedStaysInFront /\ CloseIsLast /\ AfterMiss
  BY <1>1 DEF Init, PeekedStaysInFront, CloseIsLast, AfterMiss, FollowsMiss
<1> QED
  BY <1>2, <1>3, InitTypeOK DEF LinkInv

(* What a step that leaves the histories and the elements alone has to keep. *)
LEMMA QuietStep ==
  ASSUME LinkInv, q'.items = q.items, UNCHANGED <<sent, received, peeked>>
  PROVE  InOrderDelivery' /\ PeekedStaysInFront'
BY DEF LinkInv, InOrderDelivery, PeekedStaysInFront, Front

LEMMA LinkInvStep == LinkInv /\ [Next]_vars => LinkInv'
<1> SUFFICES ASSUME LinkInv, [Next]_vars
             PROVE  LinkInv'
  OBVIOUS
<1>t. TypeOK /\ TypeOK'
  BY TypeStep DEF LinkInv
<1>q. /\ q.items \in Seq(Elem) /\ received \in Seq(Elem) /\ sent \in Seq(Elem)
      /\ DOMAIN q = {"items", "atEnd", "full", "empty", "missed"}
  BY <1>t DEF TypeOK, QueueType
<1>i. InOrderDelivery /\ PeekedStaysInFront /\ CloseIsLast /\ AfterMiss
  BY DEF LinkInv
<1> USE DEF prodVars, consVars
<1>1. ASSUME NEW e \in Elem, CallEnqueue(e)
      PROVE  LinkInv'
  <2>1. InOrderDelivery' /\ PeekedStaysInFront'
    BY <1>1, QuietStep DEF CallEnqueue
  <2>2. CloseIsLast' /\ AfterMiss'
    BY <1>1, <1>i DEF CallEnqueue, CloseIsLast, AfterMiss, FollowsMiss, InCall
  <2> QED
    BY <1>t, <2>1, <2>2 DEF LinkInv
<1>2. CASE EnqueueReturns
  <2>1. /\ q'.items = Append(q.items, pending)
        /\ q'.atEnd = q.atEnd /\ q'.missed = q.missed
    BY <1>2, <1>q DEF EnqueueReturns, Enqueue
  <2>2. pending \in Elem /\ ~q.atEnd
    BY <1>2, <1>t, <1>i DEF EnqueueReturns, TypeOK, CloseIsLast
  <2>3. InOrderDelivery'
    <3>1. sent' = Append(received \o q.items, pending)
      BY <1>2, <1>i DEF EnqueueReturns, InOrderDelivery
    <3>2. Append(received \o q.items, pending) = received \o Append(q.items, pending)
      <4>1. received \o q.items \in Seq(Elem) /\ <<pending>> \in Seq(Elem)
        BY <1>q, <2>2
      <4>2. /\ Append(received \o q.items, pending) = (received \o q.items) \o <<pending>>
            /\ Append(q.items, pending) = q.items \o <<pending>>
        BY <1>q, <2>2, <4>1, AppendIsConcat
      <4> QED
        BY <1>q, <4>1, <4>2, ConcatAssociative
    <3>3. received' = received
      BY <1>2 DEF EnqueueReturns
    <3> QED
      BY <2>1, <3>1, <3>2, <3>3 DEF InOrderDelivery
  <2>4. PeekedStaysInFront'
    <3>1. q.items # <<>> => /\ Append(q.items, pending) # <<>>
                            /\ Head(Append(q.items, pending)) = Head(q.items)
      BY <1>q, <2>2, AppendProperties
    <3> QED
      BY <1>2, <1>i, <2>1, <3>1 DEF EnqueueReturns, PeekedStaysInFront, Front
  <2>5. CloseIsLast' /\ AfterMiss'
    BY <1>2, <1>i, <2>1, <2>2
       DEF EnqueueReturns, CloseIsLast, AfterMiss, FollowsMiss, InCall
  <2> QED
    BY <1>t, <2>3, <2>4, <2>5 DEF LinkInv
<1>3. CASE EnqueueRetries
  <2>1. /\ q'.items = q.items /\ q'.atEnd = q.atEnd /\ q'.missed = q.missed
    BY <1>3, <1>q DEF EnqueueRetries, EnqueueBlocked
  <2>2. InOrderDelivery' /\ PeekedStaysInFront'
    BY <1>3, <2>1, QuietStep DEF EnqueueRetries
  <2>3. CloseIsLast' /\ AfterMiss'
    BY <1>3, <1>i, <2>1
       DEF EnqueueRetries, CloseIsLast, AfterMiss, FollowsMiss, InCall
  <2> QED
    BY <1>t, <2>2, <2>3 DEF LinkInv
<1>4. CASE Finish
  <2>1. /\ q'.items = q.items /\ q'.atEnd = TRUE /\ q'.missed = q.missed
    BY <1>4, <1>q DEF Finish, SetQueueEnd
  <2>2. InOrderDelivery' /\ PeekedStaysInFront'
    BY <1>4, <2>1, QuietStep DEF Finish
  <2>3. CloseIsLast' /\ AfterMiss'
    BY <1>4, <1>i, <2>1 DEF Finish, CloseIsLast, AfterMiss, FollowsMiss, InCall
  <2> QED
    BY <1>t, <2>2, <2>3 DEF LinkInv
<1>5. CASE Call
  <2>1. InOrderDelivery' /\ PeekedStaysInFront'
    BY <1>5, QuietStep DEF Call
  <2>2. CloseIsLast' /\ AfterMiss'
    BY <1>5, <1>i DEF Call, CloseIsLast, AfterMiss, FollowsMiss, InCall
  <2> QED
    BY <1>t, <2>1, <2>2 DEF LinkInv
<1>6. CASE DequeueReturns
  <2>1. /\ q'.items = Tail(q.items)
        /\ q'.atEnd = q.atEnd /\ q'.missed = q.missed
        /\ ~q.missed /\ q.items # <<>>
    BY <1>6, <1>q DEF DequeueReturns, Dequeue, CanTake
  <2>2. InOrderDelivery'
    <3>1. received' = Append(received, Head(q.items)) /\ sent' = sent
      BY <1>6 DEF DequeueReturns, Front
    <3> QED
      BY <1>q, <1>i, <2>1, <3>1, MoveFront DEF InOrderDelivery
  <2>3. PeekedStaysInFront'
    BY <1>6 DEF DequeueReturns, PeekedStaysInFront
  <2>4. CloseIsLast' /\ AfterMiss'
    BY <1>6, <1>i, <2>1
       DEF DequeueReturns, CloseIsLast, AfterMiss, FollowsMiss, InCall
  <2> QED
    BY <1>t, <2>2, <2>3, <2>4 DEF LinkInv
<1>7. CASE PeekReturns
  <2>1. /\ q'.items = q.items /\ q'.atEnd = q.atEnd /\ q'.missed = q.missed
        /\ ~q.missed /\ q.items # <<>>
    BY <1>7, <1>q DEF PeekReturns, Peek, CanTake
  <2>2. InOrderDelivery'
    BY <1>7, <1>i, <2>1 DEF PeekReturns, InOrderDelivery
  <2>3. PeekedStaysInFront'
    BY <1>7, <2>1 DEF PeekReturns, PeekedStaysInFront, Front
  <2>4. CloseIsLast' /\ AfterMiss'
    BY <1>7, <1>i, <2>1
       DEF PeekReturns, CloseIsLast, AfterMiss, FollowsMiss, InCall
  <2> QED
    BY <1>t, <2>2, <2>3, <2>4 DEF LinkInv
<1>8. CASE TryFails
  <2>1. /\ q'.items = q.items /\ q'.atEnd = q.atEnd /\ q.items = <<>>
    BY <1>8, <1>q DEF TryFails, Miss
  <2>2. InOrderDelivery' /\ PeekedStaysInFront'
    BY <1>8, <2>1, QuietStep DEF TryFails
  <2>3. CloseIsLast'
    BY <1>8, <1>i, <2>1 DEF TryFails, CloseIsLast
  <2>4. AfterMiss'
    <3>1. Len(received) = Len(sent)
      BY <1>q, <1>i, <2>1, ConcatEmptySeq DEF InOrderDelivery
    <3> QED
      BY <1>8, <2>1, <3>1 DEF TryFails, AfterMiss, InCall
  <2> QED
    BY <1>t, <2>2, <2>3, <2>4 DEF LinkInv
<1>9. CASE CallSleeps
  <2>1. /\ q'.items = q.items /\ q'.atEnd = q.atEnd /\ q'.missed = FALSE
    BY <1>9, <1>q DEF CallSleeps, Wait
  <2>2. InOrderDelivery' /\ PeekedStaysInFront'
    BY <1>9, <2>1, QuietStep DEF CallSleeps
  <2>3. CloseIsLast' /\ AfterMiss'
    BY <1>9, <1>i, <2>1
       DEF CallSleeps, CloseIsLast, AfterMiss, FollowsMiss, InCall
  <2> QED
    BY <1>t, <2>2, <2>3 DEF LinkInv
<1>10. CASE CallThrows
  <2>1. /\ q'.items = q.items /\ q'.atEnd = q.atEnd /\ q'.missed = FALSE
        /\ q.missed /\ q.atEnd
    BY <1>10, <1>q DEF CallThrows, ThrowEnd, AtEnd
  <2>2. InOrderDelivery' /\ PeekedStaysInFront'
    BY <1>10, <2>1, QuietStep DEF CallThrows
  <2>3. CloseIsLast' /\ AfterMiss'
    BY <1>10, <1>i, <2>1
       DEF CallThrows, CloseIsLast, AfterMiss, FollowsMiss, InCall
  <2> QED
    BY <1>t, <2>2, <2>3 DEF LinkInv
<1>11. CASE UNCHANGED vars
  BY <1>11 DEF vars, LinkInv, TypeOK, InOrderDelivery, PeekedStaysInFront, Front,
               CloseIsLast, AfterMiss, FollowsMiss, InCall
<1> QED
  BY <1>1, <1>2, <1>3, <1>4, <1>5, <1>6, <1>7, <1>8, <1>9, <1>10, <1>11
     DEF Next, Producer, Consumer, Terminated

(* The invariant holds in every reachable state. *)
THEOREM LinkInvariant == Spec => []LinkInv
BY InitLinkInv, LinkInvStep, PTL DEF Spec

-----------------------------------------------------------------------------
(* What the invariant gives a user of the queue. *)

LEMMA InvImpliesPrefix ==
  ASSUME LinkInv
  PROVE  /\ received = SubSeq(sent, 1, Len(received))
         /\ Len(sent) = Len(received) + Len(q.items)
         /\ q.items # <<>> => sent[Len(received) + 1] = Front
<1>1. q.items \in Seq(Elem) /\ received \in Seq(Elem)
  BY DEF LinkInv, TypeOK, QueueType
<1>2. sent = received \o q.items
  BY DEF LinkInv, InOrderDelivery
<1> QED
  BY <1>1, <1>2, FirstPart DEF Front

(* Nothing is lost, duplicated or reordered on the way through AtomicQueue. *)
THEOREM NothingLostInside == Spec => []InOrderDelivery
<1>1. LinkInv => InOrderDelivery
  BY DEF LinkInv
<1> QED
  BY <1>1, LinkInvariant, PTL

(* The observation peek() returns is still the front of the queue when it is
   used, whatever the producer does, and the next dequeue() returns it. *)
THEOREM PeekIsStable == Spec => []PeekedStaysInFront
<1>1. LinkInv => PeekedStaysInFront
  BY DEF LinkInv
<1> QED
  BY <1>1, LinkInvariant, PTL

(* QueueEndException reaches only a consumer whose producer is done, although
   m_empty starts uninitialized. *)
THEOREM NoEarlyEnd == Spec => []EndAfterClose
<1>1. LinkInv => EndAfterClose
  <2> SUFFICES ASSUME LinkInv, cons = "ended"
               PROVE  prod = "done" /\ pending = NoElem
    BY DEF EndAfterClose
  <2>1. prod = "done"
    BY DEF LinkInv, CloseIsLast
  <2>2. pending \in Elem \cup {NoElem} /\ (prod = "enqueue" <=> pending \in Elem)
    BY DEF LinkInv, TypeOK
  <2> QED
    BY <2>1, <2>2
<1> QED
  BY <1>1, LinkInvariant, PTL

(* The end of the stream is not a loss of what was there to be seen: the
   consumer has every element enqueued before its last failed try. *)
THEOREM LossIsBounded == Spec => []DeliveredUpToLastMiss
<1>1. LinkInv => DeliveredUpToLastMiss
  BY InvImpliesPrefix DEF DeliveredUpToLastMiss, LinkInv, AfterMiss, FollowsMiss
<1> QED
  BY <1>1, LinkInvariant, PTL

(* A consumer that finds the queue empty after setQueueEnd() has lost nothing:
   only an enqueue and a close inside its window can lose elements. *)
THEOREM CleanEnd == Spec => []CleanEndIfClosedBeforeMiss
<1>1. LinkInv => CleanEndIfClosedBeforeMiss
  <2> SUFFICES ASSUME LinkInv, cons = "ended", closedAtMiss
               PROVE  received = sent
    BY DEF CleanEndIfClosedBeforeMiss
  <2>1. q.items = <<>>
    BY DEF LinkInv, AfterMiss, FollowsMiss
  <2>2. received \in Seq(Elem) /\ sent = received \o q.items
    BY DEF LinkInv, TypeOK, InOrderDelivery
  <2> QED
    BY <2>1, <2>2, ConcatEmptySeq
<1> QED
  BY <1>1, LinkInvariant, PTL

-----------------------------------------------------------------------------
(* Refinement. *)

(* AtomicQueue and the loops around it implement the bounded, closable,
   in-order stream that the stages are written against. *)
THEOREM QueueImplementsStream == Spec => ImplementsStream
<1>1. Init => Stream!Init
  BY DEF Init, QueueInit, NewQueue, Stream!Init
<1>2. LinkInv /\ [Next]_vars => [Stream!Next]_Stream!vars
  <2> SUFFICES ASSUME LinkInv, [Next]_vars
               PROVE  [Stream!Next]_Stream!vars
    OBVIOUS
  <2>q. DOMAIN q = {"items", "atEnd", "full", "empty", "missed"}
    BY DEF LinkInv, TypeOK, QueueType
  <2>s. q'.atEnd = q.atEnd /\ UNCHANGED <<sent, received, cons>> => UNCHANGED Stream!vars
    BY DEF Stream!vars
  <2> USE DEF prodVars, consVars
  <2>1. ASSUME NEW e \in Elem, CallEnqueue(e)
        PROVE  UNCHANGED Stream!vars
    BY <2>1, <2>s DEF CallEnqueue
  <2>2. CASE EnqueueReturns
    <3>1. pending \in Elem /\ ~q.atEnd /\ q'.atEnd = q.atEnd
      BY <2>2, <2>q DEF EnqueueReturns, Enqueue, LinkInv, TypeOK, CloseIsLast
    <3>2. Len(sent) - Len(received) < MaxCapacity
      <4>1. Len(q.items) < MaxCapacity
        BY <2>2 DEF EnqueueReturns, Enqueue
      <4>2. Len(received) \in Nat /\ Len(q.items) \in Nat
        BY DEF LinkInv, TypeOK, QueueType
      <4> QED
        BY <4>1, <4>2, InvImpliesPrefix
    <3>3. Stream!Send(pending)
      BY <2>2, <3>1, <3>2 DEF EnqueueReturns, Stream!Send
    <3> QED
      BY <3>1, <3>3 DEF Stream!Next
  <2>3. CASE EnqueueRetries
    BY <2>3, <2>q, <2>s DEF EnqueueRetries, EnqueueBlocked
  <2>4. CASE Finish
    <3>1. ~q.atEnd /\ q'.atEnd = TRUE
      BY <2>4, <2>q DEF Finish, SetQueueEnd, LinkInv, CloseIsLast
    <3>2. Stream!Close
      BY <2>4, <3>1 DEF Finish, Stream!Close
    <3> QED
      BY <3>2 DEF Stream!Next
  <2>5. CASE Call
    <3>1. cons # "ended" /\ cons' # "ended"
      BY <2>5 DEF Call
    <3> QED
      BY <2>5, <3>1 DEF Call, Stream!vars
  <2>6. CASE DequeueReturns
    <3>1. cons # "ended" /\ cons' # "ended" /\ q'.atEnd = q.atEnd /\ q.items # <<>>
      BY <2>6, <2>q DEF DequeueReturns, Dequeue, CanTake
    <3>2. /\ received' = Append(received, sent[Len(received) + 1])
          /\ UNCHANGED sent
      BY <2>6, <3>1, InvImpliesPrefix DEF DequeueReturns
    <3>3. Len(received) < Len(sent)
      <4>1. q.items \in Seq(Elem) /\ Len(received) \in Nat
        BY DEF LinkInv, TypeOK, QueueType
      <4>2. Len(q.items) \in Nat \ {0}
        BY <3>1, <4>1, EmptySeq
      <4> QED
        BY <4>1, <4>2, InvImpliesPrefix
    <3>4. Stream!Receive
      BY <3>1, <3>2, <3>3 DEF Stream!Receive
    <3> QED
      BY <3>4 DEF Stream!Next
  <2>7. CASE PeekReturns
    <3>1. cons # "ended" /\ cons' # "ended" /\ q'.atEnd = q.atEnd
      BY <2>7, <2>q DEF PeekReturns, Peek
    <3> QED
      BY <2>7, <3>1 DEF PeekReturns, Stream!vars
  <2>8. CASE TryFails
    BY <2>8, <2>q, <2>s DEF TryFails, Miss
  <2>9. CASE CallSleeps
    BY <2>9, <2>q, <2>s DEF CallSleeps, Wait
  <2>10. CASE CallThrows
    <3>1. q.atEnd /\ q'.atEnd = q.atEnd /\ cons # "ended" /\ cons' = "ended"
      BY <2>10, <2>q DEF CallThrows, ThrowEnd, AtEnd, InCall
    <3>2. Stream!End
      BY <2>10, <3>1 DEF CallThrows, Stream!End
    <3> QED
      BY <3>2 DEF Stream!Next
  <2>11. CASE UNCHANGED vars
    BY <2>11 DEF vars, Stream!vars
  <2> QED
    BY <2>1, <2>2, <2>3, <2>4, <2>5, <2>6, <2>7, <2>8, <2>9, <2>10, <2>11
       DEF Next, Producer, Consumer, Terminated
<1> QED
  BY <1>1, <1>2, LinkInvariant, PTL DEF Spec, ImplementsStream, Stream!Spec
=============================================================================
