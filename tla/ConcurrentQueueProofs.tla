----------------------- MODULE ConcurrentQueueProofs -----------------------
(***************************************************************************)
(* However many threads put messages in msgQueue and take them out, it is  *)
(* a SharedStream of them, and try_dequeue() returns false only after it   *)
(* has found each producer empty.  Each thread finds its own producer      *)
(* again in the hash table, however it grows, and there is always room.    *)
(***************************************************************************)
EXTENDS ConcurrentQueue, ImplicitProducerHash, SequenceTheorems, WellFoundedInduction,
        FiniteSetTheorems, TLAPS

Scoring == {"loadTail", "loadHead"}
Trying == {"dequeue", "dequeuing"}
Asking == {"missed"} \cup Scoring \cup Trying

State == [pc : {"idle", "took"} \cup Asking, ptr : Seq(Threads), tail : Nat,
          nonEmptyCount : Nat, best : Threads \cup {NoProducer}, bestSize : Nat,
          missable : BOOLEAN, got : {<<>>} \cup ({"took"} \X Threads \X Nat)]

\* Every variable has its type; a thread has put nothing in before it has a producer.
TypeOK ==
  /\ producerList \in Seq(Threads)
  /\ tailIndex \in [Threads -> Nat] /\ headIndex \in [Threads -> Nat]
  /\ cons \in [Consumers -> State]
  /\ mayMiss \in [Consumers -> BOOLEAN]
  /\ unseen \in [Consumers -> SUBSET Threads]
  /\ \A p \in Threads : /\ headIndex[p] <= tailIndex[p]
                        /\ p \notin ToSet(producerList) => tailIndex[p] = 0

\* Where a consumer that has not found the producers U empty goes on: as long as no
\* producer has a score, those in U are ahead; afterwards all but the best are tried in a
\* second round.
OnTrack(me, U) ==
  /\ me.pc \in Scoring \cup Trying => me.ptr # <<>>
  /\ me.pc \in Scoring /\ me.nonEmptyCount = 0 => me.bestSize = 0
  /\ me.pc \in Scoring /\ me.nonEmptyCount # 0 => me.best \in Threads
  /\ me.pc \in Scoring \cup Trying /\ me.nonEmptyCount = 0 => U \subseteq ToSet(me.ptr)
  /\ me.pc \in Trying /\ me.nonEmptyCount # 0 =>
       me.ptr = <<me.best>>
  /\ me.pc = "missed" => U = {}
  /\ me.pc = "took" => me.got # <<>>

Tracked == \A c \in Consumers : /\ unseen[c] \subseteq ToSet(producerList)
                                /\ OnTrack(cons[c], unseen[c])

\* Producer p has a message that consumer c will find.
CanFind(c, p) ==
  /\ p \in unseen[c] /\ headIndex[p] < tailIndex[p]
  /\ At(c, "loadHead") /\ Head(cons[c].ptr) = p => headIndex[p] < cons[c].tail
  /\ At(c, "dequeuing") /\ Head(cons[c].ptr) = p => ~cons[c].missable

\* A consumer that may not miss has the queue for itself, and finds something.
Undisturbed ==
  \A c \in Consumers : ~At(c, "idle") /\ ~mayMiss[c] =>
    /\ \A d \in Consumers \ {c} : At(d, "idle")
    /\ ~At(c, "took") => \E p \in Threads : CanFind(c, p)

\* The inductive invariant.
QueueInv == TypeOK /\ Tracked /\ Undisturbed

-----------------------------------------------------------------------------
(* Sequences. *)

\* A set of numbers that is not empty has a least one.
LEMMA LeastIn ==
  ASSUME NEW S, S \subseteq Nat, S # {}
  PROVE  \E m \in S : \A n \in S : m <= n
<1>1. PICK m \in S : \A n \in S : <<n, m>> \notin OpToRel(<, Nat)
  BY NatLessThanWellFounded, WFMin
<1>2. \A n \in S : ~(n < m)
  BY <1>1 DEF OpToRel
<1> QED BY <1>2

LEMMA LeastOf ==
  ASSUME NEW S, S \subseteq Nat, S # {}
  PROVE  Min(S) \in S
<1>1. \E m \in S : \A n \in S : m <= n
  BY LeastIn
<1> QED BY <1>1 DEF Min

\* The elements of a sequence that is not empty.
LEMMA HeadAndTail ==
  ASSUME NEW S, NEW s \in Seq(S), s # <<>>
  PROVE  /\ Head(s) \in S /\ Tail(s) \in Seq(S)
         /\ ToSet(s) = {Head(s)} \cup ToSet(Tail(s))
<1>1. Len(s) \in Nat \ {0} /\ Head(s) = s[1] /\ Tail(s) \in Seq(S) /\ Len(Tail(s)) = Len(s) - 1
  OBVIOUS
<1>2. DOMAIN s = 1 .. Len(s) /\ DOMAIN Tail(s) = 1 .. Len(Tail(s))
  BY <1>1
<1>3. \A i \in 1 .. Len(Tail(s)) : Tail(s)[i] = s[i + 1]
  OBVIOUS
<1>4. ASSUME NEW x \in ToSet(s) PROVE x \in {Head(s)} \cup ToSet(Tail(s))
  <2>1. PICK i \in 1 .. Len(s) : x = s[i]
    BY <1>2 DEF ToSet
  <2>2. CASE i = 1
    BY <1>1, <2>1, <2>2
  <2>3. CASE i # 1
    <3>1. i - 1 \in 1 .. Len(Tail(s)) /\ Tail(s)[i - 1] = x
      BY <1>1, <1>3, <2>1, <2>3
    <3> QED BY <1>2, <3>1 DEF ToSet
  <2> QED BY <2>2, <2>3
<1>5. Head(s) \in ToSet(s)
  <2>1. 1 \in DOMAIN s
    BY <1>1, <1>2
  <2> QED BY <1>1, <2>1 DEF ToSet
<1>6. ASSUME NEW x \in ToSet(Tail(s)) PROVE x \in ToSet(s)
  <2>1. PICK i \in 1 .. Len(Tail(s)) : x = Tail(s)[i]
    BY <1>2 DEF ToSet
  <2>2. i + 1 \in DOMAIN s /\ x = s[i + 1]
    BY <1>1, <1>2, <1>3, <2>1
  <2> QED BY <2>2 DEF ToSet
<1> QED BY <1>1, <1>4, <1>5, <1>6

\* A sequence without its first x still has all the others.
LEMMA AllButFirst ==
  ASSUME NEW S, NEW s \in Seq(S), NEW x
  PROVE  RemoveFirst(s, x) \in Seq(S) /\ ToSet(s) \ {x} \subseteq ToSet(RemoveFirst(s, x))
<1> DEFINE I == {i \in 1 .. Len(s) : s[i] = x}
           k == Min(I)
<1>0. CASE x \notin ToSet(s)
  <2>1. ~\E i \in 1 .. Len(s) : s[i] = x
    BY <1>0 DEF ToSet
  <2>2. RemoveFirst(s, x) = s
    BY <2>1 DEF RemoveFirst
  <2> QED BY <2>2
<1> SUFFICES ASSUME x \in ToSet(s)
             PROVE  RemoveFirst(s, x) \in Seq(S) /\ ToSet(s) \ {x} \subseteq ToSet(RemoveFirst(s, x))
  BY <1>0
<1>1. I # {} /\ I \in SUBSET Nat /\ \E i \in 1 .. Len(s) : s[i] = x
  BY DEF ToSet
<1>2. k \in I
  BY <1>1, LeastOf
<1>3. SelectInSeq(s, LAMBDA v : v = x) = k
  BY <1>1 DEF SelectInSeq
<1>4. RemoveFirst(s, x) = RemoveAt(s, k)
  BY <1>1, <1>3 DEF RemoveFirst
<1> HIDE DEF k
<1>5. k \in 1 .. Len(s) /\ s[k] = x
  BY <1>2
<1> DEFINE f == SubSeq(s, 1, k - 1)
           b == SubSeq(s, k + 1, Len(s))
<1>6. /\ f \in Seq(S) /\ Len(f) = k - 1 /\ \A i \in 1 .. k - 1 : f[i] = s[i]
      /\ b \in Seq(S) /\ Len(b) = Len(s) - k /\ \A i \in 1 .. Len(s) - k : b[i] = s[k + i]
  BY <1>5
<1> HIDE DEF f, b
<1>7. RemoveAt(s, k) = f \o b
  BY DEF RemoveAt, f, b
<1>8. ASSUME NEW y \in ToSet(s), y # x PROVE y \in ToSet(f \o b)
  <2>1. PICK i \in 1 .. Len(s) : s[i] = y
    BY DEF ToSet
  <2>2. DOMAIN (f \o b) = 1 .. Len(s) - 1
    BY <1>5, <1>6
  <2>3. CASE i < k
    <3>1. i \in 1 .. Len(s) - 1 /\ (f \o b)[i] = y
      BY <1>5, <1>6, <2>1, <2>3
    <3> QED BY <2>2, <3>1 DEF ToSet
  <2>4. CASE i > k
    <3>1. i - 1 \in 1 .. Len(s) - 1 /\ i - k \in 1 .. Len(s) - k /\ b[i - k] = y
      BY <1>5, <1>6, <2>1, <2>4
    <3>2. (f \o b)[i - 1] = b[i - k]
      BY <1>5, <1>6, <2>1, <2>4, <3>1
    <3> QED BY <2>2, <3>1, <3>2 DEF ToSet
  <2> QED BY <1>5, <1>8, <2>1, <2>3, <2>4
<1> QED BY <1>4, <1>6, <1>7, <1>8

-----------------------------------------------------------------------------
(* What the steps of a consumer make of its own state. *)

\* After a producer has been scored the consumer is on its track again, in one of three
\* places.
LEMMA ScoredOnTrack ==
  ASSUME NEW me \in State, NEW U,
         me.nonEmptyCount = 0 => me.bestSize = 0 /\ U \subseteq ToSet(me.ptr),
         me.nonEmptyCount # 0 => me.best \in Threads
  PROVE  /\ Scored(me) \in State /\ OnTrack(Scored(me), U)
         /\ Scored(me).pc \in {"loadTail", "missed", "dequeue"}
<1>1. CASE me.nonEmptyCount < 3 /\ me.ptr # <<>>
  <2>1. Scored(me) = [me EXCEPT !.pc = "loadTail"]
    BY <1>1 DEF Scored
  <2>2. Scored(me) \in State
    BY <2>1 DEF State, Asking, Scoring
  <2>3. /\ Scored(me).pc = "loadTail" /\ Scored(me).ptr = me.ptr
        /\ Scored(me).nonEmptyCount = me.nonEmptyCount /\ Scored(me).best = me.best
        /\ Scored(me).bestSize = me.bestSize
    BY <2>1 DEF State
  <2> QED BY <1>1, <2>2, <2>3 DEF OnTrack, Scoring, Trying
<1>2. CASE ~(me.nonEmptyCount < 3 /\ me.ptr # <<>>) /\ me.nonEmptyCount = 0
  <2>1. Scored(me) = [me EXCEPT !.pc = "missed"]
    BY <1>2 DEF Scored
  <2>2. Scored(me) \in State
    BY <2>1 DEF State, Asking, Scoring
  <2>3. Scored(me).pc = "missed"
    BY <2>1 DEF State
  <2>4. me.ptr = <<>>
    BY <1>2
  <2>5. U = {}
    BY <1>2, <2>4 DEF ToSet
  <2> QED BY <2>2, <2>3, <2>5 DEF OnTrack, Scoring, Trying
<1>3. CASE ~(me.nonEmptyCount < 3 /\ me.ptr # <<>>) /\ me.nonEmptyCount # 0
  <2>1. Scored(me) = [me EXCEPT !.pc = "dequeue", !.ptr = <<me.best>>]
    BY <1>3 DEF Scored
  <2>2. me.best \in Threads
    BY <1>3
  <2>3. Scored(me) \in State
    <3>1. <<me.best>> \in Seq(Threads) /\ "dequeue" \in {"idle", "took"} \cup Asking
      BY <2>2 DEF Asking, Trying
    <3> QED BY <2>1, <3>1 DEF State
  <2>4. /\ Scored(me).pc = "dequeue" /\ Scored(me).ptr = <<me.best>>
        /\ Scored(me).nonEmptyCount = me.nonEmptyCount /\ Scored(me).best = me.best
    BY <2>1 DEF State
  <2> QED BY <1>3, <2>3, <2>4 DEF OnTrack, Scoring, Trying
<1> QED BY <1>1, <1>2, <1>3

\* size_approx() of the producer that a consumer looks at.
LEMMA SizeIs ==
  ASSUME TypeOK, NEW c \in Consumers, Head(cons[c].ptr) \in Threads
  PROVE  /\ SizeApprox(c) \in Nat
         /\ SizeApprox(c) = 0 <=> cons[c].tail <= headIndex[Head(cons[c].ptr)]
<1>1. cons[c].tail \in Nat /\ headIndex[Head(cons[c].ptr)] \in Nat
  BY DEF TypeOK, State
<1> QED BY <1>1 DEF SizeApprox

-----------------------------------------------------------------------------
(* Frames. *)

\* In a step of a consumer in which its call neither begins nor ends, the others stay where
\* they are, or have been disturbed; so only this one is to be shown undisturbed.
LEMMA StillUndisturbed ==
  ASSUME Undisturbed, NEW c \in Consumers, ~At(c, "idle"), ~At(c, "took"), mayMiss' = mayMiss,
         \A d \in Consumers \ {c} : cons'[d].pc = cons[d].pc,
         ~mayMiss[c] /\ ~At(c, "took")' => \A p \in Threads : CanFind(c, p) => CanFind(c, p)'
  PROVE  Undisturbed'
<1> SUFFICES ASSUME NEW e \in Consumers, ~At(e, "idle")', ~mayMiss'[e]
             PROVE  /\ \A d \in Consumers \ {e} : At(d, "idle")'
                    /\ ~At(e, "took")' => \E p \in Threads : CanFind(e, p)'
  BY DEF Undisturbed
<1>1. CASE e = c
  <2>1. /\ \A d \in Consumers \ {c} : At(d, "idle")
        /\ \E p \in Threads : CanFind(c, p)
    BY <1>1 DEF Undisturbed
  <2>2. \A d \in Consumers \ {c} : At(d, "idle")'
    BY <2>1 DEF At
  <2> QED BY <1>1, <2>1, <2>2
<1>2. CASE e # c
  <2>1. ~At(e, "idle") /\ ~mayMiss[e]
    BY <1>2 DEF At
  <2> QED BY <1>2, <2>1 DEF Undisturbed
<1> QED BY <1>1, <1>2

\* A consumer's state changes.
LEMMA GoesTo ==
  ASSUME TypeOK, NEW c \in Consumers, NEW new \in State, cons' = [cons EXCEPT ![c] = new]
  PROVE  /\ cons' \in [Consumers -> State] /\ cons'[c] = new
         /\ \A d \in Consumers \ {c} : cons'[d] = cons[d]
BY DEF TypeOK

\* The state of the others is the same but for what Dequeue changes in it.
SameTrack(d) == /\ cons'[d].pc = cons[d].pc /\ cons'[d].ptr = cons[d].ptr
                /\ cons'[d].nonEmptyCount = cons[d].nonEmptyCount
                /\ cons'[d].best = cons[d].best /\ cons'[d].bestSize = cons[d].bestSize
                /\ cons'[d].got = cons[d].got

\* All are on their track if the one that steps is.
LEMMA StillTracked ==
  ASSUME Tracked, NEW c \in Consumers, producerList' = producerList,
         \A d \in Consumers \ {c} : SameTrack(d) /\ unseen'[d] = unseen[d],
         unseen'[c] \subseteq ToSet(producerList), OnTrack(cons'[c], unseen'[c])
  PROVE  Tracked'
<1> SUFFICES ASSUME NEW d \in Consumers
             PROVE  /\ unseen'[d] \subseteq ToSet(producerList')
                    /\ OnTrack(cons[d], unseen[d])'
  BY DEF Tracked
<1>1. CASE d = c
  BY <1>1 DEF OnTrack
<1>2. CASE d # c
  BY <1>2 DEF OnTrack, Tracked, SameTrack
<1> QED BY <1>1, <1>2

\* What a consumer that looks at a producer has at hand.
LEMMA AtHand ==
  ASSUME TypeOK, Tracked, NEW c \in Consumers, cons[c].pc \in Scoring \cup Trying
  PROVE  /\ cons[c] \in State /\ Head(cons[c].ptr) \in Threads
         /\ Tail(cons[c].ptr) \in Seq(Threads)
         /\ ToSet(cons[c].ptr) = {Head(cons[c].ptr)} \cup ToSet(Tail(cons[c].ptr))
<1>1. cons[c] \in State /\ cons[c].ptr \in Seq(Threads) /\ cons[c].ptr # <<>>
  BY DEF TypeOK, Tracked, OnTrack, State
<1> QED BY <1>1, HeadAndTail

-----------------------------------------------------------------------------
(* The streams. *)

Items(p) == [k \in 1 .. tailIndex[p] - headIndex[p] |-> headIndex[p] + k - 1]

\* What a caller is given.
LEMMA CallIs ==
  ASSUME TypeOK, Tracked, NEW c \in Consumers
  PROVE  /\ At(c, "idle") <=> CallOf(c) = <<"idle">>
         /\ cons[c].pc \in Asking <=> CallOf(c) = <<"asking">>
         /\ At(c, "took") => CallOf(c) = cons[c].got
         /\ At(c, "idle") \/ At(c, "took") \/ cons[c].pc \in Asking
<1>1. cons[c].pc \in {"idle", "took"} \cup Asking /\ "idle" \notin Asking /\ "took" \notin Asking
  BY DEF TypeOK, State, Asking, Scoring, Trying
<1>2. At(c, "took") => cons[c].got \in {"took"} \X Threads \X Nat
  BY DEF TypeOK, State, Tracked, OnTrack, At
<1>3. At(c, "took") => cons[c].got # <<"idle">> /\ cons[c].got # <<"asking">>
  BY <1>2
<1>4. <<"idle">> # <<"asking">>
  OBVIOUS
<1>5. CASE At(c, "idle")
  BY <1>1, <1>4, <1>5 DEF At, CallOf
<1>6. CASE At(c, "took")
  BY <1>1, <1>3, <1>6 DEF At, CallOf
<1>7. CASE cons[c].pc \in Asking
  BY <1>1, <1>4, <1>7 DEF At, CallOf
<1> QED BY <1>1, <1>5, <1>6, <1>7 DEF At

\* A producer has nothing if its indices are the same.
LEMMA ItemsAre ==
  ASSUME TypeOK, NEW p \in Threads
  PROVE  /\ Items(p) \in Seq(Nat) /\ Len(Items(p)) = tailIndex[p] - headIndex[p]
         /\ Items(p) = <<>> <=> headIndex[p] = tailIndex[p]
<1>1. tailIndex[p] \in Nat /\ headIndex[p] \in Nat /\ headIndex[p] <= tailIndex[p]
  BY DEF TypeOK
<1>2. PICK n \in Nat : n = tailIndex[p] - headIndex[p]
  BY <1>1
<1>3. \A k \in 1 .. n : headIndex[p] + k - 1 \in Nat
  BY <1>1
<1>4. Items(p) \in Seq(Nat) /\ Len(Items(p)) = n
  BY <1>2, <1>3 DEF Items
<1> QED BY <1>1, <1>2, <1>4

\* Those that a call disturbs: all that are running, and itself if there are such, or if
\* there is nothing.
LEMMA OverlapIs ==
  ASSUME TypeOK, Tracked, NEW c \in Consumers
  PROVE  /\ Stream!Overlap(c) \in [Consumers -> BOOLEAN]
         /\ \A d \in Consumers \ {c} : Stream!Overlap(c)[d] <=> mayMiss[d] \/ ~At(d, "idle")
         /\ Stream!Overlap(c)[c] <=> \/ mayMiss[c]
                                     \/ \E d \in Consumers \ {c} : ~At(d, "idle")
                                     \/ \A p \in Threads : headIndex[p] = tailIndex[p]
<1> DEFINE call == [d \in Consumers |-> CallOf(d)]
           items == [p \in Threads |-> Items(p)]
           others == {d \in Consumers \ {c} : call[d] # <<"idle">>}
<1>1. others = {d \in Consumers \ {c} : ~At(d, "idle")}
  BY CallIs
<1>2. (\A p \in Threads : items[p] = <<>>) <=> \A p \in Threads : headIndex[p] = tailIndex[p]
  BY ItemsAre
<1> DEFINE M == [d \in Consumers |->
                   \/ mayMiss[d] \/ d \in others
                   \/ d = c /\ (others # {} \/ \A p \in Threads : items[p] = <<>>)]
<1>3. Stream!Overlap(c) = M
  BY DEF Stream!Overlap, Items
<1>4. M = [d \in Consumers |->
             \/ mayMiss[d] \/ d \in others
             \/ d = c /\ (others # {} \/ \A p \in Threads : headIndex[p] = tailIndex[p])]
  BY <1>2
<1> HIDE DEF M, others
<1>5. mayMiss \in [Consumers -> BOOLEAN]
  BY DEF TypeOK
<1> QED BY <1>1, <1>3, <1>4, <1>5

-----------------------------------------------------------------------------
(* The steps keep the invariant. *)

\* At first there is no producer, and no call.
LEMMA QueueBegins == Init => QueueInv
<1> SUFFICES ASSUME Init PROVE QueueInv
  OBVIOUS
<1>1. Idle \in State
  BY DEF Idle, State
<1>2. ToSet(<<>>) = {}
  BY DEF ToSet
<1>3. TypeOK
  BY <1>1, <1>2 DEF Init, TypeOK
<1>4. \A c \in Consumers : cons[c].pc = "idle" /\ unseen[c] = {}
  BY DEF Init, Idle
<1>5. Tracked
  BY <1>4 DEF Tracked, OnTrack, Scoring, Trying
<1> QED BY <1>3, <1>4, <1>5 DEF QueueInv, Undisturbed, At

\* A new producer is in front of the others, and has no messages yet.
LEMMA AddProducerKeeps ==
  ASSUME QueueInv, NEW t \in Threads, AddProducer(t)
  PROVE  QueueInv'
<1>1. /\ producerList' = <<t>> \o producerList /\ tailIndex' = tailIndex
      /\ headIndex' = headIndex /\ cons' = cons /\ mayMiss' = mayMiss /\ unseen' = unseen
  BY DEF AddProducer
<1>2. producerList' \in Seq(Threads) /\ ToSet(producerList') = {t} \cup ToSet(producerList)
  <2>1. producerList \in Seq(Threads)
    BY DEF QueueInv, TypeOK
  <2>2. /\ producerList' \in Seq(Threads) /\ producerList' # <<>>
        /\ Head(producerList') = t /\ Tail(producerList') = producerList
    BY <1>1, <2>1
  <2> QED BY <2>2, HeadAndTail
<1>3. TypeOK'
  BY <1>1, <1>2 DEF QueueInv, TypeOK
<1>4. Tracked'
  BY <1>1, <1>2 DEF QueueInv, Tracked, OnTrack
<1>5. Undisturbed'
  BY <1>1 DEF QueueInv, Undisturbed, CanFind, At
<1> QED BY <1>3, <1>4, <1>5 DEF QueueInv

\* Where there was something to find there is still more.
LEMMA EnqueueKeeps ==
  ASSUME QueueInv, NEW t \in Threads, Enqueue(t)
  PROVE  QueueInv'
<1>1. /\ t \in ToSet(producerList) /\ tailIndex' = [tailIndex EXCEPT ![t] = @ + 1]
      /\ producerList' = producerList
      /\ headIndex' = headIndex /\ cons' = cons /\ mayMiss' = mayMiss /\ unseen' = unseen
  BY DEF Enqueue
<1>2. tailIndex \in [Threads -> Nat] /\ headIndex \in [Threads -> Nat]
  BY DEF QueueInv, TypeOK
<1>3. tailIndex' \in [Threads -> Nat] /\ \A p \in Threads : tailIndex[p] <= tailIndex'[p]
  BY <1>1, <1>2
<1>4. \A p \in Threads : p # t => tailIndex'[p] = tailIndex[p]
  BY <1>1, <1>2
<1>5. TypeOK'
  BY <1>1, <1>2, <1>3, <1>4 DEF QueueInv, TypeOK
<1>6. Tracked'
  BY <1>1 DEF QueueInv, Tracked, OnTrack
<1>7. \A c \in Consumers, p \in Threads : CanFind(c, p) => CanFind(c, p)'
  BY <1>1, <1>2, <1>3 DEF CanFind, At
<1>8. Undisturbed'
  BY <1>1, <1>7 DEF QueueInv, Undisturbed, At
<1> QED BY <1>5, <1>6, <1>8 DEF QueueInv

\* A call that nothing has disturbed begins with a producer that has something.
LEMMA TryDequeueKeeps ==
  ASSUME QueueInv, NEW c \in Consumers, TryDequeue(c)
  PROVE  /\ QueueInv'
         /\ cons'[c].pc \in Asking /\ \A d \in Consumers \ {c} : cons'[d] = cons[d]
<1> DEFINE me == [Idle EXCEPT !.ptr = producerList]
           U == ToSet(producerList)
<1>1. /\ At(c, "idle") /\ cons' = [cons EXCEPT ![c] = Scored(me)]
      /\ mayMiss' = Stream!Overlap(c) /\ unseen' = [unseen EXCEPT ![c] = U]
      /\ producerList' = producerList /\ tailIndex' = tailIndex /\ headIndex' = headIndex
  BY DEF TryDequeue, Goes
<1>2. TypeOK /\ Tracked /\ Undisturbed
  BY DEF QueueInv
<1>3. producerList \in Seq(Threads) /\ U \subseteq Threads
  BY <1>2 DEF TypeOK, ToSet
<1>4. me \in State /\ me.nonEmptyCount = 0 /\ me.bestSize = 0 /\ me.ptr = producerList
  BY <1>3 DEF State, Idle
<1>5. /\ Scored(me) \in State /\ OnTrack(Scored(me), U)
      /\ Scored(me).pc \in {"loadTail", "missed", "dequeue"}
  BY <1>3, <1>4, ScoredOnTrack
<1> HIDE DEF me, U
<1>6. /\ cons' \in [Consumers -> State] /\ cons'[c] = Scored(me)
      /\ \A d \in Consumers \ {c} : cons'[d] = cons[d]
  BY <1>1, <1>2, <1>5, GoesTo
<1>7. /\ unseen' \in [Consumers -> SUBSET Threads] /\ unseen'[c] = U
      /\ \A d \in Consumers \ {c} : unseen'[d] = unseen[d]
  BY <1>1, <1>2, <1>3 DEF TypeOK
<1>8. /\ mayMiss' \in [Consumers -> BOOLEAN]
      /\ \A d \in Consumers \ {c} : mayMiss'[d] <=> mayMiss[d] \/ ~At(d, "idle")
      /\ mayMiss'[c] <=> \/ mayMiss[c]
                         \/ \E d \in Consumers \ {c} : ~At(d, "idle")
                         \/ \A p \in Threads : headIndex[p] = tailIndex[p]
  BY <1>1, <1>2, OverlapIs
<1>9. TypeOK'
  BY <1>1, <1>2, <1>6, <1>7, <1>8 DEF TypeOK
<1>10. Tracked'
  BY <1>1, <1>2, <1>5, <1>6, <1>7, StillTracked DEF SameTrack, U
<1>11. ASSUME NEW d \in Consumers, ~At(d, "idle")', ~mayMiss'[d]
       PROVE  /\ \A e \in Consumers \ {d} : At(e, "idle")'
              /\ \E p \in Threads : CanFind(d, p)'
  <2>1. d = c
    BY <1>6, <1>8, <1>11 DEF At
  <2>2. \A e \in Consumers \ {c} : At(e, "idle")
    BY <1>8, <1>11, <2>1
  <2>3. PICK p \in Threads : headIndex[p] # tailIndex[p]
    BY <1>8, <1>11, <2>1
  <2>4. headIndex[p] < tailIndex[p] /\ p \in U
    BY <1>2, <2>3 DEF TypeOK, U
  <2>5. CanFind(c, p)'
    BY <1>1, <1>5, <1>6, <1>7, <2>4 DEF CanFind, At
  <2> QED BY <1>6, <2>1, <2>2, <2>5 DEF At
<1>12. Undisturbed'
  BY <1>11 DEF Undisturbed
<1> QED BY <1>5, <1>6, <1>9, <1>10, <1>12 DEF QueueInv, Asking, Scoring, Trying

\* A producer that has something keeps it while the consumer is alone.
LEMMA LoadTailKeeps ==
  ASSUME QueueInv, NEW c \in Consumers, LoadTail(c)
  PROVE  /\ QueueInv'
         /\ cons'[c].pc \in Asking /\ \A d \in Consumers \ {c} : cons'[d] = cons[d]
<1> DEFINE t == tailIndex[Head(cons[c].ptr)]
<1>1. /\ cons[c].pc = "loadTail" /\ At(c, "loadTail")
      /\ cons' = [cons EXCEPT ![c] = [cons[c] EXCEPT !.pc = "loadHead", !.tail = t]]
      /\ mayMiss' = mayMiss /\ unseen' = unseen
      /\ producerList' = producerList /\ tailIndex' = tailIndex /\ headIndex' = headIndex
  BY DEF LoadTail, Goes, At
<1>2. TypeOK /\ Tracked /\ Undisturbed
  BY DEF QueueInv
<1>3. PICK me \in State : me = cons[c]
  BY <1>2 DEF TypeOK
<1>4. Head(me.ptr) \in Threads
  BY <1>1, <1>2, <1>3, AtHand DEF Scoring
<1>5. PICK n \in Nat : n = t
  BY <1>2, <1>3, <1>4 DEF TypeOK
<1> HIDE DEF t
<1>6. PICK new : new = [me EXCEPT !.pc = "loadHead", !.tail = n]
  OBVIOUS
<1>7. new \in State
  BY <1>6 DEF State, Asking, Scoring
<1>8. /\ new.pc = "loadHead" /\ new.tail = n /\ new.ptr = me.ptr
      /\ new.nonEmptyCount = me.nonEmptyCount /\ new.best = me.best
      /\ new.bestSize = me.bestSize
  BY <1>6 DEF State
<1>9. /\ cons' \in [Consumers -> State] /\ cons'[c] = new
      /\ \A d \in Consumers \ {c} : cons'[d] = cons[d]
  <2>1. cons' = [cons EXCEPT ![c] = new]
    BY <1>1, <1>3, <1>5, <1>6
  <2> QED BY <1>2, <1>7, <2>1, GoesTo
<1>10. TypeOK'
  BY <1>1, <1>2, <1>9 DEF TypeOK
<1>11. OnTrack(new, unseen[c])
  <2>1. OnTrack(me, unseen[c]) /\ me.pc = "loadTail"
    BY <1>1, <1>2, <1>3 DEF Tracked
  <2> QED BY <1>8, <2>1 DEF OnTrack, Scoring, Trying
<1>12. Tracked'
  <2>1. unseen[c] \subseteq ToSet(producerList)
    BY <1>2 DEF Tracked
  <2> QED BY <1>1, <1>2, <1>9, <1>11, <2>1, StillTracked DEF SameTrack
<1>13. Undisturbed'
  <2>1. ASSUME NEW p \in Threads, CanFind(c, p) PROVE CanFind(c, p)'
    BY <1>1, <1>3, <1>5, <1>8, <1>9, <2>1 DEF CanFind, At, t
  <2> QED BY <1>1, <1>2, <1>9, <2>1, StillUndisturbed DEF At
<1> QED BY <1>8, <1>9, <1>10, <1>12, <1>13 DEF QueueInv, Asking, Scoring

\* A producer is found empty only if it is, or was when its tail was loaded; one that is
\* not gets a score, and the first of these is the best so far.
LEMMA LoadHeadKeeps ==
  ASSUME QueueInv, NEW c \in Consumers, LoadHead(c)
  PROVE  /\ QueueInv'
         /\ cons'[c].pc \in Asking /\ \A d \in Consumers \ {c} : cons'[d] = cons[d]
<1>1. TypeOK /\ Tracked /\ Undisturbed
  BY DEF QueueInv
<1>2. PICK me \in State : me = cons[c]
  BY <1>1 DEF TypeOK
<1>3. At(c, "loadHead") /\ me.pc = "loadHead"
  BY <1>2 DEF LoadHead, At
<1>4. PICK p \in Threads : p = Head(me.ptr)
  BY <1>1, <1>2, <1>3, AtHand DEF Scoring
<1>5. PICK rest \in Seq(Threads) : rest = Tail(me.ptr) /\ ToSet(me.ptr) = {p} \cup ToSet(rest)
  BY <1>1, <1>2, <1>3, <1>4, AtHand DEF Scoring
<1>6. PICK size \in Nat : /\ size = SizeApprox(c)
                          /\ size = 0 <=> cons[c].tail <= headIndex[p]
  BY <1>1, <1>2, <1>4, SizeIs
<1>7. PICK U : U = IF size = 0 THEN unseen[c] \ {p} ELSE unseen[c]
  OBVIOUS
<1>8. PICK seen : seen = IF size = 0 THEN [me EXCEPT !.ptr = rest]
                         ELSE [me EXCEPT !.ptr = rest, !.nonEmptyCount = @ + 1,
                                         !.best = IF size > me.bestSize THEN p ELSE @,
                                         !.bestSize = IF size > @ THEN size ELSE @]
  OBVIOUS
<1>9. /\ cons' = [cons EXCEPT ![c] = Scored(seen)]
      /\ unseen' = IF size = 0 THEN [unseen EXCEPT ![c] = @ \ {p}] ELSE unseen
      /\ mayMiss' = mayMiss
      /\ producerList' = producerList /\ tailIndex' = tailIndex /\ headIndex' = headIndex
  BY <1>2, <1>4, <1>5, <1>6, <1>8 DEF LoadHead, Goes
<1>10. OnTrack(me, unseen[c]) /\ unseen[c] \subseteq ToSet(producerList) /\ unseen[c] \subseteq Threads
  BY <1>1, <1>2 DEF Tracked, TypeOK
<1>11. /\ seen \in State
       /\ seen.nonEmptyCount = 0 => seen.bestSize = 0 /\ U \subseteq ToSet(seen.ptr)
       /\ seen.nonEmptyCount # 0 => seen.best \in Threads
  <2>1. /\ me.nonEmptyCount = 0 => me.bestSize = 0 /\ unseen[c] \subseteq ToSet(me.ptr)
        /\ me.nonEmptyCount # 0 => me.best \in Threads
    BY <1>3, <1>10 DEF OnTrack, Scoring
  <2>2. /\ me.nonEmptyCount \in Nat /\ me.bestSize \in Nat
        /\ me.best \in Threads \cup {NoProducer}
    BY DEF State
  <2>3. CASE size = 0
    <3>1. seen = [me EXCEPT !.ptr = rest]
      BY <1>8, <2>3
    <3>2. seen \in State
      BY <3>1 DEF State
    <3>3. /\ seen.ptr = rest /\ seen.nonEmptyCount = me.nonEmptyCount /\ seen.best = me.best
          /\ seen.bestSize = me.bestSize
      BY <3>1 DEF State
    <3> QED BY <1>5, <1>7, <2>1, <2>3, <3>2, <3>3
  <2>4. CASE size # 0
    <3>1. PICK b : b = IF size > me.bestSize THEN p ELSE me.best
      OBVIOUS
    <3>2. PICK z : z = IF size > me.bestSize THEN size ELSE me.bestSize
      OBVIOUS
    <3>3. b \in Threads \cup {NoProducer} /\ z \in Nat /\ me.nonEmptyCount + 1 \in Nat
      BY <2>2, <3>1, <3>2
    <3>4. seen = [me EXCEPT !.ptr = rest, !.nonEmptyCount = me.nonEmptyCount + 1,
                            !.best = b, !.bestSize = z]
      BY <1>8, <2>4, <3>1, <3>2
    <3>5. /\ seen \in State /\ seen.nonEmptyCount = me.nonEmptyCount + 1 /\ seen.best = b
      BY <3>3, <3>4 DEF State
    <3>6. b \in Threads
      BY <2>1, <2>2, <2>4, <3>1
    <3> QED BY <2>2, <3>5, <3>6
  <2> QED BY <2>3, <2>4
<1>12. /\ Scored(seen) \in State /\ OnTrack(Scored(seen), U)
       /\ Scored(seen).pc \in {"loadTail", "missed", "dequeue"}
  BY <1>11, ScoredOnTrack
<1>13. /\ cons' \in [Consumers -> State] /\ cons'[c] = Scored(seen)
       /\ \A d \in Consumers \ {c} : cons'[d] = cons[d]
  BY <1>1, <1>9, <1>12, GoesTo
<1>14. /\ unseen' \in [Consumers -> SUBSET Threads] /\ unseen'[c] = U
       /\ \A d \in Consumers \ {c} : unseen'[d] = unseen[d]
  BY <1>1, <1>7, <1>9 DEF TypeOK
<1>15. TypeOK'
  BY <1>1, <1>9, <1>13, <1>14 DEF TypeOK
<1>16. Tracked'
  <2>1. U \subseteq ToSet(producerList)
    BY <1>7, <1>10
  <2> QED BY <1>1, <1>9, <1>12, <1>13, <1>14, <2>1, StillTracked DEF SameTrack
<1>17. Undisturbed'
  <2>1. ASSUME NEW q \in Threads, CanFind(c, q) PROVE CanFind(c, q)'
    <3>1. q \in U
      <4>1. q \in unseen[c] /\ (p = q => headIndex[p] < cons[c].tail)
        BY <1>2, <1>3, <1>4, <2>1 DEF CanFind
      <4>2. headIndex[p] \in Nat /\ cons[c].tail \in Nat
        BY <1>1, <1>2 DEF TypeOK, State
      <4> QED BY <1>6, <1>7, <4>1, <4>2
    <3> QED BY <1>9, <1>12, <1>13, <1>14, <2>1, <3>1 DEF CanFind, At
  <2> QED BY <1>1, <1>2, <1>3, <1>9, <1>13, <2>1, StillUndisturbed DEF At
<1> QED BY <1>12, <1>13, <1>15, <1>16, <1>17 DEF QueueInv, Asking, Scoring, Trying

\* The producer's dequeue() may find nothing only if it is empty, or another is running.
LEMMA DequeueKeeps ==
  ASSUME QueueInv, NEW c \in Consumers, Dequeue(c)
  PROVE  /\ QueueInv'
         /\ cons'[c].pc \in Asking
         /\ \A d \in Consumers \ {c} : cons'[d].pc = cons[d].pc /\ cons'[d].got = cons[d].got
<1>1. TypeOK /\ Tracked /\ Undisturbed
  BY DEF QueueInv
<1>2. PICK me \in State : me = cons[c]
  BY <1>1 DEF TypeOK
<1>3. At(c, "dequeue") /\ me.pc = "dequeue"
  BY <1>2 DEF Dequeue, At
<1>4. PICK p \in Threads : p = Head(me.ptr)
  BY <1>1, <1>2, <1>3, AtHand DEF Trying
<1>5. PICK others : others = {d \in Consumers \ {c} : At(d, "dequeuing") /\ Head(cons[d].ptr) = p}
  OBVIOUS
<1>6. PICK may \in BOOLEAN : may = (EmptyStream(p) \/ others # {})
  BY DEF EmptyStream
<1>7. PICK new : new = [me EXCEPT !.pc = "dequeuing", !.missable = may]
  OBVIOUS
<1>8. new \in State
  BY <1>7 DEF State, Asking, Trying
<1>9. /\ new.pc = "dequeuing" /\ new.missable = may /\ new.ptr = me.ptr
      /\ new.nonEmptyCount = me.nonEmptyCount /\ new.best = me.best
      /\ new.bestSize = me.bestSize
  BY <1>7 DEF State
<1>10. /\ cons' = [d \in Consumers |->
                     IF d = c THEN new
                     ELSE IF d \in others THEN [cons[d] EXCEPT !.missable = TRUE]
                     ELSE cons[d]]
       /\ mayMiss' = mayMiss /\ unseen' = unseen
       /\ producerList' = producerList /\ tailIndex' = tailIndex /\ headIndex' = headIndex
  BY <1>2, <1>4, <1>5, <1>6, <1>7 DEF Dequeue
<1>11. cons'[c] = new
  BY <1>10
<1>12. ASSUME NEW d \in Consumers \ {c}
       PROVE  cons'[d] \in State /\ SameTrack(d)
  <2>1. cons[d] \in State /\ (cons'[d] = cons[d] \/ cons'[d] = [cons[d] EXCEPT !.missable = TRUE])
    BY <1>1, <1>10 DEF TypeOK
  <2> QED BY <2>1 DEF State, SameTrack
<1>13. cons' \in [Consumers -> State]
  BY <1>8, <1>10, <1>11, <1>12
<1>14. TypeOK'
  BY <1>1, <1>10, <1>13 DEF TypeOK
<1>15. OnTrack(new, unseen[c])
  <2>1. OnTrack(me, unseen[c])
    BY <1>1, <1>2 DEF Tracked
  <2> QED BY <1>3, <1>9, <2>1 DEF OnTrack, Scoring, Trying
<1>16. Tracked'
  <2>1. unseen[c] \subseteq ToSet(producerList)
    BY <1>1 DEF Tracked
  <2> QED BY <1>1, <1>10, <1>11, <1>12, <1>15, <2>1, StillTracked
<1>17. Undisturbed'
  <2>1. ASSUME ~mayMiss[c], NEW q \in Threads, CanFind(c, q) PROVE CanFind(c, q)'
    <3>1. others = {}
      BY <1>1, <1>3, <1>5, <2>1 DEF Undisturbed, At
    <3>2. p = q => ~may
      BY <1>1, <1>6, <2>1, <3>1 DEF CanFind, EmptyStream, TypeOK
    <3> QED BY <1>4, <1>9, <1>10, <1>11, <2>1, <3>2 DEF CanFind, At
  <2> QED BY <1>1, <1>2, <1>3, <1>10, <1>12, <2>1, StillUndisturbed DEF At, SameTrack
<1> QED BY <1>9, <1>11, <1>12, <1>14, <1>16, <1>17 DEF QueueInv, Asking, Trying, SameTrack

\* What was taken is the caller's; the others are disturbed.
LEMMA DequeueTakesKeeps ==
  ASSUME QueueInv, NEW c \in Consumers, DequeueTakes(c), NEW p, p = Head(cons[c].ptr)
  PROVE  /\ QueueInv'
         /\ p \in Threads /\ headIndex[p] < tailIndex[p] /\ cons[c].pc \in Asking
         /\ headIndex' = [headIndex EXCEPT ![p] = @ + 1]
         /\ cons'[c].pc = "took" /\ cons'[c].got = <<"took", p, headIndex[p]>>
         /\ \A d \in Consumers \ {c} : cons'[d] = cons[d]
<1>1. TypeOK /\ Tracked /\ Undisturbed
  BY DEF QueueInv
<1>2. At(c, "dequeuing") /\ cons[c].pc = "dequeuing"
  BY DEF DequeueTakes, At
<1>3. p \in Threads
  BY <1>1, <1>2, AtHand DEF Trying
<1>4. PICK h \in Nat : h = headIndex[p]
  BY <1>1, <1>3 DEF TypeOK
<1>5. PICK new : new = [Idle EXCEPT !.pc = "took", !.got = <<"took", p, h>>]
  OBVIOUS
<1>6. new \in State /\ new.pc = "took" /\ new.got = <<"took", p, h>>
  <2>1. PICK g \in {"took"} \X Threads \X Nat : g = <<"took", p, h>>
    BY <1>3
  <2>2. new = [Idle EXCEPT !.pc = "took", !.got = g]
    BY <1>5, <2>1
  <2>3. Idle \in State
    BY DEF Idle, State
  <2>4. new \in State /\ new.pc = "took" /\ new.got = g
    BY <2>2, <2>3 DEF State
  <2> QED BY <2>1, <2>4
<1>7. /\ cons' = [cons EXCEPT ![c] = new] /\ headIndex' = [headIndex EXCEPT ![p] = @ + 1]
      /\ mayMiss' = mayMiss /\ unseen' = unseen
      /\ producerList' = producerList /\ tailIndex' = tailIndex /\ headIndex[p] # tailIndex[p]
  BY <1>4, <1>5 DEF DequeueTakes, Goes, EmptyStream
<1>8. /\ cons' \in [Consumers -> State] /\ cons'[c] = new
      /\ \A d \in Consumers \ {c} : cons'[d] = cons[d]
  BY <1>1, <1>6, <1>7, GoesTo
<1>9. headIndex \in [Threads -> Nat] /\ tailIndex \in [Threads -> Nat]
      /\ \A q \in Threads : headIndex[q] <= tailIndex[q]
  BY <1>1 DEF TypeOK
<1>10. headIndex[p] < tailIndex[p]
  BY <1>3, <1>7, <1>9
<1>11. headIndex' \in [Threads -> Nat] /\ \A q \in Threads : headIndex'[q] <= tailIndex[q]
  BY <1>3, <1>7, <1>9, <1>10
<1>12. TypeOK'
  BY <1>1, <1>7, <1>8, <1>11 DEF TypeOK
<1>13. OnTrack(new, unseen[c])
  BY <1>6 DEF OnTrack, Scoring, Trying
<1>14. Tracked'
  <2>1. unseen[c] \subseteq ToSet(producerList)
    BY <1>1 DEF Tracked
  <2> QED BY <1>1, <1>7, <1>8, <1>13, <2>1, StillTracked DEF SameTrack
<1>15. Undisturbed'
  BY <1>1, <1>2, <1>6, <1>7, <1>8, StillUndisturbed DEF At
<1> QED BY <1>2, <1>3, <1>4, <1>6, <1>7, <1>8, <1>10, <1>12, <1>14, <1>15
        DEF QueueInv, Asking, Trying

\* After the best has been found empty all others are tried, after one of these the rest.
LEMMA DequeueMissesKeeps ==
  ASSUME QueueInv, NEW c \in Consumers, DequeueMisses(c)
  PROVE  /\ QueueInv'
         /\ cons[c].pc \in Asking /\ cons'[c].pc \in Asking
         /\ \A d \in Consumers \ {c} : cons'[d] = cons[d]
<1>1. TypeOK /\ Tracked /\ Undisturbed
  BY DEF QueueInv
<1>2. PICK me \in State : me = cons[c]
  BY <1>1 DEF TypeOK
<1>3. At(c, "dequeuing") /\ me.pc = "dequeuing" /\ me.missable
  BY <1>2 DEF DequeueMisses, At
<1>4. PICK p \in Threads : p = Head(me.ptr)
  BY <1>1, <1>2, <1>3, AtHand DEF Trying
<1>5. PICK others : others = Others(c)
  OBVIOUS
<1>6. PICK U : U = unseen[c] \ {p}
  OBVIOUS
<1>7. others \in Seq(Threads) /\ U \subseteq ToSet(others)
  <2>1. OnTrack(me, unseen[c]) /\ unseen[c] \subseteq ToSet(producerList)
    BY <1>1, <1>2 DEF Tracked
  <2>2. me.nonEmptyCount \in Nat /\ producerList \in Seq(Threads)
    BY <1>1 DEF State, TypeOK
  <2>3. CASE me.nonEmptyCount = 0
    <3>1. others = Tail(me.ptr)
      BY <1>2, <1>5, <2>3 DEF Others
    <3>2. unseen[c] \subseteq ToSet(me.ptr)
      BY <1>3, <2>1, <2>3 DEF OnTrack, Trying
    <3> QED BY <1>1, <1>2, <1>3, <1>4, <1>6, <3>1, <3>2, AtHand DEF Trying
  <2>4. CASE me.nonEmptyCount # 0
    <3>1. me.ptr = <<me.best>>
      BY <1>3, <2>1, <2>4 DEF OnTrack, Trying
    <3>2. p = me.best
      BY <1>4, <3>1
    <3>3. others = RemoveFirst(producerList, p)
      BY <1>2, <1>5, <2>2, <2>4, <3>2 DEF Others
    <3> QED BY <1>6, <2>1, <2>2, <3>3, AllButFirst
  <2> QED BY <2>3, <2>4
<1>8. PICK pc : pc = IF others = <<>> THEN "missed" ELSE "dequeue"
  OBVIOUS
<1>9. PICK new : new = [me EXCEPT !.pc = pc, !.ptr = others, !.nonEmptyCount = 0]
  OBVIOUS
<1>10. pc \in {"missed", "dequeue"} /\ pc \in {"idle", "took"} \cup Asking
  BY <1>8 DEF Asking, Trying
<1>11. /\ new \in State /\ new.pc = pc /\ new.ptr = others /\ new.nonEmptyCount = 0
  BY <1>7, <1>9, <1>10 DEF State
<1>12. /\ cons' = [cons EXCEPT ![c] = new] /\ unseen' = [unseen EXCEPT ![c] = @ \ {p}]
       /\ mayMiss' = mayMiss
       /\ producerList' = producerList /\ tailIndex' = tailIndex /\ headIndex' = headIndex
  BY <1>2, <1>4, <1>5, <1>8, <1>9 DEF DequeueMisses, Goes
<1>13. /\ cons' \in [Consumers -> State] /\ cons'[c] = new
       /\ \A d \in Consumers \ {c} : cons'[d] = cons[d]
  BY <1>1, <1>11, <1>12, GoesTo
<1>14. /\ unseen' \in [Consumers -> SUBSET Threads] /\ unseen'[c] = U
       /\ \A d \in Consumers \ {c} : unseen'[d] = unseen[d]
  BY <1>1, <1>6, <1>12 DEF TypeOK
<1>15. TypeOK'
  BY <1>1, <1>12, <1>13, <1>14 DEF TypeOK
<1>16. OnTrack(new, U)
  <2>1. pc = "missed" => U = {}
    <3>1. ToSet(<<>>) = {}
      BY DEF ToSet
    <3> QED BY <1>7, <1>8, <3>1
  <2>2. pc = "dequeue" => others # <<>>
    BY <1>8
  <2> QED BY <1>7, <1>10, <1>11, <2>1, <2>2 DEF OnTrack, Scoring, Trying
<1>17. Tracked'
  <2>1. U \subseteq ToSet(producerList)
    BY <1>1, <1>6 DEF Tracked
  <2> QED BY <1>1, <1>12, <1>13, <1>14, <1>16, <2>1, StillTracked DEF SameTrack
<1>18. Undisturbed'
  <2>1. ASSUME NEW q \in Threads, CanFind(c, q) PROVE CanFind(c, q)'
    <3>1. q # p /\ q \in U
      BY <1>2, <1>3, <1>4, <1>6, <2>1 DEF CanFind
    <3> QED BY <1>10, <1>11, <1>12, <1>13, <1>14, <2>1, <3>1 DEF CanFind, At
  <2> QED BY <1>1, <1>2, <1>3, <1>12, <1>13, <2>1, StillUndisturbed DEF At
<1> QED BY <1>2, <1>3, <1>10, <1>11, <1>13, <1>15, <1>17, <1>18 DEF QueueInv, Asking, Trying

\* A call that may not miss does not: there would be a producer that it has not found empty.
LEMMA ReturnKeeps ==
  ASSUME QueueInv, NEW c \in Consumers, Return(c)
  PROVE  /\ QueueInv'
         /\ cons'[c].pc = "idle" /\ \A d \in Consumers \ {c} : cons'[d] = cons[d]
         /\ At(c, "missed") => mayMiss[c]
<1>1. TypeOK /\ Tracked /\ Undisturbed
  BY DEF QueueInv
<1>2. /\ cons' = [cons EXCEPT ![c] = Idle] /\ unseen' = [unseen EXCEPT ![c] = {}]
      /\ mayMiss' = [mayMiss EXCEPT ![c] = FALSE]
      /\ producerList' = producerList /\ tailIndex' = tailIndex /\ headIndex' = headIndex
      /\ At(c, "took") \/ At(c, "missed")
  BY DEF Return, Goes
<1>3. Idle \in State /\ Idle.pc = "idle"
  BY DEF Idle, State
<1>4. /\ cons' \in [Consumers -> State] /\ cons'[c] = Idle
      /\ \A d \in Consumers \ {c} : cons'[d] = cons[d]
  BY <1>1, <1>2, <1>3, GoesTo
<1>5. /\ unseen' \in [Consumers -> SUBSET Threads] /\ unseen'[c] = {}
      /\ \A d \in Consumers \ {c} : unseen'[d] = unseen[d]
      /\ mayMiss' \in [Consumers -> BOOLEAN]
      /\ \A d \in Consumers \ {c} : mayMiss'[d] = mayMiss[d]
  BY <1>1, <1>2 DEF TypeOK
<1>6. TypeOK'
  BY <1>1, <1>2, <1>4, <1>5 DEF TypeOK
<1>7. OnTrack(Idle, {})
  BY <1>3 DEF OnTrack, Scoring, Trying
<1>8. Tracked'
  BY <1>1, <1>2, <1>4, <1>5, <1>7, StillTracked DEF SameTrack
<1>9. ASSUME NEW d \in Consumers, ~At(d, "idle")', ~mayMiss'[d] PROVE FALSE
  <2>1. d # c /\ ~At(d, "idle") /\ ~mayMiss[d]
    BY <1>3, <1>4, <1>5, <1>9 DEF At
  <2>2. At(c, "idle")
    BY <1>1, <2>1 DEF Undisturbed
  <2> QED BY <1>2, <2>2 DEF At
<1>10. Undisturbed'
  BY <1>9 DEF Undisturbed
<1>11. ASSUME At(c, "missed"), ~mayMiss[c] PROVE FALSE
  <2>1. PICK p \in Threads : CanFind(c, p)
    BY <1>1, <1>11 DEF Undisturbed, At
  <2>2. unseen[c] = {}
    BY <1>1, <1>11 DEF Tracked, OnTrack, At
  <2> QED BY <2>1, <2>2 DEF CanFind
<1> QED BY <1>3, <1>4, <1>6, <1>8, <1>10, <1>11 DEF QueueInv

\* Every step keeps the invariant.
LEMMA QueueGoesOn == QueueInv /\ [Next]_vars => QueueInv'
<1> SUFFICES ASSUME QueueInv, [Next]_vars PROVE QueueInv'
  OBVIOUS
<1>1. ASSUME NEW t \in Threads, AddProducer(t) \/ Enqueue(t) PROVE QueueInv'
  BY <1>1, AddProducerKeeps, EnqueueKeeps
<1>2. ASSUME NEW c \in Consumers,
             \/ TryDequeue(c) \/ LoadTail(c) \/ LoadHead(c) \/ Dequeue(c)
             \/ DequeueTakes(c) \/ DequeueMisses(c) \/ Return(c)
      PROVE  QueueInv'
  BY <1>2, TryDequeueKeeps, LoadTailKeeps, LoadHeadKeeps, DequeueKeeps, DequeueTakesKeeps,
     DequeueMissesKeeps, ReturnKeeps
<1>3. CASE UNCHANGED vars
  BY <1>3 DEF vars, QueueInv, TypeOK, Tracked, OnTrack, Undisturbed, CanFind, At
<1> QED BY <1>1, <1>2, <1>3 DEF Next

\* For any threads that put messages in and any consumers, in any interleaving.
THEOREM QueueInvariant == Spec => []QueueInv
BY QueueBegins, QueueGoesOn, PTL DEF Spec

\* try_dequeue() returns false only after it has found each producer empty that there was
\* when it was called.
THEOREM AllChecked == Spec => []EveryProducerChecked
<1>1. QueueInv => EveryProducerChecked
  BY DEF QueueInv, Tracked, OnTrack, EveryProducerChecked, At
<1> QED BY <1>1, QueueInvariant, PTL

-----------------------------------------------------------------------------
(* The queue is the streams of its producers. *)

\* What a stream has after its producer has put a message in, and after one was taken.
LEMMA ItemsPut ==
  ASSUME NEW h \in Nat, NEW t \in Nat, h <= t
  PROVE  [k \in 1 .. (t + 1) - h |-> h + k - 1]
           = Append([k \in 1 .. t - h |-> h + k - 1], t)
<1>1. PICK n \in Nat : n = t - h
  OBVIOUS
<1>2. (t + 1) - h = n + 1 /\ t = h + (n + 1) - 1
  BY <1>1
<1> DEFINE s == [k \in 1 .. n |-> h + k - 1]
           r == [k \in 1 .. n + 1 |-> h + k - 1]
<1>3. s \in Seq(Nat) /\ Len(s) = n /\ r \in Seq(Nat) /\ Len(r) = n + 1
  OBVIOUS
<1>4. \A k \in 1 .. n + 1 : r[k] = Append(s, t)[k]
  BY <1>2, <1>3
<1>5. Append(s, t) \in Seq(Nat) /\ Len(Append(s, t)) = n + 1
  BY <1>3
<1> HIDE DEF s, r
<1>6. r = Append(s, t)
  BY <1>3, <1>4, <1>5, SeqEqual
<1> QED BY <1>1, <1>2, <1>6 DEF s, r

LEMMA ItemsTaken ==
  ASSUME NEW h \in Nat, NEW t \in Nat, h < t
  PROVE  LET s == [k \in 1 .. t - h |-> h + k - 1] IN
         /\ s # <<>> /\ Head(s) = h
         /\ [k \in 1 .. t - (h + 1) |-> (h + 1) + k - 1] = Tail(s)
<1>1. PICK n \in Nat : n = t - (h + 1)
  OBVIOUS
<1>2. t - h = n + 1
  BY <1>1
<1> DEFINE s == [k \in 1 .. n + 1 |-> h + k - 1]
           r == [k \in 1 .. n |-> (h + 1) + k - 1]
<1>3. s \in Seq(Nat) /\ Len(s) = n + 1 /\ r \in Seq(Nat) /\ Len(r) = n /\ s[1] = h
  OBVIOUS
<1>4. /\ s # <<>> /\ Head(s) = h /\ Tail(s) \in Seq(Nat) /\ Len(Tail(s)) = n
      /\ \A k \in 1 .. n : Tail(s)[k] = s[k + 1]
  <2> HIDE DEF s
  <2> QED BY <1>3
<1>5. \A k \in 1 .. n : r[k] = Tail(s)[k]
  BY <1>4
<1> HIDE DEF s, r
<1>6. r = Tail(s)
  BY <1>3, <1>4, <1>5, SeqEqual
<1> QED BY <1>1, <1>2, <1>4, <1>6 DEF s, r

\* What is seen of the queue from outside.
items == [p \in Threads |-> Items(p)]
call == [c \in Consumers |-> CallOf(c)]

\* At first all streams are empty.
LEMMA StreamsBegin == Init => Stream!Init
<1> SUFFICES ASSUME Init PROVE Stream!Init
  OBVIOUS
<1>1. \A p \in Threads : Items(p) = <<>>
  BY ItemsAre, QueueBegins DEF QueueInv, Init
<1>2. \A c \in Consumers : CallOf(c) = <<"idle">>
  BY CallIs, QueueBegins DEF QueueInv, Init, Idle, At
<1> QED BY <1>1, <1>2 DEF Stream!Init, Items, Init

\* A step in which the streams and what the callers have stay the same.
LEMMA CallsStay ==
  ASSUME QueueInv, QueueInv', tailIndex' = tailIndex, headIndex' = headIndex, mayMiss' = mayMiss,
         \A c \in Consumers : \/ cons'[c].pc = cons[c].pc /\ cons'[c].got = cons[c].got
                              \/ cons[c].pc \in Asking /\ cons'[c].pc \in Asking
  PROVE  UNCHANGED Stream!vars
<1>1. ASSUME NEW c \in Consumers PROVE CallOf(c)' = CallOf(c)
  <2>1. CASE cons'[c].pc = cons[c].pc /\ cons'[c].got = cons[c].got
    BY <2>1 DEF CallOf, At
  <2>2. CASE cons[c].pc \in Asking /\ cons'[c].pc \in Asking
    <3>1. CallOf(c) = <<"asking">>
      BY <2>2, CallIs DEF QueueInv
    <3>2. cons'[c].pc # "idle" /\ cons'[c].pc # "took"
      BY <2>2 DEF Asking, Scoring, Trying
    <3>3. CallOf(c)' = <<"asking">>
      BY <3>2 DEF CallOf, At
    <3> QED BY <3>1, <3>3
  <2> QED BY <1>1, <2>1, <2>2
<1>2. call' = call
  BY <1>1 DEF call
<1>3. items' = items
  BY DEF items, Items
<1> QED BY <1>2, <1>3 DEF Stream!vars, items, call, Items

\* A message is put into its producer's stream.
LEMMA EnqueuePuts ==
  ASSUME QueueInv, NEW t \in Threads, Enqueue(t)
  PROVE  Stream!Put(t)
<1>1. /\ tailIndex' = [tailIndex EXCEPT ![t] = @ + 1]
      /\ headIndex' = headIndex /\ cons' = cons /\ mayMiss' = mayMiss
  BY DEF Enqueue
<1>2. tailIndex \in [Threads -> Nat] /\ headIndex \in [Threads -> Nat] /\ headIndex[t] <= tailIndex[t]
  BY DEF QueueInv, TypeOK
<1>3. \A p \in Threads : tailIndex'[p] = IF p = t THEN tailIndex[p] + 1 ELSE tailIndex[p]
  BY <1>1, <1>2
<1>4. Items(t)' = Append(Items(t), tailIndex[t])
  <2>1. [k \in 1 .. (tailIndex[t] + 1) - headIndex[t] |-> headIndex[t] + k - 1]
          = Append([k \in 1 .. tailIndex[t] - headIndex[t] |-> headIndex[t] + k - 1], tailIndex[t])
    BY <1>2, ItemsPut
  <2>2. tailIndex'[t] = tailIndex[t] + 1 /\ headIndex' = headIndex
    BY <1>1, <1>3
  <2> QED BY <2>1, <2>2 DEF Items
<1>5. \A p \in Threads : p # t => Items(p)' = Items(p)
  BY <1>1, <1>3 DEF Items
<1>6. items' = [items EXCEPT ![t] = Append(@, tailIndex[t])]
  BY <1>4, <1>5 DEF items
<1>7. call' = call
  BY <1>1 DEF call, CallOf, At
<1> QED BY <1>1, <1>6, <1>7 DEF Stream!Put, items, call, Items

\* A call begins.
LEMMA TryDequeueAsks ==
  ASSUME QueueInv, NEW c \in Consumers, TryDequeue(c)
  PROVE  Stream!Ask(c)
<1>1. /\ At(c, "idle") /\ tailIndex' = tailIndex /\ headIndex' = headIndex
      /\ mayMiss' = Stream!Overlap(c)
  BY DEF TryDequeue
<1>2. cons'[c].pc \in Asking /\ \A d \in Consumers \ {c} : cons'[d] = cons[d]
  BY TryDequeueKeeps
<1>3. CallOf(c) = <<"idle">>
  BY <1>1, CallIs DEF QueueInv
<1>4. CallOf(c)' = <<"asking">>
  BY <1>2 DEF CallOf, At, Asking, Scoring, Trying
<1>5. \A d \in Consumers \ {c} : CallOf(d)' = CallOf(d)
  BY <1>2 DEF CallOf, At
<1>6. call[c] = <<"idle">> /\ call' = [call EXCEPT ![c] = <<"asking">>]
  BY <1>3, <1>4, <1>5 DEF call
<1>7. items' = items
  BY <1>1 DEF items, Items
<1> QED BY <1>1, <1>6, <1>7 DEF Stream!Ask, items, call, Items

\* The message that is taken is the first of its producer's stream.
LEMMA DequeueTakesTakes ==
  ASSUME QueueInv, NEW c \in Consumers, DequeueTakes(c)
  PROVE  \E p \in Threads : Stream!Take(c, p)
<1>1. PICK p : p = Head(cons[c].ptr)
  OBVIOUS
<1>2. /\ p \in Threads /\ headIndex[p] < tailIndex[p] /\ cons[c].pc \in Asking
      /\ headIndex' = [headIndex EXCEPT ![p] = @ + 1]
      /\ cons'[c].pc = "took" /\ cons'[c].got = <<"took", p, headIndex[p]>>
      /\ \A d \in Consumers \ {c} : cons'[d] = cons[d]
  BY <1>1, DequeueTakesKeeps
<1>3. tailIndex' = tailIndex /\ mayMiss' = mayMiss
  BY DEF DequeueTakes
<1>4. tailIndex \in [Threads -> Nat] /\ headIndex \in [Threads -> Nat]
  BY DEF QueueInv, TypeOK
<1>5. \A q \in Threads : headIndex'[q] = IF q = p THEN headIndex[q] + 1 ELSE headIndex[q]
  BY <1>2, <1>4
<1>6. Items(p) # <<>> /\ Head(Items(p)) = headIndex[p] /\ Items(p)' = Tail(Items(p))
  <2>1. LET s == [k \in 1 .. tailIndex[p] - headIndex[p] |-> headIndex[p] + k - 1] IN
        /\ s # <<>> /\ Head(s) = headIndex[p]
        /\ [k \in 1 .. tailIndex[p] - (headIndex[p] + 1) |-> (headIndex[p] + 1) + k - 1] = Tail(s)
    BY <1>2, <1>4, ItemsTaken
  <2>2. headIndex'[p] = headIndex[p] + 1 /\ tailIndex' = tailIndex
    BY <1>2, <1>3, <1>5
  <2> QED BY <2>1, <2>2 DEF Items
<1>7. \A q \in Threads : q # p => Items(q)' = Items(q)
  BY <1>3, <1>5 DEF Items
<1>8. items[p] # <<>> /\ Head(items[p]) = headIndex[p] /\ items' = [items EXCEPT ![p] = Tail(@)]
  BY <1>2, <1>6, <1>7 DEF items
<1>9. CallOf(c) = <<"asking">>
  BY <1>2, CallIs DEF QueueInv
<1>10. CallOf(c)' = <<"took", p, headIndex[p]>>
  BY <1>2 DEF CallOf, At
<1>11. \A d \in Consumers \ {c} : CallOf(d)' = CallOf(d)
  BY <1>2 DEF CallOf, At
<1>12. call[c] = <<"asking">> /\ call' = [call EXCEPT ![c] = <<"took", p, headIndex[p]>>]
  BY <1>9, <1>10, <1>11 DEF call
<1>13. Stream!Take(c, p)
  BY <1>3, <1>8, <1>12 DEF Stream!Take, items, call, Items
<1> QED BY <1>2, <1>13

\* A call ends with its message; or without, when it may.
LEMMA ReturnAnswers ==
  ASSUME QueueInv, NEW c \in Consumers, Return(c)
  PROVE  Stream!Answer(c) \/ Stream!Miss(c)
<1>1. /\ At(c, "took") \/ At(c, "missed")
      /\ tailIndex' = tailIndex /\ headIndex' = headIndex /\ mayMiss' = [mayMiss EXCEPT ![c] = FALSE]
  BY DEF Return
<1>2. /\ cons'[c].pc = "idle" /\ \A d \in Consumers \ {c} : cons'[d] = cons[d]
      /\ At(c, "missed") => mayMiss[c]
  BY ReturnKeeps
<1>3. CallOf(c)' = <<"idle">>
  BY <1>2 DEF CallOf, At
<1>4. \A d \in Consumers \ {c} : CallOf(d)' = CallOf(d)
  BY <1>2 DEF CallOf, At
<1>5. call' = [call EXCEPT ![c] = <<"idle">>]
  BY <1>3, <1>4 DEF call
<1>6. items' = items
  BY <1>1 DEF items, Items
<1>7. Stream!Returns(c)
  BY <1>1, <1>5, <1>6 DEF Stream!Returns, items, call, Items
<1>8. CASE At(c, "took")
  <2>1. ~At(c, "idle") /\ cons[c].pc \notin Asking
    BY <1>8 DEF At, Asking, Scoring, Trying
  <2>2. call[c] # <<"idle">> /\ call[c] # <<"asking">>
    BY <2>1, CallIs DEF QueueInv, call
  <2> QED BY <1>7, <2>2 DEF Stream!Answer, call
<1>9. CASE At(c, "missed")
  <2>1. call[c] = <<"asking">>
    BY <1>9, CallIs DEF QueueInv, call, At, Asking
  <2> QED BY <1>2, <1>7, <1>9, <2>1 DEF Stream!Miss, call
<1> QED BY <1>1, <1>8, <1>9

\* The steps in between are not seen.
LEMMA StreamsGoOn == QueueInv /\ QueueInv' /\ [Next]_vars => [Stream!Next]_Stream!vars
<1> SUFFICES ASSUME QueueInv, QueueInv', [Next]_vars
             PROVE  Stream!Next \/ UNCHANGED Stream!vars
  OBVIOUS
<1>1. ASSUME NEW t \in Threads, AddProducer(t) PROVE UNCHANGED Stream!vars
  BY <1>1, CallsStay DEF AddProducer
<1>2. ASSUME NEW t \in Threads, Enqueue(t) PROVE Stream!Next
  BY <1>2, EnqueuePuts DEF Stream!Next
<1>3. ASSUME NEW c \in Consumers, TryDequeue(c) PROVE Stream!Next
  BY <1>3, TryDequeueAsks DEF Stream!Next
<1>4. ASSUME NEW c \in Consumers, LoadTail(c) PROVE UNCHANGED Stream!vars
  <2>1. cons'[c].pc \in Asking /\ \A d \in Consumers \ {c} : cons'[d] = cons[d]
    BY <1>4, LoadTailKeeps
  <2>2. tailIndex' = tailIndex /\ headIndex' = headIndex /\ mayMiss' = mayMiss /\ cons[c].pc \in Asking
    BY <1>4 DEF LoadTail, At, Asking, Scoring
  <2> QED BY <2>1, <2>2, CallsStay
<1>5. ASSUME NEW c \in Consumers, LoadHead(c) PROVE UNCHANGED Stream!vars
  <2>1. cons'[c].pc \in Asking /\ \A d \in Consumers \ {c} : cons'[d] = cons[d]
    BY <1>5, LoadHeadKeeps
  <2>2. tailIndex' = tailIndex /\ headIndex' = headIndex /\ mayMiss' = mayMiss /\ cons[c].pc \in Asking
    BY <1>5 DEF LoadHead, At, Asking, Scoring
  <2> QED BY <2>1, <2>2, CallsStay
<1>6. ASSUME NEW c \in Consumers, Dequeue(c) PROVE UNCHANGED Stream!vars
  <2>1. /\ cons'[c].pc \in Asking
        /\ \A d \in Consumers \ {c} : cons'[d].pc = cons[d].pc /\ cons'[d].got = cons[d].got
    BY <1>6, DequeueKeeps
  <2>2. tailIndex' = tailIndex /\ headIndex' = headIndex /\ mayMiss' = mayMiss /\ cons[c].pc \in Asking
    BY <1>6 DEF Dequeue, At, Asking, Trying
  <2> QED BY <2>1, <2>2, CallsStay
<1>7. ASSUME NEW c \in Consumers, DequeueTakes(c) PROVE Stream!Next
  BY <1>7, DequeueTakesTakes DEF Stream!Next
<1>8. ASSUME NEW c \in Consumers, DequeueMisses(c) PROVE UNCHANGED Stream!vars
  <2>1. /\ cons[c].pc \in Asking /\ cons'[c].pc \in Asking
        /\ \A d \in Consumers \ {c} : cons'[d] = cons[d]
    BY <1>8, DequeueMissesKeeps
  <2>2. tailIndex' = tailIndex /\ headIndex' = headIndex /\ mayMiss' = mayMiss
    BY <1>8 DEF DequeueMisses
  <2> QED BY <2>1, <2>2, CallsStay
<1>9. ASSUME NEW c \in Consumers, Return(c) PROVE Stream!Next
  BY <1>9, ReturnAnswers DEF Stream!Next
<1>10. CASE UNCHANGED vars
  BY <1>10, CallsStay DEF vars
<1> QED BY <1>1, <1>2, <1>3, <1>4, <1>5, <1>6, <1>7, <1>8, <1>9, <1>10 DEF Next

\* msgQueue is the streams of the threads that use it: of each the messages are taken once
\* and in order, and a try_dequeue() that no other overlaps, like the console's, returns
\* false only if there was nothing when it was called.
THEOREM QueueImplementsStreams == Spec => ImplementsStreams
<1>1. Init => Stream!Init
  BY StreamsBegin
<1>2. QueueInv /\ QueueInv' /\ [Next]_vars => [Stream!Next]_Stream!vars
  BY StreamsGoOn
<1> QED BY <1>1, <1>2, QueueInvariant, PTL DEF Spec, ImplementsStreams, Stream!Spec

-----------------------------------------------------------------------------
(* The hash table of the producers: its inductive invariant. *)

Slots(table) == 0 .. table.capacity - 1

TablesOf(n) == [capacity : {n}, keys : [0 .. n - 1 -> Ids \cup {Empty}],
                values : [0 .. n - 1 -> Nat \cup {Null}]]

\* The tables there can be.
Table == UNION {TablesOf(n) : n \in {m \in Nat : m >= 2}}

\* A probe of the table ends.
HasRoom(table) == \E i \in Slots(table) : table.keys[i] = Empty

Has(table, id) == \E i \in Slots(table) : table.keys[i] = id

\* The producer that the table has for id.
HeldAt(table, id, p) == \E i \in Slots(table) : table.keys[i] = id /\ table.values[i] = p

\* Where a key is, no slot was free that is probed before, nor did one have the key.
Probed(table) ==
  \A id \in Ids, i \in Slots(table) : table.keys[i] = id =>
    \E k \in 1 .. table.capacity :
      /\ Probe(table, id)[k] = i
      /\ \A j \in 1 .. k - 1 : table.keys[Probe(table, id)[j]] \notin {id, Empty}

\* Where a caller has the lock, and where it is counted and not yet in a table.
Resizing == {"reload", "allocate", "unlock"}
Counted == {"grow", "room", "create", "push", "insert"} \cup Resizing
CallerState ==
  [pc : {"idle", "search", "copy", "count"} \cup Counted, main : Nat, hash : Nat,
   newCount : Nat, producer : Nat \cup {Null}, prevTail : Seq(Nat)]

\* Every variable has its type.
HashTypes ==
  /\ tables \in Seq(Table) /\ tables # <<>>
  /\ implicitProducerHashCount \in Nat
  /\ resizing \in BOOLEAN
  /\ created \in Nat /\ producerListTail \in Seq(1 .. created)
  /\ caller \in [Ids -> CallerState]
  /\ results \in [Ids -> Seq(Nat \cup {Null})]
  /\ failures \in Nat

\* id is in a table above this one.
Above(id, n) == \E k \in DOMAIN tables : k > n /\ Has(tables[k], id)

\* Where a caller is in the tables.
Place(id) ==
  LET me == caller[id] IN
  /\ me.pc # "idle" => me.main \in DOMAIN tables
  /\ me.pc = "search" => me.hash \in 1 .. me.main /\ ~Above(id, me.hash)
  /\ me.pc = "copy" => /\ me.hash \in 1 .. me.main - 1 /\ ~Above(id, me.hash)
                       /\ HeldAt(tables[me.hash], id, me.producer)
  /\ me.pc \in Counted \cup {"count"} => ~Above(id, 0)
  /\ me.pc \in Counted => me.newCount > 0
  /\ me.pc = "allocate" => me.main = Len(tables)
  /\ me.pc \in {"create", "push", "insert"} =>
       me.newCount < ThreeQuarters(tables[me.main])

\* One thread at a time resizes.
Locked == \A id \in Ids : caller[id].pc \in Resizing =>
            resizing /\ \A other \in Ids : caller[other].pc \in Resizing => other = id

\* Probes reach what is in the tables, which only grow.
Shape ==
  /\ \A k \in DOMAIN tables : Probed(tables[k])
  /\ \A j, k \in DOMAIN tables : j <= k => tables[j].capacity <= tables[k].capacity

\* The producer that a table has for id.
Held(id, p) == \E k \in DOMAIN tables : HeldAt(tables[k], id, p)

\* The producer it has made, and has not yet put in a table.
Makes(id, p) == caller[id].pc \in {"push", "insert"} /\ caller[id].producer = p

Owns(id, p) == Held(id, p) \/ Makes(id, p)

Listed(p) == p \in ToSet(producerListTail)

\* A producer is of one id, an id has one producer.
OneOwner ==
  \A id, other \in Ids, p, q \in Nat \cup {Null} :
    Owns(id, p) /\ Owns(other, q) => (id = other <=> p = q)

\* What the tables have is on the list, and a new producer is from its push on.
HeldListed ==
  \A id \in Ids, p \in Nat \cup {Null} : Held(id, p) => p \in 1 .. created /\ Listed(p)

MadeListed ==
  \A id \in Ids : caller[id].pc \in {"push", "insert"} =>
    /\ caller[id].producer \in 1 .. created
    /\ Listed(caller[id].producer) <=> caller[id].pc = "insert"

\* Every producer is on the list, or will be.
NoneLost ==
  \A p \in 1 .. created :
    Listed(p) \/ \E id \in Ids : caller[id].pc = "push" /\ caller[id].producer = p

\* The tables have what the calls returned.
Remembered == \A id \in Ids : \A p \in Returned(id) : Held(id, p)

Ownership == /\ OneOwner /\ HeldListed /\ MadeListed /\ NoneLost /\ Remembered
             /\ IsInjective(producerListTail)

\* Whom implicitProducerHashCount counts.
Live == {id \in Ids : caller[id].pc \in Counted \/ Above(id, 0)}

\* Those that were counted as one of the first m, or found a table of at most m less than
\* three quarters full.
Within(m) == {id \in Ids :
               \/ caller[id].pc \in Counted /\ caller[id].newCount <= m
               \/ \E k \in DOMAIN tables :
                    Has(tables[k], id) /\ ThreeQuarters(tables[k]) <= m + 1}

\* They are no more than they should be: those who failed were taken off the count.
Counts ==
  /\ IsFiniteSet(Live) /\ Cardinality(Live) = implicitProducerHashCount
  /\ \A m \in Nat : Cardinality(Within(m)) <= m

\* The inductive invariant.
HashInv == /\ HashTypes /\ Locked /\ Shape /\ Ownership /\ Counts
           /\ \A id \in Ids : Place(id)

-----------------------------------------------------------------------------
(* Arithmetic. *)

LEMMA PowerDoubles ==
  ASSUME NEW k \in Nat
  PROVE  2 ^ (k + 1) = 2 * 2 ^ k /\ 2 ^ k \in Nat
<1> DEFINE S == SUBSET (1 .. k)
           T == {s \cup {k + 1} : s \in S}
<1>1. IsFiniteSet(1 .. k) /\ Cardinality(1 .. k) = k
  BY FS_Interval
<1>2. IsFiniteSet(1 .. k + 1) /\ Cardinality(1 .. k + 1) = k + 1
  BY FS_Interval
<1>3. IsFiniteSet(S) /\ Cardinality(S) = 2 ^ k
  BY <1>1, FS_SUBSET
<1>4. Cardinality(SUBSET (1 .. k + 1)) = 2 ^ (k + 1)
  BY <1>2, FS_SUBSET
<1>5. SUBSET (1 .. k + 1) = S \cup T
  <2>1. ASSUME NEW u \in SUBSET (1 .. k + 1), u \notin S
        PROVE  u \in T
    <3>1. k + 1 \in u
      BY <2>1
    <3>2. u \ {k + 1} \in S
      OBVIOUS
    <3>3. u = (u \ {k + 1}) \cup {k + 1}
      BY <3>1
    <3> QED BY <3>2, <3>3
  <2>2. S \subseteq SUBSET (1 .. k + 1) /\ T \subseteq SUBSET (1 .. k + 1)
    <3>1. 1 .. k \subseteq 1 .. k + 1 /\ k + 1 \in 1 .. k + 1
      OBVIOUS
    <3> QED BY <3>1
  <2> QED BY <2>1, <2>2
<1>6. S \cap T = {}
  <2>1. k + 1 \notin 1 .. k
    OBVIOUS
  <2> QED BY <2>1
<1>7. IsFiniteSet(T) /\ Cardinality(T) = Cardinality(S)
  <2> DEFINE f == [s \in S |-> s \cup {k + 1}]
  <2>1. f \in Bijection(S, T)
    <3>1. f \in [S -> T] /\ \A t \in T : \E s \in S : f[s] = t
      OBVIOUS
    <3>2. ASSUME NEW s \in S, NEW r \in S, f[s] = f[r]
          PROVE  s = r
      <4>1. k + 1 \notin s /\ k + 1 \notin r
        OBVIOUS
      <4>2. s \cup {k + 1} = r \cup {k + 1}
        BY <3>2
      <4>3. \A x : x \in s <=> x \in r
        BY <4>1, <4>2
      <4> QED BY <4>3
    <3> QED BY <3>1, <3>2 DEF Bijection, Injection, Surjection, IsInjective
  <2>2. ExistsBijection(S, T)
    BY <2>1 DEF ExistsBijection
  <2> QED BY <2>2, <1>3, FS_Bijection
<1>8. Cardinality(S \cup T) = Cardinality(S) + Cardinality(T) - Cardinality(S \cap T)
  BY <1>3, <1>7, FS_Union
<1>9. Cardinality(S \cap T) = 0
  BY <1>6, FS_EmptySet
<1>10. Cardinality(S) \in Nat
  BY <1>3, FS_CardinalityType
<1> HIDE DEF S, T
<1>11. 2 ^ (k + 1) = Cardinality(S \cup T)
  BY <1>4, <1>5
<1> QED BY <1>3, <1>7, <1>8, <1>9, <1>10, <1>11

LEMMA PowerExceeds ==
  ASSUME NEW n \in Nat
  PROVE  2 ^ n \in Nat /\ n + 1 <= 2 ^ n
<1> DEFINE Bad == {k \in Nat : ~(k + 1 <= 2 ^ k)}
<1>1. \A k \in Nat : 2 ^ k \in Nat
  BY PowerDoubles
<1>2. SUFFICES ASSUME Bad # {} PROVE FALSE
  BY <1>1
<1>3. PICK k \in Bad : \A j \in Bad : <<j, k>> \notin OpToRel(<, Nat)
  BY <1>2, NatLessThanWellFounded, WFMin
<1>4. \A j \in Bad : ~(j < k)
  BY <1>3 DEF OpToRel
<1>5. CASE k = 0
  BY <1>5, <1>1, SMT
<1>6. CASE k # 0
  <2>1. k - 1 \in Nat /\ k - 1 \notin Bad
    BY <1>4, <1>6
  <2>2. k <= 2 ^ (k - 1) /\ 2 ^ (k - 1) \in Nat
    BY <2>1, <1>1
  <2>3. 2 ^ k = 2 * 2 ^ (k - 1)
    <3>1. (k - 1) + 1 = k
      OBVIOUS
    <3> QED BY <3>1, <2>1, PowerDoubles
  <2> QED BY <2>2, <2>3, <1>6
<1> QED BY <1>5, <1>6

LEMMA Residues ==
  ASSUME NEW h \in Nat, NEW n \in Nat \ {0}
  PROVE  /\ \A k \in 1 .. n : (h + k - 1) % n \in 0 .. n - 1
         /\ \A i \in 0 .. n - 1 : \E k \in 1 .. n : (h + k - 1) % n = i
<1>1. \A a \in Nat : a % n \in 0 .. n - 1
  OBVIOUS
<1>2. ASSUME NEW i \in 0 .. n - 1
      PROVE  \E k \in 1 .. n : (h + k - 1) % n = i
  <2> DEFINE r == h % n
             q == h \div n
  <2>1. q \in Nat /\ r \in 0 .. n - 1 /\ h = n * q + r
    OBVIOUS
  <2> HIDE DEF q, r
  <2>2. CASE i >= r
    <3>1. i - r + 1 \in 1 .. n /\ h + (i - r + 1) - 1 = n * q + i
      BY <2>1, <2>2
    <3>2. (n * q + i) % n = i
      BY <2>1
    <3> QED BY <3>1, <3>2
  <2>3. CASE i < r
    <3>1. i - r + n + 1 \in 1 .. n /\ h + (i - r + n + 1) - 1 = n * (q + 1) + i
      BY <2>1, <2>3
    <3>2. (n * (q + 1) + i) % n = i
      BY <2>1
    <3> QED BY <3>1, <3>2
  <2> QED BY <2>1, <2>2, <2>3
<1> QED BY <1>1, <1>2

-----------------------------------------------------------------------------
(* A table. *)

LEMMA TableFacts ==
  ASSUME NEW t \in Table
  PROVE  /\ t.capacity \in Nat /\ t.capacity >= 2
         /\ t \in TablesOf(t.capacity)
         /\ t.keys \in [Slots(t) -> Ids \cup {Empty}]
         /\ t.values \in [Slots(t) -> Nat \cup {Null}]
         /\ t = [capacity |-> t.capacity, keys |-> t.keys, values |-> t.values]
<1>1. PICK n \in Nat : n >= 2 /\ t \in TablesOf(n)
  BY DEF Table
<1>2. t.capacity = n
  BY <1>1 DEF TablesOf
<1>3. Slots(t) = 0 .. n - 1
  BY <1>2 DEF Slots
<1> QED BY <1>1, <1>2, <1>3 DEF TablesOf

LEMMA ProbeFacts ==
  ASSUME HashAssumption, NEW t \in Table, NEW id \in Ids
  PROVE  /\ Probe(t, id) \in [1 .. t.capacity -> Slots(t)]
         /\ \A i \in Slots(t) : \E k \in 1 .. t.capacity : Probe(t, id)[k] = i
<1>1. t.capacity \in Nat \ {0}
  BY TableFacts
<1>2. Hash[id] \in Nat
  BY DEF HashAssumption
<1>3. PICK h \in Nat, n \in Nat \ {0} : h = Hash[id] /\ n = t.capacity
  BY <1>1, <1>2
<1>4. /\ \A k \in 1 .. n : (h + k - 1) % n \in 0 .. n - 1
      /\ \A i \in 0 .. n - 1 : \E k \in 1 .. n : (h + k - 1) % n = i
  BY Residues
<1>5. Slots(t) = 0 .. n - 1 /\ t.capacity = n
  BY <1>3 DEF Slots
<1>6. Probe(t, id) = [k \in 1 .. n |-> (h + k - 1) % n]
  BY <1>3 DEF Probe
<1>7. PICK f : f = Probe(t, id)
  OBVIOUS
<1>8. f = [k \in 1 .. n |-> (h + k - 1) % n]
  BY <1>6, <1>7
<1>9. f \in [1 .. n -> 0 .. n - 1]
  BY <1>4, <1>8
<1>10. \A i \in 0 .. n - 1 : \E k \in 1 .. n : f[k] = i
  BY <1>4, <1>8
<1> QED BY <1>5, <1>7, <1>9, <1>10

\* The first slot with one of these keys, if there is one.
LEMMA FirstFacts ==
  ASSUME HashAssumption, NEW t \in Table, NEW id \in Ids, NEW keys,
         NEW i \in Slots(t), t.keys[i] \in keys
  PROVE  /\ FirstWith(keys, t, id) \in Slots(t)
         /\ t.keys[FirstWith(keys, t, id)] \in keys
         /\ \E k \in 1 .. t.capacity :
              /\ Probe(t, id)[k] = FirstWith(keys, t, id)
              /\ \A j \in 1 .. k - 1 : t.keys[Probe(t, id)[j]] \notin keys
<1> DEFINE at == Probe(t, id)
           hits == {k \in 1 .. t.capacity : t.keys[at[k]] \in keys}
<1>1. at \in [1 .. t.capacity -> Slots(t)]
  BY ProbeFacts
<1>2. hits \subseteq Nat /\ hits # {}
  <2>1. PICK k \in 1 .. t.capacity : at[k] = i
    BY ProbeFacts
  <2>2. k \in hits
    BY <2>1
  <2> QED BY <2>2
<1>3. \E k \in hits : \A j \in hits : k <= j
  BY <1>2, LeastIn
<1> DEFINE first == CHOOSE k \in hits : \A j \in hits : k <= j
<1>4. first \in hits /\ \A j \in hits : first <= j
  BY <1>3
<1>5. FirstWith(keys, t, id) = at[first]
  <2>1. DOMAIN Probe(t, id) = 1 .. t.capacity
    BY <1>1
  <2> QED BY <2>1, Zenon DEF FirstWith
<1> HIDE DEF first
<1>6. first \in 1 .. t.capacity /\ t.keys[at[first]] \in keys
  BY <1>4
<1>7. t.capacity \in Nat
  BY TableFacts
<1>8. ASSUME NEW j \in 1 .. first - 1
      PROVE  t.keys[at[j]] \notin keys
  <2>1. j \in 1 .. t.capacity /\ ~(first <= j)
    BY <1>6, <1>7
  <2> QED BY <2>1, <1>4
<1> HIDE DEF at
<1>9. at[first] \in Slots(t)
  BY <1>1, <1>6
<1> QED BY <1>5, <1>6, <1>8, <1>9 DEF at

\* A search in a table with room finds an id that is there, and no other.
LEMMA FindsWhatIsThere ==
  ASSUME HashAssumption, NEW t \in Table, Probed(t), HasRoom(t), NEW id \in Ids
  PROVE  /\ Finds(t, id) <=> Has(t, id)
         /\ Has(t, id) => FirstWith({id}, t, id) \in Slots(t) /\ t.keys[FirstWith({id}, t, id)] = id
<1> DEFINE slot == FirstWith({id, Empty}, t, id)
<1>1. PICK e \in Slots(t) : t.keys[e] = Empty
  BY DEF HasRoom
<1>2. slot \in Slots(t)
  BY <1>1, FirstFacts
<1>3. PICK k \in 1 .. t.capacity : /\ Probe(t, id)[k] = slot
                                   /\ \A j \in 1 .. k - 1 :
                                        t.keys[Probe(t, id)[j]] \notin {id, Empty}
  BY <1>1, FirstFacts
<1>4. t.keys[slot] \in {id, Empty}
  BY <1>1, FirstFacts
<1> HIDE DEF slot
<1>5. ASSUME NEW i \in Slots(t), t.keys[i] = id
      PROVE  t.keys[slot] = id
  <2>1. PICK m \in 1 .. t.capacity : /\ Probe(t, id)[m] = i
                                     /\ \A j \in 1 .. m - 1 :
                                          t.keys[Probe(t, id)[j]] \notin {id, Empty}
    BY <1>5 DEF Probed
  <2>2. t.capacity \in Nat
    BY TableFacts
  <2>3. ~(k < m)
    <3>1. k < m => k \in 1 .. m - 1
      BY <2>2
    <3> QED BY <3>1, <2>1, <1>3, <1>4
  <2>4. ~(m < k)
    <3>1. m < k => m \in 1 .. k - 1
      BY <2>2
    <3> QED BY <3>1, <2>1, <1>3, <1>5
  <2>5. m = k
    BY <2>2, <2>3, <2>4
  <2> QED BY <2>1, <2>5, <1>3, <1>5
<1>6. Finds(t, id) <=> t.keys[slot] = id
  BY DEF Finds, slot
<1>7. Finds(t, id) <=> Has(t, id)
  BY <1>2, <1>5, <1>6 DEF Has
<1>8. ASSUME Has(t, id)
      PROVE  FirstWith({id}, t, id) \in Slots(t) /\ t.keys[FirstWith({id}, t, id)] = id
  <2>1. PICK keys : keys = {id}
    OBVIOUS
  <2>2. PICK i \in Slots(t) : t.keys[i] \in keys
    BY <1>8, <2>1 DEF Has
  <2>3. FirstWith(keys, t, id) \in Slots(t) /\ t.keys[FirstWith(keys, t, id)] \in keys
    BY <2>2, FirstFacts
  <2> QED BY <2>1, <2>3
<1> QED BY <1>7, <1>8

\* The table with a key more, in a slot that was free.
GainsKey(t, u, s, id, p) ==
  /\ u \in Table /\ u.capacity = t.capacity /\ Probed(u)
  /\ s \in Slots(t) /\ t.keys[s] = Empty
  /\ u.keys = [t.keys EXCEPT ![s] = id] /\ u.values = [t.values EXCEPT ![s] = p]

LEMMA WithGains ==
  ASSUME HashAssumption, NEW t \in Table, Probed(t), HasRoom(t), NEW id \in Ids, ~Has(t, id),
         NEW p \in Nat \cup {Null}
  PROVE  \E s : GainsKey(t, With(t, id, p), s, id, p)
<1>1. PICK e \in Slots(t) : t.keys[e] \in {Empty}
  BY DEF HasRoom
<1>2. PICK s : s = FirstWith({Empty}, t, id)
  OBVIOUS
<1>3. PICK u : u = With(t, id, p)
  OBVIOUS
<1>4. s \in Slots(t) /\ t.keys[s] = Empty
  BY <1>1, <1>2, FirstFacts
<1>5. PICK n \in 1 .. t.capacity :
        Probe(t, id)[n] = s /\ \A j \in 1 .. n - 1 : t.keys[Probe(t, id)[j]] # Empty
  <2>1. \E n \in 1 .. t.capacity :
          Probe(t, id)[n] = s /\ \A j \in 1 .. n - 1 : t.keys[Probe(t, id)[j]] \notin {Empty}
    BY <1>1, <1>2, FirstFacts
  <2> QED BY <2>1
<1>6. u = [t EXCEPT !.keys[s] = id, !.values[s] = p]
  BY <1>2, <1>3 DEF With
<1>7. /\ t.capacity \in Nat /\ t.capacity >= 2
      /\ t.keys \in [Slots(t) -> Ids \cup {Empty}] /\ t.values \in [Slots(t) -> Nat \cup {Null}]
      /\ t = [capacity |-> t.capacity, keys |-> t.keys, values |-> t.values]
  BY TableFacts
<1>8. /\ u.capacity = t.capacity /\ u.keys = [t.keys EXCEPT ![s] = id]
      /\ u.values = [t.values EXCEPT ![s] = p]
      /\ u = [capacity |-> u.capacity, keys |-> u.keys, values |-> u.values]
  BY <1>6, <1>7
<1>9. u \in Table
  <2>1. u.keys \in [Slots(t) -> Ids \cup {Empty}] /\ u.values \in [Slots(t) -> Nat \cup {Null}]
    BY <1>4, <1>7, <1>8
  <2>2. u \in TablesOf(t.capacity)
    BY <2>1, <1>8 DEF TablesOf, Slots
  <2> QED BY <2>2, <1>7 DEF Table
<1>10. Slots(u) = Slots(t) /\ \A x : Probe(u, x) = Probe(t, x)
  BY <1>8 DEF Slots, Probe
<1>11. Empty \notin Ids
  BY DEF HashAssumption
<1>12. ASSUME NEW x \in Ids, NEW i \in Slots(u), u.keys[i] = x
       PROVE  \E k \in 1 .. u.capacity :
                /\ Probe(u, x)[k] = i
                /\ \A j \in 1 .. k - 1 : u.keys[Probe(u, x)[j]] \notin {x, Empty}
  <2>1. \A y \in Ids : Probe(t, y) \in [1 .. t.capacity -> Slots(t)]
    BY ProbeFacts
  <2>2. CASE i = s
    <3>1. x = id
      BY <1>4, <1>7, <1>8, <1>12, <2>2
    <3>2. ASSUME NEW j \in 1 .. n - 1
          PROVE  u.keys[Probe(t, id)[j]] \notin {id, Empty}
      <4>1. t.keys[Probe(t, id)[j]] # Empty
        BY <1>5
      <4>2. Probe(t, id)[j] \in Slots(t)
        BY <2>1, <1>7
      <4>3. Probe(t, id)[j] # s
        BY <4>1, <1>4
      <4>4. u.keys[Probe(t, id)[j]] = t.keys[Probe(t, id)[j]]
        BY <4>2, <4>3, <1>7, <1>8
      <4> QED BY <4>1, <4>2, <4>4 DEF Has
    <3> QED BY <3>1, <3>2, <1>5, <1>8, <1>10, <2>2
  <2>3. CASE i # s
    <3>1. i \in Slots(t) /\ t.keys[i] = x
      BY <1>7, <1>8, <1>10, <1>12, <2>3
    <3>2. PICK k \in 1 .. t.capacity :
            /\ Probe(t, x)[k] = i
            /\ \A j \in 1 .. k - 1 : t.keys[Probe(t, x)[j]] \notin {x, Empty}
      BY <3>1 DEF Probed
    <3>3. x # id
      BY <3>1 DEF Has
    <3>4. ASSUME NEW j \in 1 .. k - 1
          PROVE  u.keys[Probe(t, x)[j]] \notin {x, Empty}
      <4>1. t.keys[Probe(t, x)[j]] \notin {x, Empty}
        BY <3>2
      <4>2. Probe(t, x)[j] \in Slots(t)
        BY <2>1, <1>7
      <4>3. u.keys[Probe(t, x)[j]] \in {id, t.keys[Probe(t, x)[j]]}
        BY <4>2, <1>7, <1>8
      <4> QED BY <4>1, <4>3, <3>3, <1>11
    <3> QED BY <3>2, <3>4, <1>8, <1>10
  <2> QED BY <2>2, <2>3
<1>13. Probed(u)
  BY <1>12 DEF Probed
<1>14. GainsKey(t, u, s, id, p)
  BY <1>4, <1>8, <1>9, <1>13 DEF GainsKey
<1> QED BY <1>3, <1>14

LEMMA CapacityGrows ==
  ASSUME NEW t \in Table, NEW n \in Nat \ {0}
  PROVE  NewCapacity(t, n) \in Nat /\ NewCapacity(t, n) >= t.capacity
<1> DEFINE bigger == {t.capacity * 2 ^ k : k \in 1 .. n}
           enough == {c \in bigger : n < c \div 2}
<1>1. t.capacity \in Nat /\ t.capacity >= 2
  BY TableFacts
<1>2. ASSUME NEW c \in bigger
      PROVE  c \in Nat /\ c >= t.capacity
  <2>1. PICK k \in 1 .. n : c = t.capacity * 2 ^ k
    OBVIOUS
  <2>2. PICK power : power = 2 ^ k
    OBVIOUS
  <2>3. power \in Nat /\ power >= 1
    BY <2>2, PowerExceeds
  <2> QED BY <1>1, <2>1, <2>2, <2>3
<1>3. t.capacity * 2 ^ n \in enough
  <2>1. PICK power : power = 2 ^ n
    OBVIOUS
  <2>2. power \in Nat /\ power >= n + 1
    BY <2>1, PowerExceeds
  <2>3. n < (t.capacity * power) \div 2
    <3>1. t.capacity * power \in Nat /\ t.capacity * power >= 2 * power
      BY <1>1, <2>2
    <3> QED BY <2>2, <3>1
  <2> QED BY <2>1, <2>3
<1>4. \E c \in enough : \A d \in enough : c <= d
  <2>1. enough \subseteq Nat /\ enough # {}
    BY <1>2, <1>3
  <2> HIDE DEF enough
  <2> QED BY <2>1, LeastIn
<1> HIDE DEF bigger
<1>5. \E c \in bigger : n < c \div 2 /\ \A d \in bigger : n < d \div 2 => c <= d
  BY <1>4
<1>6. NewCapacity(t, n) = CHOOSE c \in bigger : n < c \div 2 /\ \A d \in bigger : n < d \div 2 => c <= d
  BY DEF NewCapacity, bigger
<1>7. NewCapacity(t, n) \in bigger
  BY <1>5, <1>6
<1> QED BY <1>2, <1>7

LEMMA NewTableFacts ==
  ASSUME HashAssumption, NEW n \in Nat, n >= 2
  PROVE  /\ NewTable(n) \in Table /\ NewTable(n).capacity = n /\ Probed(NewTable(n))
         /\ \A id \in Ids : ~Has(NewTable(n), id)
<1>1. PICK t : t = NewTable(n)
  OBVIOUS
<1>2. t.capacity = n /\ Slots(t) = 0 .. n - 1 /\ t.keys = [i \in 0 .. n - 1 |-> Empty]
  BY <1>1 DEF NewTable, Slots
<1>3. t \in TablesOf(n)
  BY <1>1 DEF NewTable, TablesOf
<1>4. t \in Table
  BY <1>3 DEF Table
<1>5. \A i \in Slots(t) : t.keys[i] \notin Ids
  BY <1>2 DEF HashAssumption
<1> QED BY <1>1, <1>2, <1>4, <1>5 DEF Probed, Has

-----------------------------------------------------------------------------
(* The tables. *)

LEMMA HeldIsHas ==
  ASSUME NEW t, NEW id, NEW p, HeldAt(t, id, p)
  PROVE  Has(t, id)
BY DEF HeldAt, Has

LEMMA KeysAreUnique ==
  ASSUME NEW t \in Table, Probed(t), NEW i \in Slots(t), NEW j \in Slots(t),
         t.keys[i] \in Ids, t.keys[i] = t.keys[j]
  PROVE  i = j
<1>1. PICK id \in Ids : t.keys[i] = id /\ t.keys[j] = id
  OBVIOUS
<1>2. PICK m \in 1 .. t.capacity :
        Probe(t, id)[m] = i /\ \A o \in 1 .. m - 1 : t.keys[Probe(t, id)[o]] # id
  BY <1>1 DEF Probed
<1>3. PICK n \in 1 .. t.capacity :
        Probe(t, id)[n] = j /\ \A o \in 1 .. n - 1 : t.keys[Probe(t, id)[o]] # id
  BY <1>1 DEF Probed
<1>4. t.capacity \in Nat
  BY TableFacts
<1>5. ~(m < n) /\ ~(n < m)
  BY <1>1, <1>2, <1>3, <1>4
<1>6. m = n
  BY <1>4, <1>5
<1> QED BY <1>2, <1>3, <1>6

\* No table is ever full: those in it were counted, and found it less than three quarters
\* full.
LEMMA TablesHaveRoom ==
  ASSUME HashAssumption, HashTypes, Shape, Counts, NEW k \in DOMAIN tables
  PROVE  HasRoom(tables[k])
<1>1. PICK t \in Table : t = tables[k]
  BY DEF HashTypes
<1>2. Probed(t)
  BY <1>1 DEF Shape
<1>3. t.capacity \in Nat /\ t.capacity >= 2 /\ t.keys \in [Slots(t) -> Ids \cup {Empty}]
  BY TableFacts
<1>4. PICK m \in Nat : m = t.capacity - 1
  BY <1>3
<1>5. IsFiniteSet(Within(m)) /\ Cardinality(Within(m)) <= m
  <2>1. Within(m) \subseteq Live
    <3>1. \A j \in DOMAIN tables : j > 0
      BY DEF HashTypes
    <3> QED BY <3>1 DEF Within, Live, Above
  <2> QED BY <2>1, FS_Subset DEF Counts
<1>6. SUFFICES ASSUME ~HasRoom(t) PROVE FALSE
  BY <1>1
<1>7. \A i \in Slots(t) : t.keys[i] \in Ids
  BY <1>3, <1>6 DEF HasRoom
<1>8. \A i \in Slots(t) : t.keys[i] \in Within(m)
  <2>1. ThreeQuarters(t) <= m + 1
    BY <1>3, <1>4 DEF ThreeQuarters
  <2>2. \A i \in Slots(t) : Has(t, t.keys[i])
    BY DEF Has
  <2> QED BY <1>1, <1>7, <2>1, <2>2 DEF Within
<1>9. t.keys \in Injection(Slots(t), Within(m))
  <2>1. t.keys \in [Slots(t) -> Within(m)]
    BY <1>3, <1>8
  <2>2. \A i, j \in Slots(t) : t.keys[i] = t.keys[j] => i = j
    BY <1>2, <1>7, KeysAreUnique
  <2> QED BY <2>1, <2>2 DEF Injection, IsInjective
<1>10. Cardinality(Slots(t)) <= Cardinality(Within(m))
  BY <1>5, <1>9, FS_Injection
<1>11. Cardinality(Slots(t)) = t.capacity
  BY <1>3, FS_Interval DEF Slots
<1>12. Cardinality(Within(m)) \in Nat
  BY <1>5, FS_CardinalityType
<1> QED BY <1>3, <1>4, <1>5, <1>10, <1>11, <1>12

LEMMA GainsFacts ==
  ASSUME HashAssumption, NEW t \in Table, NEW u, NEW s, NEW id \in Ids, NEW p \in Nat \cup {Null},
         GainsKey(t, u, s, id, p), NEW x \in Ids
  PROVE  /\ Has(u, x) <=> Has(t, x) \/ x = id
         /\ \A q : HeldAt(u, x, q) <=> HeldAt(t, x, q) \/ (x = id /\ q = p)
<1>1. /\ t.keys \in [Slots(t) -> Ids \cup {Empty}] /\ t.values \in [Slots(t) -> Nat \cup {Null}]
      /\ Slots(u) = Slots(t) /\ s \in Slots(t) /\ t.keys[s] # x
      /\ u.keys = [t.keys EXCEPT ![s] = id] /\ u.values = [t.values EXCEPT ![s] = p]
  BY TableFacts DEF GainsKey, Slots, HashAssumption
<1>2. \A i \in Slots(t) : i # s => u.keys[i] = t.keys[i] /\ u.values[i] = t.values[i]
  BY <1>1
<1>3. u.keys[s] = id /\ u.values[s] = p
  BY <1>1
<1> QED BY <1>1, <1>2, <1>3 DEF Has, HeldAt

\* Table k gets a key, and nothing else changes in the tables.
TableGot(k, id, p) ==
  /\ tables' \in Seq(Table) /\ tables' # <<>> /\ Len(tables') = Len(tables)
  /\ DOMAIN tables' = DOMAIN tables /\ Shape'
  /\ \A j \in DOMAIN tables : ThreeQuarters(tables'[j]) = ThreeQuarters(tables[j])
  /\ \A j \in DOMAIN tables, x \in Ids :
       Has(tables'[j], x) <=> Has(tables[j], x) \/ (j = k /\ x = id)
  /\ \A j \in DOMAIN tables, x \in Ids : \A q :
       HeldAt(tables'[j], x, q) <=> HeldAt(tables[j], x, q) \/ (j = k /\ x = id /\ q = p)

LEMMA TableGains ==
  ASSUME HashAssumption, HashTypes, Shape, NEW id \in Ids, NEW k \in DOMAIN tables, NEW u, NEW s,
         NEW p \in Nat \cup {Null}, GainsKey(tables[k], u, s, id, p),
         tables' = [tables EXCEPT ![k] = u]
  PROVE  TableGot(k, id, p)
<1>1. tables \in Seq(Table) /\ tables # <<>> /\ tables[k] \in Table
  BY DEF HashTypes
<1>2. u \in Table /\ u.capacity = tables[k].capacity /\ Probed(u)
  BY DEF GainsKey
<1>3. /\ tables' \in Seq(Table) /\ tables' # <<>> /\ Len(tables') = Len(tables)
      /\ DOMAIN tables' = DOMAIN tables
  BY <1>1, <1>2
<1>4. tables'[k] = u /\ \A j \in DOMAIN tables : j # k => tables'[j] = tables[j]
  BY <1>1
<1>5. \A j \in DOMAIN tables : tables'[j].capacity = tables[j].capacity
  BY <1>2, <1>4
<1>6. Shape'
  BY <1>2, <1>3, <1>4, <1>5 DEF Shape
<1>7. \A j \in DOMAIN tables : ThreeQuarters(tables'[j]) = ThreeQuarters(tables[j])
  BY <1>5 DEF ThreeQuarters
<1>8. \A j \in DOMAIN tables, x \in Ids :
        Has(tables'[j], x) <=> Has(tables[j], x) \/ (j = k /\ x = id)
  <2>1. PICK t \in Table : t = tables[k]
    BY <1>1
  <2>2. \A x \in Ids : Has(u, x) <=> Has(t, x) \/ x = id
    BY <2>1, GainsFacts
  <2> QED BY <2>1, <2>2, <1>4
<1>9. \A j \in DOMAIN tables, x \in Ids : \A q :
        HeldAt(tables'[j], x, q) <=> HeldAt(tables[j], x, q) \/ (j = k /\ x = id /\ q = p)
  BY <1>1, <1>4, GainsFacts
<1> QED BY <1>3, <1>6, <1>7, <1>8, <1>9 DEF TableGot

LEMMA TableAppended ==
  ASSUME HashAssumption, HashTypes, Shape, NEW c \in Nat, c >= tables[Len(tables)].capacity,
         tables' = Append(tables, NewTable(c))
  PROVE  /\ tables' \in Seq(Table) /\ tables' # <<>> /\ Len(tables') = Len(tables) + 1 /\ Shape'
         /\ DOMAIN tables' = DOMAIN tables \cup {Len(tables) + 1}
         /\ \A j \in DOMAIN tables : tables'[j] = tables[j]
         /\ \A x \in Ids : ~Has(tables'[Len(tables) + 1], x)
<1>1. tables \in Seq(Table) /\ Len(tables) \in DOMAIN tables
  BY DEF HashTypes
<1>2. c >= 2
  <2>1. tables[Len(tables)] \in Table
    BY <1>1
  <2> QED BY <2>1, TableFacts
<1>3. PICK t : t = NewTable(c)
  OBVIOUS
<1>4. t \in Table /\ t.capacity = c /\ Probed(t) /\ \A x \in Ids : ~Has(t, x)
  BY <1>2, <1>3, NewTableFacts
<1>5. /\ tables' \in Seq(Table) /\ tables' # <<>> /\ Len(tables') = Len(tables) + 1
      /\ DOMAIN tables' = DOMAIN tables \cup {Len(tables) + 1}
      /\ \A j \in DOMAIN tables : tables'[j] = tables[j]
      /\ tables'[Len(tables) + 1] = t
  BY <1>1, <1>3, <1>4
<1>6. Shape'
  <2>1. \A k \in DOMAIN tables' : Probed(tables'[k])
    BY <1>4, <1>5 DEF Shape
  <2>2. ASSUME NEW j \in DOMAIN tables', NEW k \in DOMAIN tables', j <= k
        PROVE  tables'[j].capacity <= tables'[k].capacity
    <3>1. CASE k \in DOMAIN tables
      <4>1. j \in DOMAIN tables
        BY <1>1, <1>5, <2>2, <3>1
      <4> QED BY <4>1, <3>1, <1>5, <2>2 DEF Shape
    <3>2. CASE k = Len(tables) + 1 /\ j \in DOMAIN tables
      <4>1. tables[j].capacity <= tables[Len(tables)].capacity
        BY <1>1, <3>2 DEF Shape
      <4>2. tables[j] \in Table /\ tables[Len(tables)] \in Table
        BY <1>1, <3>2
      <4>3. tables[j].capacity \in Nat /\ tables[Len(tables)].capacity \in Nat
        BY <4>2, TableFacts
      <4> QED BY <4>1, <4>3, <3>2, <1>4, <1>5
    <3>3. CASE k = Len(tables) + 1 /\ j = Len(tables) + 1
      BY <3>3, <1>4, <1>5
    <3> QED BY <3>1, <3>2, <3>3, <1>5
  <2> QED BY <2>1, <2>2 DEF Shape
<1> QED BY <1>4, <1>5, <1>6

-----------------------------------------------------------------------------
(* What a step leaves. *)

LEMMA PlaceStays ==
  ASSUME NEW x \in Ids, Place(x), caller'[x] = caller[x],
         DOMAIN tables \subseteq DOMAIN tables', tables \in Seq(Table),
         \A j \in DOMAIN tables : ThreeQuarters(tables'[j]) = ThreeQuarters(tables[j]),
         \A n : Above(x, n)' => Above(x, n),
         \A j \in DOMAIN tables : \A q :
           HeldAt(tables[j], x, q) => HeldAt(tables'[j], x, q),
         caller[x].pc = "allocate" => Len(tables') = Len(tables),
         caller[x] \in CallerState
  PROVE  Place(x)'
<1> DEFINE me == caller[x]
<1>1. me.pc # "idle" => me.main \in DOMAIN tables'
  BY DEF Place
<1>2. me.pc = "search" => me.hash \in 1 .. me.main /\ ~Above(x, me.hash)'
  BY DEF Place
<1>3. me.pc = "copy" => /\ me.hash \in 1 .. me.main - 1 /\ ~Above(x, me.hash)'
                        /\ HeldAt(tables'[me.hash], x, me.producer)
  <2>1. SUFFICES ASSUME me.pc = "copy"
                 PROVE  /\ me.hash \in 1 .. me.main - 1 /\ ~Above(x, me.hash)'
                        /\ HeldAt(tables'[me.hash], x, me.producer)
    OBVIOUS
  <2>2. me.hash \in 1 .. me.main - 1 /\ ~Above(x, me.hash) /\ me.main \in DOMAIN tables
    BY <2>1 DEF Place
  <2>3. me.hash \in DOMAIN tables
    BY <2>2
  <2> QED BY <2>1, <2>2, <2>3 DEF Place
<1>4. me.pc \in Counted \cup {"count"} => ~Above(x, 0)'
  BY DEF Place
<1>5. me.pc \in {"create", "push", "insert"} => me.newCount < ThreeQuarters(tables'[me.main])
  BY DEF Place
<1>6. me.pc \in Counted => me.newCount > 0
  BY DEF Place
<1>7. me.pc = "allocate" => me.main = Len(tables')
  BY DEF Place
<1> HIDE DEF me
<1> QED
  <2>1. caller'[x] = me
    BY DEF me
  <2> QED BY <2>1, <1>1, <1>2, <1>3, <1>4, <1>5, <1>6, <1>7 DEF Place

LEMMA OwnershipStays ==
  ASSUME Ownership, UNCHANGED <<created, producerListTail>>,
         \A x \in Ids : \A q : Held(x, q)' <=> Held(x, q),
         \A x \in Ids : caller'[x].pc \in {"push", "insert"} \/ caller[x].pc \in {"push", "insert"} =>
           caller'[x].pc = caller[x].pc /\ caller'[x].producer = caller[x].producer,
         \A x \in Ids : \A q \in Returned(x)' : q \in Returned(x) \/ Held(x, q)
  PROVE  Ownership'
<1>1. \A x \in Ids : \A q : Makes(x, q)' <=> Makes(x, q)
  BY DEF Makes
<1>2. \A x \in Ids : \A q : Owns(x, q)' <=> Owns(x, q)
  BY <1>1 DEF Owns
<1>3. \A q : Listed(q)' <=> Listed(q)
  BY DEF Listed
<1>4. HeldListed'
  BY <1>3 DEF Ownership, HeldListed
<1>5. MadeListed'
  <2>1. ASSUME NEW x \in Ids, caller'[x].pc \in {"push", "insert"}
        PROVE  /\ caller'[x].producer \in 1 .. created'
               /\ Listed(caller[x].producer)' <=> caller'[x].pc = "insert"
    BY <2>1 DEF Ownership, MadeListed, Listed
  <2> QED BY <2>1 DEF MadeListed
<1>6. NoneLost'
  BY <1>3 DEF Ownership, NoneLost
<1>7. Remembered'
  BY DEF Ownership, Remembered
<1>8. OneOwner'
  BY <1>2 DEF Ownership, OneOwner
<1>9. IsInjective(producerListTail)'
  BY DEF Ownership
<1> QED BY <1>4, <1>5, <1>6, <1>7, <1>8, <1>9 DEF Ownership

LEMMA CountsStay ==
  ASSUME Counts, Live' = Live, implicitProducerHashCount' = implicitProducerHashCount,
         \A x \in Ids : Above(x, 0) <=> \E k \in DOMAIN tables : Has(tables[k], x),
         \A m \in Nat : Within(m)' \subseteq Within(m)
  PROVE  Counts'
<1>1. ASSUME NEW m \in Nat
      PROVE  Cardinality(Within(m)') <= m
  <2>1. Within(m) \subseteq Live
    BY DEF Within, Live
  <2>2. IsFiniteSet(Within(m)) /\ Cardinality(Within(m)) <= m
    BY <2>1, FS_Subset DEF Counts
  <2>3. PICK w : w = Within(m)'
    OBVIOUS
  <2>4. w \subseteq Within(m)
    BY <2>3
  <2>5. Cardinality(w) <= Cardinality(Within(m)) /\ Cardinality(w) \in Nat
    BY <2>2, <2>4, FS_Subset, FS_CardinalityType
  <2>6. Cardinality(Within(m)) \in Nat
    BY <2>2, FS_CardinalityType
  <2> QED BY <2>2, <2>3, <2>5, <2>6
<1>2. \A m \in Nat : Cardinality(Within(m))' <= m
  BY <1>1
<1>3. (IsFiniteSet(Live) /\ Cardinality(Live) = implicitProducerHashCount)'
  BY DEF Counts
<1> QED BY <1>2, <1>3 DEF Counts

LEMMA AboveZero ==
  ASSUME HashTypes
  PROVE  \A x \in Ids : Above(x, 0) <=> \E k \in DOMAIN tables : Has(tables[k], x)
<1>1. \A k \in DOMAIN tables : k > 0
  BY DEF HashTypes
<1> QED BY <1>1 DEF Above

\* A step that changes no table.
LEMMA CallerSteps ==
  ASSUME HashInv, NEW id \in Ids, NEW new \in CallerState, Moves(id, new), UNCHANGED tables,
         created' \in Nat, producerListTail' \in Seq(1 .. created'),
         resizing' \in BOOLEAN, implicitProducerHashCount' \in Nat, failures' \in Nat,
         results' \in [Ids -> Seq(Nat \cup {Null})],
         Place(id)', Locked', Ownership', Counts'
  PROVE  HashInv'
<1>1. caller \in [Ids -> CallerState] /\ tables \in Seq(Table)
  BY DEF HashInv, HashTypes
<1>2. caller'[id] = new /\ \A x \in Ids : x # id => caller'[x] = caller[x]
  BY <1>1 DEF Moves
<1>3. HashTypes'
  BY <1>1 DEF HashInv, HashTypes, Moves
<1>4. Shape'
  BY DEF HashInv, Shape
<1>5. \A x \in Ids : \A n : Above(x, n)' => Above(x, n)
  BY DEF Above
<1>6. ASSUME NEW x \in Ids, x # id
      PROVE  Place(x)'
  <2>1. Place(x) /\ caller[x] \in CallerState /\ caller'[x] = caller[x]
    BY <1>1, <1>2, <1>6 DEF HashInv
  <2> QED BY <1>1, <1>5, <2>1, PlaceStays
<1>7. (\A x \in Ids : Place(x))'
  BY <1>6
<1> QED BY <1>3, <1>4, <1>7 DEF HashInv

\* One that makes no producer and returns none but what is held.
LEMMA CallerMoves ==
  ASSUME HashInv, NEW id \in Ids, NEW new \in CallerState, Moves(id, new),
         UNCHANGED <<tables, created, producerListTail>>,
         resizing' \in BOOLEAN, implicitProducerHashCount' \in Nat, failures' \in Nat,
         results' \in [Ids -> Seq(Nat \cup {Null})],
         \A x \in Ids : \A q \in Returned(x)' : q \in Returned(x) \/ Held(x, q),
         new.pc \in {"push", "insert"} \/ caller[id].pc \in {"push", "insert"} =>
           new.pc = caller[id].pc /\ new.producer = caller[id].producer,
         Place(id)', Locked', Counts'
  PROVE  HashInv'
<1>1. caller'[id] = new /\ \A x \in Ids : x # id => caller'[x] = caller[x]
  BY DEF Moves, HashInv, HashTypes
<1>2. \A x \in Ids : \A q : Held(x, q)' <=> Held(x, q)
  BY DEF Held
<1>3. Ownership'
  BY <1>1, <1>2, OwnershipStays DEF HashInv
<1>4. created' \in Nat /\ producerListTail' \in Seq(1 .. created')
  BY DEF HashInv, HashTypes
<1> QED BY <1>3, <1>4, CallerSteps

\* Whom it does not count, nor take off the count.
LEMMA CountsMove ==
  ASSUME HashInv, NEW id \in Ids, NEW new \in CallerState, Moves(id, new),
         UNCHANGED <<tables, implicitProducerHashCount>>,
         new.pc \in Counted <=> caller[id].pc \in Counted,
         new.pc \in Counted => new.newCount = caller[id].newCount
  PROVE  Counts'
<1>1. caller \in [Ids -> CallerState]
  BY DEF HashInv, HashTypes
<1>2. caller'[id] = new /\ \A x \in Ids : x # id => caller'[x] = caller[x]
  BY <1>1 DEF Moves
<1>3. \A x \in Ids : /\ caller'[x].pc \in Counted <=> caller[x].pc \in Counted
                     /\ caller[x].pc \in Counted => caller'[x].newCount = caller[x].newCount
  BY <1>2
<1>4. Live' = Live
  <2>1. \A x \in Ids : Above(x, 0)' <=> Above(x, 0)
    BY DEF Above
  <2> QED BY <1>3, <2>1 DEF Live
<1>5. \A m \in Nat : Within(m)' \subseteq Within(m)
  BY <1>3 DEF Within
<1> QED BY <1>4, <1>5, AboveZero, CountsStay DEF HashInv

\* A counted caller whose id is in no table fails.
LEMMA CountsFail ==
  ASSUME HashInv, NEW id \in Ids, caller[id].pc \in Counted, Moves(id, NoCall),
         NoCall \in CallerState,
         implicitProducerHashCount' = implicitProducerHashCount - 1, UNCHANGED tables
  PROVE  Counts' /\ implicitProducerHashCount' \in Nat
<1>1. caller \in [Ids -> CallerState] /\ implicitProducerHashCount \in Nat
  BY DEF HashInv, HashTypes
<1>2. caller'[id].pc = "idle" /\ \A x \in Ids : x # id => caller'[x] = caller[x]
  BY <1>1 DEF Moves, NoCall
<1>3. \A x \in Ids : Above(x, 0)' <=> Above(x, 0)
  BY DEF Above
<1>4. ~Above(id, 0) /\ id \in Live
  BY DEF HashInv, Place, Live
<1>5. Live' = Live \ {id}
  BY <1>2, <1>3, <1>4 DEF Live, Counted, Resizing
<1>6. IsFiniteSet(Live) /\ Cardinality(Live) = implicitProducerHashCount
  BY DEF HashInv, Counts
<1>7. IsFiniteSet(Live \ {id}) /\ Cardinality(Live \ {id}) = implicitProducerHashCount - 1
  BY <1>4, <1>6, FS_RemoveElement
<1>8. implicitProducerHashCount - 1 \in Nat
  BY <1>7, FS_CardinalityType
<1>9. ASSUME NEW m \in Nat
      PROVE  Cardinality(Within(m)') <= m
  <2>1. PICK w : w = Within(m)'
    OBVIOUS
  <2>2. w \subseteq Within(m)
    BY <1>2, <2>1 DEF Within, Counted, Resizing
  <2>3. Within(m) \subseteq Live
    BY AboveZero DEF Within, Live, HashInv
  <2>4. IsFiniteSet(Within(m)) /\ Cardinality(Within(m)) <= m /\ Cardinality(Within(m)) \in Nat
    BY <1>6, <2>3, FS_Subset, FS_CardinalityType DEF HashInv, Counts
  <2>5. Cardinality(w) <= Cardinality(Within(m)) /\ Cardinality(w) \in Nat
    BY <2>2, <2>4, FS_Subset, FS_CardinalityType
  <2> QED BY <2>1, <2>4, <2>5
<1>10. \A m \in Nat : Cardinality(Within(m))' <= m
  BY <1>9
<1> QED BY <1>5, <1>7, <1>8, <1>10 DEF Counts

LEMMA AnswersFacts ==
  ASSUME HashTypes, NEW id \in Ids, NEW p \in Nat \cup {Null}, Answers(id, p)
  PROVE  /\ results' \in [Ids -> Seq(Nat \cup {Null})]
         /\ \A x \in Ids : \A q \in Returned(x)' : q \in Returned(x) \/ (x = id /\ q = p /\ q # Null)
         /\ \A x \in Ids : Returned(x) \subseteq Returned(x)'
<1>1. results \in [Ids -> Seq(Nat \cup {Null})] /\ results' = [results EXCEPT ![id] = Append(@, p)]
  BY DEF HashTypes, Answers
<1>2. results' \in [Ids -> Seq(Nat \cup {Null})]
  BY <1>1
<1>3. \A x \in Ids : x # id => results'[x] = results[x]
  BY <1>1
<1>4. PICK s \in Seq(Nat \cup {Null}) : s = results[id]
  BY <1>1
<1>5. results'[id] = Append(s, p)
  BY <1>1, <1>4
<1>6. ToSet(Append(s, p)) = ToSet(s) \cup {p}
  <2>1. /\ DOMAIN Append(s, p) = 1 .. Len(s) + 1 /\ DOMAIN s = 1 .. Len(s) /\ Len(s) \in Nat
        /\ Append(s, p)[Len(s) + 1] = p
        /\ \A i \in 1 .. Len(s) : Append(s, p)[i] = s[i]
    OBVIOUS
  <2> QED BY <2>1 DEF ToSet
<1>7. Returned(id) = ToSet(s) \ {Null} /\ Returned(id)' = (ToSet(s) \cup {p}) \ {Null}
  BY <1>4, <1>5, <1>6 DEF Returned
<1>8. \A x \in Ids : x # id => Returned(x)' = Returned(x)
  BY <1>3 DEF Returned
<1> QED BY <1>2, <1>7, <1>8

LEMMA NoCallIsState ==
  NoCall \in CallerState
<1>1. <<>> \in Seq(Nat)
  OBVIOUS
<1> QED BY <1>1 DEF NoCall, CallerState

-----------------------------------------------------------------------------
(* The steps of a call. *)

LEMMA CallKeeps ==
  ASSUME HashAssumption, HashInv, NEW id \in Ids, Call(id)
  PROVE  HashInv'
<1>1. PICK new : new = [NoCall EXCEPT !.pc = "search", !.main = Len(tables), !.hash = Len(tables)]
  OBVIOUS
<1>2. /\ tables \in Seq(Table) /\ tables # <<>> /\ implicitProducerHashCount \in Nat
      /\ failures \in Nat /\ resizing \in BOOLEAN /\ caller \in [Ids -> CallerState]
      /\ results \in [Ids -> Seq(Nat \cup {Null})]
  BY DEF HashInv, HashTypes
<1>3. new.pc = "search" /\ new.main = Len(tables) /\ new.hash = Len(tables)
  BY <1>1 DEF NoCall
<1>4. new \in CallerState
  <2>1. PICK n \in Nat : n = Len(tables)
    BY <1>2
  <2>2. PICK me \in CallerState : me = NoCall
    BY NoCallIsState
  <2>3. new = [me EXCEPT !.pc = "search", !.main = n, !.hash = n]
    BY <1>1, <2>1, <2>2
  <2> QED BY <2>3 DEF CallerState
<1>5. caller[id].pc = "idle" /\ Moves(id, new) /\ UNCHANGED <<tableVars, created,
        producerListTail, results, failures>>
  BY <1>1 DEF Call, AtPc
<1>6. caller'[id] = new /\ \A x \in Ids : x # id => caller'[x] = caller[x]
  BY <1>2, <1>5 DEF Moves
<1>7. PICK n \in Nat : n = Len(tables)
  BY <1>2
<1>8. Place(id)'
  <2>1. n \in DOMAIN tables' /\ n \in 1 .. n
    BY <1>2, <1>5, <1>7 DEF tableVars
  <2>2. ~Above(id, n)'
    BY <1>2, <1>5, <1>7 DEF Above, tableVars
  <2>3. new.main = n /\ new.hash = n
    BY <1>3, <1>7
  <2> QED BY <2>1, <2>2, <2>3, <1>3, <1>6 DEF Place, Counted, Resizing
<1>9. Locked'
  BY <1>3, <1>5, <1>6 DEF HashInv, Locked, Resizing, tableVars
<1>10. Counts'
  BY <1>3, <1>4, <1>5, CountsMove DEF Counted, Resizing, tableVars
<1>11. \A x \in Ids : \A q \in Returned(x)' : q \in Returned(x)
  BY <1>5 DEF Returned
<1> QED
  BY <1>2, <1>3, <1>4, <1>5, <1>8, <1>9, <1>10, <1>11, CallerMoves DEF tableVars

\* The way through the code that changes only the caller, and resizing.
LEMMA OnTheWay ==
  ASSUME HashInv, NEW id \in Ids, NEW new \in CallerState, Moves(id, new),
         UNCHANGED <<tables, implicitProducerHashCount, created, producerListTail, results,
                     failures>>,
         resizing' \in BOOLEAN,
         new.pc \in {"push", "insert"} \/ caller[id].pc \in {"push", "insert"} =>
           new.pc = caller[id].pc /\ new.producer = caller[id].producer,
         new.pc \in Counted <=> caller[id].pc \in Counted,
         new.pc \in Counted => new.newCount = caller[id].newCount,
         Place(id)', Locked'
  PROVE  HashInv'
<1>1. /\ implicitProducerHashCount \in Nat /\ failures \in Nat
      /\ results \in [Ids -> Seq(Nat \cup {Null})]
  BY DEF HashInv, HashTypes
<1>2. Counts'
  BY CountsMove
<1>3. \A x \in Ids : \A q \in Returned(x)' : q \in Returned(x)
  BY DEF Returned
<1> QED BY <1>1, <1>2, <1>3, CallerMoves

LEMMA LockedStays ==
  ASSUME HashInv, NEW id \in Ids, NEW new, Moves(id, new), UNCHANGED resizing,
         new.pc \in Resizing => caller[id].pc \in Resizing
  PROVE  Locked'
<1>1. caller'[id] = new /\ \A x \in Ids : x # id => caller'[x] = caller[x]
  BY DEF Moves, HashInv, HashTypes
<1> QED BY <1>1 DEF HashInv, Locked

LEMMA SearchKeeps ==
  ASSUME HashAssumption, HashInv, NEW id \in Ids, Search(id)
  PROVE  HashInv'
<1>1. PICK me \in CallerState : me = caller[id]
  BY DEF HashInv, HashTypes
<1>2. /\ tables \in Seq(Table) /\ tables # <<>> /\ implicitProducerHashCount \in Nat
      /\ failures \in Nat /\ resizing \in BOOLEAN /\ caller \in [Ids -> CallerState]
      /\ results \in [Ids -> Seq(Nat \cup {Null})]
  BY DEF HashInv, HashTypes
<1>3. /\ me.pc = "search" /\ me.main \in DOMAIN tables /\ me.hash \in 1 .. me.main
      /\ ~Above(id, me.hash)
  BY <1>1 DEF Search, AtPc, HashInv, Place
<1>4. me.hash \in DOMAIN tables /\ me.main \in Nat /\ me.hash \in Nat
  BY <1>2, <1>3
<1>5. PICK t \in Table : t = tables[me.hash]
  BY <1>2, <1>4
<1>6. Probed(t) /\ HasRoom(t)
  BY <1>4, <1>5, TablesHaveRoom DEF HashInv, Shape
<1>7. Finds(t, id) <=> Has(t, id)
  BY <1>6, FindsWhatIsThere
<1>8. UNCHANGED <<tables, implicitProducerHashCount, resizing, created, producerListTail, failures>>
  BY DEF Search, tableVars
<1>9. \A n : Above(id, n)' <=> Above(id, n)
  BY <1>8 DEF Above
<1>10. CASE Finds(t, id)
  <2>1. PICK p : p = t.values[FirstWith({id}, t, id)]
    OBVIOUS
  <2>2. FirstWith({id}, t, id) \in Slots(t) /\ t.keys[FirstWith({id}, t, id)] = id
    BY <1>6, <1>7, <1>10, FindsWhatIsThere
  <2>3. HeldAt(t, id, p)
    BY <2>1, <2>2 DEF HeldAt
  <2>4. p \in Nat \cup {Null}
    <3>1. t.values \in [Slots(t) -> Nat \cup {Null}]
      BY TableFacts
    <3> QED BY <2>1, <2>2, <3>1
  <2>5. Held(id, p)
    BY <2>3, <1>4, <1>5 DEF Held
  <2>6. CASE me.hash = me.main
    <3>1. Answers(id, p)
      BY <1>1, <1>5, <1>10, <2>1, <2>6 DEF Search
    <3>2. /\ results' \in [Ids -> Seq(Nat \cup {Null})]
          /\ \A x \in Ids : \A q \in Returned(x)' : q \in Returned(x) \/ Held(x, q)
      BY <2>4, <2>5, <3>1, AnswersFacts DEF HashInv
    <3>3. Moves(id, NoCall) /\ NoCall \in CallerState
      BY <3>1, NoCallIsState DEF Answers
    <3>4. NoCall.pc = "idle"
      BY DEF NoCall
    <3>5. caller'[id] = NoCall
      BY <1>2, <3>3 DEF Moves
    <3>6. Place(id)'
      BY <3>4, <3>5 DEF Place, Counted, Resizing
    <3>7. Locked'
      BY <1>8, <3>3, <3>4, LockedStays DEF Resizing
    <3>8. Counts'
      BY <1>1, <1>3, <1>8, <3>3, <3>4, CountsMove DEF Counted, Resizing
    <3> QED
      BY <1>1, <1>2, <1>3, <1>8, <3>2, <3>3, <3>4, <3>6, <3>7, <3>8, CallerMoves
  <2>7. CASE me.hash # me.main
    <3>1. PICK new : new = [me EXCEPT !.pc = "copy", !.producer = p]
      OBVIOUS
    <3>2. Moves(id, new) /\ UNCHANGED results
      BY <1>1, <1>5, <1>10, <2>1, <2>7, <3>1 DEF Search
    <3>3. new.pc = "copy" /\ new.producer = p /\ new.main = me.main /\ new.hash = me.hash
      BY <3>1 DEF CallerState
    <3>4. new \in CallerState
      BY <2>4, <3>1 DEF CallerState
    <3>5. caller'[id] = new
      BY <1>2, <3>2 DEF Moves
    <3>6. Place(id)'
      <4>1. me.hash \in 1 .. me.main - 1
        BY <1>3, <1>4, <2>7
      <4>2. me.main \in DOMAIN tables' /\ HeldAt(tables'[me.hash], id, p)
        BY <1>3, <1>5, <1>8, <2>3
      <4>3. ~Above(id, me.hash)'
        BY <1>3, <1>9
      <4> QED BY <3>3, <3>5, <4>1, <4>2, <4>3 DEF Place, Counted, Resizing
    <3>7. Locked'
      BY <1>8, <3>2, <3>3, LockedStays DEF Resizing
    <3> QED
      BY <1>1, <1>2, <1>3, <1>8, <3>2, <3>3, <3>4, <3>6, <3>7, OnTheWay
      DEF Counted, Resizing
  <2> QED BY <2>6, <2>7
<1>11. CASE ~Finds(t, id)
  <2>1. ~Above(id, me.hash - 1)
    <3>1. ~Has(tables[me.hash], id)
      BY <1>5, <1>7, <1>11
    <3>2. \A k \in DOMAIN tables : k > me.hash - 1 => k > me.hash \/ k = me.hash
      BY <1>2, <1>4
    <3> QED BY <1>3, <3>1, <3>2 DEF Above
  <2>2. CASE me.hash > 1
    <3>1. PICK new : new = [me EXCEPT !.hash = me.hash - 1]
      OBVIOUS
    <3>2. Moves(id, new) /\ UNCHANGED results
      BY <1>1, <1>5, <1>11, <2>2, <3>1 DEF Search
    <3>3. new.pc = "search" /\ new.main = me.main /\ new.hash = me.hash - 1
      BY <1>3, <3>1 DEF CallerState
    <3>4. new \in CallerState
      <4>1. me.hash - 1 \in Nat
        BY <1>4, <2>2
      <4> QED BY <3>1, <4>1 DEF CallerState
    <3>5. caller'[id] = new
      BY <1>2, <3>2 DEF Moves
    <3>6. Place(id)'
      <4>1. me.hash - 1 \in 1 .. me.main
        BY <1>3, <1>4, <2>2
      <4>2. ~Above(id, me.hash - 1)'
        BY <2>1, <1>9
      <4> QED BY <1>3, <1>8, <3>3, <3>5, <4>1, <4>2 DEF Place, Counted, Resizing
    <3>7. Locked'
      BY <1>8, <3>2, <3>3, LockedStays DEF Resizing
    <3> QED
      BY <1>1, <1>2, <1>3, <1>8, <3>2, <3>3, <3>4, <3>6, <3>7, OnTheWay
      DEF Counted, Resizing
  <2>3. CASE ~(me.hash > 1)
    <3>1. PICK new : new = [me EXCEPT !.pc = "count"]
      OBVIOUS
    <3>2. Moves(id, new) /\ UNCHANGED results
      BY <1>1, <1>5, <1>11, <2>3, <3>1 DEF Search
    <3>3. new.pc = "count" /\ new.main = me.main
      BY <1>3, <3>1 DEF CallerState
    <3>4. new \in CallerState
      BY <3>1 DEF CallerState
    <3>5. caller'[id] = new
      BY <1>2, <3>2 DEF Moves
    <3>6. Place(id)'
      <4>1. me.hash - 1 = 0
        BY <1>3, <1>4, <2>3
      <4>2. ~Above(id, 0)'
        BY <2>1, <1>9, <4>1
      <4> QED BY <1>3, <1>8, <3>3, <3>5, <4>2 DEF Place, Counted, Resizing
    <3>7. Locked'
      BY <1>8, <3>2, <3>3, LockedStays DEF Resizing
    <3> QED
      BY <1>1, <1>2, <1>3, <1>8, <3>2, <3>3, <3>4, <3>6, <3>7, OnTheWay
      DEF Counted, Resizing
  <2> QED BY <2>2, <2>3
<1> QED BY <1>10, <1>11

\* The caller returned, and its key is in table k.
GotKey(id, k, p) ==
  /\ HashTypes' /\ Shape' /\ Locked' /\ (\A x \in Ids : Place(x))'
  /\ caller'[id].pc = "idle" /\ \A x \in Ids : x # id => caller'[x] = caller[x]
  /\ DOMAIN tables' = DOMAIN tables
  /\ \A j \in DOMAIN tables : ThreeQuarters(tables'[j]) = ThreeQuarters(tables[j])
  /\ \A j \in DOMAIN tables, x \in Ids :
       Has(tables'[j], x) <=> Has(tables[j], x) \/ (j = k /\ x = id)
  /\ \A x \in Ids : \A q : Held(x, q)' <=> Held(x, q) \/ (x = id /\ q = p)
  /\ \A x \in Ids : \A q \in Returned(x)' : q \in Returned(x) \/ (x = id /\ q = p)

\* The key of the caller is added to its table, and it returns.
LEMMA KeyGained ==
  ASSUME HashAssumption, HashInv, NEW id \in Ids, NEW me \in CallerState, me = caller[id],
         me.pc \in {"copy", "insert"},
         tables' = [tables EXCEPT ![me.main] = With(@, id, me.producer)],
         Answers(id, me.producer),
         UNCHANGED <<implicitProducerHashCount, resizing, created, producerListTail, failures>>
  PROVE  GotKey(id, me.main, me.producer)
<1>1. /\ tables \in Seq(Table) /\ tables # <<>> /\ implicitProducerHashCount \in Nat
      /\ failures \in Nat /\ resizing \in BOOLEAN /\ caller \in [Ids -> CallerState]
      /\ created \in Nat /\ producerListTail \in Seq(1 .. created)
  BY DEF HashInv, HashTypes
<1>2. PICK k \in DOMAIN tables, p \in Nat \cup {Null} : k = me.main /\ p = me.producer
  BY DEF HashInv, Place, CallerState
<1>3. PICK t \in Table : t = tables[k]
  BY <1>1
<1>4. ~Has(t, id)
  <2>1. k \in Nat /\ k > 0
    BY <1>1
  <2>2. CASE me.pc = "copy"
    <3>1. ~Above(id, me.hash) /\ me.hash \in 1 .. k - 1
      BY <1>2, <2>2 DEF HashInv, Place
    <3> QED BY <1>3, <2>1, <3>1 DEF Above
  <2>3. CASE me.pc = "insert"
    <3>1. ~Above(id, 0)
      BY <2>3 DEF HashInv, Place, Counted
    <3> QED BY <1>3, <2>1, <3>1 DEF Above
  <2> QED BY <2>2, <2>3
<1>5. Probed(t) /\ HasRoom(t)
  BY <1>3, TablesHaveRoom DEF HashInv, Shape
<1>6. PICK u : u = With(t, id, p)
  OBVIOUS
<1>7. PICK s : GainsKey(t, u, s, id, p)
  BY <1>4, <1>5, <1>6, WithGains
<1>8. tables' = [tables EXCEPT ![k] = u] /\ GainsKey(tables[k], u, s, id, p)
  BY <1>1, <1>2, <1>3, <1>6, <1>7
<1>9. /\ tables' \in Seq(Table) /\ tables' # <<>> /\ Len(tables') = Len(tables)
      /\ DOMAIN tables' = DOMAIN tables /\ Shape'
      /\ \A j \in DOMAIN tables : ThreeQuarters(tables'[j]) = ThreeQuarters(tables[j])
      /\ \A j \in DOMAIN tables, x \in Ids :
           Has(tables'[j], x) <=> Has(tables[j], x) \/ (j = k /\ x = id)
      /\ \A j \in DOMAIN tables, x \in Ids : \A q :
           HeldAt(tables'[j], x, q) <=> HeldAt(tables[j], x, q) \/ (j = k /\ x = id /\ q = p)
  <2>1. HashTypes /\ Shape
    BY DEF HashInv
  <2>2. TableGot(k, id, p)
    BY <1>8, <2>1, TableGains
  <2> QED BY <2>2 DEF TableGot
<1>10. /\ results' \in [Ids -> Seq(Nat \cup {Null})]
       /\ \A x \in Ids : \A q \in Returned(x)' : q \in Returned(x) \/ (x = id /\ q = p)
  BY <1>2, AnswersFacts DEF HashInv
<1>11. Moves(id, NoCall) /\ NoCall.pc = "idle" /\ NoCall \in CallerState
  BY NoCallIsState DEF Answers, NoCall
<1>12. /\ caller' \in [Ids -> CallerState] /\ caller'[id].pc = "idle"
       /\ \A x \in Ids : x # id => caller'[x] = caller[x]
  BY <1>1, <1>11 DEF Moves
<1>13. HashTypes'
  BY <1>1, <1>9, <1>10, <1>12 DEF HashTypes
<1>14. Locked'
  BY <1>11, LockedStays DEF Resizing
<1>15. ASSUME NEW x \in Ids
       PROVE  Place(x)'
  <2>1. CASE x = id
    BY <1>12, <2>1 DEF Place, Counted, Resizing
  <2>2. CASE x # id
    <3>1. Place(x) /\ caller[x] \in CallerState /\ caller'[x] = caller[x]
      BY <1>1, <1>12, <2>2 DEF HashInv
    <3>2. \A n : Above(x, n)' => Above(x, n)
      BY <1>9, <2>2 DEF Above
    <3> QED BY <1>1, <1>9, <3>1, <3>2, PlaceStays
  <2> QED BY <2>1, <2>2
<1>16. \A x \in Ids : \A q : Held(x, q)' <=> Held(x, q) \/ (x = id /\ q = p)
  BY <1>9 DEF Held
<1>17. (\A x \in Ids : Place(x))'
  BY <1>15
<1> QED BY <1>2, <1>9, <1>10, <1>12, <1>13, <1>14, <1>16, <1>17 DEF GotKey

LEMMA CopyKeeps ==
  ASSUME HashAssumption, HashInv, NEW id \in Ids, Copy(id)
  PROVE  HashInv'
<1>1. PICK me \in CallerState : me = caller[id]
  BY DEF HashInv, HashTypes
<1>2. /\ me.pc = "copy" /\ tables' = [tables EXCEPT ![me.main] = With(@, id, me.producer)]
      /\ Answers(id, me.producer)
      /\ UNCHANGED <<implicitProducerHashCount, resizing, created, producerListTail, failures>>
  BY <1>1 DEF Copy, AtPc
<1>3. /\ me.hash \in 1 .. me.main - 1 /\ me.main \in DOMAIN tables
      /\ HeldAt(tables[me.hash], id, me.producer)
  BY <1>1, <1>2 DEF HashInv, Place
<1>4. /\ HashTypes' /\ Shape' /\ Locked' /\ (\A x \in Ids : Place(x))'
      /\ caller'[id].pc = "idle" /\ \A x \in Ids : x # id => caller'[x] = caller[x]
      /\ DOMAIN tables' = DOMAIN tables
      /\ \A j \in DOMAIN tables : ThreeQuarters(tables'[j]) = ThreeQuarters(tables[j])
      /\ \A j \in DOMAIN tables, x \in Ids :
           Has(tables'[j], x) <=> Has(tables[j], x) \/ (j = me.main /\ x = id)
      /\ \A x \in Ids : \A q : Held(x, q)' <=> Held(x, q) \/ (x = id /\ q = me.producer)
      /\ \A x \in Ids : \A q \in Returned(x)' : q \in Returned(x) \/ (x = id /\ q = me.producer)
  <2>1. GotKey(id, me.main, me.producer)
    BY <1>1, <1>2, KeyGained
  <2> QED BY <2>1 DEF GotKey
<1>5. me.hash \in DOMAIN tables /\ Has(tables[me.hash], id) /\ tables \in Seq(Table)
  BY <1>3, HeldIsHas DEF HashInv, HashTypes
<1>6. Held(id, me.producer)
  BY <1>3, <1>5 DEF Held
<1>7. Ownership'
  <2>1. \A x \in Ids : \A q : Held(x, q)' <=> Held(x, q)
    BY <1>4, <1>6
  <2>2. \A x \in Ids : \A q \in Returned(x)' : q \in Returned(x) \/ Held(x, q)
    BY <1>4, <1>6
  <2> QED BY <1>1, <1>2, <1>4, <2>1, <2>2, OwnershipStays DEF HashInv
<1>8. Live' = Live
  <2>1. \A x \in Ids : (\E k \in DOMAIN tables : Has(tables'[k], x))
                       <=> (\E k \in DOMAIN tables : Has(tables[k], x))
    BY <1>4, <1>5
  <2>2. \A x \in Ids : Above(x, 0)' <=> \E k \in DOMAIN tables' : Has(tables'[k], x)
    <3>1. HashTypes' => (\A x \in Ids : Above(x, 0) <=> \E k \in DOMAIN tables : Has(tables[k], x))'
      BY AboveZero, PTL
    <3> QED BY <1>4, <3>1
  <2>3. \A x \in Ids : Above(x, 0) <=> \E k \in DOMAIN tables : Has(tables[k], x)
    BY AboveZero DEF HashInv
  <2>4. \A x \in Ids : Above(x, 0)' <=> Above(x, 0)
    BY <1>4, <2>1, <2>2, <2>3
  <2> QED BY <1>1, <1>2, <1>4, <2>4 DEF Live, Counted, Resizing
<1>9. ASSUME NEW m \in Nat
      PROVE  Within(m)' \subseteq Within(m)
  <2>1. ThreeQuarters(tables[me.hash]) <= ThreeQuarters(tables[me.main])
        /\ ThreeQuarters(tables[me.hash]) \in Nat /\ ThreeQuarters(tables[me.main]) \in Nat
    <3>1. tables[me.hash] \in Table /\ tables[me.main] \in Table
      BY <1>3, <1>5
    <3>2. tables[me.hash].capacity \in Nat /\ tables[me.main].capacity \in Nat
      BY <3>1, TableFacts
    <3>3. me.hash <= me.main
      BY <1>3, <1>5
    <3>4. tables[me.hash].capacity <= tables[me.main].capacity
      BY <1>3, <1>5, <3>3 DEF HashInv, Shape
    <3> QED BY <3>2, <3>4 DEF ThreeQuarters
  <2>2. ASSUME NEW x \in Within(m)'
        PROVE  x \in Within(m)
    <3>1. x \in Ids
      BY DEF Within
    <3>2. CASE caller'[x].pc \in Counted /\ caller'[x].newCount <= m
      BY <1>4, <3>1, <3>2 DEF Within, Counted, Resizing
    <3>3. CASE \E k \in DOMAIN tables' : Has(tables'[k], x) /\ ThreeQuarters(tables'[k]) <= m + 1
      <4>1. PICK k \in DOMAIN tables : Has(tables'[k], x) /\ ThreeQuarters(tables[k]) <= m + 1
        BY <1>4, <3>3
      <4>2. CASE Has(tables[k], x)
        BY <3>1, <4>1, <4>2 DEF Within
      <4>3. CASE k = me.main /\ x = id
        BY <1>5, <2>1, <4>1, <4>3 DEF Within
      <4> QED BY <1>4, <3>1, <4>1, <4>2, <4>3
    <3> QED BY <3>2, <3>3 DEF Within
  <2> QED BY <2>2
<1>10. Counts'
  BY <1>2, <1>8, <1>9, AboveZero, CountsStay DEF HashInv
<1> QED BY <1>4, <1>7, <1>10 DEF HashInv

LEMMA CountKeeps ==
  ASSUME HashAssumption, HashInv, NEW id \in Ids, Count(id)
  PROVE  HashInv'
<1>1. PICK me \in CallerState : me = caller[id]
  BY DEF HashInv, HashTypes
<1>2. /\ tables \in Seq(Table) /\ tables # <<>> /\ implicitProducerHashCount \in Nat
      /\ failures \in Nat /\ resizing \in BOOLEAN /\ caller \in [Ids -> CallerState]
      /\ results \in [Ids -> Seq(Nat \cup {Null})]
  BY DEF HashInv, HashTypes
<1>3. PICK n \in Nat : n = implicitProducerHashCount
  BY <1>2
<1>4. PICK new : new = [me EXCEPT !.pc = "grow", !.hash = 0, !.newCount = n + 1]
  OBVIOUS
<1>5. /\ me.pc = "count" /\ Moves(id, new) /\ implicitProducerHashCount' = n + 1
      /\ UNCHANGED <<tables, resizing, created, producerListTail, results, failures>>
  BY <1>1, <1>3, <1>4 DEF Count, AtPc
<1>6. new.pc = "grow" /\ new.newCount = n + 1 /\ new.main = me.main
  <2>1. new.pc = "grow"
    BY <1>4 DEF CallerState
  <2>2. new.newCount = n + 1
    BY <1>4 DEF CallerState
  <2>3. new.main = me.main
    BY <1>4 DEF CallerState
  <2> QED BY <2>1, <2>2, <2>3
<1>7. new \in CallerState
  <2>1. "grow" \in {"idle", "search", "copy", "count"} \cup Counted
    BY DEF Counted
  <2>2. PICK c \in Nat : c = n + 1
    OBVIOUS
  <2>3. new = [me EXCEPT !.pc = "grow", !.hash = 0, !.newCount = c]
    BY <1>4, <2>2
  <2> QED BY <2>1, <2>3 DEF CallerState
<1>8. caller'[id] = new /\ \A x \in Ids : x # id => caller'[x] = caller[x]
  BY <1>2, <1>5 DEF Moves
<1>9. \A x \in Ids : Above(x, 0)' <=> Above(x, 0)
  BY <1>5 DEF Above
<1>10. me.main \in DOMAIN tables /\ ~Above(id, 0)
  BY <1>1, <1>5 DEF HashInv, Place, Counted, Resizing
<1>11. Place(id)'
  <2>1. n + 1 > 0
    OBVIOUS
  <2> QED BY <2>1, <1>5, <1>6, <1>8, <1>9, <1>10 DEF Place, Counted, Resizing
<1>12. Locked'
  BY <1>5, <1>6, LockedStays DEF Resizing
<1>13. Live' = Live \cup {id} /\ id \notin Live
  BY <1>1, <1>5, <1>6, <1>8, <1>9, <1>10 DEF Live, Counted, Resizing
<1>14. IsFiniteSet(Live) /\ Cardinality(Live) = n
  BY <1>3 DEF HashInv, Counts
<1>15. IsFiniteSet(Live \cup {id}) /\ Cardinality(Live \cup {id}) = n + 1
  BY <1>13, <1>14, FS_AddElement
<1>16. ASSUME NEW m \in Nat
       PROVE  Cardinality(Within(m)') <= m
  <2>1. PICK w : w = Within(m)'
    OBVIOUS
  <2>2. CASE m < n + 1
    <3>1. w = Within(m)
      BY <1>1, <1>5, <1>6, <1>8, <2>1, <2>2 DEF Within, Counted, Resizing
    <3> QED BY <2>1, <3>1 DEF HashInv, Counts
  <2>3. CASE n + 1 <= m
    <3>1. w \subseteq Live \cup {id}
      <4>1. Within(m) \subseteq Live
        BY AboveZero DEF Within, Live, HashInv
      <4>2. w \subseteq Within(m) \cup {id}
        BY <1>5, <1>8, <2>1 DEF Within
      <4> QED BY <4>1, <4>2
    <3>2. Cardinality(w) <= n + 1 /\ Cardinality(w) \in Nat
      BY <1>15, <3>1, FS_Subset, FS_CardinalityType
    <3> QED BY <2>1, <2>3, <3>2
  <2> QED BY <2>2, <2>3
<1>17. Counts'
  <2>1. \A m \in Nat : Cardinality(Within(m))' <= m
    BY <1>16
  <2>2. (IsFiniteSet(Live) /\ Cardinality(Live) = implicitProducerHashCount)'
    BY <1>5, <1>13, <1>15
  <2> QED BY <2>1, <2>2 DEF Counts
<1>18. \A x \in Ids : \A q \in Returned(x)' : q \in Returned(x)
  BY <1>5 DEF Returned
<1>19. implicitProducerHashCount' \in Nat
  BY <1>5
<1> QED BY <1>1, <1>2, <1>5, <1>6, <1>7, <1>11, <1>12, <1>17, <1>18, <1>19, CallerMoves

LEMMA LockKeeps ==
  ASSUME HashAssumption, HashInv, NEW id \in Ids, Lock(id)
  PROVE  HashInv'
<1>1. PICK me \in CallerState : me = caller[id]
  BY DEF HashInv, HashTypes
<1>2. /\ me.pc = "grow"
      /\ UNCHANGED <<tables, implicitProducerHashCount, created, producerListTail, results,
                     failures>>
  BY <1>1 DEF Lock, AtPc
<1>3. resizing \in BOOLEAN /\ caller \in [Ids -> CallerState]
  BY DEF HashInv, HashTypes
<1>4. PICK there \in {"room", "reload"} :
        /\ Moves(id, [me EXCEPT !.pc = there])
        /\ \/ resizing' = resizing /\ there = "room"
           \/ resizing' = TRUE /\ (there = "reload" => ~resizing)
  <2>1. CASE me.newCount >= Half(tables[me.main])
    BY <1>1, <2>1, <1>3 DEF Lock
  <2>2. CASE ~(me.newCount >= Half(tables[me.main]))
    BY <1>1, <2>2 DEF Lock
  <2> QED BY <2>1, <2>2
<1>5. PICK new : new = [me EXCEPT !.pc = there]
  OBVIOUS
<1>6. new.pc = there /\ new.newCount = me.newCount /\ new.main = me.main
  BY <1>5 DEF CallerState
<1>7. new \in CallerState
  <2>1. there \in {"idle", "search", "copy", "count"} \cup Counted
    BY DEF Counted, Resizing
  <2> QED BY <1>5, <2>1 DEF CallerState
<1>8. caller'[id] = new /\ \A x \in Ids : x # id => caller'[x] = caller[x]
  BY <1>3, <1>4, <1>5 DEF Moves
<1>9. Place(id)'
  <2>1. ~Above(id, 0) /\ me.main \in DOMAIN tables /\ me.newCount > 0
    BY <1>1, <1>2 DEF HashInv, Place, Counted
  <2>2. ~Above(id, 0)'
    BY <1>2, <2>1 DEF Above
  <2>3. me.main \in DOMAIN tables'
    BY <1>2, <2>1
  <2> QED BY <1>6, <1>8, <2>1, <2>2, <2>3 DEF Place, Counted, Resizing
<1>10. Locked'
  BY <1>4, <1>6, <1>8 DEF HashInv, Locked, Resizing
<1>11. resizing' \in BOOLEAN
  BY <1>3, <1>4
<1>12. new.pc \in Counted /\ me.pc \in Counted
  BY <1>2, <1>6 DEF Counted, Resizing
<1> QED BY <1>1, <1>2, <1>4, <1>5, <1>6, <1>7, <1>9, <1>10, <1>11, <1>12, OnTheWay

LEMMA ReloadKeeps ==
  ASSUME HashAssumption, HashInv, NEW id \in Ids, Reload(id)
  PROVE  HashInv'
<1>1. PICK me \in CallerState : me = caller[id]
  BY DEF HashInv, HashTypes
<1>2. /\ me.pc = "reload"
      /\ UNCHANGED <<tables, implicitProducerHashCount, resizing, created, producerListTail,
                     results, failures>>
  BY <1>1 DEF Reload, AtPc, tableVars
<1>3. /\ resizing \in BOOLEAN /\ caller \in [Ids -> CallerState]
      /\ tables \in Seq(Table) /\ tables # <<>>
  BY DEF HashInv, HashTypes
<1>4. PICK n \in Nat : n = Len(tables) /\ n \in DOMAIN tables
  BY <1>3
<1>5. PICK there \in {"allocate", "unlock"} : Moves(id, [me EXCEPT !.main = n, !.pc = there])
  <2>1. PICK it : it = [me EXCEPT !.main = n]
    OBVIOUS
  <2>2. Moves(id, [it EXCEPT !.pc = IF it.newCount >= Half(tables[it.main])
                                    THEN "allocate" ELSE "unlock"])
    BY <1>1, <1>4, <2>1 DEF Reload
  <2>3. PICK there \in {"allocate", "unlock"} : Moves(id, [it EXCEPT !.pc = there])
    BY <2>2
  <2>4. [it EXCEPT !.pc = there] = [me EXCEPT !.main = n, !.pc = there]
    BY <2>1 DEF CallerState
  <2> QED BY <2>3, <2>4
<1>6. PICK new : new = [me EXCEPT !.main = n, !.pc = there]
  OBVIOUS
<1>7. new.pc = there /\ new.newCount = me.newCount /\ new.main = n
  BY <1>6 DEF CallerState
<1>8. new \in CallerState
  <2>1. there \in {"idle", "search", "copy", "count"} \cup Counted
    BY DEF Counted, Resizing
  <2> QED BY <1>6, <2>1 DEF CallerState
<1>9. caller'[id] = new /\ \A x \in Ids : x # id => caller'[x] = caller[x]
  BY <1>3, <1>5, <1>6 DEF Moves
<1>10. Place(id)'
  <2>1. ~Above(id, 0) /\ me.newCount > 0
    BY <1>1, <1>2 DEF HashInv, Place, Counted, Resizing
  <2>2. ~Above(id, 0)'
    BY <1>2, <2>1 DEF Above
  <2>3. n \in DOMAIN tables' /\ n = Len(tables')
    BY <1>2, <1>4
  <2> QED BY <1>7, <1>9, <2>1, <2>2, <2>3 DEF Place, Counted, Resizing
<1>11. Locked'
  BY <1>1, <1>2, <1>5, <1>6, LockedStays DEF Resizing
<1>12. new.pc \in Counted /\ me.pc \in Counted
  BY <1>2, <1>7 DEF Counted, Resizing
<1> QED BY <1>1, <1>2, <1>3, <1>5, <1>6, <1>7, <1>8, <1>10, <1>11, <1>12, OnTheWay

LEMMA UnlockKeeps ==
  ASSUME HashAssumption, HashInv, NEW id \in Ids, Unlock(id)
  PROVE  HashInv'
<1>1. PICK me \in CallerState : me = caller[id]
  BY DEF HashInv, HashTypes
<1>2. /\ me.pc = "unlock" /\ resizing' = FALSE
      /\ UNCHANGED <<tables, implicitProducerHashCount, created, producerListTail, results,
                     failures>>
      /\ Moves(id, [me EXCEPT !.pc = "room"])
  BY <1>1 DEF Unlock, AtPc
<1>3. caller \in [Ids -> CallerState]
  BY DEF HashInv, HashTypes
<1>4. PICK new : new = [me EXCEPT !.pc = "room"]
  OBVIOUS
<1>5. new.pc = "room" /\ new.newCount = me.newCount /\ new.main = me.main
  BY <1>4 DEF CallerState
<1>6. new \in CallerState
  <2>1. "room" \in {"idle", "search", "copy", "count"} \cup Counted
    BY DEF Counted
  <2> QED BY <1>4, <2>1 DEF CallerState
<1>7. caller'[id] = new /\ \A x \in Ids : x # id => caller'[x] = caller[x]
  BY <1>2, <1>3, <1>4 DEF Moves
<1>8. Place(id)'
  <2>1. ~Above(id, 0) /\ me.main \in DOMAIN tables /\ me.newCount > 0
    BY <1>1, <1>2 DEF HashInv, Place, Counted, Resizing
  <2>2. ~Above(id, 0)'
    BY <1>2, <2>1 DEF Above
  <2>3. me.main \in DOMAIN tables'
    BY <1>2, <2>1
  <2> QED BY <1>5, <1>7, <2>1, <2>2, <2>3 DEF Place, Counted, Resizing
<1>9. Locked'
  BY <1>1, <1>2, <1>5, <1>7 DEF HashInv, Locked, Resizing
<1>10. new.pc \in Counted /\ me.pc \in Counted
  BY <1>2, <1>5 DEF Counted, Resizing
<1> QED BY <1>1, <1>2, <1>4, <1>5, <1>6, <1>8, <1>9, <1>10, OnTheWay

\* A counted caller gives up.
LEMMA FailKeeps ==
  ASSUME HashAssumption, HashInv, NEW id \in Ids, caller[id].pc \in {"allocate", "create"},
         implicitProducerHashCount' = implicitProducerHashCount - 1, Fails(id),
         UNCHANGED <<tables, created, producerListTail>>, resizing' \in BOOLEAN,
         resizing' # resizing => caller[id].pc = "allocate"
  PROVE  HashInv'
<1>1. caller \in [Ids -> CallerState] /\ failures \in Nat
  BY DEF HashInv, HashTypes
<1>2. Answers(id, Null) /\ failures' \in Nat
  BY <1>1 DEF Fails
<1>3. Moves(id, NoCall) /\ NoCall \in CallerState /\ NoCall.pc = "idle"
  BY <1>2, NoCallIsState DEF Answers, NoCall
<1>4. caller'[id] = NoCall /\ \A x \in Ids : x # id => caller'[x] = caller[x]
  BY <1>1, <1>3 DEF Moves
<1>5. Counts' /\ implicitProducerHashCount' \in Nat
  <2>1. caller[id].pc \in Counted
    BY DEF Counted, Resizing
  <2> QED BY <1>3, <2>1, CountsFail
<1>6. Place(id)'
  BY <1>3, <1>4 DEF Place, Counted, Resizing
<1>7. Locked'
  BY <1>3, <1>4 DEF HashInv, Locked, Resizing
<1>8. /\ results' \in [Ids -> Seq(Nat \cup {Null})]
      /\ \A x \in Ids : \A q \in Returned(x)' : q \in Returned(x)
  <2>1. HashTypes
    BY DEF HashInv
  <2> QED BY <1>2, <2>1, AnswersFacts
<1> QED BY <1>2, <1>3, <1>5, <1>6, <1>7, <1>8, CallerMoves

LEMMA RoomKeeps ==
  ASSUME HashAssumption, HashInv, NEW id \in Ids, Room(id)
  PROVE  HashInv'
<1>1. PICK me \in CallerState : me = caller[id]
  BY DEF HashInv, HashTypes
<1>2. /\ me.pc = "room"
      /\ UNCHANGED <<tables, implicitProducerHashCount, resizing, created, producerListTail,
                     results, failures>>
  BY <1>1 DEF Room, AtPc, tableVars
<1>3. /\ resizing \in BOOLEAN /\ caller \in [Ids -> CallerState]
      /\ tables \in Seq(Table) /\ tables # <<>>
  BY DEF HashInv, HashTypes
<1>4. ~Above(id, 0) /\ me.main \in DOMAIN tables /\ me.newCount > 0
  BY <1>1, <1>2 DEF HashInv, Place, Counted, Resizing
<1>5. ~Above(id, 0)'
  BY <1>2, <1>4 DEF Above
<1>6. me.pc \in Counted
  BY <1>2 DEF Counted
<1>7. CASE me.newCount < ThreeQuarters(tables[me.main])
  <2>1. PICK new : new = [me EXCEPT !.pc = "create"]
    OBVIOUS
  <2>2. Moves(id, new)
    BY <1>1, <1>7, <2>1 DEF Room
  <2>3. new.pc = "create" /\ new.newCount = me.newCount /\ new.main = me.main
    BY <2>1 DEF CallerState
  <2>4. new \in CallerState
    <3>1. "create" \in {"idle", "search", "copy", "count"} \cup Counted
      BY DEF Counted
    <3> QED BY <2>1, <3>1 DEF CallerState
  <2>5. caller'[id] = new
    BY <1>3, <2>2 DEF Moves
  <2>6. Place(id)'
    <3>1. me.main \in DOMAIN tables' /\ me.newCount < ThreeQuarters(tables'[me.main])
      BY <1>2, <1>4, <1>7
    <3> QED BY <1>4, <1>5, <2>3, <2>5, <3>1 DEF Place, Counted, Resizing
  <2>7. Locked'
    BY <1>2, <2>2, <2>3, LockedStays DEF Resizing
  <2>8. new.pc \in Counted
    BY <2>3 DEF Counted
  <2> QED BY <1>1, <1>2, <1>3, <1>6, <2>2, <2>3, <2>4, <2>6, <2>7, <2>8, OnTheWay
<1>8. CASE ~(me.newCount < ThreeQuarters(tables[me.main]))
  <2>1. PICK n \in Nat : n = Len(tables) /\ n \in DOMAIN tables
    BY <1>3
  <2>2. PICK new : new = [me EXCEPT !.pc = "grow", !.main = n]
    OBVIOUS
  <2>3. Moves(id, new)
    BY <1>1, <1>8, <2>1, <2>2 DEF Room
  <2>4. new.pc = "grow" /\ new.newCount = me.newCount /\ new.main = n
    BY <2>2 DEF CallerState
  <2>5. new \in CallerState
    <3>1. "grow" \in {"idle", "search", "copy", "count"} \cup Counted
      BY DEF Counted
    <3> QED BY <2>2, <3>1 DEF CallerState
  <2>6. caller'[id] = new
    BY <1>3, <2>3 DEF Moves
  <2>7. Place(id)'
    <3>1. n \in DOMAIN tables'
      BY <1>2, <2>1
    <3> QED BY <1>4, <1>5, <2>4, <2>6, <3>1 DEF Place, Counted, Resizing
  <2>8. Locked'
    BY <1>2, <2>3, <2>4, LockedStays DEF Resizing
  <2>9. new.pc \in Counted
    BY <2>4 DEF Counted
  <2> QED BY <1>1, <1>2, <1>3, <1>6, <2>3, <2>4, <2>5, <2>7, <2>8, <2>9, OnTheWay
<1> QED BY <1>7, <1>8

LEMMA AllocateKeeps ==
  ASSUME HashAssumption, HashInv, NEW id \in Ids, Allocate(id)
  PROVE  HashInv'
<1>1. PICK me \in CallerState : me = caller[id]
  BY DEF HashInv, HashTypes
<1>2. /\ me.pc = "allocate"
      /\ UNCHANGED <<implicitProducerHashCount, resizing, created, producerListTail, results,
                     failures>>
  BY <1>1 DEF Allocate, AtPc
<1>3. /\ resizing \in BOOLEAN /\ caller \in [Ids -> CallerState]
      /\ tables \in Seq(Table) /\ tables # <<>>
  BY DEF HashInv, HashTypes
<1>4. PICK n \in Nat : n = Len(tables) /\ n \in DOMAIN tables
  BY <1>3
<1>5. ~Above(id, 0) /\ me.main = n /\ me.newCount \in Nat \ {0}
  BY <1>1, <1>2, <1>4 DEF HashInv, Place, Counted, Resizing, CallerState
<1>6. PICK c : c = NewCapacity(tables[n], me.newCount)
  OBVIOUS
<1>7. tables' = Append(tables, NewTable(c)) /\ Moves(id, [me EXCEPT !.pc = "unlock", !.main = n + 1])
  BY <1>1, <1>4, <1>5, <1>6 DEF Allocate
<1>8. c \in Nat /\ c >= tables[Len(tables)].capacity
  <2>1. PICK t \in Table : t = tables[n]
    BY <1>3, <1>4
  <2> QED BY <1>4, <1>5, <1>6, <2>1, CapacityGrows
<1>9. /\ tables' \in Seq(Table) /\ tables' # <<>> /\ Len(tables') = n + 1 /\ Shape'
      /\ DOMAIN tables' = DOMAIN tables \cup {n + 1}
      /\ \A j \in DOMAIN tables : tables'[j] = tables[j]
      /\ \A x \in Ids : ~Has(tables'[n + 1], x)
  <2>1. HashTypes /\ Shape
    BY DEF HashInv
  <2> QED BY <1>4, <1>7, <1>8, <2>1, TableAppended
<1>10. PICK new : new = [me EXCEPT !.pc = "unlock", !.main = n + 1]
  OBVIOUS
<1>11. new.pc = "unlock" /\ new.newCount = me.newCount /\ new.main = n + 1
  BY <1>10 DEF CallerState
<1>12. new \in CallerState
  <2>1. "unlock" \in {"idle", "search", "copy", "count"} \cup Counted
    BY DEF Counted, Resizing
  <2>2. n + 1 \in Nat
    OBVIOUS
  <2> QED BY <1>10, <2>1, <2>2 DEF CallerState
<1>13. /\ caller' \in [Ids -> CallerState] /\ caller'[id] = new
       /\ \A x \in Ids : x # id => caller'[x] = caller[x]
  BY <1>3, <1>7, <1>10, <1>12 DEF Moves
<1>14. \A x \in Ids : \A m : Above(x, m)' <=> Above(x, m)
  BY <1>9 DEF Above
<1>15. HashTypes'
  BY <1>2, <1>9, <1>13 DEF HashInv, HashTypes
<1>16. Locked'
  <2>1. Moves(id, new)
    BY <1>7, <1>10
  <2> QED BY <1>1, <1>2, <2>1, LockedStays DEF Resizing
<1>17. ASSUME NEW x \in Ids
       PROVE  Place(x)'
  <2>1. CASE x = id
    <3>1. n + 1 \in DOMAIN tables' /\ ~Above(id, 0)'
      BY <1>5, <1>9, <1>14
    <3> QED BY <1>5, <1>11, <1>13, <2>1, <3>1 DEF Place, Counted, Resizing
  <2>2. CASE x # id
    <3>1. Place(x) /\ caller[x] \in CallerState /\ caller'[x] = caller[x]
      BY <1>3, <1>13, <2>2 DEF HashInv
    <3>2. caller[x].pc # "allocate"
      BY <1>1, <1>2, <2>2 DEF HashInv, Locked, Resizing
    <3>3. \A j \in DOMAIN tables : ThreeQuarters(tables'[j]) = ThreeQuarters(tables[j])
      BY <1>9
    <3> QED BY <1>3, <1>9, <1>14, <3>1, <3>2, <3>3, PlaceStays
  <2> QED BY <2>1, <2>2
<1>18. Ownership'
  <2>1. \A x \in Ids : \A q : Held(x, q)' <=> Held(x, q)
    <3>1. \A x \in Ids : \A q : ~HeldAt(tables'[n + 1], x, q)
      BY <1>9, HeldIsHas
    <3> QED BY <1>9, <3>1 DEF Held
  <2>2. \A x \in Ids : Returned(x)' = Returned(x)
    BY <1>2 DEF Returned
  <2> QED BY <1>1, <1>2, <1>11, <1>13, <2>1, <2>2, OwnershipStays DEF HashInv
<1>19. Counts'
  <2>1. \A x \in Ids : /\ caller'[x].pc \in Counted <=> caller[x].pc \in Counted
                       /\ caller[x].pc \in Counted => caller'[x].newCount = caller[x].newCount
    BY <1>1, <1>2, <1>11, <1>13 DEF Counted, Resizing
  <2>2. Live' = Live
    BY <1>14, <2>1 DEF Live
  <2>3. \A m \in Nat : Within(m)' \subseteq Within(m)
    <3>1. \A x \in Ids, k \in DOMAIN tables' : Has(tables'[k], x) =>
            k \in DOMAIN tables /\ tables'[k] = tables[k]
      BY <1>9
    <3> QED BY <2>1, <3>1 DEF Within
  <2> QED BY <1>2, <2>2, <2>3, AboveZero, CountsStay DEF HashInv
<1>20. (\A x \in Ids : Place(x))'
  BY <1>17
<1> QED BY <1>9, <1>15, <1>16, <1>18, <1>19, <1>20 DEF HashInv

LEMMA CreateKeeps ==
  ASSUME HashAssumption, HashInv, NEW id \in Ids, Create(id)
  PROVE  HashInv'
<1>1. PICK me \in CallerState : me = caller[id]
  BY DEF HashInv, HashTypes
<1>2. /\ resizing \in BOOLEAN /\ caller \in [Ids -> CallerState]
      /\ created \in Nat /\ producerListTail \in Seq(1 .. created)
      /\ implicitProducerHashCount \in Nat /\ failures \in Nat
      /\ results \in [Ids -> Seq(Nat \cup {Null})]
  BY DEF HashInv, HashTypes
<1>3. PICK p \in Nat, list \in Seq(Nat) : p = created + 1 /\ list = producerListTail
  <2>1. producerListTail \in Seq(Nat)
    BY <1>2
  <2> QED BY <1>2, <2>1
<1>4. PICK new : new = [me EXCEPT !.pc = "push", !.producer = p, !.prevTail = list]
  OBVIOUS
<1>5. /\ me.pc = "create" /\ created' = p /\ Moves(id, new)
      /\ UNCHANGED <<tables, implicitProducerHashCount, resizing, producerListTail, results,
                     failures>>
  BY <1>1, <1>3, <1>4 DEF Create, AtPc, tableVars
<1>6. new.pc = "push" /\ new.producer = p /\ new.newCount = me.newCount /\ new.main = me.main
  <2>1. new.pc = "push" /\ new.producer = p
    BY <1>4 DEF CallerState
  <2>2. new.newCount = me.newCount /\ new.main = me.main
    BY <1>4 DEF CallerState
  <2> QED BY <2>1, <2>2
<1>7. new \in CallerState
  <2>1. "push" \in {"idle", "search", "copy", "count"} \cup Counted
    BY DEF Counted
  <2> QED BY <1>4, <2>1 DEF CallerState
<1>8. caller'[id] = new /\ \A x \in Ids : x # id => caller'[x] = caller[x]
  BY <1>2, <1>5 DEF Moves
<1>9. /\ ~Above(id, 0) /\ me.main \in DOMAIN tables /\ me.newCount > 0
      /\ me.newCount < ThreeQuarters(tables[me.main])
  BY <1>1, <1>5 DEF HashInv, Place, Counted
<1>10. Place(id)'
  <2>1. ~Above(id, 0)'
    BY <1>5, <1>9 DEF Above
  <2>2. me.main \in DOMAIN tables' /\ me.newCount < ThreeQuarters(tables'[me.main])
    BY <1>5, <1>9
  <2> QED BY <1>6, <1>8, <1>9, <2>1, <2>2 DEF Place, Counted, Resizing
<1>11. Locked'
  BY <1>5, <1>6, LockedStays DEF Resizing
<1>12. Counts'
  BY <1>1, <1>5, <1>6, <1>7, CountsMove DEF Counted, Resizing
<1>13. p \notin 1 .. created /\ p \in 1 .. p /\ 1 .. p = 1 .. created \cup {p}
  BY <1>2, <1>3
<1>14. \A q : Listed(q) => q \in 1 .. created
  BY <1>2 DEF Listed, ToSet
<1>15. \A x \in Ids : \A q : Held(x, q)' <=> Held(x, q)
  BY <1>5 DEF Held
<1>16. \A q : Listed(q)' <=> Listed(q)
  BY <1>5 DEF Listed
<1>17. Ownership'
  <2>1. \A x \in Ids : \A q : Makes(x, q)' <=> Makes(x, q) \/ (x = id /\ q = p)
    BY <1>1, <1>5, <1>6, <1>8 DEF Makes
  <2>2. \A x \in Ids, q \in Nat \cup {Null} : Owns(x, q) => q \in 1 .. created
    BY DEF Owns, Makes, HashInv, Ownership, HeldListed, MadeListed
  <2>3. \A q \in Nat \cup {Null} : ~Owns(id, q)
    <3>1. ~Makes(id, p) /\ \A q : ~Makes(id, q)
      BY <1>1, <1>5 DEF Makes
    <3>2. \A q : ~Held(id, q)
      <4>1. ~\E k \in DOMAIN tables : Has(tables[k], id)
        BY <1>9, AboveZero DEF HashInv
      <4> QED BY <4>1, HeldIsHas DEF Held
    <3> QED BY <3>1, <3>2 DEF Owns
  <2>4. \A x \in Ids, q \in Nat \cup {Null} : Owns(x, q)' <=> Owns(x, q) \/ (x = id /\ q = p)
    BY <1>15, <2>1 DEF Owns
  <2>5. OneOwner'
    <3>1. ASSUME NEW x \in Ids, NEW other \in Ids, NEW q \in Nat \cup {Null},
                 NEW r \in Nat \cup {Null}, Owns(x, q)', Owns(other, r)'
          PROVE  x = other <=> q = r
      <4>1. CASE Owns(x, q) /\ Owns(other, r)
        BY <4>1 DEF HashInv, Ownership, OneOwner
      <4>2. CASE Owns(x, q) /\ other = id /\ r = p
        BY <1>13, <2>2, <2>3, <4>2
      <4>3. CASE Owns(other, r) /\ x = id /\ q = p
        BY <1>13, <2>2, <2>3, <4>3
      <4>4. CASE x = id /\ q = p /\ other = id /\ r = p
        BY <4>4
      <4> QED BY <2>4, <3>1, <4>1, <4>2, <4>3, <4>4
    <3> QED BY <3>1 DEF OneOwner
  <2>6. HeldListed'
    BY <1>5, <1>13, <1>15, <1>16 DEF HashInv, Ownership, HeldListed
  <2>7. MadeListed'
    <3>1. ASSUME NEW x \in Ids, caller'[x].pc \in {"push", "insert"}
          PROVE  /\ caller'[x].producer \in 1 .. created'
                 /\ Listed(caller[x].producer)' <=> caller'[x].pc = "insert"
      <4>1. CASE x = id
        <5>1. ~Listed(p)'
          BY <1>13, <1>14, <1>16
        <5> QED BY <1>5, <1>6, <1>8, <1>13, <4>1, <5>1 DEF Listed
      <4>2. CASE x # id
        BY <1>5, <1>8, <1>13, <3>1, <4>2 DEF HashInv, Ownership, MadeListed, Listed
      <4> QED BY <4>1, <4>2
    <3> QED BY <3>1 DEF MadeListed
  <2>8. NoneLost'
    <3>1. ASSUME NEW q \in 1 .. created'
          PROVE  Listed(q)' \/ \E x \in Ids : caller'[x].pc = "push" /\ caller'[x].producer = q
      <4>1. CASE q = p
        BY <1>6, <1>8, <4>1
      <4>2. CASE q \in 1 .. created
        <5>1. Listed(q) \/ \E x \in Ids : caller[x].pc = "push" /\ caller[x].producer = q
          BY <4>2 DEF HashInv, Ownership, NoneLost
        <5>2. CASE Listed(q)
          BY <1>16, <5>2
        <5>3. ASSUME NEW x \in Ids, caller[x].pc = "push", caller[x].producer = q
              PROVE  caller'[x].pc = "push" /\ caller'[x].producer = q
          BY <1>1, <1>5, <1>8, <5>3
        <5> QED BY <5>1, <5>2, <5>3
      <4> QED BY <1>5, <1>13, <4>1, <4>2
    <3> QED BY <3>1 DEF NoneLost
  <2>9. Remembered'
    <3>1. \A x \in Ids : Returned(x)' = Returned(x)
      BY <1>5 DEF Returned
    <3> QED BY <1>15, <3>1 DEF HashInv, Ownership, Remembered
  <2>10. IsInjective(producerListTail)'
    BY <1>5 DEF HashInv, Ownership
  <2> QED BY <2>5, <2>6, <2>7, <2>8, <2>9, <2>10 DEF Ownership
<1>18. created' \in Nat /\ producerListTail' \in Seq(1 .. created')
  <2>1. PICK A, B : A = 1 .. created /\ B = 1 .. p
    OBVIOUS
  <2>2. A \subseteq B
    BY <1>13, <2>1
  <2>3. Seq(A) \subseteq Seq(B)
    BY <2>2
  <2> QED BY <1>2, <1>3, <1>5, <2>1, <2>3
<1> QED BY <1>2, <1>5, <1>7, <1>10, <1>11, <1>12, <1>17, <1>18, CallerSteps

LEMMA PushKeeps ==
  ASSUME HashAssumption, HashInv, NEW id \in Ids, Push(id)
  PROVE  HashInv'
<1>1. PICK me \in CallerState : me = caller[id]
  BY DEF HashInv, HashTypes
<1>2. /\ resizing \in BOOLEAN /\ caller \in [Ids -> CallerState]
      /\ created \in Nat /\ producerListTail \in Seq(1 .. created)
      /\ implicitProducerHashCount \in Nat /\ failures \in Nat
      /\ results \in [Ids -> Seq(Nat \cup {Null})]
  BY DEF HashInv, HashTypes
<1>3. /\ me.pc = "push"
      /\ UNCHANGED <<tables, implicitProducerHashCount, resizing, created, results, failures>>
  BY <1>1 DEF Push, AtPc, tableVars
<1>4. PICK p \in 1 .. created : p = me.producer
  BY <1>1, <1>3 DEF HashInv, Ownership, MadeListed
<1>5. ~Listed(p)
  BY <1>1, <1>3, <1>4 DEF HashInv, Ownership, MadeListed
<1>6. PICK list \in Seq(Nat) : list = producerListTail
  <2>1. producerListTail \in Seq(Nat)
    BY <1>2
  <2> QED BY <2>1
<1>7. /\ ~Above(id, 0) /\ me.main \in DOMAIN tables /\ me.newCount > 0
      /\ me.newCount < ThreeQuarters(tables[me.main])
  BY <1>1, <1>3 DEF HashInv, Place, Counted
<1>8. ~Above(id, 0)' /\ me.main \in DOMAIN tables' /\ me.newCount < ThreeQuarters(tables'[me.main])
  BY <1>3, <1>7 DEF Above
<1>9. me.pc \in Counted
  BY <1>3 DEF Counted
<1>10. CASE producerListTail # me.prevTail
  <2>1. PICK new : new = [me EXCEPT !.prevTail = list]
    OBVIOUS
  <2>2. Moves(id, new) /\ UNCHANGED producerListTail
    BY <1>1, <1>6, <1>10, <2>1 DEF Push
  <2>3. new.pc = "push" /\ new.producer = p /\ new.newCount = me.newCount /\ new.main = me.main
    BY <1>3, <1>4, <2>1 DEF CallerState
  <2>4. new \in CallerState
    BY <2>1 DEF CallerState
  <2>5. caller'[id] = new
    BY <1>2, <2>2 DEF Moves
  <2>6. Place(id)'
    BY <1>7, <1>8, <2>3, <2>5 DEF Place, Counted, Resizing
  <2>7. Locked'
    BY <1>3, <2>2, <2>3, LockedStays DEF Resizing
  <2> QED BY <1>1, <1>2, <1>3, <1>4, <1>9, <2>2, <2>3, <2>4, <2>6, <2>7, OnTheWay
<1>11. CASE producerListTail = me.prevTail
  <2>1. PICK new : new = [me EXCEPT !.pc = "insert", !.prevTail = <<>>]
    OBVIOUS
  <2>2. Moves(id, new) /\ producerListTail' = <<p>> \o producerListTail
    BY <1>1, <1>4, <1>11, <2>1 DEF Push
  <2>3. new.pc = "insert" /\ new.producer = p /\ new.newCount = me.newCount /\ new.main = me.main
    BY <1>4, <2>1 DEF CallerState
  <2>4. new \in CallerState
    <3>1. PICK none \in Seq(Nat) : none = <<>>
      <4>1. <<>> \in Seq(Nat)
        OBVIOUS
      <4> QED BY <4>1
    <3>2. "insert" \in {"idle", "search", "copy", "count"} \cup Counted
      BY DEF Counted
    <3> QED BY <2>1, <3>1, <3>2 DEF CallerState
  <2>5. caller'[id] = new /\ \A x \in Ids : x # id => caller'[x] = caller[x]
    BY <1>2, <2>2 DEF Moves
  <2>6. Place(id)'
    BY <1>7, <1>8, <2>3, <2>5 DEF Place, Counted, Resizing
  <2>7. Locked'
    BY <1>3, <2>2, <2>3, LockedStays DEF Resizing
  <2>8. Counts'
    BY <1>1, <1>3, <1>9, <2>2, <2>3, <2>4, CountsMove DEF Counted
  <2>9. /\ producerListTail' \in Seq(1 .. created) /\ IsInjective(producerListTail')
        /\ \A q : Listed(q)' <=> Listed(q) \/ q = p
    <3>1. PICK n \in Nat : n = Len(producerListTail)
      BY <1>2
    <3>2. /\ producerListTail' \in Seq(1 .. created) /\ DOMAIN producerListTail' = 1 .. n + 1
          /\ DOMAIN producerListTail = 1 .. n
      BY <1>2, <2>2, <3>1
    <3>3. producerListTail'[1] = p /\ \A i \in 1 .. n : producerListTail'[i + 1] = producerListTail[i]
      BY <1>2, <2>2, <3>1
    <3>4. \A j \in 1 .. n + 1 : j = 1 \/ \E i \in 1 .. n : j = i + 1
      <4>1. ASSUME NEW j \in 1 .. n + 1, j # 1
            PROVE  j - 1 \in 1 .. n /\ j = (j - 1) + 1
        BY <4>1
      <4> QED BY <4>1
    <3>5. \A q : Listed(q)' <=> Listed(q) \/ q = p
      <4>1. \A i \in 1 .. n : i + 1 \in 1 .. n + 1
        OBVIOUS
      <4>2. 1 \in 1 .. n + 1
        OBVIOUS
      <4>3. \A q : Listed(q) <=> \E i \in 1 .. n : producerListTail[i] = q
        BY <3>2 DEF Listed, ToSet
      <4>4. \A q : Listed(q)' <=> \E j \in 1 .. n + 1 : producerListTail'[j] = q
        BY <3>2 DEF Listed, ToSet
      <4>5. ASSUME NEW q, NEW j \in 1 .. n + 1, producerListTail'[j] = q
            PROVE  q = p \/ \E i \in 1 .. n : producerListTail[i] = q
        BY <3>3, <3>4, <4>5
      <4>6. ASSUME NEW q, q = p \/ \E i \in 1 .. n : producerListTail[i] = q
            PROVE  \E j \in 1 .. n + 1 : producerListTail'[j] = q
        BY <3>3, <4>1, <4>2, <4>6
      <4> QED BY <4>3, <4>4, <4>5, <4>6
    <3>6. ASSUME NEW i \in 1 .. n + 1, NEW j \in 1 .. n + 1,
                 producerListTail'[i] = producerListTail'[j]
          PROVE  i = j
      <4>1. \A k \in 1 .. n : producerListTail[k] # p
        BY <1>5, <3>2 DEF Listed, ToSet
      <4>2. \A k, l \in 1 .. n : producerListTail[k] = producerListTail[l] => k = l
        BY <3>2 DEF HashInv, Ownership, IsInjective
      <4>3. CASE i = 1 /\ j = 1
        BY <4>3
      <4>4. ASSUME NEW k \in 1 .. n, i = 1, j = k + 1
            PROVE  FALSE
        BY <3>3, <3>6, <4>1, <4>4
      <4>5. ASSUME NEW k \in 1 .. n, j = 1, i = k + 1
            PROVE  FALSE
        BY <3>3, <3>6, <4>1, <4>5
      <4>6. ASSUME NEW k \in 1 .. n, NEW l \in 1 .. n, i = k + 1, j = l + 1
            PROVE  i = j
        BY <3>3, <3>6, <4>2, <4>6
      <4> QED BY <3>4, <4>3, <4>4, <4>5, <4>6
    <3>7. IsInjective(producerListTail')
      BY <3>2, <3>6 DEF IsInjective
    <3> QED BY <3>2, <3>5, <3>7
  <2>10. \A x \in Ids : \A q : Held(x, q)' <=> Held(x, q)
    BY <1>3 DEF Held
  <2>11. \A x \in Ids : \A q : Makes(x, q)' <=> Makes(x, q)
    BY <1>1, <1>3, <1>4, <2>3, <2>5 DEF Makes
  <2>12. Ownership'
    <3>1. OneOwner'
      <4>1. \A x \in Ids : \A q : Owns(x, q)' <=> Owns(x, q)
        BY <2>10, <2>11 DEF Owns
      <4> QED BY <4>1 DEF HashInv, Ownership, OneOwner
    <3>2. HeldListed'
      BY <1>3, <2>9, <2>10 DEF HashInv, Ownership, HeldListed
    <3>3. MadeListed'
      <4>1. ASSUME NEW x \in Ids, caller'[x].pc \in {"push", "insert"}
            PROVE  /\ caller'[x].producer \in 1 .. created'
                   /\ Listed(caller[x].producer)' <=> caller'[x].pc = "insert"
        <5>1. CASE x = id
          BY <1>3, <2>3, <2>5, <2>9, <5>1 DEF Listed
        <5>2. CASE x # id
          <6>1. PICK q : q = caller[x].producer
            OBVIOUS
          <6>2. /\ caller'[x] = caller[x] /\ q \in 1 .. created
                /\ Listed(q) <=> caller[x].pc = "insert"
            BY <2>5, <4>1, <5>2, <6>1 DEF HashInv, Ownership, MadeListed
          <6>3. q # p
            <7>1. Owns(x, q) /\ Owns(id, p)
              BY <1>1, <1>3, <1>4, <4>1, <6>1, <6>2 DEF Owns, Makes
            <7>2. q \in Nat \cup {Null} /\ p \in Nat \cup {Null}
              BY <1>2, <6>2
            <7> QED BY <5>2, <7>1, <7>2 DEF HashInv, Ownership, OneOwner
          <6>4. Listed(q)' <=> Listed(q)
            BY <2>9, <6>3
          <6> QED BY <1>3, <6>1, <6>2, <6>4 DEF Listed
        <5> QED BY <5>1, <5>2
      <4> QED BY <4>1 DEF MadeListed
    <3>4. NoneLost'
      <4>1. ASSUME NEW q \in 1 .. created, ~Listed(q)'
            PROVE  \E x \in Ids : caller'[x].pc = "push" /\ caller'[x].producer = q
        <5>1. ~Listed(q) /\ q # p
          BY <2>9, <4>1
        <5>2. PICK x \in Ids : caller[x].pc = "push" /\ caller[x].producer = q
          BY <5>1 DEF HashInv, Ownership, NoneLost
        <5>3. x # id
          BY <1>1, <1>4, <5>1, <5>2
        <5> QED BY <2>5, <5>2, <5>3
      <4> QED BY <1>3, <4>1 DEF NoneLost
    <3>5. Remembered'
      <4>1. \A x \in Ids : Returned(x)' = Returned(x)
        BY <1>3 DEF Returned
      <4> QED BY <2>10, <4>1 DEF HashInv, Ownership, Remembered
    <3> QED BY <2>9, <3>1, <3>2, <3>3, <3>4, <3>5 DEF Ownership
  <2>13. created' \in Nat /\ producerListTail' \in Seq(1 .. created')
    BY <1>2, <1>3, <2>9
  <2> QED BY <1>2, <1>3, <2>2, <2>4, <2>6, <2>7, <2>8, <2>12, <2>13, CallerSteps
<1> QED BY <1>10, <1>11

LEMMA InsertKeeps ==
  ASSUME HashAssumption, HashInv, NEW id \in Ids, Insert(id)
  PROVE  HashInv'
<1>1. PICK me \in CallerState : me = caller[id]
  BY DEF HashInv, HashTypes
<1>2. /\ me.pc = "insert" /\ tables' = [tables EXCEPT ![me.main] = With(@, id, me.producer)]
      /\ Answers(id, me.producer)
      /\ UNCHANGED <<implicitProducerHashCount, resizing, created, producerListTail, failures>>
  BY <1>1 DEF Insert, AtPc
<1>3. created \in Nat /\ tables \in Seq(Table)
  BY DEF HashInv, HashTypes
<1>4. PICK p \in 1 .. created : p = me.producer
  BY <1>1, <1>2 DEF HashInv, Ownership, MadeListed
<1>5. Listed(p)
  BY <1>1, <1>2, <1>4 DEF HashInv, Ownership, MadeListed
<1>6. /\ HashTypes' /\ Shape' /\ Locked' /\ (\A x \in Ids : Place(x))'
      /\ caller'[id].pc = "idle" /\ \A x \in Ids : x # id => caller'[x] = caller[x]
      /\ DOMAIN tables' = DOMAIN tables
      /\ \A j \in DOMAIN tables : ThreeQuarters(tables'[j]) = ThreeQuarters(tables[j])
      /\ \A j \in DOMAIN tables, x \in Ids :
           Has(tables'[j], x) <=> Has(tables[j], x) \/ (j = me.main /\ x = id)
      /\ \A x \in Ids : \A q : Held(x, q)' <=> Held(x, q) \/ (x = id /\ q = p)
      /\ \A x \in Ids : \A q \in Returned(x)' : q \in Returned(x) \/ (x = id /\ q = p)
  <2>1. GotKey(id, me.main, me.producer)
    BY <1>1, <1>2, KeyGained
  <2> QED BY <1>4, <2>1 DEF GotKey
<1>7. /\ me.main \in DOMAIN tables /\ me.newCount < ThreeQuarters(tables[me.main])
      /\ ~Above(id, 0)
  BY <1>1, <1>2 DEF HashInv, Place, Counted
<1>8. Ownership'
  <2>1. \A x \in Ids : \A q : Makes(x, q)' <=> Makes(x, q) /\ x # id
    BY <1>6 DEF Makes
  <2>2. \A q : Makes(id, q) <=> q = p
    BY <1>1, <1>2, <1>4 DEF Makes
  <2>3. \A x \in Ids : \A q : Owns(x, q)' <=> Owns(x, q)
    BY <1>6, <2>1, <2>2 DEF Owns
  <2>4. OneOwner'
    BY <2>3 DEF HashInv, Ownership, OneOwner
  <2>5. \A q : Listed(q)' <=> Listed(q)
    BY <1>2 DEF Listed
  <2>6. HeldListed'
    BY <1>2, <1>5, <1>6, <2>5 DEF HashInv, Ownership, HeldListed
  <2>7. MadeListed'
    <3>1. ASSUME NEW x \in Ids, caller'[x].pc \in {"push", "insert"}
          PROVE  /\ caller'[x].producer \in 1 .. created'
                 /\ Listed(caller[x].producer)' <=> caller'[x].pc = "insert"
      <4>1. x # id /\ caller'[x] = caller[x]
        BY <1>6, <3>1
      <4> QED BY <1>2, <3>1, <4>1 DEF HashInv, Ownership, MadeListed, Listed
    <3> QED BY <3>1 DEF MadeListed
  <2>8. NoneLost'
    <3>1. \A x \in Ids : caller[x].pc = "push" => caller'[x] = caller[x]
      BY <1>1, <1>2, <1>6
    <3> QED BY <1>2, <2>5, <3>1 DEF HashInv, Ownership, NoneLost
  <2>9. Remembered'
    BY <1>6 DEF HashInv, Ownership, Remembered
  <2>10. IsInjective(producerListTail)'
    BY <1>2 DEF HashInv, Ownership
  <2> QED BY <2>4, <2>6, <2>7, <2>8, <2>9, <2>10 DEF Ownership
<1>9. Live' = Live
  <2>1. \A x \in Ids : Above(x, 0)' <=> \E k \in DOMAIN tables' : Has(tables'[k], x)
    <3>1. HashTypes' => (\A x \in Ids : Above(x, 0) <=> \E k \in DOMAIN tables : Has(tables[k], x))'
      BY AboveZero, PTL
    <3> QED BY <1>6, <3>1
  <2>2. \A x \in Ids : Above(x, 0) <=> \E k \in DOMAIN tables : Has(tables[k], x)
    BY AboveZero DEF HashInv
  <2>3. \A x \in Ids : Above(x, 0)' <=> Above(x, 0) \/ x = id
    BY <1>6, <1>7, <2>1, <2>2
  <2> QED BY <1>1, <1>2, <1>6, <2>3 DEF Live, Counted
<1>10. ASSUME NEW m \in Nat
       PROVE  Within(m)' \subseteq Within(m)
  <2>1. ThreeQuarters(tables[me.main]) \in Nat /\ me.newCount \in Nat
    <3>1. tables[me.main] \in Table
      BY <1>3, <1>7
    <3>2. tables[me.main].capacity \in Nat
      BY <3>1, TableFacts
    <3>3. ThreeQuarters(tables[me.main]) \in Nat
      BY <3>2 DEF ThreeQuarters
    <3>4. me.newCount \in Nat
      BY DEF CallerState
    <3> QED BY <3>3, <3>4
  <2>2. ASSUME NEW x \in Within(m)'
        PROVE  x \in Within(m)
    <3>1. x \in Ids
      BY DEF Within
    <3>2. CASE caller'[x].pc \in Counted /\ caller'[x].newCount <= m
      BY <1>6, <3>1, <3>2 DEF Within, Counted, Resizing
    <3>3. CASE \E k \in DOMAIN tables' : Has(tables'[k], x) /\ ThreeQuarters(tables'[k]) <= m + 1
      <4>1. PICK k \in DOMAIN tables : Has(tables'[k], x) /\ ThreeQuarters(tables[k]) <= m + 1
        BY <1>6, <3>3
      <4>2. CASE Has(tables[k], x)
        BY <3>1, <4>1, <4>2 DEF Within
      <4>3. CASE k = me.main /\ x = id
        <5>1. me.newCount <= m
          BY <1>7, <2>1, <4>1, <4>3
        <5> QED BY <1>1, <1>2, <4>3, <5>1 DEF Within, Counted
      <4> QED BY <1>6, <3>1, <4>1, <4>2, <4>3
    <3> QED BY <3>2, <3>3 DEF Within
  <2> QED BY <2>2
<1>11. Counts'
  BY <1>2, <1>9, <1>10, AboveZero, CountsStay DEF HashInv
<1> QED BY <1>6, <1>8, <1>11 DEF HashInv

LEMMA HashStarts ==
  ASSUME HashAssumption, HashInit
  PROVE  HashInv
<1>1. PICK n \in Nat : n = INITIAL_IMPLICIT_PRODUCER_HASH_SIZE /\ n >= 2
  <2>1. PICK k \in 1 .. 10 : INITIAL_IMPLICIT_PRODUCER_HASH_SIZE = 2 ^ k
    BY DEF HashAssumption
  <2>2. PICK power : power = 2 ^ k
    OBVIOUS
  <2>3. power \in Nat /\ k + 1 <= power
    BY <2>2, PowerExceeds
  <2> QED BY <2>1, <2>2, <2>3
<1>2. PICK t : t = NewTable(n)
  OBVIOUS
<1>3. t \in Table /\ Probed(t) /\ \A id \in Ids : ~Has(t, id)
  BY <1>1, <1>2, NewTableFacts
<1>4. tables = <<t>>
  BY <1>1, <1>2 DEF HashInit
<1>5. tables \in Seq(Table) /\ tables # <<>> /\ DOMAIN tables = {1} /\ tables[1] = t
  BY <1>3, <1>4
<1>6. \A k \in DOMAIN tables : tables[k] = t
  BY <1>5
<1>7. caller = [id \in Ids |-> NoCall] /\ NoCall.pc = "idle" /\ NoCall \in CallerState
  BY NoCallIsState DEF HashInit, NoCall
<1>8. \A id \in Ids : caller[id].pc = "idle"
  BY <1>7
<1>9. HashTypes
  <2>1. producerListTail \in Seq(1 .. created)
    BY DEF HashInit
  <2>2. results \in [Ids -> Seq(Nat \cup {Null})]
    <3>1. <<>> \in Seq(Nat \cup {Null})
      OBVIOUS
    <3> QED BY <3>1 DEF HashInit
  <2>3. caller \in [Ids -> CallerState]
    BY <1>7
  <2> QED BY <1>5, <2>1, <2>2, <2>3 DEF HashTypes, HashInit
<1>10. \A id \in Ids : Place(id)
  BY <1>8 DEF Place, Counted, Resizing
<1>11. Locked
  BY <1>8 DEF Locked, Resizing
<1>12. Shape
  <2>1. \A j, k \in DOMAIN tables : tables[j].capacity <= tables[k].capacity
    <3>1. t.capacity \in Nat
      BY <1>3, TableFacts
    <3> QED BY <1>6, <3>1
  <2> QED BY <1>3, <1>6, <2>1 DEF Shape
<1>13. \A id \in Ids : \A q : ~Held(id, q) /\ ~Makes(id, q)
  <2>1. \A id \in Ids : \A q : ~HeldAt(t, id, q)
    BY <1>3, HeldIsHas
  <2> QED BY <1>6, <1>8, <2>1 DEF Held, Makes
<1>14. Ownership
  <2>1. OneOwner /\ HeldListed
    BY <1>13 DEF OneOwner, HeldListed, Owns
  <2>2. MadeListed
    BY <1>8 DEF MadeListed
  <2>3. NoneLost
    BY DEF NoneLost, HashInit
  <2>4. Remembered
    <3>1. ASSUME NEW id \in Ids
          PROVE  Returned(id) = {}
      <4>1. results[id] = <<>>
        BY DEF HashInit
      <4> QED BY <4>1 DEF Returned, ToSet
    <3> QED BY <3>1 DEF Remembered
  <2>5. IsInjective(producerListTail)
    BY DEF HashInit, IsInjective
  <2> QED BY <2>1, <2>2, <2>3, <2>4, <2>5 DEF Ownership
<1>15. Counts
  <2>1. \A id \in Ids : \A k \in DOMAIN tables : ~Has(tables[k], id)
    BY <1>3, <1>6
  <2>2. \A id \in Ids : caller[id].pc \notin Counted
    BY <1>8 DEF Counted, Resizing
  <2>3. Live = {}
    BY <2>1, <2>2 DEF Live, Above
  <2>4. \A m \in Nat : Within(m) = {}
    BY <2>1, <2>2 DEF Within
  <2>5. IsFiniteSet({}) /\ Cardinality({}) = 0
    BY FS_EmptySet
  <2>6. \A m \in Nat : Cardinality(Within(m)) <= m
    BY <2>4, <2>5
  <2> QED BY <2>3, <2>5, <2>6 DEF Counts, HashInit
<1> QED BY <1>9, <1>10, <1>11, <1>12, <1>14, <1>15 DEF HashInv

LEMMA HashStutters ==
  ASSUME HashInv, UNCHANGED hashVars
  PROVE  HashInv'
<1> USE DEF hashVars, tableVars
<1>1. HashTypes'
  BY DEF HashInv, HashTypes
<1>2. \A x \in Ids : Above(x, 0)' <=> Above(x, 0)
  BY DEF Above
<1>3. (\A x \in Ids : Place(x))'
  BY DEF HashInv, Place, Above
<1>4. Locked' /\ Shape'
  BY DEF HashInv, Locked, Shape
<1>5. Ownership'
  <2>1. \A x \in Ids : Returned(x)' = Returned(x) /\ \A q : Held(x, q)' <=> Held(x, q)
    BY DEF Returned, Held
  <2> QED BY <2>1, OwnershipStays DEF HashInv
<1>6. Counts'
  BY <1>2, AboveZero, CountsStay DEF HashInv, Live, Within
<1> QED BY <1>1, <1>3, <1>4, <1>5, <1>6 DEF HashInv

LEMMA HashSteps ==
  ASSUME HashAssumption, HashInv, [HashNext]_hashVars
  PROVE  HashInv'
<1>1. ASSUME NEW id \in Ids, Step(id)
      PROVE  HashInv'
  <2>1. CASE Search(id)
    BY <2>1, SearchKeeps
  <2>2. CASE Copy(id)
    BY <2>2, CopyKeeps
  <2>3. CASE Count(id)
    BY <2>3, CountKeeps
  <2>4. CASE Lock(id)
    BY <2>4, LockKeeps
  <2>5. CASE Reload(id)
    BY <2>5, ReloadKeeps
  <2>6. CASE Unlock(id)
    BY <2>6, UnlockKeeps
  <2>7. CASE AllocateFails(id)
    <3>1. caller[id].pc = "allocate" /\ resizing' = FALSE
      BY <2>7 DEF AllocateFails, AtPc
    <3> QED BY <2>7, <3>1, FailKeeps DEF AllocateFails
  <2>8. CASE Allocate(id)
    BY <2>8, AllocateKeeps
  <2>9. CASE Room(id)
    BY <2>9, RoomKeeps
  <2>10. CASE Create(id)
    BY <2>10, CreateKeeps
  <2>11. CASE CreateFails(id)
    <3>1. caller[id].pc = "create" /\ resizing' = resizing /\ resizing \in BOOLEAN
      BY <2>11 DEF CreateFails, AtPc, HashInv, HashTypes
    <3> QED BY <2>11, <3>1, FailKeeps DEF CreateFails
  <2>12. CASE Push(id)
    BY <2>12, PushKeeps
  <2>13. CASE Insert(id)
    BY <2>13, InsertKeeps
  <2> QED
    BY <1>1, <2>1, <2>2, <2>3, <2>4, <2>5, <2>6, <2>7, <2>8, <2>9, <2>10, <2>11, <2>12, <2>13
    DEF Step
<1>2. CASE Stopped
  BY <1>2, HashStutters DEF Stopped
<1>3. CASE UNCHANGED hashVars
  BY <1>3, HashStutters
<1> QED BY <1>1, <1>2, <1>3, CallKeeps DEF HashNext

\* The invariant of the hash table of the producers.
THEOREM HashInvariant == HashSpec => []HashInv
<1>1. HashInit => HashInv
  BY HashAssumption, HashStarts
<1>2. HashInv /\ [HashNext]_hashVars => HashInv'
  BY HashAssumption, HashSteps
<1> QED BY <1>1, <1>2, PTL DEF HashSpec

\* A thread gets the same producer each time, and no other thread gets it.
THEOREM ProducersAreKept == HashSpec => []OneProducerPerThread
<1>1. HashInv => OneProducerPerThread
  <2> SUFFICES ASSUME HashInv
               PROVE  OneProducerPerThread
    OBVIOUS
  <2>1. ASSUME NEW id \in Ids
        PROVE  Returned(id) \subseteq Nat \cup {Null}
    <3>1. results[id] \in Seq(Nat \cup {Null})
      BY DEF HashInv, HashTypes
    <3> QED BY <3>1 DEF Returned, ToSet
  <2>2. \A id \in Ids : \A p \in Returned(id) : Owns(id, p)
    BY DEF HashInv, Ownership, Remembered, Owns
  <2>3. ASSUME NEW id \in Ids
        PROVE  Cardinality(Returned(id)) <= 1
    <3>1. \A p, q \in Returned(id) : p = q
      BY <2>1, <2>2 DEF HashInv, Ownership, OneOwner
    <3>2. CASE Returned(id) = {}
      BY <3>2, FS_EmptySet
    <3>3. CASE Returned(id) # {}
      <4>1. PICK p : Returned(id) = {p}
        BY <3>1, <3>3
      <4> QED BY <4>1, FS_Singleton
    <3> QED BY <3>2, <3>3
  <2>4. \A id \in Ids : Returned(id) \subseteq ToSet(producerListTail)
    BY <2>1 DEF HashInv, Ownership, Remembered, HeldListed, Listed
  <2>5. \A id, other \in Ids : id # other => Returned(id) \cap Returned(other) = {}
    BY <2>1, <2>2 DEF HashInv, Ownership, OneOwner
  <2>6. (\A id \in Ids : AtPc(id, "idle")) => Destroyed = 1 .. created
    <3>1. ToSet(producerListTail) \subseteq 1 .. created
      BY DEF HashInv, HashTypes, ToSet
    <3>2. (\A id \in Ids : caller[id].pc = "idle") => 1 .. created \subseteq ToSet(producerListTail)
      BY DEF HashInv, Ownership, NoneLost, Listed
    <3> QED BY <3>1, <3>2 DEF Destroyed, AtPc
  <2> QED BY <2>3, <2>4, <2>5, <2>6 DEF OneProducerPerThread, HashInv, Ownership
<1> QED BY <1>1, HashInvariant, PTL

\* "Not an infinite loop because at least one slot is free in the hash table".
THEOREM ASlotIsFree == HashSpec => []RoomInTables
<1>1. HashInv => RoomInTables
  <2> SUFFICES ASSUME HashInv, NEW k \in DOMAIN tables
               PROVE  \E i \in DOMAIN tables[k].keys : tables[k].keys[i] = Empty
    BY DEF RoomInTables
  <2>1. PICK t \in Table : t = tables[k]
    BY DEF HashInv, HashTypes
  <2>2. HasRoom(t)
    BY <2>1, HashAssumption, TablesHaveRoom DEF HashInv
  <2>3. DOMAIN t.keys = Slots(t)
    BY TableFacts
  <2> QED BY <2>1, <2>2, <2>3 DEF HasRoom
<1> QED BY <1>1, HashInvariant, PTL
=============================================================================
