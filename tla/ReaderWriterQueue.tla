-------------------------- MODULE ReaderWriterQueue --------------------------
(***************************************************************************)
(* ReaderWriterQueue (include/readerwriterqueue/readerwriterqueue.h): the  *)
(* lock-free single-producer single-consumer queue inside AtomicQueue, a   *)
(* ring of blocks each of which is a ring of slots.                        *)
(*                                                                         *)
(* One action per access to memory the other thread also accesses; what a  *)
(* thread does with its own variables goes with the access before it.  The *)
(* producer owns tail, localFront and tailBlock, the consumer owns front,  *)
(* localTail and frontBlock.  The fences keep each thread's accesses in    *)
(* program order, so the interleavings of these steps are all there is, up *)
(* to stores that are seen late, which only lets the other thread see less *)
(* room or fewer elements than there are.                                  *)
(*                                                                         *)
(* These are the constructor, try_enqueue, try_dequeue, peek and pop, and  *)
(* the destructor.  enqueue, which adds blocks, and size_approx, neither   *)
(* of which the program calls, are left out.                               *)
(***************************************************************************)
EXTENDS Naturals, Sequences, SequencesExt, FiniteSetsExt

CONSTANTS Elem, NoElem,
          maxSize,          \* what the constructor is asked for
          MAX_BLOCK_SIZE    \* 512 in the code

ASSUME QueueAssumption ==
  /\ NoElem \notin Elem
  /\ maxSize \in Nat \ {0}
  /\ MAX_BLOCK_SIZE \in {2 ^ k : k \in 1 .. 10}

\* ceilToPow2(x): the first power of two that is not less than x.
CeilToPow2(x) ==
  LET power[k \in 0 .. x] == IF k = 0 THEN 1 ELSE 2 * power[k - 1]
  IN  Min({power[k] : k \in {j \in 0 .. x : power[j] >= x}})

Largest == CeilToPow2(maxSize + 1)
Several == Largest > MAX_BLOCK_SIZE * 2

BlockCount == IF Several THEN (maxSize + MAX_BLOCK_SIZE * 2 - 3) \div (MAX_BLOCK_SIZE - 1)
              ELSE 1
BlockSize == IF Several THEN MAX_BLOCK_SIZE ELSE Largest

Blocks == 0 .. BlockCount - 1
Slots == 0 .. BlockSize - 1
NextBlock(b) == (b + 1) % BlockCount   \* block->next
NextSlot(i) == (i + 1) % BlockSize     \* (i + 1) & sizeMask

VARIABLES
  front, tail, localFront, localTail,  \* the indices of each block
  data,                                \* the slots of each block
  frontBlock, tailBlock,
  prod, element,                       \* the producer's thread and its argument
  cons, op, result, pointer,           \* the consumer's thread, its call, what it got
  wasFull, wasEmpty                    \* history: as the running calls were made

prodVars == <<tail, localFront, tailBlock, prod, element, wasFull>>
consVars == <<front, localTail, frontBlock, cons, op, result, pointer, wasEmpty>>
vars == <<data, prodVars, consVars>>

(***************************************************************************)
(* What is in the queue: the blocks from frontBlock to tailBlock, in each  *)
(* the slots from front to tail.  The element try_dequeue has moved out is *)
(* there until its slot is free.                                           *)
(***************************************************************************)
Used(b) == ((tail[b] + BlockSize) - front[b]) % BlockSize
BlockItems(b) == [k \in 1 .. Used(b) |-> data[b][(front[b] + k - 1) % BlockSize]]
Span == 1 + (((tailBlock + BlockCount) - frontBlock) % BlockCount)
Stored == FlattenSeq([k \in 1 .. Span |-> BlockItems((frontBlock + k - 1) % BlockCount)])
Items == IF cons = "free" THEN <<result>> \o Tail(Stored) ELSE Stored

\* The room when no block is kept for the consumer.
MostRoom == BlockCount * (BlockSize - 1)

\* What ~ReaderWriterQueue() destroys: in every block of the ring, from frontBlock
\* on and past tailBlock, the slots from front to tail.
Destroyed ==
  FlattenSeq([k \in 1 .. BlockCount |-> BlockItems((frontBlock + k - 1) % BlockCount)])

Init ==
  /\ front = [b \in Blocks |-> 0] /\ tail = [b \in Blocks |-> 0]
  /\ localFront = [b \in Blocks |-> 0] /\ localTail = [b \in Blocks |-> 0]
  /\ data = [b \in Blocks |-> [i \in Slots |-> NoElem]]
  /\ frontBlock = 0 /\ tailBlock = 0
  /\ prod = "idle" /\ element = NoElem
  /\ cons = "idle" /\ op = "taking" /\ result = NoElem /\ pointer = <<>>
  /\ wasFull = FALSE /\ wasEmpty = FALSE

-----------------------------------------------------------------------------
(* inner_enqueue<CannotAlloc>. *)

After == NextSlot(tail[tailBlock])    \* nextBlockTail
AheadOfTail == NextBlock(tailBlock)

Return(answer) == prod' = answer /\ element' = NoElem /\ wasFull' = FALSE

\* The call, with the test on the producer's own copy of front.
CallEnqueue(e) ==
  /\ prod \in {"idle", "ok", "full"}
  /\ element' = e
  /\ wasFull' = (Len(Items) >= maxSize)
  /\ prod' = IF After # localFront[tailBlock] THEN "write" ELSE "loadFront"
  /\ UNCHANGED <<data, tail, localFront, tailBlock, consVars>>

\* nextBlockTail != (tailBlock_->localFront = tailBlock_->front.load())
LoadFront ==
  /\ prod = "loadFront"
  /\ localFront' = [localFront EXCEPT ![tailBlock] = front[tailBlock]]
  /\ prod' = IF After # front[tailBlock] THEN "write" ELSE "loadFrontBlock"
  /\ UNCHANGED <<data, tail, tailBlock, element, wasFull, consVars>>

\* Slip: the block ahead is taken though the consumer is in it.
LoadFrontBlockUnchecked ==
  /\ prod = "loadFrontBlock"
  /\ prod' = "loadFrontAhead"
  /\ UNCHANGED <<data, tail, localFront, tailBlock, element, wasFull, consVars>>

\* tailBlock_->next.load() != frontBlock
LoadFrontBlock ==
  /\ prod = "loadFrontBlock"
  /\ IF AheadOfTail # frontBlock
     THEN prod' = "loadFrontAhead" /\ UNCHANGED <<element, wasFull>>
     ELSE Return("full")
  /\ UNCHANGED <<data, tail, localFront, tailBlock, consVars>>

\* nextBlockFront = tailBlockNext->localFront = tailBlockNext->front.load()
LoadFrontAhead ==
  /\ prod = "loadFrontAhead"
  /\ localFront' = [localFront EXCEPT ![AheadOfTail] = front[AheadOfTail]]
  /\ prod' = "writeAhead"
  /\ UNCHANGED <<data, tail, tailBlock, element, wasFull, consVars>>

\* new (location) T(element), in this block or in the one ahead.
Write(b) == data' = [data EXCEPT ![b][tail[b]] = element]

WriteHere ==
  /\ prod = "write" /\ Write(tailBlock)
  /\ prod' = "publish"
  /\ UNCHANGED <<tail, localFront, tailBlock, element, wasFull, consVars>>

WriteAhead ==
  /\ prod = "writeAhead" /\ Write(AheadOfTail)
  /\ prod' = "publishAhead"
  /\ UNCHANGED <<tail, localFront, tailBlock, element, wasFull, consVars>>

\* tail = nextBlockTail: the element is in the queue.
Publish ==
  /\ prod = "publish"
  /\ tail' = [tail EXCEPT ![tailBlock] = After]
  /\ Return("ok")
  /\ UNCHANGED <<data, localFront, tailBlock, consVars>>

PublishAhead ==
  /\ prod = "publishAhead"
  /\ tail' = [tail EXCEPT ![AheadOfTail] = NextSlot(@)]
  /\ prod' = "advance"
  /\ UNCHANGED <<data, localFront, tailBlock, element, wasFull, consVars>>

\* tailBlock = tailBlockNext: only now is the element in the queue.
AdvanceTail ==
  /\ prod = "advance"
  /\ tailBlock' = AheadOfTail
  /\ Return("ok")
  /\ UNCHANGED <<data, tail, localFront, consVars>>

-----------------------------------------------------------------------------
(* try_dequeue, pop and peek look for the front element in the same way;   *)
(* pop is a try_dequeue whose result nobody gets.                          *)

AheadOfFront == NextBlock(frontBlock)

\* The front element of block b has been found: try_dequeue and pop go on to take
\* it, peek returns a pointer to it.
Found(b) ==
  IF op # "peeking"
  THEN cons' = "read" /\ result' = NoElem /\ pointer' = <<>>
  ELSE cons' = "peeked" /\ pointer' = <<b, front[b]>> /\ result' = data[b][front[b]]

Continue(at) == cons' = at /\ result' = NoElem /\ pointer' = <<>>

CallDequeue(how) ==
  /\ cons \in {"idle", "taken", "peeked", "none"}
  /\ op' = how
  /\ wasEmpty' = (Items = <<>>)
  /\ Continue("begin")
  /\ UNCHANGED <<data, front, localTail, frontBlock, prodVars>>

\* blockFront != blockTail: the test on the consumer's own copy of tail.
TestLocalTail ==
  /\ cons = "begin"
  /\ IF front[frontBlock] # localTail[frontBlock] THEN Found(frontBlock)
     ELSE Continue("loadTail")
  /\ UNCHANGED <<data, front, localTail, frontBlock, op, wasEmpty, prodVars>>

\* blockFront != (frontBlock_->localTail = frontBlock_->tail.load())
LoadTail ==
  /\ cons = "loadTail"
  /\ localTail' = [localTail EXCEPT ![frontBlock] = tail[frontBlock]]
  /\ IF front[frontBlock] # tail[frontBlock] THEN Found(frontBlock)
     ELSE Continue("loadTailBlock")
  /\ UNCHANGED <<data, front, frontBlock, op, wasEmpty, prodVars>>

\* Slip: no second look at the block before leaving it.
LoadTailBlockOnce ==
  /\ cons = "loadTailBlock"
  /\ Continue(IF frontBlock # tailBlock THEN "loadTailAhead" ELSE "none")
  /\ UNCHANGED <<data, front, localTail, frontBlock, op, wasEmpty, prodVars>>

\* frontBlock_ != tailBlock.load()
LoadTailBlock ==
  /\ cons = "loadTailBlock"
  /\ Continue(IF frontBlock # tailBlock THEN "reloadTail" ELSE "none")
  /\ UNCHANGED <<data, front, localTail, frontBlock, op, wasEmpty, prodVars>>

\* The block may have been filled before the producer moved on: look again.
ReloadTail ==
  /\ cons = "reloadTail"
  /\ localTail' = [localTail EXCEPT ![frontBlock] = tail[frontBlock]]
  /\ IF front[frontBlock] # tail[frontBlock] THEN Found(frontBlock)
     ELSE Continue("loadTailAhead")
  /\ UNCHANGED <<data, front, frontBlock, op, wasEmpty, prodVars>>

\* try_dequeue: nextBlockTail = nextBlock->localTail = nextBlock->tail.load()
LoadTailAhead ==
  /\ cons = "loadTailAhead" /\ op # "peeking"
  /\ localTail' = [localTail EXCEPT ![AheadOfFront] = tail[AheadOfFront]]
  /\ cons' = "advance"
  /\ UNCHANGED <<data, front, frontBlock, op, result, pointer, wasEmpty, prodVars>>

\* frontBlock = frontBlock_ = nextBlock
AdvanceFront ==
  /\ cons = "advance"
  /\ frontBlock' = AheadOfFront
  /\ cons' = "read"
  /\ UNCHANGED <<data, front, localTail, op, result, pointer, wasEmpty, prodVars>>

\* peek: the front of the next block, without advancing to it.
PeekAhead ==
  /\ cons = "loadTailAhead" /\ op = "peeking"
  /\ Found(AheadOfFront)
  /\ UNCHANGED <<data, front, localTail, frontBlock, op, wasEmpty, prodVars>>

\* result = std::move(*element), but not in pop(); element->~T();
Read ==
  /\ cons = "read"
  /\ result' = data[frontBlock][front[frontBlock]]
  /\ data' = [data EXCEPT ![frontBlock][front[frontBlock]] = NoElem]
  /\ cons' = "free"
  /\ UNCHANGED <<front, localTail, frontBlock, op, pointer, wasEmpty, prodVars>>

\* frontBlock_->front = blockFront: the slot is free.
Free ==
  /\ cons = "free"
  /\ front' = [front EXCEPT ![frontBlock] = NextSlot(@)]
  /\ cons' = "taken"
  /\ UNCHANGED <<data, localTail, frontBlock, op, result, pointer, wasEmpty, prodVars>>

-----------------------------------------------------------------------------
Producer == \/ \E e \in Elem : CallEnqueue(e)
            \/ LoadFront \/ LoadFrontBlock \/ LoadFrontAhead
            \/ WriteHere \/ Publish \/ WriteAhead \/ PublishAhead \/ AdvanceTail

Consumer == \/ \E how \in {"taking", "popping", "peeking"} : CallDequeue(how)
            \/ TestLocalTail \/ LoadTail \/ LoadTailBlock \/ ReloadTail
            \/ LoadTailAhead \/ AdvanceFront \/ PeekAhead \/ Read \/ Free

Next == Producer \/ Consumer

Spec == Init /\ [][Next]_vars

-----------------------------------------------------------------------------
\* Every index is a slot of its block, and every variable one of its values.
TypeOK ==
  /\ \A index \in {front, tail, localFront, localTail} : index \in [Blocks -> Slots]
  /\ data \in [Blocks -> [Slots -> Elem \cup {NoElem}]]
  /\ frontBlock \in Blocks /\ tailBlock \in Blocks
  /\ prod \in {"idle", "loadFront", "loadFrontBlock", "loadFrontAhead", "write",
               "writeAhead", "publish", "publishAhead", "advance", "ok", "full"}
  /\ element \in Elem \cup {NoElem}
  /\ cons \in {"idle", "begin", "loadTail", "loadTailBlock", "reloadTail", "loadTailAhead",
               "advance", "read", "free", "taken", "peeked", "none"}
  /\ op \in {"taking", "popping", "peeking"} /\ result \in Elem \cup {NoElem}
  /\ pointer \in {<<>>} \cup (Blocks \X Slots)

\* assert(nextBlockFront == nextBlockTail), readerwriterqueue.h:459: the block the
\* producer is about to enter is empty; and it is not the consumer's block, which
\* would then read the new elements before the older ones.
EntersFreeBlock ==
  prod \in {"loadFrontAhead", "writeAhead"} =>
    front[AheadOfTail] = tail[AheadOfTail] /\ AheadOfTail # frontBlock

\* assert(nextBlockFront != nextBlockTail), readerwriterqueue.h:252 and 317: the
\* block the consumer moves to has an element.
NextBlockHasElement ==
  cons = "advance" \/ (cons = "loadTailAhead" /\ op = "peeking") =>
    front[AheadOfFront] # tail[AheadOfFront]

\* The two threads never touch one slot at once: the slot written to is empty and
\* not the one being read, and the slot read has an element.
Writing == CASE prod = "write" -> <<tailBlock, tail[tailBlock]>>
             [] prod = "writeAhead" -> <<AheadOfTail, tail[AheadOfTail]>>
             [] OTHER -> <<>>

Reading == IF cons = "read" THEN <<frontBlock, front[frontBlock]>>
           ELSE IF cons = "peeked" THEN pointer ELSE <<>>

SlotsAreDisjoint ==
  /\ Writing # <<>> => data[Writing[1]][Writing[2]] = NoElem /\ Reading # Writing
  /\ Reading # <<>> => data[Reading[1]][Reading[2]] # NoElem

\* The pointer peek() returned shows the front of the queue until the consumer's
\* next call.
PointerStaysFront ==
  cons = "peeked" => data[pointer[1]][pointer[2]] = Head(Items) /\ result = Head(Items)

\* When no call is running, as it must be then, the destructor destroys what is in
\* the queue, in its order, and every other slot is raw memory.
DestructorFindsAll ==
  prod \in {"idle", "ok", "full"} /\ cons \in {"idle", "taken", "peeked", "none"} =>
    /\ Destroyed = Items
    /\ Cardinality({p \in Blocks \X Slots : data[p[1]][p[2]] # NoElem}) = Len(Items)

\* What the two threads rely on, by parts: the asserts of the code, that they never
\* meet in a slot, and that nothing is left behind in a block.
RingInv == /\ TypeOK
           /\ EntersFreeBlock
           /\ NextBlockHasElement
           /\ SlotsAreDisjoint
           /\ PointerStaysFront
           /\ DestructorFindsAll

\* The two calls as a FIFO's: what they are at, and what the consumer has got.
PutCall == IF prod \in {"idle", "ok", "full"} THEN prod ELSE "putting"
TakeCall == IF cons \in {"idle", "taken", "peeked", "none"} THEN cons
            ELSE IF op = "popping" THEN "taking" ELSE op
TakeResult == IF cons = "free" THEN NoElem ELSE result

Fifo == INSTANCE BoundedFifo WITH
  items <- Items, Guaranteed <- maxSize, Largest <- MostRoom,
  put <- PutCall, arg <- element, mayFail <- wasFull,
  take <- TakeCall, got <- TakeResult, mayMiss <- wasEmpty

\* The ring of blocks is a bounded FIFO: the try_enqueues and try_dequeues of the
\* two threads take effect one at a time, in an order that fits their calls, and
\* fail only when the queue held maxSize elements, or none, as they were called: the
\* constructor makes room for what it is asked wherever the consumer is in the ring.
ImplementsFifo == Fifo!Spec
=============================================================================
