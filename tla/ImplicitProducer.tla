-------------------------- MODULE ImplicitProducer --------------------------
(***************************************************************************)
(* ImplicitProducer (include/concurentqueue/concurrentqueue.h): the stream *)
(* of messages that one thread puts in msgQueue, in blocks that are found  *)
(* through a circular index and come from the pools of the queue.          *)
(*                                                                         *)
(* The thread that enqueues is one at a time; any thread may dequeue.  The *)
(* console is the only one that does in this program, where the tests for  *)
(* other consumers then never fail; the library is for any number.  One    *)
(* action per access to memory that another thread accesses; what a thread *)
(* writes where nobody can look yet goes with the access that follows it.  *)
(*                                                                         *)
(* A message is the index it was enqueued at.  Message has no constructor  *)
(* that is noexcept for this compiler, so enqueue() takes the paths that   *)
(* are safe if one throws.                                                 *)
(***************************************************************************)
EXTENDS Integers, Sequences, SequencesExt, FiniteSets

CONSTANTS
  Consumers,
  BLOCK_SIZE,                     \* 32 in the code
  IMPLICIT_INITIAL_INDEX_SIZE,    \* 32 in the code
  initialBlockPoolSize,           \* 6 in the code
  HalfRange,                      \* 2^31 or 2^63, half the range of index_t
  Nothing,
  MaxIndex,                       \* bound on the messages enqueued
  MaxBlocks,                      \* bound on the blocks, the initial ones included
  MaxClaims                       \* bound on the claims of the consumers

ASSUME ProducerAssumption ==
  /\ IsFiniteSet(Consumers)
  /\ BLOCK_SIZE \in Nat \ {0, 1} /\ IMPLICIT_INITIAL_INDEX_SIZE \in Nat \ {0, 1}
  /\ initialBlockPoolSize \in Nat /\ MaxIndex \in Nat /\ MaxBlocks \in Nat /\ MaxClaims \in Nat
  /\ HalfRange \in Nat \ {0} /\ Nothing \notin Nat

VARIABLES
  tailIndex, headIndex, dequeueOptimisticCount, dequeueOvercommit,
  headers,      \* the block indices, the newest last; blockIndex is that one
  entries,      \* the BlockIndexEntries, which the headers share
  tailBlock, blocks,                        \* what is in the blocks there are
  initialBlockPoolIndex, freeList,          \* the queue's pools
  prod,                                     \* the enqueuing thread
  cons,                                     \* the dequeuing threads
  mayMiss                                   \* history: see SharedStream

counts == <<dequeueOptimisticCount, dequeueOvercommit>>
index == <<headers, entries>>
pools == <<initialBlockPoolIndex, freeList>>
vars == <<tailIndex, headIndex, counts, index, tailBlock, blocks, pools, prod, cons, mayMiss>>

INVALID_BLOCK_BASE == -1    \* 1 in the code, which is no multiple of BLOCK_SIZE either

\* For indices that have not wrapped.
CircularLessThan(a, b) == a < b /\ b - a < HalfRange

Slot(i) == i % BLOCK_SIZE
BlockBase(i) == i - Slot(i)
NewBlock == [elements |-> [s \in 0 .. BLOCK_SIZE - 1 |-> Nothing], dequeued |-> 0]
NewEntries(n) == [k \in 1 .. n |-> [key |-> INVALID_BLOCK_BASE, value |-> Nothing]]

\* populate_initial_block_list(): those that are not dynamicallyAllocated.
InitialBlocks == [k \in 1 .. initialBlockPoolSize |-> NewBlock]

IdleProd == [pc |-> "idle", entry |-> Nothing, block |-> Nothing]
IdleCons == [pc |-> "idle", tail |-> 0, overcommit |-> 0, count |-> 0, index |-> 0,
             header |-> 0, indexTail |-> 0, entry |-> Nothing, block |-> Nothing,
             got |-> Nothing]

\* The constructor, which makes the first block index.
Init ==
  /\ tailIndex = 0 /\ headIndex = 0
  /\ dequeueOptimisticCount = 0 /\ dequeueOvercommit = 0
  /\ headers = << [capacity |-> IMPLICIT_INITIAL_INDEX_SIZE,
                   tail |-> IMPLICIT_INITIAL_INDEX_SIZE - 1,
                   index |-> [k \in 0 .. IMPLICIT_INITIAL_INDEX_SIZE - 1 |-> k + 1]] >>
  /\ entries = NewEntries(IMPLICIT_INITIAL_INDEX_SIZE)
  /\ tailBlock = Nothing
  /\ blocks = InitialBlocks
  /\ initialBlockPoolIndex = 0 /\ freeList = {}
  /\ prod = IdleProd
  /\ cons = [c \in Consumers |-> IdleCons]
  /\ mayMiss = [c \in Consumers |-> FALSE]

-----------------------------------------------------------------------------
(* enqueue(). *)

consVars == <<headIndex, counts, cons, mayMiss>>
Newest == headers[Len(headers)]
ProdGoes(pc) == prod' = [prod EXCEPT !.pc = pc]

\* The element goes in the tail block, unless its constructor throws.
EnqueueInBlock ==
  /\ prod.pc = "idle" /\ tailIndex < MaxIndex /\ Slot(tailIndex) # 0
  /\ blocks' = [blocks EXCEPT ![tailBlock].elements[Slot(tailIndex)] = tailIndex]
  /\ ProdGoes("publish")
  /\ UNCHANGED <<tailIndex, index, tailBlock, pools, consVars>>

\* A block is full: start one, if circular_less_than(head, currentTailIndex + BLOCK_SIZE).
EnqueueStartsBlock ==
  /\ prod.pc = "idle" /\ tailIndex < MaxIndex /\ Slot(tailIndex) = 0
  /\ CircularLessThan(headIndex, tailIndex + BLOCK_SIZE)
  /\ ProdGoes("insert")
  /\ UNCHANGED <<tailIndex, index, tailBlock, blocks, pools, consVars>>

NextEntry(header) == header.index[(header.tail + 1) % header.capacity]

\* idxEntry->key = blockStartIndex; localBlockIndex->tail = newTail
InsertEntry(entry) ==
  /\ entries' = [entries EXCEPT ![entry].key = tailIndex]
  /\ headers' = [headers EXCEPT ![Len(headers)].tail = (@ + 1) % Newest.capacity]
  /\ prod' = [prod EXCEPT !.pc = "requisition", !.entry = entry]

\* Slip: the oldest entry is used again whether or not its block is empty.
InsertAnyway ==
  /\ prod.pc = "insert"
  /\ InsertEntry(NextEntry(Newest))
  /\ UNCHANGED <<tailIndex, tailBlock, blocks, pools, consVars>>

\* insert_block_index_entry(), where the next entry is free or the index must grow.
Insert ==
  /\ prod.pc = "insert"
  /\ LET entry == entries[NextEntry(Newest)] IN
     IF entry.key = INVALID_BLOCK_BASE \/ entry.value = Nothing
     THEN InsertEntry(NextEntry(Newest))
     ELSE ProdGoes("grow") /\ UNCHANGED index
  /\ UNCHANGED <<tailIndex, tailBlock, blocks, pools, consVars>>

\* new_block_index(): twice the entries, the old ones first, from the oldest on; or
\* there is no memory and enqueue() returns false.
Grow ==
  /\ prod.pc = "grow"
  /\ LET n == Newest.capacity IN
     \/ /\ entries' = entries \o NewEntries(n)
        /\ headers' = Append(headers,
             [capacity |-> 2 * n, tail |-> n - 1,
              index |-> [k \in 0 .. 2 * n - 1 |->
                 IF k < n THEN Newest.index[(Newest.tail + 1 + k) % n]
                 ELSE Len(entries) + 1 + k - n]])
        /\ ProdGoes("insertNew")
     \/ prod' = IdleProd /\ UNCHANGED index
  /\ UNCHANGED <<tailIndex, tailBlock, blocks, pools, consVars>>

InsertNew ==
  /\ prod.pc = "insertNew"
  /\ InsertEntry(NextEntry(Newest))
  /\ UNCHANGED <<tailIndex, tailBlock, blocks, pools, consVars>>

Obtained(b) == prod' = [prod EXCEPT !.pc = "construct", !.block = b]

\* requisition_block(): from the initial pool, the free list, or the heap.  The free
\* list may have a block and not give it: see FreeList.
Requisition ==
  /\ prod.pc = "requisition"
  /\ IF initialBlockPoolIndex < initialBlockPoolSize
     THEN /\ initialBlockPoolIndex' = initialBlockPoolIndex + 1
          /\ Obtained(initialBlockPoolIndex + 1)
          /\ UNCHANGED <<freeList, blocks>>
     ELSE /\ \/ \E b \in freeList : /\ freeList' = freeList \ {b}
                                    /\ Obtained(b) /\ UNCHANGED blocks
             \/ /\ Len(blocks) < MaxBlocks
                /\ blocks' = Append(blocks, NewBlock)
                /\ Obtained(Len(blocks) + 1) /\ UNCHANGED freeList
             \/ ProdGoes("rewind") /\ UNCHANGED <<freeList, blocks>>
          /\ UNCHANGED initialBlockPoolIndex
  /\ UNCHANGED <<tailIndex, index, tailBlock, consVars>>

\* reset_empty(), the element, then the block enters the index; or the element's
\* constructor throws.
Construct ==
  /\ prod.pc = "construct"
  /\ \/ /\ blocks' = [blocks EXCEPT ![prod.block].dequeued = 0,
                                    ![prod.block].elements[0] = tailIndex]
        /\ entries' = [entries EXCEPT ![prod.entry].value = prod.block]
        /\ tailBlock' = prod.block
        /\ ProdGoes("publish")
     \/ /\ blocks' = [blocks EXCEPT ![prod.block].dequeued = 0]
        /\ ProdGoes("rewind")
        /\ UNCHANGED <<entries, tailBlock>>
  /\ UNCHANGED <<tailIndex, headers, pools, consVars>>

\* rewind_block_index_tail(), and the block, if there is one, goes to the free list.
Rewind ==
  /\ prod.pc = "rewind"
  /\ headers' = [headers EXCEPT ![Len(headers)].tail =
                   (@ + Newest.capacity - 1) % Newest.capacity]
  /\ entries' = [entries EXCEPT ![prod.entry].value = Nothing]
  /\ freeList' = freeList \cup ({prod.block} \ {Nothing})
  /\ prod' = IdleProd
  /\ UNCHANGED <<tailIndex, tailBlock, blocks, initialBlockPoolIndex, consVars>>

Publish ==
  /\ prod.pc = "publish"
  /\ tailIndex' = tailIndex + 1
  /\ prod' = IdleProd
  /\ UNCHANGED <<index, tailBlock, blocks, pools, consVars>>

Producer == \/ EnqueueInBlock \/ EnqueueStartsBlock \/ Insert \/ Grow \/ InsertNew
            \/ Requisition \/ Construct \/ Rewind \/ Publish

-----------------------------------------------------------------------------
(* dequeue(). *)

prodVars == <<tailIndex, headers, tailBlock, initialBlockPoolIndex, prod>>
memory == <<entries, blocks, freeList>>

At(c, pc) == cons[c].pc = pc
Goes(c, state) == cons' = [cons EXCEPT ![c] = state]
Return(c) == Goes(c, IdleCons) /\ mayMiss' = [mayMiss EXCEPT ![c] = FALSE]

\* What SharedStream sees of a call.
CallOf(c) == CASE At(c, "idle") -> <<"idle">>
               [] cons[c].pc \in {"loadOvercommit", "test", "claim", "retest",
                                  "release", "take"} -> <<"asking">>
               [] cons[c].pc \in {"loadIndex", "loadIndexTail", "loadBase", "read"} ->
                    <<"took", 0, cons[c].index>>
               [] OTHER -> <<"took", 0, cons[c].got>>

Items == [k \in 1 .. tailIndex - headIndex |-> headIndex + k - 1]

\* The stream of one producer, which is number 0.
Stream == INSTANCE SharedStream WITH
  Producers <- {0}, items <- [p \in {0} |-> Items], puts <- [p \in {0} |-> tailIndex],
  call <- [c \in Consumers |-> CallOf(c)]

CallDequeue(c) ==
  /\ At(c, "idle") /\ dequeueOptimisticCount < MaxClaims
  /\ Goes(c, [IdleCons EXCEPT !.pc = "loadOvercommit", !.tail = tailIndex])
  /\ mayMiss' = Stream!Overlap(c)
  /\ UNCHANGED <<headIndex, counts, memory, prodVars>>

LoadOvercommit(c) ==
  /\ At(c, "loadOvercommit")
  /\ Goes(c, [cons[c] EXCEPT !.pc = "test", !.overcommit = dequeueOvercommit])
  /\ UNCHANGED <<headIndex, counts, mayMiss, memory, prodVars>>

\* dequeueOptimisticCount - overcommit < tail
Test(c) ==
  /\ At(c, "test")
  /\ IF CircularLessThan(dequeueOptimisticCount - cons[c].overcommit, cons[c].tail)
     THEN Goes(c, [cons[c] EXCEPT !.pc = "claim"]) /\ UNCHANGED mayMiss
     ELSE Return(c)
  /\ UNCHANGED <<headIndex, counts, memory, prodVars>>

Claim(c) ==
  /\ At(c, "claim")
  /\ Goes(c, [cons[c] EXCEPT !.pc = "retest", !.count = dequeueOptimisticCount])
  /\ dequeueOptimisticCount' = dequeueOptimisticCount + 1
  /\ UNCHANGED <<headIndex, dequeueOvercommit, mayMiss, memory, prodVars>>

\* Slip: the first test is believed.
RetestNothing(c) ==
  /\ At(c, "retest")
  /\ Goes(c, [IdleCons EXCEPT !.pc = "take"])
  /\ UNCHANGED <<headIndex, counts, mayMiss, memory, prodVars>>

\* myDequeueCount - overcommit < tail, with the tail as it is now.
Retest(c) ==
  /\ At(c, "retest")
  /\ Goes(c, [IdleCons EXCEPT !.pc =
                IF CircularLessThan(cons[c].count - cons[c].overcommit, tailIndex)
                THEN "take" ELSE "release"])
  /\ UNCHANGED <<headIndex, counts, mayMiss, memory, prodVars>>

\* Slip: a consumer that claimed too much does not give it back.
ReleaseNothing(c) ==
  /\ At(c, "release")
  /\ Return(c)
  /\ UNCHANGED <<headIndex, counts, memory, prodVars>>

Release(c) ==
  /\ At(c, "release")
  /\ dequeueOvercommit' = dequeueOvercommit + 1
  /\ Return(c)
  /\ UNCHANGED <<headIndex, dequeueOptimisticCount, memory, prodVars>>

TakeIndex(c) ==
  /\ At(c, "take")
  /\ headIndex' = headIndex + 1
  /\ Goes(c, [IdleCons EXCEPT !.pc = "loadIndex", !.index = headIndex])
  /\ UNCHANGED <<counts, mayMiss, memory, prodVars>>

LoadIndex(c) ==
  /\ At(c, "loadIndex")
  /\ Goes(c, [cons[c] EXCEPT !.pc = "loadIndexTail", !.header = Len(headers)])
  /\ UNCHANGED <<headIndex, counts, mayMiss, memory, prodVars>>

LoadIndexTail(c) ==
  /\ At(c, "loadIndexTail")
  /\ Goes(c, [cons[c] EXCEPT !.pc = "loadBase", !.indexTail = headers[cons[c].header].tail])
  /\ UNCHANGED <<headIndex, counts, mayMiss, memory, prodVars>>

\* get_block_index_entry_for_index(i): as far from the tail's entry as the blocks are.
EntryFor(i, header, tail) ==
  LET offset == (BlockBase(i) - entries[header.index[tail]].key) \div BLOCK_SIZE IN
  header.index[(tail + offset) % header.capacity]

LoadBase(c) ==
  /\ At(c, "loadBase")
  /\ LET me == cons[c] IN
     Goes(c, [IdleCons EXCEPT !.pc = "read", !.index = me.index,
                !.entry = EntryFor(me.index, headers[me.header], me.indexTail)])
  /\ UNCHANGED <<headIndex, counts, mayMiss, memory, prodVars>>

\* element = std::move(el), and the destructor of what is left.
Read(c) ==
  LET me == cons[c]
      block == entries[me.entry].value IN
  /\ At(c, "read")
  /\ Goes(c, [me EXCEPT !.pc = "setEmpty", !.index = 0, !.block = block,
                        !.got = blocks[block].elements[Slot(me.index)]])
  /\ blocks' = [blocks EXCEPT ![block].elements[Slot(me.index)] = Nothing]
  /\ UNCHANGED <<headIndex, counts, mayMiss, entries, freeList, prodVars>>

\* set_empty(): was this the last element of the block?
SetEmpty(c) ==
  LET block == cons[c].block IN
  /\ At(c, "setEmpty")
  /\ blocks' = [blocks EXCEPT ![block].dequeued = @ + 1]
  /\ IF blocks[block].dequeued = BLOCK_SIZE - 1
     THEN Goes(c, [cons[c] EXCEPT !.pc = "unindex"]) /\ UNCHANGED mayMiss
     ELSE Return(c)
  /\ UNCHANGED <<headIndex, counts, entries, freeList, prodVars>>

Unindex(c) ==
  /\ At(c, "unindex")
  /\ entries' = [entries EXCEPT ![cons[c].entry].value = Nothing]
  /\ Goes(c, [cons[c] EXCEPT !.pc = "free"])
  /\ UNCHANGED <<headIndex, counts, mayMiss, blocks, freeList, prodVars>>

FreeBlock(c) ==
  /\ At(c, "free")
  /\ freeList' = freeList \cup {cons[c].block}
  /\ Return(c)
  /\ UNCHANGED <<headIndex, counts, entries, blocks, prodVars>>

Consumer(c) == \/ CallDequeue(c) \/ LoadOvercommit(c) \/ Test(c) \/ Claim(c) \/ Retest(c)
               \/ Release(c) \/ TakeIndex(c) \/ LoadIndex(c) \/ LoadIndexTail(c)
               \/ LoadBase(c) \/ Read(c) \/ SetEmpty(c) \/ Unindex(c) \/ FreeBlock(c)

Quiet == prod.pc = "idle" /\ \A c \in Consumers : At(c, "idle")

\* MaxClaims stops the model.
Stopped == Quiet /\ dequeueOptimisticCount >= MaxClaims /\ UNCHANGED vars

Next == Producer \/ (\E c \in Consumers : Consumer(c)) \/ Stopped

Spec == Init /\ [][Next]_vars

-----------------------------------------------------------------------------
(* The destructors of the producer and of the queue, run when no call is.   *)

BlockOf(i) == entries[EntryFor(i, Newest, Newest.tail)].value

\* The blocks that the loop over the messages leaves behind it.
LeftBehind == [k \in 1 .. (tailIndex - 1) \div BLOCK_SIZE - headIndex \div BLOCK_SIZE |->
                 BlockOf(BlockBase(headIndex) + (k - 1) * BLOCK_SIZE)]

\* Slip: the last block is freed only if it is not full.
LastBlockUnlessFull ==
  IF tailBlock # Nothing /\ Slot(tailIndex) # 0 THEN <<tailBlock>> ELSE <<>>

LastBlock == IF tailBlock # Nothing /\ (headIndex # tailIndex \/ Slot(tailIndex) # 0)
             THEN <<tailBlock>> ELSE <<>>

\* Those that are in no pool are destroyed, by the producer and from the free list.
Destroyed == SelectSeq(LeftBehind \o LastBlock \o SetToSeq(freeList),
                       LAMBDA b : b > initialBlockPoolSize)

\* The entries it destroys: those the newest index leads to.
DestroyedEntries == [k \in 1 .. Newest.capacity |-> Newest.index[k - 1]]

-----------------------------------------------------------------------------
\* No consumer takes an index that has not been enqueued: of the consumers that claim
\* more than there is, the ones that claimed too much give up, whatever the others do
\* between their two tests.
NeverOverdrawn == headIndex <= tailIndex

\* assert(... key == index && ... value != nullptr), concurrentqueue.h:2779: however
\* the index has moved on or grown since it was looked at, the entry found is that of
\* the block of the consumer's message, which nobody has taken or destroyed.
FindsItsBlock ==
  \A c \in Consumers :
    At(c, "read") =>
      LET me == cons[c]  entry == entries[me.entry] IN
      /\ entry.key = BlockBase(me.index) /\ entry.value # Nothing
      /\ blocks[entry.value].elements[Slot(me.index)] = me.index

\* When the queue is deleted, the messages still there are in the blocks the destructor
\* walks over, and every block from the heap and every entry of the index, although
\* it has grown since, is destroyed once: the comment at
\* concurrentqueue.h:2295, "there's still one block that's not on the free list (unless
\* the head index reached the end of it ...)".
DestroysEverything ==
  Quiet =>
    /\ Len(Destroyed) = Cardinality(ToSet(Destroyed))
    /\ ToSet(Destroyed) = initialBlockPoolSize + 1 .. Len(blocks)
    /\ IsInjective(DestroyedEntries) /\ ToSet(DestroyedEntries) = DOMAIN entries
    /\ \A i \in headIndex .. tailIndex - 1 : blocks[BlockOf(i)].elements[Slot(i)] = i

\* A producer is the stream that ConcurrentQueue takes it for.
ImplementsStream == Stream!Spec
=============================================================================
