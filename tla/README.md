# A TLA+ model of BidAskSpread

BidAskSpread reads a CSV file of quotes and writes the daily relative bid-ask
spread. `processFile` (BidAskSpread.cpp) does it with six threads connected by
five bounded queues, a console thread, and a display thread per stage. Rows are
structs of raw pointers that the threads hand to each other. This directory holds
a TLA+ model of that program, TLC configurations that check it on small
instances, and proofs about its central parts that hold for every instance.

## The system

| Component | State | Operations | Talks to |
|---|---|---|---|
| `AtomicQueue` (AtomicQueue.h) | a `ReaderWriterQueue`, `m_atEnd`, `m_full`, `m_empty` | `enqueue`, `dequeue`, `peek`, `setQueueEnd`, `end`, `empty`, `full` | one writer thread, one reader thread, their display threads (flags only) |
| `ReaderWriterQueue` (vendored) | a ring of blocks | `try_enqueue`, `try_dequeue`, `peek` | `AtomicQueue` |
| `StreamParser` | position in the file | `parse`: a line becomes an `Observation`, is skipped, or ends the parsing | mapped file, `parsedQueue` |
| `TimestampMergeFilter` | `m_buffer` (forward_list) | `filter`, `getMergedObs` | `parsedQueue` -> `timestampMergedQueue` |
| `OutliersFilter` | `m_buffer`, one day | `filter`, `removeDayOutliers`, `computeContextStats` | -> `outliersFilteredQueue` |
| `RelSpreadProcessor` | none | `filter` | -> `relSpreadQueue` |
| `DayRelSpreadProcessor` | `m_buffer`, one day | `pollDayObs`, `process`, `cleanBuffer` | -> `dayRelSpreadQueue` |
| `OutputWriter` | the output file | `run`, `save` | `dayRelSpreadQueue` -> file |
| `Filter`, `Callable` | | `run`, `operator()`: what happens to an exception | the stages |
| `Counter` | two tick counts, `m_running`, a thread | `start`, `stop`, `ticks`, display loop | `msgQueue`, the queues' flags |
| `MsgOutput` | a table of messages | `run`, `shutdown` | `msgQueue`, console |
| `ConcurrentQueue` (vendored) | `msgQueue`: a list of producers, one for each thread; a hash table from thread ids to producers; pools of blocks | `enqueue`, `try_dequeue`, the destructor | all threads |
| `ImplicitProducer` (vendored) | one thread's messages: blocks, a circular index of the blocks, four counters | `enqueue`, `dequeue` | the pools, `ConcurrentQueue` |
| `FreeList` (vendored) | the blocks that can be used again | `add`, `try_get` | the implicit producers |
| `MemoryMapped` (vendored) | two handles, a view, two sizes | `open`, `remap`, `close`, `at`, `mappedSize` | the operating system |
| `MemoryMappedStreamBuf` | a get area in the view | `underflow`, `seekpos` | `MemoryMapped`, the parser's istream |
| `StatsUtils` | none | `mean`, `trimmedMean`, `sampleSD`, `median` | the filters |
| `processFile`, `main` | threads, queues | start, join, shut down, delete | everything |

What is hard about it:

* **The end of a stream.** `dequeue` and `peek` loop: try, then look at
  `m_atEnd && m_empty`, then sleep 25 ms. The writer runs between any two of
  these steps. `m_empty` is written only by the reader, is uninitialized at first,
  and is usually stale.
* **Blocking.** A full queue blocks its writer until the reader takes something.
  A reader that ends by an exception never will.
* **Failure.** `Filter::run` closes its output when a `std::exception` leaves
  `filter()`. `RelSpreadProcessor` overrides `run` without that catch, and
  `DayRelSpreadProcessor` has none.
* **Ownership.** Seven heap cells per row pass through six threads, some of them
  replaced (the median quote) or split from the rest (the symbol and date go to
  the `DaySpread` while its maker still has to delete the other cells).
* **Sharing `msgQueue`.** The stages and their display threads put messages in it without
  a lock. Blocks go round between an implicit producer, its consumers and a free list
  whose nodes are reference-counted; the index of the blocks and the hash table of the
  producers grow while others read them; memory may be short, and a constructor may throw.
* **Grouping.** Both buffers that group rows learn that a group is over only from
  the row behind it, and a queue may run empty between the two.

## Modules

| Module | Models | Uses |
|---|---|---|
| `EndedStream` | abstract: what a stage may expect of a queue: a bounded, closable FIFO whose reader is told of the end once, possibly too early | |
| `AtomicQueue` | the class: one variable `q`, one action per outcome of an iteration of each loop | |
| `QueueLink` | a queue with the thread that writes and the thread that reads it | extends `AtomicQueue`, instantiates `EndedStream` |
| `QueueLinkProofs` | theorems about `QueueLink` | extends it |
| `DataStructures` | `Observation`, `DaySpread`, the heap cells they point to | |
| `Stage` | what the middle stages share: reading, writing, closing, failing | instantiates `AtomicQueue` twice |
| `StreamParser`, `TimestampMergeFilter`, `OutliersFilter`, `RelSpreadProcessor`, `DayRelSpreadProcessor`, `OutputWriter` | the stages | `Stage` or `AtomicQueue` |
| `Pipeline` | `processFile`: the six threads and five queues | instantiates the stages |
| `PipelineRows`, `PipelineProofs` | the inductive invariant of `Pipeline`, the steps of its threads, and the theorems, also those about `OutlierContext` | extend it |
| `BoundedFifo` | abstract: a bounded FIFO whose operations try once, what `AtomicQueue` takes the ring of blocks for | |
| `ReaderWriterQueue` | the ring of blocks, one action per access to shared memory | instantiates `BoundedFifo` |
| `RingProofs` | theorems about `ReaderWriterQueue` | extends it |
| `Counter`, `MsgOutput` | a counter with its display thread; the console thread and `msgQueue` | |
| `Console` | `processFile` seen from the console: stages, display threads, console, shutdown | instantiates `Counter` and `MsgOutput` |
| `ConsoleProofs` | theorems about `Console` | extends it |
| `SharedStream` | abstract: what a multi-producer queue promises: a stream for each producer, each message taken once and in order, and when a call may find nothing | |
| `FreeList` | the lock-free stack of blocks, one action per access to a shared word | |
| `ImplicitProducer` | one thread's stream in blocks, with the index, the pools and the destructors | instantiates `SharedStream` |
| `MsgQueueProofs` | theorems about `ImplicitProducer` and `FreeList` | extends both |
| `ImplicitProducerHash` | `get_or_add_implicit_producer`: from a thread id to its producer | |
| `ConcurrentQueue` | the list of producers and the choice among their streams | instantiates `SharedStream` |
| `ConcurrentQueueProofs` | theorems about `ConcurrentQueue` and `ImplicitProducerHash` | extends them |
| `MemoryMapped` | the class itself: its handles, its view, its sizes, under any sequence of calls | |
| `Tokens` | `parseFloat` and `parseUChar`, character by character | |
| `MemoryMappedStreamBuf` | the parser's stream buffer with the `MemoryMapped` under it: a view that moves along the file | |
| `MappedFileProofs` | theorems about `MemoryMapped` and `MemoryMappedStreamBuf` | extends both |
| `OutlierContext` | the windows of `removeDayOutliers`, the indices of `trimmedMean` and `median` | |
| `MCQueueLink`, `MCPipeline`, `MCReaderWriterQueue`, `MCConsole`, `MCMemoryMappedStreamBuf`, `MCFreeList`, `MCImplicitProducer`, `MCImplicitProducerHash`, `MCConcurrentQueue`, `MCMemoryMapped`, `MCTokens` | small instances | |

### Correspondence with the code

`AtomicQueue`. `q.items` is the content of `m_queue`; `atEnd`, `full`, `empty` are
the flags. `try_enqueue`, `try_dequeue` and `ReaderWriterQueue::peek` are atomic
steps, since each has one store that makes it visible to the other thread. A
*failed* try and the evaluation of `end()` are two steps, with `q.missed` true in
between. The room of a `ReaderWriterQueue` depends on where its reader stands in
the ring of blocks, between the guaranteed `MinCapacity` and `MaxCapacity`
(at least the 30 000 asked for, at most 60 blocks of 511): in this range a try may go either
way. `NewQueue(garbage)` is the constructor that leaves `m_empty` uninitialized.

The stages. A stage is a record: where its thread is (`pc`), its `m_buffer`, the
rows its running handler has yet to enqueue (`outbox`), whether these are its last, made
in the catch block of `QueueEndException` (`ending`), and the row it held when an
exception struck (`hand`). One action takes a row and runs the handler up to its first `enqueue`;
each `enqueue` is an action of its own, which may block; so is `cleanBuffer`,
because it runs after the `DaySpread` has been handed on; so is the closing. The
message a stage puts in `msgQueue` before it closes belongs to the closing.

Rows. A row keeps what the code branches on: date, time, and whether the relative
spread is negative. Which rows are outliers, and whether the medians of a mixed
group are crossed, is open. Lines have a kind: `good`, `skip` (filtered out),
`bad` (too few tokens), `cut` (too long, or the last without a newline; the parser
treats both as the end of the file). `heap` is the set of allocated cells, cells
that live and die together being one; `wild` becomes true if a cell is read or
deleted when it is not allocated.

Failures. `Raises` ends a stage at any time between two rows, with a row in its
hand, or in the catch block of `QueueEndException` before its last rows are ready
(`getMergedObs`, `removeDayOutliers` and `mean` allocate there). Nothing throws between
the `enqueue`s of one handler; the `push_front` that follows them in
`TimestampMergeFilter` counts as between two rows, the row being in `buffer` already.
`Filter` stages then close their output, the two others do not; a parser's exception is
caught by `parse`; the writer can fail to open its file.

The ring of blocks. `frontBlock`, `tailBlock` and the indices and slots of each
block are variables; `b + 1` modulo `BlockCount` is `block->next`. Each access to
memory the other thread also touches is a step, in the order of the code, whose
fences forbid any other; a store that is seen late makes the other thread see less
room, or fewer elements, as the running of the threads at other moments also does.
A `try_enqueue` has its effect when `tail`, or `tailBlock`, is written, a
`try_dequeue` when `front` is; a failed try counts as of its call, which is why
`wasFull` and `wasEmpty` remember what the queue held then. `pop` is
`try_dequeue` without the element. The destructor runs alone; `Destroyed` is what its
loops over the blocks would destroy in a state.

The console. `Counter` gives for each operation, and each step of the display
thread, the counter after it; `Console` adds the threads. A stage is only its
counter's life: start, ticks, stop, "Finished !" (or StreamParser's "Exception:",
sent at the same place), or an exception that goes straight to the destructor. `TimestampMergeFilter` stops its
counter only if it has a row to merge (`EndWithNoRow`): of an empty input the counter
runs on, past "Finished !", until the destructor stops it.
`msgQueue` is one sequence per producer, because `ConcurrentQueue` orders nothing
between them, and a failed `try_dequeue` proves nothing while producers run. If
`processFile` gets to `shutdown()` before the console thread has stored
`msgOutput`, `main` becomes "undefined".

The mapped file. A byte is its position in the file, a view the range it maps, the
get area an offset range from `getData()`; the parser's use of the stream is one
`seekg` over the header and reads up to the first EOF. A file that cannot be opened
is one of size 0: `CreateFileA` returns an invalid handle that is not null, after
which nothing can be mapped, and `open`'s result is ignored.

`MemoryMapped` is also modelled for itself, for any caller: handles are numbered as
the operating system gives them out, `closed` and `forgotten` say what became of
those that the object no longer has. `INVALID_HANDLE_VALUE` is not 0, and
`isValid()` asks for the view only, so that `open()` may be called over a file that an
earlier one left open.

`msgQueue`. The four modules of `ConcurrentQueue` divide what its `enqueue` and
`try_dequeue` do, and each takes the others for what they are shown to be.

* `FreeList`: a node's word `freeListRefs` is its number of references plus
  `SHOULD_BE_ON_FREELIST`; `thread` holds the local variables of `add` and `try_get`.
* `ImplicitProducer`: `headers` are the block indices, of which the last is current
  and which share `entries` (the code's headers point to the same entries); a block is
  its slots and its count of dequeued elements. One action per access to a counter, a
  header, an entry or a block; what `enqueue` writes in a new block or header goes with
  the store that publishes it. The free list is a set here. A message is the index it
  was put at.
* `ImplicitProducerHash`: each table keeps the one before it, as `prev` does; a probe
  and taking the first free slot are one step each, because slots are never given
  back. `resizing` is the test-and-set flag.
* `ConcurrentQueue`: a stream is two counters; `dequeue()` of a producer takes or misses
  as `SharedStream` allows, which `ImplicitProducer` is shown to implement. The loads of
  sizes, the choice of the best of three and the second round over the list are the code's.

This build decides some branches: Visual C++ 2013 has no `noexcept`, so that the
paths that expect a constructor to throw are the ones compiled; it never defines
`MOODYCAMEL_CPP11_THREAD_LOCAL_SUPPORTED`, so that nothing is done when a thread
exits, and a producer is used again only by a thread with the id of one that ended.
The console thread is the only consumer of the program; the library is for any
number, and the runs have two. Accesses are taken to happen in one order (the weaker
orders of the memory model are not modelled). The memory that the constructor of an
implicit producer asks for is assumed to be there.

`Tokens`. A state is a place in a token that both functions read: the characters are
digits, a point and any other; `tenths` is `parseFloat`'s `x` times ten.

Operators marked `Slip` are plausible mistakes, not part of the specification; no
action uses them. Each takes the place of one definition to see that a property
notices.

## Runs

| Run | Configuration | Question |
|---|---|---|
| `queue_link` | 2 elements, capacity 2 to 3, 5 sent, both values of the uninitialized flag | safety of one queue, as parts of its inductive invariant `LinkInv`; refinement of `EndedStream!Spec`, and under fairness of `EndedStream!FairSpec`: the reader is told of the end |
| `queue_link_lost_tail` | 1 element, capacity 1 | *violation*: `QueueIsAtEnd` |
| `pipeline` | 7 files of up to 4 lines without a failure and one of 2 rows during which any stage may fail; capacity 1 to 2 | safety of the six stages together, what the output is worth after failures, `processFile` returns, a failing filter is contained |
| `ring` | `maxSize` 8, blocks of 4 slots: four blocks; 2 elements, one of them at most once in the queue | `RingInv`: the asserts, no slot touched by both threads, the destructor; refinement of `BoundedFifo!Spec` |
| `console` | the parser, with a tick and up to two reports, and the merge filter, with none and up to one | shutdown of the console, late callbacks, no row counted in two reports, last lines, every `join` returns |
| `mapped_file` | files of 0 to 11 bytes, views of 3, header of 2, `size_t` modulo 12 | the bytes are read once, in order, from mapped memory, to the end |
| `free_list` | 3 blocks, 2 threads that take, 1 that gives back, 1 that does both; 3 bits for references | no block handed out twice, none lost |
| `implicit_producer` | 2 consumers, blocks of 2, an index of 2, one block in the pool, 3 at most; 5 messages, 4 claims | claims, the index, the destructors; refinement of `SharedStream!Spec` |
| `producer_hash` | 3 thread ids, two with one hash; a table of 2; one calls twice, the others once; 1 failure of `malloc` | a producer has one thread; probing ends; waiting for the thread that grows the table ends |
| `concurrent_queue` | 4 threads with 1 message each, 2 consumers | every producer is looked at; refinement of `SharedStream!Spec` |
| `mapped_handles` | files of 0 to 8 bytes, pages of 2, `size_t` modulo 8, 6 handles | handles and views under any sequence of calls |
| `tokens` | every token of up to 4 characters: five digits, the point, any other | what prices and modes are read as |

`MaxSent` bounds what a writer enqueues; it exceeds the capacity, so that the
queue fills, blocks, drains and ends in every order. The pipeline's files have
more rows than a queue has room, so that every stage blocks and starves; they
contain each kind of line, groups of one, two and three observations with the same stamp, a day of one row,
a date that comes back, and crossed quotes alone and among others. Two rows in
the same buffer and one behind are what the grouping code distinguishes; longer
buffers repeat the same step. The file during which stages fail (`Faulty` says which
may, file by file) has two rows of different days, so that a failure finds a stage with
its buffer empty or full, its input full, and rows behind it.

The ring has the smallest sizes for which the constructor makes several blocks of more
than one usable slot. Its run has no bound on the number of operations. TLC keeps one of
the states that differ by a rotation of the ring or of a block (`VIEW Rotated`), because
the code only follows `next` and adds one under a mask. The code never looks at an
element, so that one that differs from the others shows every change of order; the
constraint `OneMarked` keeps it to one at a time. `MaxReports` ends the display thread's
rounds before its last sleep, from which it wakes when its counter has been stopped: a
late report is one that was under way at the stop.

The bounds of `msgQueue` make its rare cases the usual ones. An index of two entries for
blocks of two messages is full when the third block is needed, and must grow unless a
block has been emptied; the pool has one block, so that the free list and the heap are
asked for the next; with four claims two consumers can overdraw and give back at once.
(`HalfRange`, 6, is where `enqueue` refuses to get further ahead of the consumers, and is
reached; indices that wrap are not modelled.) A hash table of two grows for the first threads already,
while others wait. In `free_list` every block can be held, pushed and popped by
different threads at once; the counts have room for a reference of each thread.
`concurrent_queue` has one producer more than the three that `try_dequeue` scores.
`MaxIndex`, `MaxClaims`, `MaxCalls` and `MaxPuts` stop these models (`Stopped`);
`free_list` has no bound on the number of operations. Four characters are enough for a
mode above 255 and for two digits after a point.

What the runs show:

* In a queue nothing is lost or reordered, a peeked row stays in front, and the
  end is never announced before the writer has closed.
* **The end can be announced too early for the last rows.** If the reader's try
  fails, the writer then enqueues its last rows and closes, and the reader then
  evaluates `end()`, the exception is thrown with rows in the queue
  (`queue_link_lost_tail`): `dequeue` does not try again after it has seen
  `m_atEnd`. `DeliveredUpToLastMiss` and `CleanEndIfClosedBeforeMiss` say exactly
  how much can be lost and when.
* In the pipeline this is the only way to lose a row without a failure
  (`LossOnlyInQueues`), it only ever costs a suffix (`OutputIsPrefix`), lines stay in
  order and each has one place (`RowsAccountedFor`), and days are neither mixed nor
  split (`OneRowPerDay`).
* The cells the threads hand on are deleted exactly once, by whichever thread has
  them last, and never read afterwards (`HeapSound`).
* After any set of failures the output file is still a correct prefix, and stages
  end only after the ones before them. A failing merge or outliers filter lets
  the stages behind it end. A failing `RelSpreadProcessor` or
  `DayRelSpreadProcessor` does not, and a failing reader leaves its writer blocked
  on a full queue: in both cases `join` in `processFile` waits for ever. The
  liveness properties therefore exclude these cases.

* The ring of blocks is the bounded FIFO that `AtomicQueue` assumes: it has room for
  `maxSize` elements wherever its reader is, and a failed try means that it was
  full or empty when it was called. The second look at `tail` before a block is
  left is necessary: without it (`LoadTailBlockOnce`) elements are skipped. The
  assertions of the code hold (`EntersFreeBlock`, `NextBlockHasElement`), and the
  destructor destroys just what is in the queue (`DestructorFindsAll`).
* No message is lost when the console shuts down, although it tests `m_shutdown`
  after a failed try, as `AtomicQueue` does with `m_atEnd`: it empties the queue
  once more (`NothingUnprinted`). A display thread reports at most once after its
  counter was stopped, so that the last line of a stage may be a rate and not
  "Finished !" (`OneLateReport`, `LastLineIsLast`), and never runs its callback in
  a stage that is gone (`NoCallbackOutlivesStage`).

* The file is read once and in order across its views (`ReadsInOrder`) to its end
  (`ReadsAll`), and only where it is mapped (`ReadsOnlyMapped`), which is due to the
  seek: the constructor's get area ignores the file's length. Three exceptions are
  in the properties: a view that cannot be mapped is taken for the end of the file
  (or skipped, if it is the first); a byte 0xFF at the start of a later view is
  taken for EOF; and on Win32 a file of more than 4 GB less a view is read from its
  start again, because the offset is a `size_t`.

* `msgQueue` keeps what `Console` takes for granted, that no message is lost between a
  thread and the console and that those of a thread stay in order: a producer is one
  stream (`implicit_producer`), the queue is those of all threads (`concurrent_queue`),
  a thread keeps its producer while the table grows (`OneProducerPerThread`), blocks
  are reused by one at a time (`ListSound`, `NothingLost`). With several consumers a
  `try_dequeue` may return false although there are messages, if another one overlaps
  it; the console's does not. Deleting the queue leaves no message, block or index entry
  behind (`DestroysEverything`), also when the index has grown or an allocation failed.
* `parseFloat` and `parseUChar` read what a token says only up to one digit after the
  point and up to 255: 12.25 is read as 12.7, 0.01 as 0.1, a mode of 268 as 12
  (`ReadsValue` says what each token is read as). Nothing in the repository says
  otherwise, so that this is no finding.
* Views of a `MemoryMapped` stay in the file and its handles are closed once
  (`mapped_handles`). Reading it for the model showed three places where it does not do
  what its comments say, all of which the program avoids, as it only maps forward and
  never calls `at` or moves one; no run checks them. After a `remap` beyond the end,
  `mappedSize()` is that of the old view; `at()` checks against the file and not the
  view; moving copies the handles, so that both objects close them.

Fairness. `queue_link`, `pipeline`, `console` and `producer_hash` assume weak fairness
of each thread (in the last, of each that is in a call, since nothing makes a thread
call): the loops retry every 25 ms and the operating system suspends no thread
for ever. A retry of `enqueue` is only sure to succeed below `MinCapacity`. No
stage is bound to fail, and a stage stops enqueuing when its own input ends.

`CHECK_DEADLOCK` stays on: a step `Terminated` stands for the threads having
ended, so that any other state without a step is an error.

## Proofs

`QueueLinkProofs` proves, for every set of elements, every pair of capacities and
every number of elements (the assumptions are `CapacityAssumption` and
`LinkAssumption`):

* `TypeCorrect`, `LinkInvariant`: the type invariant, and the inductive invariant
  `LinkInv`. It adds two parts to what is to be shown. `CloseIsLast`: the end is
  set exactly when the writer is done, so nothing is appended later.
  `AfterMiss`: from a failed try to the exception the reader's history has the
  length recorded at the try; without it nothing ties the end of the stream to
  what had been sent.
* `NothingLostInside`, `PeekIsStable`, `NoEarlyEnd`, `LossIsBounded`, `CleanEnd`:
  the safety properties of the run, from `LinkInv`. `MoveFront` and `FirstPart`
  are the facts about sequences they need.
* `QueueImplementsStream`: `QueueLink` implements `EndedStream`, with
  `closed <- q.atEnd` and `ended <- (cons = "ended")`; `EnqueueReturns` is a
  `Send`, `Finish` a `Close`, `DequeueReturns` a `Receive`, `CallThrows` an `End`,
  and every other step a stutter.

`PipelineRows` and `PipelineProofs` prove all the safety properties of the run `pipeline`
for any set of files, any room in the queues, any initial `m_empty` and any stages that
may fail: `TypeCorrect`, `RowsAreAccountedFor`, `RowsAreDays`, `StampsAreMerged`,
`HeapIsSound`, `LossOnlyWhereQueued`, `OutputHasNoGaps` and `StagesEndInOrder`. They
follow from one invariant, `PipelineInv`, and `PipelineAssumption`, which asks only that a
queue has room for an element and that a file is a finite sequence of lines. The parts
of the invariant lean on each other:

* `Types` says of every row that the line it is named after is among the lines it stands
  for, and that all of these are of its date.
* `Control` ties each thread to its two queues: it holds something at hand only after a
  failure, has an empty buffer when it is over, sees the end of its input only after that
  was set, and has set that of its output only if it is over.
* `Ordered` is the account of the lines, with the order of rows over any distance and not
  only between neighbours, so that it survives the replacing of rows in the middle: a
  merged row has the lines of those it was made of, a day those of its buffer.
* `HeapExact` is more than `HeapSound` says: the cells allocated are just those of the
  rows, *whatever stage has failed*, when the row in the hand of the failed stage is
  counted. Only so can it be inductive, since the other stages go on. That a step deletes
  no cell of another row follows from `Ordered`: cells are named after lines, and the
  lines of two rows are disjoint (`CellsOfSrc`). This fails in one place, a day and the
  buffer it was made of, whose rows have the same lines: `DayCellsApart` shows that
  `cleanBuffer` and the writer delete different cells of them all the same.
* `DaysApart` says what the peeking of `pollDayObs` is good for: while the next row to be
  taken is known, how its date compares with the last day built and the day in the buffer.
  `DayAtHand` keeps the day and its buffer together between the two.
* `StampsApart` adds to `StampsMerged` that nothing has passed the merge filter before its
  first group.

`PipelineRows` has one lemma for the sequence of all rows cut at each stage (`RowsCut`),
one that replaces the middle of a sequence (`Replaced`), one for deletes and allocations
that stay with the rows being moved (`MovesAreSafe`, `MovesInside`), and for each stage
the frame that carries them to the whole invariant. What the four middle stages share
(waiting, enqueuing, closing, failing) is proved once (`Shared`, `SharedFits`,
`SharedRows`); the handlers one by one. No run lists `PipelineInv`; before it was proved,
TLC found it true in all 205,006 states of the instance of run `pipeline`, the same states
in which the run checks the eight invariants that follow from it.

About `OutlierContext`, `PipelineProofs` proves for a day of any length: the context of an observation lies
in the day and leaves it out (`ContextInDay`), reaches 25 observations to either side
except before the last 25 of a long day (`NeighboursAreContext`), and is empty only
for a day of one observation (`ContextNotEmpty`); the trimmed mean and the median of
at least one value stay inside their vector (`TrimKeepsSome`, `MedianInMiddle`). For
the day of one observation the code computes on an empty context, which is
undefined.

`RingProofs` proves that the ring of blocks keeps `RingInv` (`RingInvariant`) and
implements `BoundedFifo` (`QueueImplementsFifo`), for any room asked of the constructor
and any block size that is a power of two from 2 to 1024 (`QueueAssumption`; the
program's is 512). From the constructor's arithmetic it uses only `RingSize`: a single
block has room for what was asked, and of several all but one have. The inductive
invariant `RingIInv` says, besides the types:

* `CopiesBehind`: a thread's copy of the other's index lies between its own and the true
  one, so that what a thread believes is there, or free, is.
* `BlocksInOrder`: the blocks between the consumer's and the producer's are full, those
  past the producer's empty, but for the element that is written ahead and not yet
  published. Hence a consumer that leaves its block always finds an element in the next,
  and a producer that may not enter the next has filled all the others. That the
  consumer's block is empty when it leaves it needs the second look at `tail`.
* `ProducerKnows`, `ConsumerKnows`, `PointsToFront`: what the outcome of each test is worth
  to the thread that made it until it acts, whatever the other does meanwhile.
* `SlotsFilled`, `SlotsCounted`: which slots have an element, as a matter of indices, and
  that they are as many as the queue has.
* `FailuresDue`: a call that is about to fail was made when the queue was full, or empty.

`StoredIn` is what the blocks from one to another hold: an element is put behind it
(`StoredPut`), taken from its front (`StoredFront`), or the span changes by a block
(`StoredInNext`, `StoredInFirst`). The element enters the FIFO at `Publish` and at
`AdvanceTail`, not at `PublishAhead`, and leaves it at `Free`. TLC had found `RingIInv`
true in all states of the instance of run `ring` and of some smaller ones. The few
inductions over the number of blocks, of properties that are formulas without
parameters, go by the least counterexample (`CountingUp`).

`MsgQueueProofs` proves parts of `msgQueue`. Of `ImplicitProducer` it shows, for any
finite number of consumers, any size of blocks and any number of messages, that no consumer takes an index that was not enqueued
(`NotOverdrawn`; from `ProducerAssumption`). A consumer reads `dequeueOvercommit`, tests,
claims a number by incrementing `dequeueOptimisticCount`, tests again, and either
increments `headIndex` or gives the claim back by incrementing `dequeueOvercommit`; the
others do the same in between. The inductive invariant `ClaimsInv` has the balance of the
claims (`ClaimsBalance`: won, given back, or open) and, what carries the proof, a number
below which there are messages for all open claims, while every open claim above it, if
it passes its second test, leaves enough for those before it (`Covers`). When such a
claim wins, the number moves up behind it (`WinStep`); a new claim is above it
(`ClaimStep`); the other steps leave the open claims alone (`SameClaims`) or make them
fewer (`LoseStep`).

Of the index and the blocks it shows (`BlockIsFound`, which is `FindsItsBlock`) that the
entry a consumer computes is that of the block of its message, and the message is still
in the block. The consumer does so in three steps: it reads which header is the newest,
then the header's tail, then the key at that tail, and takes the distance from the one
key to the other as the distance between the entries. In between, other consumers may
empty and free blocks, and the enqueuing thread may turn the index on or back, use
entries again for later blocks, and grow the index so that the header is not the newest
any more. `ProducerAssumption` asks for a finite number of consumers and sizes of at least
2 of the blocks and the index (the static_asserts at `concurrentqueue.h:639` ask for powers
of 2). The inductive invariant has two parts. `IndexInv`:

* `Window`: counted back from the last one (`Ago`), the entries of the newest header are
  for block after block, down to some entry before which all are unused; but the oldest
  may have a key that was inserted and given up (`Rewound`).
* `Headers`: the newest header leads to every entry. In an older one all entries are in
  use, and as far from each other as their blocks, round the circle (`Aligned`). It
  stays so although the keys change, because the new key of an entry is some rounds of
  each old header away from the one before it: the capacity only doubles.
* `Enqueuing`: what the enqueuing thread knows of the entry it has or looks for.

`BlockInv`:

* `OneHolder`: a block is in one entry, in one pool, or with the one thread that moves it.
* `Kept`: a message that was published and not yet read is in its slot of the block that
  the entry with its key has. An entry with a block keeps its key (`Gentle`), and a key
  is in one entry (`KeysDiffer`), so that what a consumer knew of the entry stays true
  (`StillKnows`).
* `Counted`: a block's count, plus the consumers that are inside it, is the number of
  indices taken from it. A consumer that counts the last element is therefore alone, and
  nothing is left in the block that it takes out of the index (`UnindexFacts`).
* `TailKept`: a block that is not full is in the index. `Knows` and `Distinct`: what each
  consumer has found out, and that no two are at the same message or block.

TLC had found these parts, with numbers up to 9, true in all 741 816 states of the
instance of run `implicit_producer`.

From both it follows that the producer implements `SharedStream` with one producer
(`ProducerImplementsStream`), which is what `ConcurrentQueue` takes it for: `Publish` is a
`Put`, `CallDequeue` an `Ask`, `TakeIndex` a `Take`, the return from a failed test or from
`Release` a `Miss`, that from `SetEmpty` or `FreeBlock` an `Answer`, every other step a
stutter. That the message is what was taken is `BlockIsFound`, that a `Take` finds one
`NotOverdrawn`. That a `Miss` is legitimate needs one more invariant, `StreamInv`
(`LoneCallsPass`). `LoneCall` says that for a call that no other has overlapped, and that
found a message when it was made, the counters stand still: every claim before it was
settled, so that by `ClaimsBalance` the difference it tests is `headIndex`, which is less
than `tailIndex` was. `Room` says that this comparison, made on a circle, is one of
numbers: less than half of all indices are in use, because a block is started only where
there is room for all of it. TLC had found `StreamInv` true in all 1 469 386 states of the
instance of run `implicit_producer` without its symmetry.

Of `FreeList` it shows, for any finite sets of threads and blocks, that the list is sound
(`ListIsSound`) and no block is lost (`NoBlockLost`), from `FreeListAssumption`: there are
fewer threads that can refer to a block than the part of the word below
`SHOULD_BE_ON_FREELIST` can count. The step that takes the head off compares nothing but
the head, which may have been taken and put back since it was read. The inductive
invariant `ListInv` says why that does no harm. There is a sequence that is the list
(`IsList`), every block has one place (`Placed`), and its word is determined by it:

* `Base` is 0 for a block in use, 1 for one on the list or in the hands of the thread that
  pushes it or has popped it, and `SHOULD_BE_ON_FREELIST` for one that is about to be
  linked or waits for its last reference; the word is that plus the number of threads
  with a reference (`Holders`). A block that waits has a holder, one that is linked has
  none.
* `Locals`: the next pointer of a block does not change while a thread has a reference to
  it, so that what the thread read is still true when it sets the head, whatever became of
  the block in between; and a thread never makes a reference to a block whose word it has
  seen without one.

The proof of each action has two parts: what it does to the thread, the word and the list
(`AddDoes` and so on), and that `ListInv` survives (`AddKeeps` and so on). `ListStays`,
`ListPush` and `ListPop` are the only changes of the list; `OneTouched` reduces a step to
the one block it touches. `ChainIsList` says that following the pointers from the head, as
the properties do, gives the sequence. Before it was proved, TLC had found `ListInv` true
in all 2 156 584 states of the instance of run `free_list` (with the blocks on the chain in
place of the sequence).

`ConcurrentQueueProofs` proves, for any set of threads and of consumers, that
`try_dequeue` returns false only after it has found every producer empty (`AllChecked`) and
that the queue implements `SharedStream` (`QueueImplementsStreams`): `Enqueue` is a `Put`,
`TryDequeue` an `Ask`, `DequeueTakes` a `Take`, `Return` an `Answer` or a `Miss`, every other
step a stutter. The inductive invariant `QueueInv` has two parts besides the types.
`Tracked` says where the producers are that a consumer has not yet found empty: ahead of it
in its round over the list, as long as it has no best one (`OnTrack`); the second round
visits all but the best (`AllButFirst`), and it is missed only when none is left.
`Undisturbed` is what makes a `Miss` legitimate: while no other call has overlapped a
consumer's, all others are idle and there is a producer with a message that it has not
found empty and will not (`Finds`), whose size, once loaded, is still positive. A call that
has missed has no such producer, so that it was overlapped, or there was nothing. TLC had
found `Tracked` and `Undisturbed` true in all 214 606 states of the instance of run
`concurrent_queue`.

Of `ImplicitProducerHash` it shows, for any thread ids, any hash function, any failures of
`malloc` and any number of calls, that a thread id has one producer and a producer one
thread id, and that none is lost (`ProducersAreKept`), and that every table has a free
slot, so that the loops the code calls "not infinite" are not (`ASlotIsFree`).
`HashAssumption` asks that the first table's size is a power of two, from 2 to 2^10. The
inductive invariant `HashInv` has these parts besides the types:

* `Place`: a search has not passed its id, which is in none of the tables it has gone
  through; from the end of the search to the insert the id is in no table at all, although
  other threads add tables and keys in between, because only its own thread adds it.
* `Locked`: one thread resizes. The one about to allocate has therefore read the last
  table, and the tables grow from each to the next.
* `Shape`: where a key is, no free slot is probed before it (`Probed`). It stays so
  because no key is ever removed.
* `Ownership`: the producer of an id is what a table has for it or what its thread has
  just made; the first are on the list, the others from their push on; what was returned
  is in a table (`Remembered`).
* `Counts`: `implicitProducerHashCount` is the number of ids that are in a table or
  counted and not yet in one (`Live`); and for every m at most m ids were counted as one
  of the first m, or are in a table whose three quarters are at most m + 1 (`Within`). A
  thread inserts only where its count is less than three quarters, so that m ids cannot
  fill such a table. The count alone would not say so: a thread may be counted, wait, and
  insert in a table that others have filled since, and a failed allocation takes back a
  number that is not the last one given. The number a thread got is what it is held to.

The step that grows the table needs that doubling reaches any size and keeps the sizes
powers of two; `PowerDoubles` and `PowerExceeds` prove the first facts about 2^k, which
the provers do not know, from the number of subsets of a set. TLC had found the parts of
`HashInv` besides the types (m up to 20) true in all 190 604 states of the instance of
run `producer_hash`.

`MappedFileProofs` proves of `MemoryMapped`, for files and requests of any size, that handles are
accounted for (`AllHandles`) and views lie in the file (`ViewsStayInFile`), from
`MappedAssumption` and the inductive invariant `MappedInv`, which adds that no handle in
use was forgotten, that there is no mapping object without a file and no view without a
mapping object. `MapsInFile` says what `remap` leaves. Of `MemoryMappedStreamBuf` it proves,
for files, views and headers of any size, that the parser reads only mapped bytes
(`StaysInView`), in order and each once (`BytesInOrder`), to the end of the file
(`EofIsEnd`), from `StreamAssumption`. In `BufInv`, `AreaIsView` says that the get area is
the view, and `InPlace` that the bytes read so far are those before the next one. That
`m_viewOffset` does not wrap follows from where the last view began, which is inside the
file; a file without a first view needs a case of its own.

`ConsoleProofs` proves the safety properties of the run `console` for any stages, ticks
and reports: `ConsoleTypes`, `AllPrinted`, `CallbacksEndFirst`, `AtMostOneLate`,
`TicksCountOnce` and `LastLines`. The inductive invariant `ConsoleInv` adds to them what ties the
threads together. `Lives`: a counter runs while its stage works, does not after
the destructor's stop, and its display thread has ended when the stage is gone. `Lateness`: nothing was late before the stop, so that
the one report under way at the stop is the only one. `ReadIsPart`: the count that was
handed to the callback is part of the count it is subtracted from. `Shutting`: the
console stops after the stages, and leaves `msgQueue` empty. `Lines`: what each thread
has put in its own stream, with its last report at the end of it or already in the table.

Only model-checked: `DestroysEverything` of `ImplicitProducer` (it asks for the blocks of
the heap one by one and for no others, in a sequence that `SelectSeq` filters, a recursive
definition of the library that the provers cannot expand); `Tokens` (a fold over a
sequence of any length, an induction over data); and all liveness, such as that
`processFile` and a call of `get_or_add_implicit_producer` return (fairness and ENABLED
are beyond the prover).

## Not modelled, and what could follow

What could follow: the state bits of the istream, which make "Parse error (line)"
unreachable.

Left out:

* Of `ConcurrentQueue`, what the program never calls: explicit producers and tokens, the
  bulk operations, `size_approx`, move and swap (about half of the file), and what is
  not compiled (thread exit, and so the recycling of producers).
* Of the ring, `enqueue` with allocation, `size_approx` and
  `BlockingReaderWriterQueue`, never called. `atomicops.h` is modelled by its effect:
  accesses in program order. The orders of `ConcurrentQueue`'s atomics are, too.
* `seekoff` of the stream buffer, never called (it counts `cur` and `end` in its own
  way); `at`, moving, the hints and the Linux branch of `MemoryMapped`.
* `OutputWriter<Observation>`, never instantiated; `ClearScreen` (terminal output);
  `main`'s loop over the arguments, a sequence of independent calls; the project files.
* The values of prices and statistics (only their comparisons matter to the control), and
  undefined behaviour that ends the process.
