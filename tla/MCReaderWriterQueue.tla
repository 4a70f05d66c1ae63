------------------------ MODULE MCReaderWriterQueue ------------------------
(***************************************************************************)
(* ReaderWriterQueue, instantiated for TLC.  The code only ever follows    *)
(* block->next and adds one to an index, so two states are the same but    *)
(* for a rotation if the ring, seen from the consumer's block, and each    *)
(* block, seen from its front, are the same: TLC keeps one of them.        *)
(***************************************************************************)
EXTENDS ReaderWriterQueue

CONSTANT marked

FromFront(b, i) == ((i + BlockSize) - front[b]) % BlockSize

SeenFromFront(b) ==
  [tail |-> FromFront(b, tail[b]),
   localFront |-> FromFront(b, localFront[b]),
   localTail |-> FromFront(b, localTail[b]),
   data |-> [k \in Slots |-> data[b][(front[b] + k) % BlockSize]]]

Rotated ==
  <<[k \in Blocks |-> SeenFromFront((frontBlock + k) % BlockCount)], Span,
    IF pointer = <<>> THEN <<>>
    ELSE <<((pointer[1] + BlockCount) - frontBlock) % BlockCount,
           FromFront(pointer[1], pointer[2])>>,
    prod, element, wasFull, cons, op, result, wasEmpty>>

\* No action looks at what an element is: one that differs from the others at a time is
\* enough to tell one order from another.
OneMarked == Len(SelectSeq(Items, LAMBDA e : e = marked)) <= 1
=============================================================================
