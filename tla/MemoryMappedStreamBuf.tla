------------------------ MODULE MemoryMappedStreamBuf ------------------------
(***************************************************************************)
(* MemoryMappedStreamBuf and the MemoryMapped under it: the parser's       *)
(* istream reads the file through a view of ViewSize bytes, moved on by    *)
(* underflow().                                                            *)
(*                                                                         *)
(* A byte of the file is its position; the get area is an offset range     *)
(* from getData().  The stream is used as StreamParser::parse() does: the  *)
(* header is skipped with seekg(), then characters are read until the      *)
(* first EOF.                                                              *)
(***************************************************************************)
EXTENDS Naturals, Sequences, FiniteSetsExt

CONSTANTS
  ViewSize,     \* 268435456 bytes in the code
  Header,       \* 30, what seekg() skips
  SizeT,        \* 2^32 (Win32) or 2^64 (x64): where m_viewOffset wraps
  Sizes,        \* the file sizes considered; 0 is also a file that does not open
  MapMayFail,   \* MapViewOfFile may find no room in the address space
  MaxRead       \* bound on the bytes read, met only by a file read again and again

ASSUME StreamAssumption ==
  /\ ViewSize \in Nat \ {0} /\ Header \in 0 .. ViewSize - 1
  /\ SizeT \in {ViewSize * k : k \in 2 .. SizeT}
  /\ Sizes \subseteq Nat /\ MapMayFail \subseteq BOOLEAN /\ MaxRead \in Nat

VARIABLES
  filesize, unreadable,      \* the file: its size, the positions of its bytes 0xFF
  m_viewOffset, view,        \* view: the mapped range, <<>> if there is none
  getArea,                   \* base: where getData() is in the file; next and end
  stream,                    \* "new", "reading" or "eof"
  got, failed, firstView     \* history: positions read, a mapping failed, the first did

file == <<filesize, unreadable>>
history == <<got, failed, firstView>>
vars == <<file, m_viewOffset, view, getArea, stream, history>>

(***************************************************************************)
(* MemoryMapped::remap(offset, ViewSize): the bytes the view may have.     *)
(* The operating system refuses to map none, and may refuse anyway.        *)
(***************************************************************************)
\* Slip: the view always has its full size.
MappableUncut(offset) == IF offset > filesize THEN 0 ELSE ViewSize

Mappable(offset) == IF offset > filesize THEN 0 ELSE Min({ViewSize, filesize - offset})

MovesView(offset, bytes) ==
  \/ /\ bytes = 0 /\ view' = <<>>
     /\ UNCHANGED failed
  \/ /\ bytes > 0 /\ TRUE \in MapMayFail
     /\ view' = <<>> /\ failed' = TRUE
  \/ /\ bytes > 0
     /\ view' = <<offset, bytes>>
     /\ UNCHANGED failed

-----------------------------------------------------------------------------
\* The constructor, whose get area has the size of a whole view in any case.
Init ==
  /\ filesize \in Sizes
  /\ \E p \in {0} \cup {k * ViewSize : k \in 0 .. filesize \div ViewSize} :
       unreadable \in {{}, {p} \cap (0 .. filesize - 1)}
  /\ m_viewOffset = 0
  /\ LET bytes == Mappable(0) IN
     view \in {IF bytes = 0 THEN <<>> ELSE <<0, bytes>>}
                \cup (IF TRUE \in MapMayFail THEN {<<>>} ELSE {})
  /\ failed = (view = <<>> /\ filesize > 0) /\ firstView = (view # <<>>)
  /\ getArea = [base |-> 0, next |-> 0, end |-> ViewSize]
  /\ stream = "new" /\ got = <<>>

ViewBytes == IF view = <<>> THEN 0 ELSE view[2]

\* Slip: the seek leaves the end of the get area as the constructor set it.
SeekKeepsEnd ==
  /\ stream = "new"
  /\ stream' = "reading"
  /\ getArea' = [getArea EXCEPT !.next = Header]
  /\ UNCHANGED <<file, m_viewOffset, view, history>>

\* seekg(30), that is seekpos(30): the position is in the first view, which is not
\* mapped again, but the get area now ends with it.  Without a view, or in a file
\* without a header's length, next is beyond the end.
SeekHeader ==
  /\ stream = "new"
  /\ stream' = "reading"
  /\ getArea' = [getArea EXCEPT !.next = Header, !.end = ViewBytes]
  /\ UNCHANGED <<file, m_viewOffset, view, history>>

\* A character from the get area.
ReadChar ==
  /\ stream = "reading" /\ Len(got) < MaxRead
  /\ getArea.next < getArea.end
  /\ got' = Append(got, getArea.base + getArea.next)
  /\ getArea' = [getArea EXCEPT !.next = @ + 1]
  /\ UNCHANGED <<file, m_viewOffset, view, stream, failed, firstView>>

\* Slip: the next view begins one byte late.
OffsetAheadPastEnd == (m_viewOffset + ViewSize + 1) % SizeT

\* m_viewOffset += m_viewSize, in a size_t.
OffsetAhead == (m_viewOffset + ViewSize) % SizeT

\* underflow(): EOF if the view cannot be moved on; else its first character, as a
\* signed char, so that 0xFF is EOF as well.
Underflow ==
  /\ stream = "reading"
  /\ getArea.next >= getArea.end
  /\ m_viewOffset' = OffsetAhead
  /\ MovesView(OffsetAhead, Mappable(OffsetAhead))
  /\ IF view' = <<>> THEN stream' = "eof" /\ UNCHANGED getArea
     ELSE /\ getArea' = [base |-> OffsetAhead, next |-> 0, end |-> Mappable(OffsetAhead)]
          /\ stream' = IF OffsetAhead \in unreadable THEN "eof" ELSE "reading"
  /\ UNCHANGED <<file, got, firstView>>

\* parse() stops at the first EOF; MaxRead stops the model.
Stopped == /\ stream = "eof" \/ Len(got) = MaxRead
           /\ UNCHANGED vars

Next == SeekHeader \/ ReadChar \/ Underflow \/ Stopped

Spec == Init /\ [][Next]_vars

-----------------------------------------------------------------------------
\* The offset after the last view is still a size_t.  On Win32 this is a file of up
\* to 3.75 GB; a longer one is read from its start again.
FitsSizeT == filesize <= SizeT - ViewSize

\* The parser never reads outside the mapped view, although the constructor's get area
\* may be longer than the file: the seek over the header cuts it.
ReadsOnlyMapped ==
  stream = "reading" /\ getArea.next < getArea.end =>
    view # <<>> /\ view[1] = getArea.base /\ getArea.next < view[2]

\* The bytes come in file order, each once, across the views, from the header on; if
\* the first view could not be mapped, from the second view on.
ReadsInOrder ==
  FitsSizeT =>
    LET first == IF firstView THEN Header ELSE ViewSize IN
    \A i \in DOMAIN got : got[i] = first + i - 1

\* EOF means the end of the file, unless a view could not be mapped or begins with
\* a byte 0xFF: the reader cannot tell these from the end.
ReadsAll ==
  FitsSizeT /\ stream = "eof" /\ ~failed /\ m_viewOffset \notin unreadable =>
    Len(got) + Min({Header, filesize}) = filesize
=============================================================================
