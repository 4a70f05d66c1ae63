-------------------------- MODULE MappedFileProofs --------------------------
(***************************************************************************)
(* The invariants of MemoryMapped, for files and requests of any size; and *)
(* that the parser's stream buffer, which reads a file through one, reads  *)
(* each byte once and in order, for files, views and headers of any size.  *)
(***************************************************************************)
EXTENDS MemoryMapped, MemoryMappedStreamBuf, TLAPS

(***************************************************************************)
(* MemoryMapped.                                                           *)
(***************************************************************************)

Handles == Nat \ {0}

\* Every variable has its type.
MappedType ==
  /\ _file \in Handles \cup {None, INVALID_HANDLE_VALUE}
  /\ _mappedFile \in Handles \cup {None}
  /\ _mappedView \in [offset : Nat, bytes : Nat]
  /\ _filesize \in Nat /\ _mappedBytes \in Nat
  /\ opened \in Nat
  /\ closed \subseteq Handles /\ forgotten \subseteq Handles

\* The inductive invariant: the handles are accounted for, those that were forgotten are
\* not among those that the object has, without a file there is no mapping object, and
\* without one no view.
MappedInv ==
  /\ MappedType
  /\ HandlesAccountedFor
  /\ Held \cap forgotten = {}
  /\ ViewInFile
  /\ _file = None => _mappedFile = None
  /\ IsValid => _mappedFile # None

-----------------------------------------------------------------------------
(* What remap() maps. *)

\* Of two numbers, Min takes one that is not above either.
LEMMA MinIsLeast ==
  ASSUME NEW a \in Int, NEW b \in Int
  PROVE  Min({a, b}) \in {a, b} /\ Min({a, b}) <= a /\ Min({a, b}) <= b
<1>1. \E x \in {a, b} : \A y \in {a, b} : x <= y  OBVIOUS
<1>2. QED  BY <1>1 DEF Min

\* What is left of a request ends with the file.
LEMMA CutInFile ==
  ASSUME NEW offset \in Nat, NEW bytes \in Nat, NEW size \in Nat, offset <= size
  PROVE  Cut(offset, bytes, size) \in Nat /\ Cut(offset, bytes, size) <= size - offset
<1>1. size - offset \in Nat  OBVIOUS
<1>2. Min({bytes, size - offset}) \in {bytes, size - offset}
      /\ Min({bytes, size - offset}) <= size - offset
  BY <1>1, MinIsLeast
<1>3. QED  BY <1>1, <1>2 DEF Cut

\* remap(), whichever way it ends, leaves a view in the file, of a mapping object, that
\* is at least as long as mappedSize() says.
LEMMA MapsInFile ==
  ASSUME NEW mappedFile \in Handles \cup {None}, NEW offset \in Nat,
         NEW mappedBytes \in Nat, NEW size \in Nat, _mappedBytes \in Nat,
         Maps(mappedFile, offset, mappedBytes, size)
  PROVE  /\ _mappedView' \in [offset : Nat, bytes : Nat] /\ _mappedBytes' \in Nat
         /\ _mappedView' # NoView =>
              /\ _mappedView'.offset + _mappedView'.bytes <= size
              /\ _mappedBytes' <= _mappedView'.bytes
              /\ mappedFile # None
<1> DEFINE bytes == IF mappedBytes = WholeFile THEN size % AddressSpace ELSE mappedBytes
           cut == Cut(offset, bytes, size)
<1>1. CASE offset > size
  BY <1>1 DEF Maps, NoView
<1>2. CASE offset <= size
  <2>1. bytes \in Nat
    BY MappedAssumption
  <2>2. cut \in Nat /\ cut <= size - offset
    BY <1>2, <2>1, CutInFile
  <2>3. PICK v \in IF mappedFile = None THEN {NoView} ELSE Views(offset, cut, size) :
           _mappedView' = v /\ _mappedBytes' = IF v = NoView THEN 0 ELSE cut
    BY <1>2 DEF Maps
  <2>4. CASE v = NoView
    BY <2>3, <2>4 DEF NoView
  <2>5. CASE v # NoView
    <3>1. /\ mappedFile # None
          /\ v = [offset |-> offset, bytes |-> IF cut = 0 THEN size - offset ELSE cut]
      BY <2>3, <2>5 DEF Views
    <3>2. QED  BY <1>2, <2>2, <2>3, <2>5, <3>1
  <2>6. QED  BY <2>4, <2>5
<1>3. QED  BY <1>1, <1>2

-----------------------------------------------------------------------------
\* open(), close() and remap(), called in any sequence on files of any size, keep the
\* invariant.
THEOREM MappedInvariant == MappedSpec => []MappedInv
<1>1. MappedInit => MappedInv
  BY DEF MappedInit, MappedInv, MappedType, HandlesAccountedFor, ViewInFile, IsValid, Held,
         Handles, None, INVALID_HANDLE_VALUE, NoView
<1>2. MappedInv /\ [MappedNext]_mappedVars => MappedInv'
  <2> SUFFICES ASSUME MappedInv, [MappedNext]_mappedVars PROVE MappedInv'
    OBVIOUS
  <2> USE DEF MappedInv, MappedType, HandlesAccountedFor, ViewInFile, IsValid, MappedSize,
              Held, Handles, None, INVALID_HANDLE_VALUE, NoView
  <2>1. CASE NoFile
    BY <2>1 DEF NoFile, Reopens
  <2>2. CASE Close
    BY <2>2 DEF Close
  <2>3. ASSUME NEW size \in FileSizes, OpenHalf(size) PROVE MappedInv'
    <3>1. size \in Nat
      BY MappedAssumption
    <3>2. (HandlesAccountedFor /\ Held \cap forgotten = {})'
      BY <2>3 DEF OpenHalf, Reopens
    <3>3. (MappedType)'
      BY <2>3, <3>1 DEF OpenHalf, Reopens
    <3>4. _mappedView' = NoView /\ _file' # None
      BY <2>3 DEF OpenHalf
    <3>5. _mappedFile' = None
      BY <2>3 DEF OpenHalf
    <3>6. QED  BY <3>2, <3>3, <3>4, <3>5
  <2>4. ASSUME NEW size \in FileSizes, NEW n \in Lengths, Open(size, n) PROVE MappedInv'
    <3>1. size \in Nat /\ n \in Nat
      BY MappedAssumption
    <3>2. Maps(opened + 2, 0, n, size)
      BY <2>4 DEF Open
    <3>3. /\ _mappedView' \in [offset : Nat, bytes : Nat] /\ _mappedBytes' \in Nat
          /\ _mappedView' # NoView => /\ _mappedView'.offset + _mappedView'.bytes <= size
                                      /\ _mappedBytes' <= _mappedView'.bytes
      BY <3>1, <3>2, MapsInFile
    <3>4. (HandlesAccountedFor /\ Held \cap forgotten = {})'
      BY <2>4 DEF Open, Reopens
    <3>5. QED  BY <2>4, <3>1, <3>3, <3>4 DEF Open, Reopens
  <2>5. ASSUME NEW offset \in Offsets, NEW n \in Lengths, Remap(offset, n)
        PROVE MappedInv'
    <3>1. offset \in Nat /\ n \in Nat
      BY MappedAssumption
    <3>2. Maps(_mappedFile, offset, n, _filesize)
      BY <2>5 DEF Remap
    <3>3. /\ _mappedView' \in [offset : Nat, bytes : Nat] /\ _mappedBytes' \in Nat
          /\ _mappedView' # NoView =>
               /\ _mappedView'.offset + _mappedView'.bytes <= _filesize
               /\ _mappedBytes' <= _mappedView'.bytes
               /\ _mappedFile # None
      BY <3>1, <3>2, MapsInFile
    <3>4. QED  BY <2>5, <3>3 DEF Remap
  <2>6. CASE UNCHANGED mappedVars
    BY <2>6 DEF mappedVars
  <2>7. QED  BY <2>1, <2>2, <2>3, <2>4, <2>5, <2>6 DEF MappedNext
<1>3. QED  BY <1>1, <1>2, PTL DEF MappedSpec

\* No handle is lost but by an open() after a failure, none is closed twice, and none that
\* is closed is used again.
THEOREM AllHandles == MappedSpec => []HandlesAccountedFor
<1>1. MappedInv => HandlesAccountedFor  BY DEF MappedInv
<1>2. QED  BY <1>1, MappedInvariant, PTL

\* A view, and mappedSize() in it, stay in the file, wherever remap() is asked to begin.
THEOREM ViewsStayInFile == MappedSpec => []ViewInFile
<1>1. MappedInv => ViewInFile  BY DEF MappedInv
<1>2. QED  BY <1>1, MappedInvariant, PTL

(***************************************************************************)
(* MemoryMappedStreamBuf.                                                  *)
(***************************************************************************)

First == IF firstView THEN Header ELSE ViewSize

\* Every variable keeps its type; the first view is missing without a file, or after a
\* mapping that failed.
BufType ==
  /\ filesize \in Nat /\ m_viewOffset \in Nat
  /\ getArea \in [base : Nat, next : Nat, end : Nat]
  /\ stream \in {"new", "reading", "eof"}
  /\ got \in Seq(Nat) /\ failed \in BOOLEAN /\ firstView \in BOOLEAN
  /\ ~firstView => failed \/ filesize = 0

\* Before the seek.
BeforeSeek == stream = "new" =>
  /\ m_viewOffset = 0 /\ getArea.base = 0 /\ got = <<>>
  /\ view = IF firstView THEN <<0, Mappable(0)>> ELSE <<>>
  /\ firstView => Mappable(0) > 0

\* The get area is the view, or empty.
AreaIsView == stream = "reading" =>
  IF view = <<>> THEN getArea.end = 0
  ELSE view = <<getArea.base, getArea.end>> /\ getArea.end > 0

\* The bytes read so far are those before the next one.
InPlace == FitsSizeT =>
  /\ \A i \in 1 .. Len(got) : got[i] = First + i - 1
  /\ stream = "reading" =>
       IF view = <<>> THEN m_viewOffset = 0 /\ got = <<>> /\ ~firstView
       ELSE /\ getArea.base = m_viewOffset /\ m_viewOffset < filesize
            /\ getArea.end = Mappable(m_viewOffset)
            /\ First + Len(got) = getArea.base + getArea.next
            /\ \/ getArea.next <= getArea.end
               \/ firstView /\ m_viewOffset = 0 /\ got = <<>>

\* The inductive invariant.
BufInv == /\ BufType
          /\ BeforeSeek
          /\ AreaIsView
          /\ InPlace
          /\ ReadsAll

-----------------------------------------------------------------------------
(* Arithmetic. *)

\* Of two numbers, Min takes one that is not above either.
LEMMA MinOfTwo ==
  ASSUME NEW a \in Nat, NEW b \in Nat
  PROVE  Min({a, b}) = IF a <= b THEN a ELSE b
<1>1. \A m \in {a, b} : (\A y \in {a, b} : m <= y) <=> m = IF a <= b THEN a ELSE b
  OBVIOUS
<1> QED
  BY <1>1 DEF Min

\* A size_t has room for two views.
LEMMA TwoViews ==
  /\ ViewSize \in Nat \ {0} /\ Header \in Nat /\ Header < ViewSize
  /\ SizeT \in Nat /\ 2 * ViewSize <= SizeT
<1>1. PICK k \in 2 .. SizeT : SizeT = ViewSize * k
  BY StreamAssumption
<1>2. SizeT \in Nat /\ k \in Nat /\ 2 <= k
  BY <1>1, StreamAssumption
<1>3. ViewSize * k = ViewSize * 2 + ViewSize * (k - 2) /\ ViewSize * (k - 2) \in Nat
  BY <1>2, StreamAssumption
<1> QED
  BY <1>1, <1>2, <1>3, StreamAssumption

\* What can be mapped from an offset on: the rest of the file, or a whole view.
LEMMA MappableIs ==
  ASSUME filesize \in Nat, NEW o \in Nat
  PROVE  /\ Mappable(o) \in Nat
         /\ Mappable(o) = IF o > filesize THEN 0
                          ELSE IF ViewSize <= filesize - o THEN ViewSize
                          ELSE filesize - o
BY TwoViews, MinOfTwo DEF Mappable

\* The next offset, which does not wrap from inside a file that is short enough.
LEMMA OffsetIs ==
  ASSUME filesize \in Nat, m_viewOffset \in Nat
  PROVE  /\ OffsetAhead \in Nat
         /\ m_viewOffset + ViewSize < SizeT => OffsetAhead = m_viewOffset + ViewSize
BY TwoViews DEF OffsetAhead

-----------------------------------------------------------------------------
(* The invariant. *)

\* It holds when the file has been opened.
LEMMA BufInit == Init => BufInv
<1> SUFFICES ASSUME Init PROVE BufInv
  OBVIOUS
<1>1. filesize \in Nat /\ m_viewOffset = 0 /\ got = <<>> /\ stream = "new"
  BY StreamAssumption DEF Init
<1>2. Mappable(0) \in Nat /\ (Mappable(0) = 0 <=> filesize = 0)
  BY <1>1, TwoViews, MappableIs
<1>3. InPlace /\ AreaIsView /\ ReadsAll
  BY <1>1 DEF InPlace, AreaIsView, ReadsAll
<1>4. CASE view = <<>>
  <2>1. ~firstView /\ failed \in BOOLEAN /\ (failed <=> filesize > 0)
    BY <1>4 DEF Init
  <2>2. BufType
    BY <1>1, <2>1, TwoViews DEF Init, BufType
  <2>3. BeforeSeek
    BY <1>1, <1>4, <2>1 DEF Init, BeforeSeek
  <2> QED
    BY <1>3, <2>2, <2>3 DEF BufInv
<1>5. CASE view # <<>>
  <2>1. firstView = TRUE /\ failed = FALSE
    BY <1>5 DEF Init
  <2>2. view = <<0, Mappable(0)>> /\ Mappable(0) # 0
    BY <1>5 DEF Init
  <2>3. BufType
    BY <1>1, <2>1, TwoViews DEF Init, BufType
  <2>4. BeforeSeek
    BY <1>1, <1>2, <2>1, <2>2 DEF Init, BeforeSeek
  <2> QED
    BY <1>3, <2>3, <2>4 DEF BufInv
<1> QED
  BY <1>4, <1>5

\* The seek ends the get area with the view.
LEMMA SeekKeeps == ASSUME BufInv, SeekHeader PROVE BufInv'
<1>1. /\ m_viewOffset = 0 /\ getArea.base = 0 /\ got = <<>> /\ filesize \in Nat
      /\ view = IF firstView THEN <<0, Mappable(0)>> ELSE <<>>
      /\ firstView => Mappable(0) > 0
  BY DEF BufInv, BufType, BeforeSeek, SeekHeader
<1>2. /\ getArea' = [base |-> 0, next |-> Header,
                     end |-> IF firstView THEN Mappable(0) ELSE 0]
      /\ stream' = "reading"
      /\ UNCHANGED <<filesize, unreadable, m_viewOffset, view, got, failed, firstView>>
  BY <1>1 DEF BufInv, BufType, SeekHeader, ViewBytes, file, history
<1>3. Mappable(0) \in Nat /\ (Mappable(0) > 0 => filesize > 0)
  BY <1>1, MappableIs
<1>4. BufType'
  BY <1>2, <1>3, TwoViews DEF BufInv, BufType
<1>5. AreaIsView' /\ BeforeSeek' /\ ReadsAll'
  BY <1>1, <1>2 DEF AreaIsView, BeforeSeek, ReadsAll
<1>6. InPlace'
  BY <1>1, <1>2, <1>3, TwoViews DEF InPlace, First, FitsSizeT, Mappable
<1> QED
  BY <1>4, <1>5, <1>6 DEF BufInv

\* A character read is the next one.
LEMMA ReadKeeps == ASSUME BufInv, ReadChar PROVE BufInv'
<1>1. /\ getArea \in [base : Nat, next : Nat, end : Nat] /\ got \in Seq(Nat)
      /\ stream = "reading" /\ stream' = "reading" /\ getArea.next < getArea.end
      /\ got' = Append(got, getArea.base + getArea.next)
      /\ getArea' = [getArea EXCEPT !.next = getArea.next + 1]
      /\ UNCHANGED <<filesize, unreadable, m_viewOffset, view, failed, firstView>>
  BY DEF BufInv, BufType, ReadChar, file
<1>2. /\ getArea'.base = getArea.base /\ getArea'.end = getArea.end
      /\ getArea'.next = getArea.next + 1
      /\ getArea' \in [base : Nat, next : Nat, end : Nat]
  BY <1>1
<1>3. /\ got' \in Seq(Nat) /\ Len(got') = Len(got) + 1 /\ Len(got) \in Nat
      /\ got'[Len(got) + 1] = getArea.base + getArea.next
      /\ \A i \in 1 .. Len(got) : got'[i] = got[i]
  BY <1>1
<1>4. BufType' /\ BeforeSeek' /\ AreaIsView' /\ ReadsAll'
  BY <1>1, <1>2, <1>3 DEF BufInv, BufType, BeforeSeek, AreaIsView, ReadsAll
<1>5. InPlace'
  <2> SUFFICES ASSUME FitsSizeT
               PROVE  /\ \A i \in 1 .. Len(got') : got'[i] = First' + i - 1
                      /\ (stream = "reading" =>
                           IF view = <<>> THEN m_viewOffset = 0 /\ got = <<>> /\ ~firstView
                           ELSE /\ getArea.base = m_viewOffset /\ m_viewOffset < filesize
                                /\ getArea.end = Mappable(m_viewOffset)
                                /\ First + Len(got) = getArea.base + getArea.next
                                /\ \/ getArea.next <= getArea.end
                                   \/ firstView /\ m_viewOffset = 0 /\ got = <<>>)'
    BY <1>1 DEF InPlace, FitsSizeT
  <2>1. view # <<>>
    BY <1>1 DEF BufInv, AreaIsView
  <2>2. /\ \A i \in 1 .. Len(got) : got[i] = First + i - 1
        /\ getArea.base = m_viewOffset /\ m_viewOffset < filesize
        /\ getArea.end = Mappable(m_viewOffset)
        /\ First + Len(got) = getArea.base + getArea.next
    BY <1>1, <2>1 DEF BufInv, InPlace
  <2>3. First' = First /\ First \in Nat /\ (Mappable(m_viewOffset))' = Mappable(m_viewOffset)
    BY <1>1, TwoViews DEF First, Mappable
  <2>4. \A i \in 1 .. Len(got') : got'[i] = First' + i - 1
    <3> SUFFICES ASSUME NEW i \in 1 .. Len(got') PROVE got'[i] = First + i - 1
      BY <2>3
    <3>1. i \in 1 .. Len(got) \/ i = Len(got) + 1
      BY <1>3
    <3>2. CASE i \in 1 .. Len(got)
      BY <1>3, <2>2, <3>2
    <3>3. CASE i = Len(got) + 1
      <4>1. got'[i] = getArea.base + getArea.next
        BY <1>3, <3>3
      <4>2. getArea.base \in Nat /\ getArea.next \in Nat
        BY <1>1
      <4> QED
        BY <1>3, <2>2, <2>3, <3>3, <4>1, <4>2
    <3> QED
      BY <3>1, <3>2, <3>3
  <2>5. /\ getArea'.base = m_viewOffset /\ getArea'.end = Mappable(m_viewOffset)
        /\ First + Len(got') = getArea'.base + getArea'.next
        /\ getArea'.next <= getArea'.end
    BY <1>1, <1>2, <1>3, <2>2, <2>3
  <2> QED
    BY <1>1, <2>1, <2>2, <2>3, <2>4, <2>5
<1> QED
  BY <1>4, <1>5 DEF BufInv

\* The next view begins where the last one ended, and the last one with the file.
LEMMA UnderflowKeeps == ASSUME BufInv, Underflow PROVE BufInv'
<1> DEFINE o == OffsetAhead
<1>1. /\ filesize \in Nat /\ m_viewOffset \in Nat /\ o \in Nat /\ got \in Seq(Nat)
      /\ stream = "reading" /\ getArea \in [base : Nat, next : Nat, end : Nat]
      /\ getArea.next >= getArea.end
      /\ m_viewOffset' = o
      /\ UNCHANGED <<filesize, unreadable, got, firstView>>
  BY OffsetIs DEF BufInv, BufType, Underflow, file
<1>2. /\ Mappable(o) \in Nat /\ Mappable(m_viewOffset) \in Nat /\ First \in Nat
      /\ Mappable(o) = IF o > filesize THEN 0
                       ELSE IF ViewSize <= filesize - o THEN ViewSize ELSE filesize - o
      /\ Mappable(m_viewOffset) =
           IF m_viewOffset > filesize THEN 0
           ELSE IF ViewSize <= filesize - m_viewOffset THEN ViewSize
           ELSE filesize - m_viewOffset
  <2> HIDE DEF o
  <2> QED
    BY <1>1, MappableIs, TwoViews DEF First
<1>3. FitsSizeT =>
        /\ o = m_viewOffset + ViewSize
        /\ \/ /\ view = <<>> /\ got = <<>> /\ ~firstView /\ m_viewOffset = 0
           \/ /\ view # <<>> /\ m_viewOffset < filesize
              /\ getArea.base = m_viewOffset /\ getArea.end = Mappable(m_viewOffset)
              /\ First + Len(got) = getArea.base + getArea.next
              /\ \/ getArea.next = getArea.end
                 \/ /\ firstView /\ m_viewOffset = 0 /\ got = <<>>
                    /\ getArea.next > getArea.end
  <2> HAVE FitsSizeT
  <2>1. \/ view = <<>> /\ got = <<>> /\ ~firstView /\ m_viewOffset = 0
        \/ /\ view # <<>> /\ m_viewOffset < filesize
           /\ getArea.base = m_viewOffset /\ getArea.end = Mappable(m_viewOffset)
           /\ First + Len(got) = getArea.base + getArea.next
           /\ \/ getArea.next <= getArea.end
              \/ firstView /\ m_viewOffset = 0 /\ got = <<>>
    BY <1>1 DEF BufInv, InPlace
  <2>2. m_viewOffset + ViewSize < SizeT
    BY <1>1, <2>1, TwoViews DEF FitsSizeT
  <2>3. o = m_viewOffset + ViewSize
    BY <1>1, <2>2, OffsetIs
  <2> QED
    BY <1>1, <1>2, <2>1, <2>3
<1>4. (\A i \in 1 .. Len(got) : got[i] = First + i - 1)' <=>
        \A i \in 1 .. Len(got) : got[i] = First + i - 1
  BY <1>1 DEF First
<1>5. failed' \in BOOLEAN /\ (failed => failed')
  <2>1. failed \in BOOLEAN
    BY DEF BufInv, BufType
  <2>2. failed' = failed \/ failed' = TRUE
    BY DEF Underflow, MovesView
  <2> QED
    BY <2>1, <2>2
<1>6. CASE view' = <<>>
  <2>1. stream' = "eof" /\ getArea' = getArea
    BY <1>6 DEF Underflow
  <2>2. BufType' /\ BeforeSeek' /\ AreaIsView'
    BY <1>1, <1>5, <2>1 DEF BufInv, BufType, BeforeSeek, AreaIsView
  <2>3. InPlace'
    BY <1>1, <1>4, <2>1 DEF BufInv, InPlace, FitsSizeT
  <2>4. ReadsAll'
    <3> SUFFICES ASSUME FitsSizeT, ~failed'
                 PROVE  Len(got) + Min({Header, filesize}) = filesize
      BY <1>1 DEF ReadsAll, FitsSizeT
    <3>1. Mappable(o) = 0
      BY <1>6, <1>2 DEF Underflow, MovesView
    <3>2. filesize = 0 \/ firstView
      BY <1>5 DEF BufInv, BufType
    <3>3. Min({Header, filesize}) = IF Header <= filesize THEN Header ELSE filesize
      BY <1>1, MinOfTwo, TwoViews
    <3>4. CASE filesize = 0
      BY <1>1, <1>3, <3>3, <3>4, TwoViews
    <3>5. CASE firstView /\ filesize # 0
      <4>1. First = Header /\ Len(got) \in Nat
        BY <1>1, <3>5 DEF First
      <4>2. getArea.end = filesize - m_viewOffset /\ getArea.base = m_viewOffset
        BY <1>1, <1>2, <1>3, <3>1, <3>5, TwoViews
      <4> QED
        BY <1>1, <1>3, <3>3, <3>5, <4>1, <4>2, TwoViews
    <3> QED
      BY <3>2, <3>4, <3>5
  <2> QED
    BY <2>2, <2>3, <2>4 DEF BufInv
<1>7. CASE view' # <<>>
  <2>1. /\ view' = <<o, Mappable(o)>> /\ Mappable(o) > 0
        /\ getArea' = [base |-> o, next |-> 0, end |-> Mappable(o)]
        /\ stream' = IF o \in unreadable THEN "eof" ELSE "reading"
    BY <1>7 DEF Underflow, MovesView
  <2>2. BufType' /\ BeforeSeek' /\ AreaIsView'
    BY <1>1, <1>2, <1>5, <1>7, <2>1 DEF BufInv, BufType, BeforeSeek, AreaIsView
  <2>3. ReadsAll'
    BY <1>1, <2>1 DEF ReadsAll
  <2>4. InPlace'
    <3> SUFFICES ASSUME FitsSizeT
                 PROVE  o < filesize /\ First + Len(got) = o
      BY <1>1, <1>2, <1>4, <1>7, <2>1
      DEF BufInv, InPlace, FitsSizeT, Mappable, First
    <3>1. o < filesize
      BY <1>1, <1>2, <2>1, TwoViews
    <3>2. CASE view = <<>>
      BY <1>1, <1>3, <3>1, <3>2, TwoViews DEF First
    <3>3. CASE view # <<>>
      <4>1. getArea.end = ViewSize
        BY <1>1, <1>2, <1>3, <3>1, <3>3, TwoViews
      <4>2. firstView => First = Header
        BY DEF First
      <4> QED
        BY <1>1, <1>2, <1>3, <3>1, <3>3, <4>1, <4>2, TwoViews
    <3> QED
      BY <3>1, <3>2, <3>3
  <2> QED
    BY <2>2, <2>3, <2>4 DEF BufInv
<1> QED
  BY <1>6, <1>7

\* Every step keeps it.
LEMMA BufNext == BufInv /\ [Next]_vars => BufInv'
<1> SUFFICES ASSUME BufInv, [Next]_vars PROVE BufInv'
  OBVIOUS
<1>1. CASE UNCHANGED vars
  BY <1>1
  DEF BufInv, BufType, BeforeSeek, AreaIsView, InPlace, ReadsAll, FitsSizeT, First,
      Mappable, vars, file, history
<1> QED
  BY <1>1, SeekKeeps, ReadKeeps, UnderflowKeeps DEF Next, Stopped

THEOREM BufInvariant == Spec => []BufInv
  BY BufInit, BufNext, PTL DEF Spec

-----------------------------------------------------------------------------
(* What follows. *)

\* The parser's get() never dereferences a pointer outside the mapped view.
THEOREM StaysInView == Spec => []ReadsOnlyMapped
<1>1. BufInv => ReadsOnlyMapped
  <2> SUFFICES ASSUME BufInv, stream = "reading", getArea.next < getArea.end
               PROVE  view # <<>> /\ view[1] = getArea.base /\ getArea.next < view[2]
    BY DEF ReadsOnlyMapped
  <2>1. view # <<>>
    BY DEF BufInv, BufType, AreaIsView
  <2>2. view = <<getArea.base, getArea.end>>
    BY <2>1 DEF BufInv, AreaIsView
  <2> QED
    BY <2>1, <2>2
<1> QED
  BY <1>1, BufInvariant, PTL

\* underflow() neither repeats nor skips a byte at the boundary of two views.
THEOREM BytesInOrder == Spec => []ReadsInOrder
<1>1. BufInv => ReadsInOrder
  <2> SUFFICES ASSUME BufInv, FitsSizeT, NEW i \in DOMAIN got
               PROVE  got[i] = First + i - 1
    BY DEF ReadsInOrder, First
  <2>1. DOMAIN got = 1 .. Len(got)
    BY DEF BufInv, BufType
  <2> QED
    BY <2>1 DEF BufInv, InPlace
<1> QED
  BY <1>1, BufInvariant, PTL

\* The EOF that ends parse() comes after the file's last byte.
THEOREM EofIsEnd == Spec => []ReadsAll
  BY BufInvariant, PTL DEF BufInv
=============================================================================
