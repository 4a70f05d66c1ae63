---------------------------- MODULE MemoryMapped ----------------------------
(***************************************************************************)
(* MemoryMapped (include/memorymapped), its Windows branch: a file, the    *)
(* mapping object of the file and a view of it, which open(), remap() and  *)
(* close() take and give back in any sequence a caller likes.              *)
(*                                                                         *)
(* The handles of the operating system are numbered as they are opened.    *)
(* Moving a MemoryMapped, which nobody does, is left out, and so are the   *)
(* hints.                                                                  *)
(***************************************************************************)
EXTENDS Integers, FiniteSetsExt

CONSTANTS
  FileSizes,     \* the sizes of the files there are
  Offsets,       \* the offsets asked for, within the files and beyond their end
  Lengths,       \* the values of mappedBytes; WholeFile is 0
  Granularity,   \* getpagesize(): the views begin at its multiples
  AddressSpace,  \* 2^32 (Win32) or 2^64 (x64), which is also where a size_t wraps
  MaxHandles     \* bound on the handles opened

ASSUME MappedAssumption ==
  /\ FileSizes \subseteq Nat /\ Offsets \subseteq Nat
  /\ Granularity \in Nat \ {0} /\ AddressSpace \in Nat \ {0}
  /\ Lengths \subseteq 0 .. AddressSpace - 1 /\ MaxHandles \in Nat

VARIABLES
  _file, _mappedFile, _mappedView, _filesize, _mappedBytes,
  opened,      \* how many handles the operating system has given out
  closed,      \* those that CloseHandle was called with
  forgotten    \* history: those the object had when open() was called again

mappedVars ==
  <<_file, _mappedFile, _mappedView, _filesize, _mappedBytes, opened, closed, forgotten>>

None == 0                       \* 0, NULL
INVALID_HANDLE_VALUE == -1      \* what CreateFileA returns, which is not 0
NoView == [offset |-> 0, bytes |-> 0]
WholeFile == 0
Held == {_file, _mappedFile} \ {None, INVALID_HANDLE_VALUE}

\* The constructor without arguments.
MappedInit ==
  /\ _file = None /\ _mappedFile = None /\ _mappedView = NoView
  /\ _filesize = 0 /\ _mappedBytes = 0
  /\ opened = 0 /\ closed = {} /\ forgotten = {}

IsValid == _mappedView # NoView
MappedSize == _mappedBytes

-----------------------------------------------------------------------------
\* Slip: the mapping does not stop at the end of the file.
CutWhole(offset, bytes, size) == bytes

\* if (offset + mappedBytes > _filesize) mappedBytes = size_t(_filesize - offset);
Cut(offset, bytes, size) == Min({bytes, size - offset})

\* What MapViewOfFile may return: all that follows for 0 bytes, a view that fits the
\* address space, or none.
Views(offset, bytes, size) ==
  LET length == IF bytes = 0 THEN size - offset ELSE bytes IN
  {NoView} \cup (IF offset % Granularity = 0 /\ length > 0 /\ length < AddressSpace
                 THEN {[offset |-> offset, bytes |-> length]} ELSE {})

\* remap(), of a file of this size.
Maps(mappedFile, offset, mappedBytes, size) ==
  LET bytes == IF mappedBytes = WholeFile THEN size % AddressSpace ELSE mappedBytes IN
  IF offset > size THEN _mappedView' = NoView /\ UNCHANGED _mappedBytes
  ELSE \E view \in IF mappedFile = None THEN {NoView}
                   ELSE Views(offset, Cut(offset, bytes, size), size) :
         /\ _mappedView' = view
         /\ _mappedBytes' = IF view = NoView THEN 0 ELSE Cut(offset, bytes, size)

Remap(offset, mappedBytes) ==
  /\ _file # None
  /\ Maps(_mappedFile, offset, mappedBytes, _filesize)
  /\ UNCHANGED <<_file, _mappedFile, _filesize, opened, closed, forgotten>>

-----------------------------------------------------------------------------
\* open() begins by forgetting what an earlier one may have left.
Reopens == ~IsValid /\ forgotten' = forgotten \cup Held /\ UNCHANGED closed

NoFile == /\ Reopens
          /\ _file' = INVALID_HANDLE_VALUE /\ _filesize' = 0
          /\ _mappedFile' = None /\ _mappedView' = NoView
          /\ UNCHANGED <<_mappedBytes, opened>>

\* GetFileSizeEx fails, or CreateFileMapping, as it does for an empty file: false, and
\* the file stays open.
OpenHalf(size) ==
  /\ Reopens /\ opened < MaxHandles
  /\ _file' = opened + 1 /\ opened' = opened + 1
  /\ _filesize' \in {0, size}
  /\ _mappedFile' = None /\ _mappedView' = NoView
  /\ UNCHANGED _mappedBytes

Open(size, mappedBytes) ==
  /\ Reopens /\ opened + 1 < MaxHandles /\ size > 0
  /\ _file' = opened + 1 /\ _mappedFile' = opened + 2 /\ opened' = opened + 2
  /\ _filesize' = size
  /\ Maps(opened + 2, 0, mappedBytes, size)

\* Slip: the mapping object stays open.
CloseFileOnly ==
  /\ _filesize' = 0 /\ _mappedView' = NoView
  /\ closed' = closed \cup ({_file} \cap Held)
  /\ _mappedFile' = None /\ _file' = None
  /\ UNCHANGED <<_mappedBytes, opened, forgotten>>

\* close(), and the destructor.
Close ==
  /\ _filesize' = 0 /\ _mappedView' = NoView
  /\ closed' = closed \cup Held
  /\ _mappedFile' = None /\ _file' = None
  /\ UNCHANGED <<_mappedBytes, opened, forgotten>>

MappedNext ==
  \/ NoFile \/ Close
  \/ \E size \in FileSizes : OpenHalf(size) \/ \E n \in Lengths : Open(size, n)
  \/ \E offset \in Offsets, n \in Lengths : Remap(offset, n)

MappedSpec == MappedInit /\ [][MappedNext]_mappedVars

-----------------------------------------------------------------------------
\* Whatever the sequence of calls, each handle is held by the object, or was closed, or
\* was forgotten by an open() after one that failed half-way or a remap() beyond the
\* end, which isValid() cannot tell from no file; and none is closed and still used.
HandlesAccountedFor ==
  /\ 1 .. opened = Held \cup closed \cup forgotten
  /\ Held \cap closed = {} /\ forgotten \cap closed = {}
  /\ _file = None => Held = {}

\* A view lies in the file, and mappedSize() is not more than what is mapped: what the
\* stream buffer takes for the end of its get area.
ViewInFile ==
  IsValid => /\ _mappedView.offset + _mappedView.bytes <= _filesize
             /\ MappedSize <= _mappedView.bytes
=============================================================================
