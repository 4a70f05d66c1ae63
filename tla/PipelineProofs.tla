--------------------------- MODULE PipelineProofs ---------------------------
(***************************************************************************)
(* The pipeline, for any files, any room in the queues and any stages that *)
(* may fail: every thread preserves the inductive invariant of             *)
(* PipelineRows, and what follows from it.                                 *)
(***************************************************************************)
EXTENDS PipelineRows, OutlierContext, WellFoundedInduction, FiniteSetTheorems

-----------------------------------------------------------------------------
(* The parser. *)

\* The parser does something that moves no row and passes no line it has parsed.
LEMMA ParserFrame ==
  ASSUME PipelineInv, ParserThread, Types', ParserControl', ~Over(parser.pc),
         parsedQueue.atEnd => parsedQueue'.atEnd,
         Sorted(Rows'), EveryLineAccountedFor',
         HeapExact'
  PROVE  PipelineInv'
<1>1. UNCHANGED <<merge, outliers, relSpread, daySpread, writer, written,
                  timestampMergedQueue, outliersFilteredQueue, relSpreadQueue,
                  dayRelSpreadQueue, dropped, main>>
  BY DEF ParserThread
<1>2. MergeControl' /\ OutliersControl' /\ RelSpreadControl' /\ DaySpreadControl'
  BY <1>1 DEF PipelineInv, Control, MergeControl, OutliersControl, RelSpreadControl,
              DaySpreadControl, StageControl
<1>3. WriterControl'
  <2>1. main # "returned"
    BY DEF PipelineInv, Control, WriterControl, Stages, PcOf
  <2> QED BY <1>1, <2>1 DEF PipelineInv, Control, WriterControl
<1>4. DaysApart' /\ DayAtHand' /\ StampsApart'
  BY <1>1, DaysUntouched, StampsUntouched
<1> QED BY <1>2, <1>3, <1>4 DEF PipelineInv, Control, Ordered

\* It waits, skips a line or ends.
LEMMA ParserIdles ==
  ASSUME PipelineInv, ParserThread, file' = file, ~Over(parser.pc),
         parser'.outbox = parser.outbox,
         parser' \in [pc : {"parse", "emit", "close", "fault", "done"},
                      line : 1 .. Len(file) + 1, outbox : Seq(ObsOf(file))],
         parsedQueue' \in QueueOf(ObsOf(file)), parsedQueue'.items = parsedQueue.items,
         parsedQueue.atEnd => parsedQueue'.atEnd, ParserControl',
         Parsed' = Parsed, UNCHANGED <<heap, wild>>
  PROVE  PipelineInv'
<1>1. UNCHANGED <<merge, outliers, relSpread, daySpread, writer, written,
                  timestampMergedQueue, outliersFilteredQueue, relSpreadQueue,
                  dayRelSpreadQueue, dropped, main>>
  BY DEF ParserThread
<1>2. Types'
  BY <1>1 DEF PipelineInv, Types
<1>3. Rows' = Rows
  <2>1. DayBuffer' = DayBuffer
    BY <1>1 DEF DayBuffer
  <2> QED BY <1>1, <2>1 DEF Rows, RowsOf
<1>4. Sorted(Rows') /\ EveryLineAccountedFor'
  BY <1>1, <1>3 DEF PipelineInv, Ordered, EveryLineAccountedFor, Src
<1>5. HeapExact'
  <2>1. HeldDays' = HeldDays /\ BufferCells' = BufferCells
    BY <1>1 DEF HeldDays, BufferCells
  <2> QED BY <1>1, <2>1 DEF PipelineInv, HeapExact, RowsOf
<1> QED BY <1>2, <1>4, <1>5, ParserFrame

\* It makes an observation of a line.
LEMMA ParserParses ==
  ASSUME PipelineInv, ParserThread, Parser!ParseObservation
  PROVE  PipelineInv'
<1> DEFINE O == ObsOf(file)
           i == parser.line
           obs == Parser!NewObservation(i, file[i])
           front == Ahead0 \o MergeRows
<1>1. /\ parser \in [pc : {"parse", "emit", "close", "fault", "done"},
                     line : 1 .. Len(file) + 1, outbox : Seq(O)]
      /\ file \in Files /\ parser.outbox = <<>> /\ ~Over(parser.pc)
      /\ ~parsedQueue.atEnd /\ parsedQueue \in QueueOf(O)
  BY DEF PipelineInv, Types, Control, ParserControl, Parser!ParseObservation, Parser!AtLine, Over
<1>2. /\ i \in 1 .. Len(file) /\ file[i].kind = "good" /\ file[i] \in LineType
      /\ DOMAIN file = 1 .. Len(file) /\ Len(file) \in Nat
  <2>1. file \in Seq(LineType) /\ DOMAIN file = 1 .. Len(file) /\ Len(file) \in Nat
    BY <1>1, RowsInFile
  <2>2. i \in 1 .. Len(file) /\ file[i].kind = "good"
    BY <1>1, <2>1 DEF Parser!ParseObservation, Parser!AtLine
  <2> QED BY <2>1, <2>2, ElementOfSeq
<1>3. /\ parser' = [parser EXCEPT !.pc = "emit", !.outbox = <<obs>>]
      /\ Access({}, {}, CellsOf(obs))
      /\ UNCHANGED <<file, parsedQueue>>
  <2>1. \A o : Parser!CellsOf(o) = CellsOf(o)
    BY DEF Parser!Cell, Cell, Parser!QuoteOf, QuoteOf, Parser!CellsOf, CellsOf, Parser!KeyOf,
           KeyOf, Parser!StampOf, StampOf, Parser!SpreadOf, SpreadOf
  <2>2. \A cells : Parser!Access({}, {}, cells) <=> Access({}, {}, cells)
    BY DEF Parser!Access, Access
  <2> QED BY <2>1, <2>2 DEF Parser!ParseObservation
<1>4. obs \in O /\ obs.src = {i} /\ obs = NewObservation(i, file[i])
  <2>1. obs = [id |-> i, date |-> file[i].date, time |-> file[i].time, neg |-> file[i].neg,
               src |-> {i}, quote |-> "own", spread |-> FALSE]
    BY DEF Parser!NewObservation
  <2> QED BY <1>2, <2>1 DEF ObsOf, Stands, LineType, NewObservation
<1>5. UNCHANGED <<merge, outliers, relSpread, daySpread, writer, written,
                  timestampMergedQueue, outliersFilteredQueue, relSpreadQueue,
                  dayRelSpreadQueue, dropped, main>>
  BY DEF ParserThread
<1>6. parser'.pc = "emit" /\ parser'.line = i /\ parser'.outbox = <<obs>>
  BY <1>1, <1>3
<1>7. Types'
  <2>1. <<obs>> \in Seq(O)
    BY <1>4
  <2>2. parser' \in [pc : {"parse", "emit", "close", "fault", "done"},
                     line : 1 .. Len(file) + 1, outbox : Seq(O)]
    <3> DEFINE last == <<obs>>
    <3> HIDE DEF last, O
    <3> QED BY <1>1, <1>3, <2>1 DEF last
  <2> QED BY <1>3, <1>5, <2>2 DEF PipelineInv, Types
<1>8. ParserControl'
  BY <1>1, <1>2, <1>3, <1>4, <1>6 DEF ParserControl
<1> HIDE DEF obs
<1>9. front \in Seq(RowOf(file)) /\ Rows = front /\ Rows' = front \o <<obs>>
  <2>1. CutRows /\ CutRows' /\ Parts
    BY <1>3, <1>7, BothStates DEF PipelineInv
  <2>2. front \in Seq(RowOf(file))
    <3>1. Ahead0 \in Seq(RowOf(file)) /\ MergeRows \in Seq(RowOf(file))
      BY <1>1, <2>1, RowsInFile DEF Parts, CutRows
    <3> QED BY <3>1, CatFacts DEF Cat
  <2>3. Ahead0' = Ahead0 /\ MergeRows' = MergeRows
    <3>1. DayBuffer' = DayBuffer
      BY <1>5 DEF DayBuffer
    <3> QED BY <1>3, <1>5, <3>1 DEF Ahead0, Ahead1, Ahead2, MergeRows, RowsOf
  <2>4. Rows = front \o <<>> /\ Rows' = front \o <<obs>>
    BY <1>1, <1>6, <2>1, <2>3 DEF CutRows
  <2> HIDE DEF front
  <2> QED BY <2>2, <2>4, ConcatEmptySeq
<1>10. Parsed' = Parsed \cup {i} /\ (\A x \in Parsed : x \in Nat /\ x < i)
  BY <1>1, <1>2, <1>3, <1>6 DEF Parsed
<1>11. Sorted(Rows') /\ EveryLineAccountedFor'
  <2>1. Sorted(front) /\ Src(front) \cup dropped = Parsed /\ Src(front) \cap dropped = {}
    BY <1>9 DEF PipelineInv, Ordered, EveryLineAccountedFor
  <2> DEFINE last == <<obs>>
  <2>2. Src(last) = {i} /\ Sorted(last) /\ last \in Seq(RowOf(file))
    BY <1>4, SrcOfFew, SortedFew DEF RowOf
  <2> HIDE DEF front, last
  <2>3. Before(Src(front), Src(last))
    BY <1>10, <2>1, <2>2 DEF Before
  <2>4. Sorted(front \o last) /\ Src(front \o last) = Src(front) \cup {i}
    <3>1. Sorted(front \o last)
      BY <1>9, <2>1, <2>2, <2>3, SortedConcat
    <3>2. Src(front \o last) = Src(front) \cup Src(last)
      BY <1>9, <2>2, SrcOfConcat
    <3> QED BY <2>2, <3>1, <3>2
  <2>5. Rows' = front \o last
    BY <1>9 DEF last
  <2>6. i \notin dropped
    BY <1>2, <1>10, <2>1
  <2>7. Src(Rows') = Src(front) \cup {i} /\ Sorted(Rows')
    BY <2>4, <2>5
  <2>8. (Src(Rows))' = Src(Rows')
    BY DEF Src, ToSet
  <2> QED BY <1>5, <1>10, <2>1, <2>6, <2>7, <2>8 DEF EveryLineAccountedFor
<1>12. HeapExact'
  <2>1. HeldDays' = HeldDays /\ BufferCells' = BufferCells
    BY <1>5 DEF HeldDays, BufferCells
  <2>2. CellsOfAll(parser.outbox) = {} /\ CellsOfAll(parser'.outbox) = CellsOf(obs)
    BY <1>1, <1>6, CellsOfFew
  <2>3. wild' = FALSE /\ heap' = heap \cup CellsOf(obs)
    BY <1>3 DEF Access, PipelineInv, HeapExact
  <2> QED BY <1>3, <1>5, <2>1, <2>2, <2>3 DEF PipelineInv, HeapExact, RowsOf
<1> QED BY <1>1, <1>3, <1>7, <1>8, <1>11, <1>12, ParserFrame

\* It enqueues the observation.
LEMMA ParserEmits ==
  ASSUME PipelineInv, ParserThread, Parser!Emit
  PROVE  PipelineInv'
<1> DEFINE O == ObsOf(file)
           i == parser.line
           o == parser.outbox
           in == parsedQueue.items
           m == timestampMergedQueue.items \o RowsOf(merge, Reverse(merge.buffer))
<1>1. /\ parser \in [pc : {"parse", "emit", "close", "fault", "done"},
                     line : 1 .. Len(file) + 1, outbox : Seq(O)]
      /\ file \in Files /\ o # <<>> /\ ~Over(parser.pc) /\ o = <<o[1]>>
      /\ ~parsedQueue.atEnd /\ parsedQueue \in QueueOf(O)
      /\ i <= Len(file) /\ file[i].kind = "good"
  BY DEF PipelineInv, Types, Control, ParserControl, Parser!Emit, Over
<1>2. DOMAIN file = 1 .. Len(file) /\ Len(file) \in Nat /\ i \in 1 .. Len(file)
  <2>1. DOMAIN file = 1 .. Len(file) /\ Len(file) \in Nat
    BY <1>1, RowsInFile
  <2> QED BY <1>1, <2>1
<1>3. /\ parser' = [parser EXCEPT !.pc = "parse", !.line = @ + 1, !.outbox = <<>>]
      /\ Len(in) < MaxCapacity
      /\ parsedQueue' = [parsedQueue EXCEPT !.items = Append(@, o[1]), !.full = FALSE]
      /\ UNCHANGED <<file, heap, wild>>
  BY DEF Parser!Emit, Parser!Out!Enqueue
<1>4. UNCHANGED <<merge, outliers, relSpread, daySpread, writer, written,
                  timestampMergedQueue, outliersFilteredQueue, relSpreadQueue,
                  dayRelSpreadQueue, dropped, main>>
  BY DEF ParserThread
<1>5. o[1] \in O /\ in \in Seq(O) /\ o \in Seq(O)
  <2>1. o \in Seq(O) /\ in \in Seq(O)
    BY <1>1 DEF QueueOf
  <2> HIDE DEF o, O
  <2> QED BY <1>1, <2>1, HeadAndTail
<1>6. /\ parsedQueue' \in QueueOf(O) /\ parsedQueue'.items = Append(in, o[1])
      /\ parsedQueue'.atEnd = parsedQueue.atEnd
  <2>1. Pushes(O, parsedQueue, parsedQueue', o[1])
    BY <1>1, <1>3, <1>5, QueueMoves, Zenon
  <2> QED BY <2>1 DEF Pushes
<1>7. parser'.pc = "parse" /\ parser'.line = i + 1 /\ parser'.outbox = <<>>
  BY <1>1, <1>3
<1>8. Types'
  <2>1. parser' \in [pc : {"parse", "emit", "close", "fault", "done"},
                     line : 1 .. Len(file) + 1, outbox : Seq(O)]
    <3>1. i + 1 \in 1 .. Len(file) + 1 /\ <<>> \in Seq(O)
      BY <1>2
    <3> HIDE DEF O
    <3> QED BY <1>1, <1>3, <3>1
  <2> QED BY <1>3, <1>4, <1>6, <2>1 DEF PipelineInv, Types
<1>9. ParserControl'
  BY <1>1, <1>6, <1>7 DEF ParserControl
<1>10. Append(in, o[1]) = Cat(in, o)
  <2> HIDE DEF in, O
  <2>1. Append(in, o[1]) = in \o <<o[1]>>
    <3> HIDE DEF o
    <3> QED BY <1>5, AppendIsConcat
  <2> QED BY <1>1, <2>1 DEF Cat
<1>11. Rows' = Rows
  <2>1. CutRows /\ CutRows' /\ Parts
    BY <1>3, <1>8, BothStates DEF PipelineInv
  <2>2. Ahead0' = Ahead0 /\ m' = m
    <3>1. DayBuffer' = DayBuffer
      BY <1>4 DEF DayBuffer
    <3> QED BY <1>4, <3>1 DEF Ahead0, Ahead1, Ahead2, RowsOf
  <2>3. MergeRows = m \o in /\ MergeRows' = m' \o parsedQueue'.items
    BY DEF MergeRows, Between, RowsOf
  <2> DEFINE a == Ahead0
             S == RowOf(file)
  <2>4. a \in Seq(S) /\ m \in Seq(S) /\ in \in Seq(S) /\ o \in Seq(S) /\ <<>> \in Seq(S)
    <3>1. Ahead0 \in Seq(S)
      BY <2>1 DEF CutRows
    <3>2. timestampMergedQueue.items \in Seq(O) /\ RowsOf(merge, Reverse(merge.buffer)) \in Seq(O)
      BY <2>1 DEF Parts
    <3>3. m \in Seq(O)
      BY <3>2, CatFacts DEF Cat
    <3> HIDE DEF m, in, o
    <3> QED BY <1>1, <1>5, <3>1, <3>3, RowsInFile
  <2>5. /\ Rows = Cat(Cat(a, Cat(m, in)), o)
        /\ Rows' = Cat(Cat(a, Cat(m, Cat(in, o))), <<>>)
    <3>1. Rows = Ahead0 \o MergeRows \o parser.outbox
      BY <2>1 DEF CutRows
    <3>2. Rows' = Ahead0' \o MergeRows' \o parser'.outbox
      BY <2>1 DEF CutRows
    <3>3. MergeRows' = m \o Cat(in, o)
      BY <1>6, <1>10, <2>2, <2>3
    <3> HIDE DEF m
    <3> QED BY <1>7, <2>2, <2>3, <3>1, <3>2, <3>3 DEF Cat
  <2> HIDE DEF a, S, m, in, o
  <2>6. Cat(Cat(a, Cat(m, in)), o) = Cat(a, Cat(m, Cat(in, o)))
    <3>1. Cat(m, in) \in Seq(S) /\ Cat(Cat(m, in), o) = Cat(m, Cat(in, o))
      BY <2>4, CatFacts
    <3>2. Cat(Cat(a, Cat(m, in)), o) = Cat(a, Cat(Cat(m, in), o))
      BY <2>4, <3>1, CatFacts
    <3> QED BY <3>1, <3>2
  <2>7. Cat(a, Cat(m, Cat(in, o))) \in Seq(S)
    <3>1. Cat(in, o) \in Seq(S)
      BY <2>4, CatFacts
    <3>2. Cat(m, Cat(in, o)) \in Seq(S)
      BY <2>4, <3>1, CatFacts
    <3> QED BY <2>4, <3>2, CatFacts
  <2>8. \A s \in Seq(S) : Cat(s, <<>>) = s
    BY ConcatEmptySeq DEF Cat
  <2> QED BY <2>5, <2>6, <2>7, <2>8
<1>12. Parsed' = Parsed
  BY <1>1, <1>2, <1>3, <1>7 DEF Parsed
<1>13. Sorted(Rows') /\ EveryLineAccountedFor'
  BY <1>4, <1>11, <1>12 DEF PipelineInv, Ordered, EveryLineAccountedFor, Src
<1>14. HeapExact'
  <2>1. HeldDays' = HeldDays /\ BufferCells' = BufferCells
    BY <1>4 DEF HeldDays, BufferCells
  <2>2. CellsOfAll(parsedQueue'.items) = CellsOfAll(in) \cup CellsOfAll(o)
    <3> HIDE DEF in, o, O
    <3>1. CellsOfAll(in \o o) = CellsOfAll(in) \cup CellsOfAll(o)
      BY <1>5, CellsOfConcat
    <3> QED BY <1>6, <1>10, <3>1 DEF Cat
  <2>3. CellsOfAll(parser'.outbox) = {}
    BY <1>7, CellsOfFew
  <2> QED BY <1>3, <1>4, <2>1, <2>2, <2>3 DEF PipelineInv, HeapExact, RowsOf
<1> QED BY <1>1, <1>6, <1>8, <1>9, <1>13, <1>14, ParserFrame

\* What a step of the parser preserves.
LEMMA ParserStep == PipelineInv /\ ParserThread => PipelineInv'
<1> SUFFICES ASSUME PipelineInv, ParserThread PROVE PipelineInv'
  OBVIOUS
<1> DEFINE O == ObsOf(file)
           P == [pc : {"parse", "emit", "close", "fault", "done"},
                 line : 1 .. Len(file) + 1, outbox : Seq(O)]
<1>1. /\ parser \in P /\ parsedQueue \in QueueOf(O) /\ file \in Files
      /\ parser.pc = "emit" <=> parser.outbox # <<>>
      /\ parsedQueue.atEnd => Over(parser.pc)
      /\ ParserControl
  BY DEF PipelineInv, Types, Control, ParserControl
<1>2. Len(file) \in Nat /\ DOMAIN file = 1 .. Len(file)
  BY <1>1, RowsInFile
<1>3. CASE Parser!ParseObservation
  BY <1>3, ParserParses
<1>4. CASE Parser!Emit
  BY <1>4, ParserEmits
<1>5. CASE Parser!SkipLine
  <2>1. /\ parser' = [parser EXCEPT !.line = @ + 1] /\ parser.pc = "parse"
        /\ parser.line <= Len(file) /\ file[parser.line].kind = "skip"
        /\ UNCHANGED <<file, parsedQueue, heap, wild>>
    BY <1>5 DEF Parser!SkipLine, Parser!AtLine
  <2>2. parser' \in P /\ parser'.outbox = <<>> /\ parser'.line = parser.line + 1
        /\ parser'.pc = "parse" /\ parser.outbox = <<>> /\ ~Over(parser.pc)
    BY <1>1, <1>2, <2>1 DEF Over
  <2>3. Parsed' = Parsed
    BY <1>1, <1>2, <2>1, <2>2 DEF Parsed
  <2>4. ParserControl'
    BY <1>1, <2>1, <2>2 DEF ParserControl
  <2> QED BY <1>1, <2>1, <2>2, <2>3, <2>4, ParserIdles
<1>6. CASE Parser!ParseError \/ Parser!EndOfFile \/ Parser!Fail
  <2>1. /\ parser.pc = "parse" /\ UNCHANGED <<file, parsedQueue, heap, wild>>
        /\ parser' = [parser EXCEPT !.pc = "fault"] \/ parser' = [parser EXCEPT !.pc = "close"]
    BY <1>6 DEF Parser!ParseError, Parser!EndOfFile, Parser!Fail, Parser!AtLine
  <2>2. parser' \in P /\ parser'.outbox = <<>> /\ parser'.line = parser.line
        /\ parser'.pc \in {"fault", "close"} /\ parser.outbox = <<>> /\ ~Over(parser.pc)
    BY <1>1, <2>1 DEF Over
  <2>3. Parsed' = Parsed
    BY <2>1, <2>2 DEF Parsed
  <2>4. ParserControl'
    BY <1>1, <2>1, <2>2 DEF ParserControl
  <2> QED BY <1>1, <2>1, <2>2, <2>3, <2>4, ParserIdles
<1>7. CASE Parser!EmitBlocks
  <2>1. /\ UNCHANGED <<file, parser, heap, wild>> /\ parser.pc = "emit"
        /\ parsedQueue' = [parsedQueue EXCEPT !.full = TRUE]
    BY <1>7 DEF Parser!EmitBlocks, Parser!Out!EnqueueBlocked
  <2>2. Keeps(O, parsedQueue, parsedQueue')
    BY <1>1, <2>1, QueueMoves, Zenon
  <2>3. Parsed' = Parsed /\ ~Over(parser.pc)
    BY <2>1 DEF Parsed, Over
  <2>4. ParserControl'
    BY <1>1, <2>1, <2>2 DEF ParserControl, Keeps
  <2> QED BY <1>1, <2>1, <2>2, <2>3, <2>4, ParserIdles DEF Keeps
<1>8. CASE Parser!Closes
  <2>1. /\ parser.pc \in {"close", "fault"} /\ UNCHANGED <<file, heap, wild>>
        /\ parser' = [parser EXCEPT !.pc = "done"]
        /\ parsedQueue' = [parsedQueue EXCEPT !.atEnd = TRUE]
    BY <1>8, Zenon DEF Parser!Closes, Parser!Out!SetQueueEnd
  <2>2. Ends(O, parsedQueue, parsedQueue')
    BY <1>1, <2>1, QueueMoves, Zenon
  <2>3. parser' \in P /\ parser'.outbox = <<>> /\ parser'.line = parser.line
        /\ parser'.pc = "done" /\ parser.outbox = <<>> /\ ~Over(parser.pc)
    BY <1>1, <2>1 DEF Over
  <2>4. Parsed' = Parsed
    BY <2>1, <2>3 DEF Parsed
  <2>5. ParserControl'
    BY <1>1, <2>1, <2>3 DEF ParserControl, Over
  <2> QED BY <1>1, <2>1, <2>2, <2>3, <2>4, <2>5, ParserIdles DEF Ends
<1> QED BY <1>3, <1>4, <1>5, <1>6, <1>7, <1>8 DEF ParserThread, Parser!Step

-----------------------------------------------------------------------------
(* The days. *)

\* The rows from the output back to what daySpread can take.
LastRows == written \o DaySpreadRows

DayOrder ==
  /\ Sorted(LastRows) /\ Sorted(Behind3) /\ Before(Src(LastRows), Src(Behind3))
  /\ Sorted(AllDays) /\ Sorted(DayBuffer)
  /\ Before(Src(AllDays), Src(DayBuffer) \cup Src(daySpread.hand))
  /\ Before(Src(Ahead2), Src(relSpreadQueue.items) \cup Src(Behind3))

\* Sequences of rows as one: the parts of the last stages.
LEMMA SortedParts ==
  ASSUME NEW S, NEW w \in Seq(S), NEW q \in Seq(S), NEW o \in Seq(S), NEW b \in Seq(S),
         NEW h \in Seq(S), NEW in \in Seq(S), Sorted(w \o Between(q, o, b, h, in))
  PROVE  /\ Sorted(w \o q \o o) /\ Sorted(b)
         /\ Before(Src(w) \cup Src(q) \cup Src(o), Src(b) \cup Src(h))
         /\ Before(Src(w) \cup Src(q) \cup Src(o) \cup Src(b) \cup Src(h), Src(in))
<1> DEFINE ob == o \o b
           m == ob \o h
           qm == q \o m
           all == qm \o in
<1>1. ob \in Seq(S) /\ Src(ob) = Src(o) \cup Src(b)
  BY SrcOfConcat
<1>2. Sorted(ob) <=> Sorted(o) /\ Sorted(b) /\ Before(Src(o), Src(b))
  BY SortedConcat
<1> HIDE DEF ob
<1>3. m \in Seq(S) /\ Src(m) = Src(ob) \cup Src(h)
  BY <1>1, SrcOfConcat
<1>4. Sorted(m) <=> Sorted(ob) /\ Sorted(h) /\ Before(Src(ob), Src(h))
  BY <1>1, SortedConcat
<1> HIDE DEF m
<1>5. qm \in Seq(S) /\ Src(qm) = Src(q) \cup Src(m)
  BY <1>3, SrcOfConcat
<1>6. Sorted(qm) <=> Sorted(q) /\ Sorted(m) /\ Before(Src(q), Src(m))
  BY <1>3, SortedConcat
<1> HIDE DEF qm
<1>7. all \in Seq(S) /\ Src(all) = Src(qm) \cup Src(in)
  BY <1>5, SrcOfConcat
<1>8. Sorted(all) <=> Sorted(qm) /\ Sorted(in) /\ Before(Src(qm), Src(in))
  BY <1>5, SortedConcat
<1> HIDE DEF all
<1>9. Sorted(w \o all) <=> Sorted(w) /\ Sorted(all) /\ Before(Src(w), Src(all))
  BY <1>7, SortedConcat
<1>10. Sorted(w \o all)
  BY DEF Between, all, qm, m, ob
<1>11. /\ Sorted(w) /\ Sorted(q) /\ Sorted(o) /\ Sorted(b)
       /\ Before(Src(w), Src(q) \cup Src(o) \cup Src(b) \cup Src(h) \cup Src(in))
       /\ Before(Src(q) \cup Src(o) \cup Src(b) \cup Src(h), Src(in))
       /\ Before(Src(q), Src(o) \cup Src(b) \cup Src(h))
       /\ Before(Src(o) \cup Src(b), Src(h)) /\ Before(Src(o), Src(b))
  BY <1>1, <1>2, <1>3, <1>4, <1>5, <1>6, <1>7, <1>8, <1>9, <1>10
<1>12. /\ Before(Src(w) \cup Src(q) \cup Src(o), Src(b) \cup Src(h))
       /\ Before(Src(w) \cup Src(q) \cup Src(o) \cup Src(b) \cup Src(h), Src(in))
       /\ Before(Src(w), Src(q)) /\ Before(Src(w) \cup Src(q), Src(o))
  BY <1>11 DEF Before
<1> DEFINE wq == w \o q
<1>13. wq \in Seq(S) /\ Src(wq) = Src(w) \cup Src(q) /\ Sorted(wq)
  BY <1>11, <1>12, SrcOfConcat, SortedConcat
<1> HIDE DEF wq
<1>14. Sorted(wq \o o)
  BY <1>11, <1>12, <1>13, SortedConcat
<1> QED BY <1>11, <1>12, <1>14 DEF wq

LEMMA DaysInOrder == Types /\ Ordered => DayOrder
<1> SUFFICES ASSUME Types, Ordered PROVE DayOrder
  OBVIOUS
<1> DEFINE R == RowOf(file)
           q == dayRelSpreadQueue.items
           o == daySpread.outbox
           b == DayBuffer
           h == daySpread.hand
           in == relSpreadQueue.items
<1>1. /\ file \in Files /\ Parts /\ CutRows
      /\ written \in Seq(R) /\ q \in Seq(R) /\ o \in Seq(R) /\ b \in Seq(R)
      /\ h \in Seq(R) /\ in \in Seq(R)
  <2>1. /\ file \in Files
        /\ written \in Seq(DaysOf(file)) /\ q \in Seq(DaysOf(file))
        /\ o \in Seq(DaysOf(file)) /\ b \in Seq(ObsOf(file)) /\ h \in Seq(ObsOf(file))
        /\ in \in Seq(ObsOf(file))
    <3>1. <<>> \in Seq(ObsOf(file))
      OBVIOUS
    <3> QED BY <3>1 DEF Types, StageOf, QueueOf, DayBuffer
  <2> HIDE DEF q, o, b, h, in
  <2> QED BY <2>1, RowsInFile, PartsOf, RowsCut
<1>2. /\ LastRows = written \o Between(q, o, b, h, in) /\ Rows = LastRows \o Behind3
      /\ AllDays = written \o q \o o
      /\ Sorted(Rows) /\ Behind3 \in Seq(R)
  BY <1>1 DEF LastRows, DaySpreadRows, CutRows, AllDays, Ordered
<1>3. /\ Src(AllDays) = Src(written) \cup Src(q) \cup Src(o)
      /\ Src(Ahead2) = Src(written) \cup Src(q) \cup (Src(o) \cup Src(b) \cup Src(h))
  BY SrcOfDays, SrcAround
<1> HIDE DEF R, q, o, b, h, in
<1>4. LastRows \in Seq(R) /\ Src(LastRows)
        = Src(written) \cup Src(q) \cup Src(o) \cup Src(b) \cup Src(h) \cup Src(in)
  <2> DEFINE ob == o \o b
             m == ob \o h
             qm == q \o m
             all == qm \o in
  <2>1. ob \in Seq(R) /\ Src(ob) = Src(o) \cup Src(b)
    BY <1>1, SrcOfConcat
  <2> HIDE DEF ob
  <2>2. m \in Seq(R) /\ Src(m) = Src(ob) \cup Src(h)
    BY <1>1, <2>1, SrcOfConcat
  <2> HIDE DEF m
  <2>3. qm \in Seq(R) /\ Src(qm) = Src(q) \cup Src(m)
    BY <1>1, <2>2, SrcOfConcat
  <2> HIDE DEF qm
  <2>4. all \in Seq(R) /\ Src(all) = Src(qm) \cup Src(in)
    BY <1>1, <2>3, SrcOfConcat
  <2> HIDE DEF all
  <2>5. written \o all \in Seq(R) /\ Src(written \o all) = Src(written) \cup Src(all)
    BY <1>1, <2>4, SrcOfConcat
  <2>6. LastRows = written \o all
    BY <1>2 DEF Between, all, qm, m, ob
  <2> QED BY <2>1, <2>2, <2>3, <2>4, <2>5, <2>6
<1>5. Sorted(LastRows) /\ Sorted(Behind3) /\ Before(Src(LastRows), Src(Behind3))
  BY <1>2, <1>4, SortedConcat
<1>6. /\ Sorted(written \o q \o o) /\ Sorted(b)
      /\ Before(Src(written) \cup Src(q) \cup Src(o), Src(b) \cup Src(h))
      /\ Before(Src(written) \cup Src(q) \cup Src(o) \cup Src(b) \cup Src(h), Src(in))
  <2>1. Sorted(written \o Between(q, o, b, h, in))
    BY <1>2, <1>5
  <2> QED BY <1>1, <2>1, SortedParts
<1>7. Before(Src(Ahead2), Src(in) \cup Src(Behind3))
  BY <1>3, <1>4, <1>5, <1>6 DEF Before
<1>8. Sorted(AllDays) /\ Before(Src(AllDays), Src(b) \cup Src(h))
  BY <1>2, <1>3, <1>6
<1> QED BY <1>5, <1>6, <1>7, <1>8 DEF DayOrder, b, h, in

\* The cells of the rows behind daySpread, and those of the last stages.
Upstream ==
  CellsOfAll(RowsOf(relSpread, <<>>)) \cup CellsOfAll(outliersFilteredQueue.items)
  \cup CellsOfAll(RowsOf(outliers, outliers.buffer)) \cup CellsOfAll(timestampMergedQueue.items)
  \cup CellsOfAll(RowsOf(merge, Reverse(merge.buffer))) \cup CellsOfAll(parsedQueue.items)
  \cup CellsOfAll(parser.outbox)

LastCells ==
  DayCellsOfAll(HeldDays) \cup BufferCells \cup CellsOfAll(daySpread.hand)
  \cup CellsOfAll(relSpreadQueue.items)

LEMMA CellsBehind == Types => CellsIn(CellsOfAll(relSpreadQueue.items) \cup Upstream,
                                      Src(relSpreadQueue.items) \cup Src(Behind3))
<1> SUFFICES ASSUME Types
             PROVE  CellsIn(CellsOfAll(relSpreadQueue.items) \cup Upstream,
                            Src(relSpreadQueue.items) \cup Src(Behind3))
  OBVIOUS
<1>1. Parts /\ CutRows /\ file \in Files
  BY PartsOf, RowsCut DEF Types
<1>2. Src(Behind3) = Src(RowsOf(relSpread, <<>>)) \cup Src(outliersFilteredQueue.items)
                     \cup Src(Behind2)
  <2> DEFINE a == RowsOf(relSpread, <<>>)
             c == outliersFilteredQueue.items
             R == RowOf(file)
  <2>1. a \in Seq(R) /\ c \in Seq(R) /\ Behind2 \in Seq(R) /\ Behind3 = (a \o c) \o Behind2
    BY <1>1, RowsInFile DEF Parts, CutRows, Behind3
  <2> HIDE DEF a, c, R
  <2> DEFINE ac == a \o c
  <2>2. ac \in Seq(R) /\ Src(ac) = Src(a) \cup Src(c) /\ Behind3 = ac \o Behind2
    BY <2>1, SrcOfConcat
  <2> HIDE DEF ac
  <2>3. Src(ac \o Behind2) = Src(ac) \cup Src(Behind2)
    BY <2>1, <2>2, SrcOfConcat
  <2>4. Src(Behind3) = Src(a) \cup Src(c) \cup Src(Behind2)
    BY <2>2, <2>3
  <2> QED BY <2>4 DEF a, c
<1>3. /\ Src(Behind1) = Src(RowsOf(merge, Reverse(merge.buffer)))
                        \cup Src(parsedQueue.items) \cup Src(parser.outbox)
      /\ Src(Behind2) = Src(RowsOf(outliers, outliers.buffer))
                        \cup Src(timestampMergedQueue.items) \cup Src(Behind1)
  BY SrcAround
<1>4. \A s \in Seq(ObsOf(file)) : CellsIn(CellsOfAll(s), Src(s))
  BY <1>1, CellsOfSrc
<1>5. /\ CellsIn(CellsOfAll(relSpreadQueue.items), Src(relSpreadQueue.items))
      /\ CellsIn(CellsOfAll(RowsOf(relSpread, <<>>)), Src(RowsOf(relSpread, <<>>)))
      /\ CellsIn(CellsOfAll(outliersFilteredQueue.items), Src(outliersFilteredQueue.items))
      /\ CellsIn(CellsOfAll(RowsOf(outliers, outliers.buffer)),
                 Src(RowsOf(outliers, outliers.buffer)))
      /\ CellsIn(CellsOfAll(timestampMergedQueue.items), Src(timestampMergedQueue.items))
      /\ CellsIn(CellsOfAll(RowsOf(merge, Reverse(merge.buffer))),
                 Src(RowsOf(merge, Reverse(merge.buffer))))
      /\ CellsIn(CellsOfAll(parsedQueue.items), Src(parsedQueue.items))
      /\ CellsIn(CellsOfAll(parser.outbox), Src(parser.outbox))
  BY <1>1, <1>4 DEF Parts
<1> QED BY <1>2, <1>3, <1>5 DEF CellsIn, Upstream

\* The days that are not the last one built stand for lines before its.
LEMMA LastApart ==
  ASSUME NEW f \in Files, NEW s \in Seq(DaysOf(f)), Sorted(s), NEW i \in 1 .. Len(s),
         NEW j \in 1 .. Len(s), i # j
  PROVE  s[i].id \notin s[j].src /\ s[i].id # s[j].id /\ DayCells(s[i]) \cap DayCells(s[j]) = {}
<1>1. s[i] \in DaysOf(f) /\ s[j] \in DaysOf(f)
  BY ElementOfSeq
<1>2. /\ s[i].id \in s[i].src /\ s[j].id \in s[j].src
      /\ s[i].src \subseteq Nat /\ s[j].src \subseteq Nat
  BY <1>1 DEF DaysOf, Stands
<1>3. i < j \/ j < i
  BY LenProperties
<1>4. s[i].id \notin s[j].src
  BY <1>2, <1>3 DEF Sorted
<1>5. s[i].id # s[j].id
  BY <1>2, <1>4
<1>6. DayCells(s[i]) \cap DayCells(s[j]) = {}
  BY <1>5 DEF DayCells, KeyOf, Cell
<1> QED BY <1>4, <1>5, <1>6

LEMMA HeapParts == HeapExact <=> wild = FALSE /\ heap = LastCells \cup Upstream
BY DEF HeapExact, LastCells, Upstream

\* The last stages hand rows on among themselves: nothing changes behind them.
LastCut == /\ LastRows \in Seq(RowOf(file)) /\ Behind3 \in Seq(RowOf(file))
           /\ Rows = LastRows \o Behind3

LEMMA LastRowsCut == Types => LastCut
<1> SUFFICES ASSUME Types PROVE LastCut
  OBVIOUS
<1> DEFINE R == RowOf(file)
<1>1. file \in Files /\ Parts /\ CutRows
  BY PartsOf, RowsCut DEF Types
<1>2. /\ written \in Seq(R) /\ dayRelSpreadQueue.items \in Seq(R) /\ daySpread.outbox \in Seq(R)
      /\ DayBuffer \in Seq(R) /\ daySpread.hand \in Seq(R) /\ relSpreadQueue.items \in Seq(R)
  <2>1. <<>> \in Seq(ObsOf(file))
    OBVIOUS
  <2>2. /\ daySpread.outbox \in Seq(DaysOf(file)) /\ DayBuffer \in Seq(ObsOf(file))
        /\ daySpread.hand \in Seq(ObsOf(file)) /\ relSpreadQueue.items \in Seq(ObsOf(file))
    BY <2>1 DEF Types, StageOf, QueueOf, DayBuffer
  <2> QED BY <1>1, <2>2, RowsInFile DEF Parts
<1> HIDE DEF R
<1>3. DaySpreadRows \in Seq(R)
  BY <1>2, StageRows DEF DaySpreadRows
<1>4. written \o DaySpreadRows \in Seq(R)
  BY <1>2, <1>3, SrcOfConcat
<1> QED BY <1>1, <1>4 DEF LastCut, CutRows, LastRows, R

LEMMA LastFrame ==
  ASSUME Types, Types', Ordered,
         UNCHANGED <<file, parser, merge, outliers, relSpread, parsedQueue,
                     timestampMergedQueue, outliersFilteredQueue, dropped>>,
         Sorted(LastRows'), Src(LastRows') = Src(LastRows)
  PROVE  Ordered' /\ Upstream' = Upstream
<1>1. Upstream' = Upstream /\ Behind3' = Behind3 /\ Parsed' = Parsed
  BY DEF Upstream, Behind3, Behind2, Parsed
<1>2. DayOrder
  BY DaysInOrder
<1>3. /\ LastRows \in Seq(RowOf(file)) /\ Behind3 \in Seq(RowOf(file))
      /\ Rows = LastRows \o Behind3
  BY LastRowsCut DEF LastCut
<1>4. /\ LastRows' \in Seq(RowOf(file)) /\ Rows' = LastRows' \o Behind3
  <2>1. Types' => LastCut'
    BY LastRowsCut, PTL
  <2> QED BY <1>1, <2>1 DEF LastCut
<1>5. /\ Src(Rows) = Src(LastRows) \cup Src(Behind3)
      /\ Sorted(Rows) <=> /\ Sorted(LastRows) /\ Sorted(Behind3)
                          /\ Before(Src(LastRows), Src(Behind3))
  BY <1>3, SrcOfConcat, SortedConcat
<1> DEFINE L == LastRows'
<1>6. L \in Seq(RowOf(file)) /\ Rows' = L \o Behind3 /\ Sorted(L) /\ Src(L) = Src(LastRows)
  BY <1>4
<1> HIDE DEF L
<1>7. /\ Src(L \o Behind3) = Src(L) \cup Src(Behind3)
      /\ Sorted(L \o Behind3) <=> Sorted(L) /\ Sorted(Behind3) /\ Before(Src(L), Src(Behind3))
  BY <1>3, <1>6, SrcOfConcat, SortedConcat
<1>8. Sorted(Rows') /\ Src(Rows') = Src(Rows)
  BY <1>2, <1>5, <1>6, <1>7 DEF DayOrder
<1> QED BY <1>1, <1>8 DEF Ordered, EveryLineAccountedFor

\* The cells of a day built are not those of the buffer, unless it is the day made of it
\* and still to be enqueued.
LEMMA DayAndBuffer ==
  ASSUME PipelineInv, NEW i \in 1 .. Len(AllDays), daySpread.pc = "emit" => i < Len(AllDays)
  PROVE  DayCells(AllDays[i]) \cap BufferCells = {}
<1> DEFINE b == daySpread.buffer
           s == AllDays
           D == DaysOf(file)
<1>1. /\ file \in Files /\ b \in Seq(ObsOf(file)) /\ s \in Seq(D) /\ DayOrder
      /\ CellsIn(CellsOfAll(b), Src(b))
  BY SrcOfDays, DaysInOrder, CellsOfSrc DEF PipelineInv, Types, StageOf
<1>2. BufferCells \subseteq CellsOfAll(b)
  BY DEF BufferCells
<1>3. s[i] \in D
  BY <1>1, ElementOfSeq
<1>4. /\ s[i].id \in s[i].src /\ s[i].src \subseteq Src(s)
      /\ \A c \in DayCells(s[i]) : c[1] = s[i].id
  <2>1. s[i].id \in s[i].src
    BY <1>3 DEF DaysOf, Stands
  <2>2. s[i].src \subseteq Src(s)
    BY <1>1, SrcOfSeq
  <2> QED BY <2>1, <2>2 DEF DayCells, KeyOf, Cell
<1>5. Src(s) \subseteq Nat
  BY <1>1, RowsInFile
<1>6. CASE daySpread.pc \notin {"emit", "clean"}
  <2>1. Before(Src(s), Src(b))
    BY <1>1, <1>6 DEF DayOrder, DayBuffer, Before
  <2> HIDE DEF s, b
  <2> SUFFICES ASSUME NEW c \in DayCells(s[i]), c \in BufferCells PROVE FALSE
    BY DEF s
  <2>2. c[1] \in Src(s) /\ c[1] \in Src(b)
    BY <1>1, <1>2, <1>4 DEF CellsIn
  <2> QED BY <1>5, <2>1, <2>2 DEF Before
<1>7. CASE daySpread.pc \in {"emit", "clean"}
  <2>1. /\ s # <<>> /\ Last(s).id = b[1].id /\ Last(s).src = Src(b) /\ Sorted(b)
        /\ Sorted(s) /\ b # <<>>
    BY <1>1, <1>7 DEF PipelineInv, DayAtHand, DayOrder, Control, DaySpreadControl
  <2>2. Last(s) = s[Len(s)] /\ Len(s) \in 1 .. Len(s)
    BY <1>1, <2>1, LastDay, EmptySeq, LenProperties
  <2>3. CASE i # Len(s)
    <3>1. s[i].id \notin s[Len(s)].src
      BY <1>1, <2>1, <2>2, <2>3, LastApart
    <3> HIDE DEF s, b
    <3> SUFFICES ASSUME NEW c \in DayCells(s[i]), c \in BufferCells PROVE FALSE
      BY DEF s
    <3>2. c[1] = s[i].id /\ c[1] \in Src(b)
      BY <1>1, <1>2, <1>4 DEF CellsIn
    <3> QED BY <2>1, <2>2, <3>1, <3>2
  <2>4. CASE i = Len(s)
    <3>1. daySpread.pc = "clean" /\ BufferCells = CellsOfAll(b) \ KeyOf(b[1])
      BY <1>7, <2>4 DEF BufferCells
    <3>2. s[i].id = b[1].id
      BY <2>1, <2>2, <2>4
    <3>3. /\ CellsOfAll(b) = CellsOf(b[1]) \cup CellsOfAll(Tail(b))
          /\ \A c \in CellsOfAll(Tail(b)) : c[1] # b[1].id
      BY <1>1, <2>1, FirstApart
    <3>4. b[1] \in ObsOf(file)
      BY <1>1, <2>1, HeadAndTail
    <3>5. CellsOf(b[1]) \cap DayCells(s[i]) \subseteq KeyOf(b[1])
      BY <3>2, <3>4 DEF CellsOf, DayCells, KeyOf, StampOf, QuoteOf, SpreadOf, Cell, ObsOf
    <3> HIDE DEF s, b
    <3> QED BY <1>4, <3>1, <3>2, <3>3, <3>5 DEF s
  <2> QED BY <2>3, <2>4
<1> QED BY <1>6, <1>7

DayCellsDiffer ==
  LET days == dayRelSpreadQueue.items
      rest == Tail(days) \o daySpread.outbox
  IN /\ DayCellsOfAll(HeldDays) \cap (CellsOfAll(daySpread.hand)
           \cup CellsOfAll(relSpreadQueue.items) \cup Upstream) = {}
     /\ BufferCells \cap (CellsOfAll(relSpreadQueue.items) \cup Upstream) = {}
     /\ daySpread.pc = "clean" => BufferCells \cap DayCellsOfAll(HeldDays) = {}
     /\ days # <<>> =>
          /\ DayCells(Head(days)) \cap BufferCells = {}
          /\ DayCells(Head(days)) \cap DayCellsOfAll(rest) = {}
          /\ DayCellsOfAll(HeldDays) = DayCells(Head(days)) \cup DayCellsOfAll(rest)

LEMMA DayCellsApart == PipelineInv => DayCellsDiffer
<1> SUFFICES ASSUME PipelineInv PROVE DayCellsDiffer
  OBVIOUS
<1> DEFINE D == DaysOf(file)
           days == dayRelSpreadQueue.items
           out == daySpread.outbox
           rest == Tail(days) \o out
           held == DayCellsOfAll(HeldDays)
           hand == CellsOfAll(daySpread.hand)
           next == CellsOfAll(relSpreadQueue.items) \cup Upstream
<1>1. /\ file \in Files /\ days \in Seq(D) /\ out \in Seq(D) /\ written \in Seq(D)
      /\ daySpread.hand \in Seq(ObsOf(file)) /\ Types /\ Ordered /\ DayAtHand
      /\ daySpread.pc = "emit" => out # <<>>
      /\ HeldDays = days \o out /\ AllDays = (written \o days) \o out
  BY DEF PipelineInv, Types, StageOf, QueueOf, Control, DaySpreadControl, StageControl, HeldDays,
         AllDays
<1>2. DayOrder
  BY <1>1, DaysInOrder
<1>3. /\ HeldDays \in Seq(D) /\ AllDays \in Seq(D)
      /\ Src(HeldDays) \subseteq Src(AllDays)
  BY <1>1, SrcOfDays
<1>4. /\ CellsIn(held, Src(HeldDays)) /\ CellsIn(hand, Src(daySpread.hand))
      /\ CellsIn(next, Src(relSpreadQueue.items) \cup Src(Behind3))
      /\ CellsIn(held \cup BufferCells, Src(Ahead2))
  <2>1. CellsIn(held \cup BufferCells \cup hand, Src(Ahead2))
    BY <1>1, CellsAhead
  <2> QED BY <1>1, <1>3, <2>1, CellsOfSrc, CellsBehind DEF CellsIn
<1>5. Src(AllDays) \subseteq Nat /\ Src(Ahead2) \subseteq Nat
  <2>1. Ahead2 \in Seq(RowOf(file))
    BY <1>1, RowsCut DEF CutRows
  <2>2. AllDays \in Seq(RowOf(file))
    BY <1>1, <1>3, RowsInFile
  <2>3. Src(AllDays) \subseteq 1 .. Len(file) /\ Src(Ahead2) \subseteq 1 .. Len(file)
        /\ Len(file) \in Nat
    BY <1>1, <2>1, <2>2, RowsInFile
  <2> QED BY <2>3
<1>6. /\ Before(Src(AllDays), Src(daySpread.hand))
      /\ Before(Src(Ahead2), Src(relSpreadQueue.items) \cup Src(Behind3))
  BY <1>2 DEF DayOrder, Before
<1> HIDE DEF D, days, out, held, hand, next
<1>7. held \cap hand = {}
  BY <1>3, <1>4, <1>5, <1>6 DEF CellsIn, Before
<1>8. (held \cup BufferCells) \cap next = {}
  BY <1>4, <1>5, <1>6 DEF CellsIn, Before
<1>9. ASSUME NEW k \in 1 .. Len(HeldDays) PROVE
        /\ Len(written) + k \in 1 .. Len(AllDays) /\ AllDays[Len(written) + k] = HeldDays[k]
        /\ Len(AllDays) = Len(written) + Len(HeldDays)
        /\ Len(HeldDays) \in Nat /\ Len(written) \in Nat
  <2> DEFINE h == HeldDays
  <2>1. AllDays = written \o h
    BY <1>1, ConcatAssociative
  <2> HIDE DEF h
  <2> QED BY <1>1, <1>3, <2>1, ConcatProperties, LenProperties DEF h
<1>10. ASSUME daySpread.pc = "clean" PROVE BufferCells \cap held = {}
  <2> SUFFICES ASSUME NEW c \in held PROVE c \notin BufferCells
    OBVIOUS
  <2>1. PICK d \in ToSet(HeldDays) : c \in DayCells(d)
    BY DEF held, DayCellsOfAll
  <2>2. PICK k \in 1 .. Len(HeldDays) : d = HeldDays[k]
    BY <1>3, SrcOfSeq
  <2>3. DayCells(AllDays[Len(written) + k]) \cap BufferCells = {}
    BY <1>9, <1>10, DayAndBuffer
  <2> QED BY <1>9, <2>1, <2>2, <2>3
<1>11. ASSUME days # <<>> PROVE
         /\ DayCells(Head(days)) \cap BufferCells = {}
         /\ DayCells(Head(days)) \cap DayCellsOfAll(rest) = {}
         /\ held = DayCells(Head(days)) \cup DayCellsOfAll(rest)
  <2> DEFINE d == Head(days)
             one == <<d>>
  <2>1. /\ d \in D /\ one \in Seq(D) /\ Tail(days) \in Seq(D) /\ days = one \o Tail(days)
        /\ Len(days) \in Nat \ {0} /\ d = days[1]
    <3> HIDE DEF one
    <3>1. /\ Head(days) \in D /\ Tail(days) \in Seq(D) /\ <<Head(days)>> \in Seq(D)
          /\ Head(days) = days[1] /\ days = <<Head(days)>> \o Tail(days)
          /\ Len(days) \in Nat \ {0}
      BY <1>1, <1>11, HeadAndTail
    <3> QED BY <3>1 DEF one
  <2>2. /\ Src(one) = d.src /\ DayCellsOfAll(one) = DayCells(d)
    BY SrcOfFew, CellsOfFew
  <2> HIDE DEF one
  <2>3. rest \in Seq(D) /\ HeldDays = one \o rest
    <3> DEFINE t == Tail(days)
    <3>1. t \in Seq(D) /\ days = one \o t /\ one \in Seq(D)
      BY <2>1
    <3> HIDE DEF t
    <3>2. out \in Seq(D)
      BY <1>1
    <3>3. (one \o t) \o out = one \o (t \o out) /\ t \o out \in Seq(D)
      BY <3>1, <3>2, ConcatAssociative, ConcatProperties
    <3> QED BY <1>1, <3>1, <3>3 DEF t
  <2> HIDE DEF rest
  <2>4. held = DayCells(d) \cup DayCellsOfAll(rest)
    BY <2>1, <2>2, <2>3, CellsOfConcat DEF held
  <2>5. Sorted(HeldDays)
    <3>1. AllDays = written \o HeldDays
      BY <1>1, ConcatAssociative
    <3>2. Sorted(AllDays)
      BY <1>2 DEF DayOrder
    <3>3. written \in Seq(D) /\ HeldDays \in Seq(D)
      BY <1>1, <1>3
    <3>4. Sorted(written \o HeldDays)
      BY <3>1, <3>2
    <3> QED BY <3>3, <3>4, SortedConcat
  <2>6. Before(d.src, Src(rest))
    BY <2>1, <2>2, <2>3, <2>5, SortedConcat
  <2>7. CellsIn(DayCellsOfAll(rest), Src(rest))
    BY <1>1, <2>3, CellsOfSrc DEF D
  <2>8. /\ d.id \in d.src /\ d.src \subseteq Nat
        /\ \A c \in DayCells(d) : c[1] = d.id
    BY <2>1 DEF D, DaysOf, Stands, DayCells, KeyOf, Cell
  <2>9. DayCells(d) \cap DayCellsOfAll(rest) = {}
    <3> HIDE DEF d
    <3> QED BY <2>6, <2>7, <2>8 DEF CellsIn, Before
  <2>10. DayCells(d) \cap BufferCells = {}
    <3> DEFINE h == days \o out
    <3>1. /\ Len(h) = Len(days) + Len(out) /\ Len(out) \in Nat
          /\ \A j \in 1 .. Len(days) : h[j] = days[j]
          /\ out # <<>> => Len(out) # 0
      BY <1>1, ConcatProperties, LenProperties, EmptySeq
    <3>2. HeldDays = h
      BY <1>1
    <3> HIDE DEF h
    <3>4. /\ HeldDays[1] = d /\ 1 \in 1 .. Len(HeldDays)
          /\ out # <<>> => 1 < Len(HeldDays)
      BY <2>1, <3>1, <3>2
    <3>5. daySpread.pc = "emit" => Len(written) + 1 < Len(AllDays)
      BY <1>1, <1>9, <3>4
    <3>3. DayCells(AllDays[Len(written) + 1]) \cap BufferCells = {}
      BY <1>9, <3>4, <3>5, DayAndBuffer
    <3> QED BY <1>9, <3>3, <3>4
  <2> QED BY <2>4, <2>9, <2>10
<1> HIDE DEF rest
<1>12. /\ held \cap (hand \cup next) = {} /\ BufferCells \cap next = {}
  BY <1>7, <1>8
<1> QED BY <1>10, <1>11, <1>12 DEF DayCellsDiffer, days, out, rest, held, hand, next

-----------------------------------------------------------------------------
(* The processor of days. *)

\* The operators of the module are those of the pipeline.
LEMMA DaySpreadNames ==
  /\ \A rows : /\ DaySpread!ToSet(rows) = ToSet(rows) /\ DaySpread!Last(rows) = Last(rows)
               /\ DaySpread!CellsOfAll(rows) = CellsOfAll(rows)
               /\ DaySpread!NewDaySpread(rows) = NewDaySpread(rows)
  /\ \A o : /\ DaySpread!KeyOf(o) = KeyOf(o) /\ DaySpread!StampOf(o) = StampOf(o)
            /\ DaySpread!QuoteOf(o) = QuoteOf(o) /\ DaySpread!SpreadOf(o) = SpreadOf(o)
  /\ \A id, part : DaySpread!Cell(id, part) = Cell(id, part)
  /\ \A reads, deletes, news :
       DaySpread!Access(reads, deletes, news) <=> Access(reads, deletes, news)
<1>1. \A id, part : DaySpread!Cell(id, part) = Cell(id, part)
  BY DEF DaySpread!Cell, Cell
<1>2. \A rows : DaySpread!ToSet(rows) = ToSet(rows) /\ DaySpread!Last(rows) = Last(rows)
  BY DEF DaySpread!ToSet, ToSet, DaySpread!Last, Last
<1>3. \A o : /\ DaySpread!KeyOf(o) = KeyOf(o) /\ DaySpread!StampOf(o) = StampOf(o)
             /\ DaySpread!QuoteOf(o) = QuoteOf(o) /\ DaySpread!SpreadOf(o) = SpreadOf(o)
  BY <1>1 DEF DaySpread!KeyOf, KeyOf, DaySpread!StampOf, StampOf, DaySpread!QuoteOf, QuoteOf,
              DaySpread!SpreadOf, SpreadOf
<1>4. \A o : DaySpread!CellsOf(o) = CellsOf(o)
  BY <1>3 DEF DaySpread!CellsOf, CellsOf
<1>5. \A rows : DaySpread!CellsOfAll(rows) = CellsOfAll(rows)
  BY <1>2, <1>4 DEF DaySpread!CellsOfAll, CellsOfAll
<1>6. \A rows : DaySpread!NewDaySpread(rows) = NewDaySpread(rows)
  BY <1>2 DEF DaySpread!NewDaySpread, NewDaySpread
<1>7. \A reads, deletes, news :
        DaySpread!Access(reads, deletes, news) <=> Access(reads, deletes, news)
  BY DEF DaySpread!Access, Access
<1> QED BY <1>1, <1>2, <1>3, <1>5, <1>6, <1>7

\* A step of the processor of days is one that all stages have or one of its handlers.
LEMMA DaySpreadActs ==
  ASSUME Types, DaySpreadControl, DaySpreadThread
  PROVE  \/ /\ Shared(ObsOf(file), DaysOf(file), daySpread, daySpread', relSpreadQueue,
                      relSpreadQueue', dayRelSpreadQueue, dayRelSpreadQueue', "clean")
            /\ UNCHANGED <<heap, wild, dropped>>
         \/ DaySpread!TakeObs \/ DaySpread!PeekSame \/ DaySpread!PeekOther
         \/ DaySpread!AtEnd \/ DaySpread!CleanBuffer
<1> DEFINE O == ObsOf(file)
           D == DaysOf(file)
           Common == /\ Shared(O, D, daySpread, daySpread', relSpreadQueue, relSpreadQueue',
                               dayRelSpreadQueue, dayRelSpreadQueue', "clean")
                     /\ UNCHANGED <<heap, wild, dropped>>
<1> SUFFICES \/ Common \/ DaySpread!TakeObs \/ DaySpread!PeekSame \/ DaySpread!PeekOther
             \/ DaySpread!AtEnd \/ DaySpread!CleanBuffer
  OBVIOUS
<1>1. /\ daySpread \in StageOf(O, D) /\ relSpreadQueue \in QueueOf(O)
      /\ dayRelSpreadQueue \in QueueOf(D)
      /\ daySpread.pc = "emit" => daySpread.outbox # <<>>
  BY DEF Types, DaySpreadControl, StageControl
<1> HIDE DEF O, D
<1>2. LET q == relSpreadQueue
      IN /\ Keeps(O, q, q)
         /\ Keeps(O, q, [q EXCEPT !.missed = TRUE])
         /\ Keeps(O, q, [q EXCEPT !.empty = TRUE, !.missed = FALSE])
         /\ Keeps(O, q, [q EXCEPT !.missed = FALSE])
         /\ q.items # <<>> => Pops(O, q, [q EXCEPT !.items = Tail(@), !.empty = FALSE])
  BY <1>1, QueueMoves, Zenon
<1>a. LET q == dayRelSpreadQueue
      IN /\ Keeps(D, q, q)
         /\ Keeps(D, q, [q EXCEPT !.full = TRUE])
         /\ Ends(D, q, [q EXCEPT !.atEnd = TRUE])
         /\ \A e \in D : Len(q.items) < MaxCapacity =>
              Pushes(D, q, [q EXCEPT !.items = Append(@, e), !.full = FALSE], e)
  BY <1>1, QueueMoves, Zenon
<1>3. CASE DaySpread!TryFails
  <2>1. /\ daySpread.pc \in {"take", "peek"} /\ daySpread' = daySpread
        /\ relSpreadQueue' = [relSpreadQueue EXCEPT !.missed = TRUE]
        /\ dayRelSpreadQueue' = dayRelSpreadQueue
        /\ UNCHANGED <<heap, wild, dropped>>
    BY <1>3 DEF DaySpread!TryFails, DaySpread!In!Miss, DaySpread!Quiet
  <2> QED BY <1>2, <1>a, <2>1, Zenon DEF Shared
<1>4. CASE DaySpread!Sleeps
  <2>1. /\ daySpread.pc \in {"take", "peek"} /\ daySpread' = daySpread
        /\ relSpreadQueue' = [relSpreadQueue EXCEPT !.empty = TRUE, !.missed = FALSE]
        /\ dayRelSpreadQueue' = dayRelSpreadQueue
        /\ UNCHANGED <<heap, wild, dropped>>
    BY <1>4 DEF DaySpread!Sleeps, DaySpread!In!Wait, DaySpread!Quiet
  <2> QED BY <1>2, <1>a, <2>1, Zenon DEF Shared
<1>5. CASE DaySpread!Emit
  <2>1. /\ daySpread.pc = "emit" /\ Len(dayRelSpreadQueue.items) < MaxCapacity
        /\ daySpread' = [daySpread EXCEPT !.outbox = Tail(@), !.pc = "clean"]
        /\ relSpreadQueue' = relSpreadQueue
        /\ dayRelSpreadQueue' = [dayRelSpreadQueue EXCEPT
                                   !.items = Append(@, Head(daySpread.outbox)), !.full = FALSE]
        /\ UNCHANGED <<heap, wild, dropped>>
    BY <1>5 DEF DaySpread!Emit, DaySpread!Emits, DaySpread!Out!Enqueue, DaySpread!Quiet
  <2>2. Head(daySpread.outbox) \in D
    BY <1>1, <2>1, HeadTailProperties DEF StageOf
  <2> QED BY <1>2, <1>a, <2>1, <2>2, Zenon DEF Shared
<1>6. CASE DaySpread!EmitBlocks
  <2>1. /\ daySpread.pc = "emit" /\ daySpread' = daySpread
        /\ relSpreadQueue' = relSpreadQueue
        /\ dayRelSpreadQueue' = [dayRelSpreadQueue EXCEPT !.full = TRUE]
        /\ UNCHANGED <<heap, wild, dropped>>
    BY <1>6 DEF DaySpread!EmitBlocks, DaySpread!Out!EnqueueBlocked, DaySpread!Quiet
  <2> QED BY <1>2, <1>a, <2>1, Zenon DEF Shared
<1>7. CASE DaySpread!Closes
  <2>1. /\ daySpread.pc = "close" /\ daySpread' = [daySpread EXCEPT !.pc = "done"]
        /\ relSpreadQueue' = relSpreadQueue
        /\ dayRelSpreadQueue' = [dayRelSpreadQueue EXCEPT !.atEnd = TRUE]
        /\ UNCHANGED <<heap, wild, dropped>>
    BY <1>7 DEF DaySpread!Closes, DaySpread!Out!SetQueueEnd, DaySpread!NoHeapUse
  <2> QED BY <1>2, <1>a, <2>1, Zenon DEF Shared
<1>8. CASE DaySpread!Fail
  <2>1. /\ dayRelSpreadQueue' = dayRelSpreadQueue
        /\ UNCHANGED <<heap, wild, dropped>>
        /\ \/ /\ daySpread.pc = "take" /\ relSpreadQueue.items # <<>>
              /\ relSpreadQueue' = [relSpreadQueue EXCEPT !.items = Tail(@), !.empty = FALSE]
              /\ daySpread' = [daySpread EXCEPT !.pc = "failed",
                                                !.hand = <<Head(relSpreadQueue.items)>>]
           \/ /\ daySpread.pc \in {"take", "peek"}
              /\ \/ relSpreadQueue' = relSpreadQueue
                 \/ relSpreadQueue' = [relSpreadQueue EXCEPT !.missed = FALSE]
              /\ daySpread' = [daySpread EXCEPT !.pc = "failed"]
    BY <1>8 DEF DaySpread!Fail, DaySpread!RaisesSilently, DaySpread!Raises, DaySpread!Quiet,
                DaySpread!In!Dequeue, DaySpread!In!CanTake, DaySpread!In!Front,
                DaySpread!EndsInput, DaySpread!In!ThrowEnd
  <2> QED BY <1>2, <1>a, <2>1, Zenon DEF Shared
<1> QED BY <1>3, <1>4, <1>5, <1>6, <1>7, <1>8 DEF DaySpreadThread, DaySpread!Step

\* Control and types of the other threads, whatever the processor of days does.
LEMMA DaySpreadNeighbours ==
  ASSUME Types, Control, DaySpreadThread,
         StepFits(ObsOf(file), DaysOf(file), daySpread, daySpread', relSpreadQueue,
                  relSpreadQueue', dayRelSpreadQueue, dayRelSpreadQueue'),
         dropped' = dropped,
         daySpread'.pc \in {"peek", "emit", "clean"} => daySpread'.buffer # <<>>,
         Len(daySpread'.outbox) <= 1
  PROVE  Types' /\ Control'
<1>1. UNCHANGED <<file, parser, merge, outliers, relSpread, writer, written,
                  parsedQueue, timestampMergedQueue, outliersFilteredQueue, main>>
  BY DEF DaySpreadThread
<1>2. Types'
  BY <1>1 DEF Types, StepFits
<1>3. DaySpreadControl'
  BY DEF DaySpreadControl, StepFits
<1>4. ParserControl' /\ MergeControl' /\ OutliersControl' /\ RelSpreadControl'
  BY <1>1 DEF Control, ParserControl, MergeControl, OutliersControl, RelSpreadControl,
              StageControl, StepFits
<1>5. WriterControl'
  <2>1. main # "returned"
    BY DEF Control, WriterControl, StepFits, Stages, PcOf
  <2>2. writer = "done" => dayRelSpreadQueue'.atEnd
    BY DEF Control, WriterControl, StepFits
  <2> QED BY <1>1, <2>1, <2>2 DEF WriterControl
<1> QED BY <1>2, <1>3, <1>4, <1>5 DEF Control

\* What the processor of days does among the last rows.
LEMMA DayFrame ==
  ASSUME PipelineInv, DaySpreadThread, Types', Control', dropped' = dropped,
         Sorted(LastRows'), Src(LastRows') = Src(LastRows),
         wild' = FALSE, heap' = LastCells' \cup Upstream, DaysApart', DayAtHand'
  PROVE  PipelineInv'
<1>1. UNCHANGED <<file, parser, merge, outliers, relSpread, parsedQueue,
                  timestampMergedQueue, outliersFilteredQueue, dropped>>
  BY DEF DaySpreadThread
<1>2. Ordered' /\ Upstream' = Upstream
  BY <1>1, LastFrame DEF PipelineInv
<1>3. HeapExact'
  BY <1>2 DEF HeapExact, LastCells, Upstream
<1> QED BY <1>1, <1>2, <1>3, StampsUntouched DEF PipelineInv

\* The steps it has in common with the other stages.
DayIdles(st, st1, in, in1, out, out1) ==
  \/ /\ st1.pc = st.pc /\ st1.outbox = st.outbox /\ st1.hand = st.hand
     /\ in1.items = in.items /\ out1.items = out.items
  \/ /\ st.pc = "emit" /\ st1.pc = "clean" /\ st.outbox # <<>> /\ st1.outbox = Tail(st.outbox)
     /\ st1.hand = st.hand /\ in1.items = in.items
     /\ out1.items = Append(out.items, Head(st.outbox))
  \/ /\ st.pc \in {"take", "peek", "close"} /\ st1.pc \in {"failed", "done"}
     /\ st1.outbox = st.outbox /\ out1.items = out.items
     /\ \/ st1.hand = st.hand /\ in1.items = in.items
        \/ /\ st.hand = <<>> /\ st1.hand = <<Head(in.items)>>
           /\ in.items # <<>> /\ in1.items = Tail(in.items)

LEMMA SharedDayIdles ==
  ASSUME NEW A, NEW B, NEW st \in StageOf(A, B), NEW st1, NEW in, NEW in1,
         NEW out, NEW out1,
         StageControl(st, in, out),
         Shared(A, B, st, st1, in, in1, out, out1, "clean")
  PROVE  DayIdles(st, st1, in, in1, out, out1)
<1>1. CASE /\ st.pc \in {"take", "peek", "emit"} /\ st1 = st
           /\ Keeps(A, in, in1) /\ Keeps(B, out, out1)
  BY <1>1 DEF DayIdles, Keeps
<1>2. CASE /\ st.pc = "emit" /\ st1 = [st EXCEPT !.outbox = Tail(@), !.pc = "clean"]
           /\ in1 = in /\ Pushes(B, out, out1, Head(st.outbox))
  <2>1. /\ st1.pc = "clean" /\ st1.outbox = Tail(st.outbox) /\ st1.hand = st.hand
        /\ st.outbox # <<>>
    BY <1>2 DEF StageOf, StageControl
  <2> QED BY <1>2, <2>1 DEF DayIdles, Pushes
<1>3. CASE /\ st.pc = "close" /\ st1 = [st EXCEPT !.pc = "done"]
           /\ in1 = in /\ Ends(B, out, out1)
  <2>1. st1.pc = "done" /\ st1.outbox = st.outbox /\ st1.hand = st.hand
    BY <1>3 DEF StageOf
  <2> QED BY <1>3, <2>1 DEF DayIdles, Ends
<1>4. CASE /\ st.pc = "take" /\ st1 = [st EXCEPT !.pc = "failed", !.hand = <<Head(in.items)>>]
           /\ Pops(A, in, in1) /\ (out1 = out \/ Ends(B, out, out1))
  <2>1. /\ st1.pc = "failed" /\ st1.outbox = st.outbox /\ st1.hand = <<Head(in.items)>>
        /\ st.hand = <<>>
    BY <1>4 DEF StageOf, StageControl
  <2> QED BY <1>4, <2>1 DEF DayIdles, Ends, Pops
<1>5. CASE /\ st.pc \in {"take", "peek"} /\ st1 = [st EXCEPT !.pc = "failed"]
           /\ Keeps(A, in, in1) /\ (out1 = out \/ Ends(B, out, out1))
  <2>1. st1.pc = "failed" /\ st1.outbox = st.outbox /\ st1.hand = st.hand
    BY <1>5 DEF StageOf
  <2> QED BY <1>5, <2>1 DEF DayIdles, Ends, Keeps
<1> QED BY <1>1, <1>2, <1>3, <1>4, <1>5 DEF Shared

LEMMA AtMostOne ==
  ASSUME NEW S, NEW s \in Seq(S), s # <<>>, Len(s) <= 1
  PROVE  Len(s) = 1 /\ Tail(s) = <<>>
<1>1. Len(s) \in Nat /\ Len(s) # 0
  BY EmptySeq, LenProperties
<1>2. Len(s) = 1
  BY <1>1
<1>3. Tail(s) \in Seq(S) /\ Len(Tail(s)) = 0
  BY <1>2, HeadTailProperties
<1> QED BY <1>2, <1>3, EmptySeq

\* The day the processor is about to enqueue has the cells of the first observation.
LEMMA DayToEmit ==
  ASSUME PipelineInv, daySpread.pc = "emit"
  PROVE  KeyOf(daySpread.buffer[1]) \subseteq DayCellsOfAll(HeldDays)
<1> DEFINE D == DaysOf(file)
           out == daySpread.outbox
           q == dayRelSpreadQueue.items
<1>1. /\ out \in Seq(D) /\ q \in Seq(D) /\ written \in Seq(D) /\ out # <<>> /\ Len(out) <= 1
      /\ Last(AllDays).id = daySpread.buffer[1].id
      /\ AllDays = (written \o q) \o out /\ HeldDays = q \o out
  BY DEF PipelineInv, Types, StageOf, QueueOf, Control, DaySpreadControl, StageControl,
         DayAtHand, AllDays, HeldDays
<1> HIDE DEF D, out, q
<1>2. out[1] \in ToSet(out) /\ Len(out) = 1
  <2>1. Len(out) = 1
    BY <1>1, AtMostOne
  <2> QED BY <1>1, <2>1, CellsOfMembers
<1>3. Last(AllDays) = out[1]
  <2> DEFINE p == written \o q
  <2>1. p \in Seq(D)
    BY <1>1, ConcatProperties
  <2> HIDE DEF p
  <2> DEFINE s == p \o out
  <2>2. /\ s \in Seq(D) /\ Len(s) = Len(p) + Len(out) /\ Len(p) \in Nat
        /\ \A i \in 1 .. Len(out) : s[Len(p) + i] = out[i]
    BY <1>1, <2>1, ConcatProperties, LenProperties
  <2> HIDE DEF s
  <2>3. s # <<>> /\ s[Len(s)] = out[1]
    BY <1>2, <2>2, EmptySeq
  <2>4. Last(s) = s[Len(s)]
    BY <2>2, <2>3, LastDay
  <2> QED BY <1>1, <2>3, <2>4 DEF s, p
<1>4. ToSet(HeldDays) = ToSet(q) \cup ToSet(out)
  BY <1>1, SrcOfConcat
<1>5. KeyOf(daySpread.buffer[1]) = KeyOf(out[1])
  BY <1>1, <1>3 DEF KeyOf, Cell
<1>6. out[1] \in ToSet(HeldDays) /\ KeyOf(out[1]) \subseteq DayCells(out[1])
  BY <1>2, <1>4 DEF DayCells
<1> QED BY <1>5, <1>6 DEF DayCellsOfAll

\* The processor of days waits, enqueues, closes its output or fails.
LEMMA DaySpreadIdles ==
  ASSUME PipelineInv, DaySpreadThread,
         Shared(ObsOf(file), DaysOf(file), daySpread, daySpread', relSpreadQueue,
                relSpreadQueue', dayRelSpreadQueue, dayRelSpreadQueue', "clean"),
         UNCHANGED <<heap, wild, dropped>>
  PROVE  PipelineInv'
<1> DEFINE O == ObsOf(file)
           D == DaysOf(file)
           R == RowOf(file)
           in == relSpreadQueue.items
           in1 == relSpreadQueue'.items
           q == dayRelSpreadQueue.items
           q1 == dayRelSpreadQueue'.items
           out == daySpread.outbox
           out1 == daySpread'.outbox
           idles == DayIdles(daySpread, daySpread', relSpreadQueue, relSpreadQueue',
                             dayRelSpreadQueue, dayRelSpreadQueue')
<1>1. /\ daySpread \in StageOf(O, D) /\ relSpreadQueue \in QueueOf(O)
      /\ dayRelSpreadQueue \in QueueOf(D) /\ file \in Files
      /\ StageControl(daySpread, relSpreadQueue, dayRelSpreadQueue)
      /\ daySpread.pc \in {"peek", "emit", "clean"} => daySpread.buffer # <<>>
      /\ Len(out) <= 1 /\ written \in Seq(D)
      /\ daySpread.pc = "emit" => daySpread.buffer # <<>>
  BY DEF PipelineInv, Types, Control, DaySpreadControl
<1>2. /\ in \in Seq(O) /\ q \in Seq(D) /\ out \in Seq(D) /\ daySpread.hand \in Seq(O)
      /\ daySpread.buffer \in Seq(O) /\ DayBuffer \in Seq(O)
  <2>1. <<>> \in Seq(O)
    OBVIOUS
  <2> QED BY <1>1, <2>1 DEF StageOf, QueueOf, DayBuffer
<1>3. /\ file' = file /\ written' = written
      /\ UNCHANGED <<heap, wild, dropped>>
  BY DEF DaySpreadThread
<1>4. Shared(O, D, daySpread, daySpread', relSpreadQueue, relSpreadQueue',
             dayRelSpreadQueue, dayRelSpreadQueue', "clean")
  OBVIOUS
<1> HIDE DEF O, D
<1>5. /\ StepFits(O, D, daySpread, daySpread', relSpreadQueue, relSpreadQueue',
                  dayRelSpreadQueue, dayRelSpreadQueue')
      /\ KeepsBuffer(daySpread, daySpread')
  <2> DEFINE next == "clean"
  <2>1. daySpread.pc = "emit" =>
           /\ next \in {"take", "emit", "clean", "close"}
           /\ next = "emit" <=> Tail(out) # <<>>
           /\ next = "take" => ~daySpread.ending
           /\ next = "close" => daySpread.buffer = <<>>
    <3>1. out # <<>> => Tail(out) = <<>>
      BY <1>1, <1>2, AtMostOne
    <3> QED BY <1>1, <3>1 DEF StageControl
  <2>2. Shared(O, D, daySpread, daySpread', relSpreadQueue, relSpreadQueue',
               dayRelSpreadQueue, dayRelSpreadQueue', next)
    BY <1>4
  <2> HIDE DEF next
  <2> QED BY <1>1, <2>1, <2>2, SharedFits
<1>6. daySpread'.buffer = daySpread.buffer /\ daySpread'.ending = daySpread.ending
  BY <1>5 DEF KeepsBuffer
<1>7. idles
  BY <1>1, <1>4, SharedDayIdles
<1>8. out # <<>> => /\ Head(out) \in D /\ Tail(out) \in Seq(D)
                    /\ Len(Tail(out)) <= 1
  <2> SUFFICES ASSUME out # <<>> PROVE /\ Head(out) \in D /\ Tail(out) \in Seq(D)
                                       /\ Len(Tail(out)) <= 1
    OBVIOUS
  <2>1. Len(Tail(out)) = Len(out) - 1 /\ Len(out) \in Nat
    BY <1>2, HeadTailProperties, LenProperties
  <2> QED BY <1>1, <1>2, <2>1, HeadTailProperties
<1>9. /\ daySpread'.pc \in {"peek", "emit", "clean"} => daySpread'.buffer # <<>>
      /\ Len(out1) <= 1
      /\ DayBuffer' = DayBuffer
  BY <1>1, <1>6, <1>7, <1>8 DEF DayIdles, DayBuffer
<1>10. Types' /\ Control'
  BY <1>3, <1>5, <1>9, DaySpreadNeighbours DEF PipelineInv, O, D
<1>11. LastRows' = LastRows
  <2>1. /\ in \in Seq(R) /\ q \in Seq(R) /\ out \in Seq(R) /\ daySpread.hand \in Seq(R)
        /\ DayBuffer \in Seq(R)
    BY <1>1, <1>2, RowsInFile DEF O, D
  <2> DEFINE b == DayBuffer
  <2> HIDE DEF R, b
  <2>2. SameRows(daySpread, daySpread', relSpreadQueue, relSpreadQueue',
                 dayRelSpreadQueue, dayRelSpreadQueue', b)
    BY <1>1, <1>4, <2>1, SharedRows DEF b
  <2>3. DaySpreadRows' = DaySpreadRows
    BY <1>9, <2>2 DEF DaySpreadRows, SameRows, b
  <2> QED BY <1>3, <2>3 DEF LastRows
<1>12. AllDays' = AllDays /\ HeldDays' = HeldDays
  <2>1. CASE q1 = q /\ out1 = out
    BY <1>3, <2>1 DEF AllDays, HeldDays
  <2>2. CASE out # <<>> /\ out1 = Tail(out) /\ q1 = Append(q, Head(out))
    <3>1. Passed(written, q, out)
      BY <1>1, <1>2, <2>2, Passes
    <3>2. Append(q, Head(out)) \o Tail(out) = q \o out
      BY <1>2, <2>2, Shift
    <3> QED BY <1>3, <2>2, <3>1, <3>2 DEF AllDays, HeldDays, Passed
  <2> QED BY <1>7, <2>1, <2>2 DEF DayIdles
<1>13. wild' = FALSE /\ heap' = LastCells' \cup Upstream
  <2>1. wild = FALSE /\ heap = LastCells \cup Upstream
    BY HeapParts DEF PipelineInv
  <2>2. LastCells' = LastCells
    <3>1. DayCellsOfAll(HeldDays') \cup BufferCells' = DayCellsOfAll(HeldDays) \cup BufferCells
      <4>1. CASE daySpread.pc = "emit" /\ daySpread'.pc = "clean"
        <5>1. KeyOf(daySpread.buffer[1]) \subseteq DayCellsOfAll(HeldDays)
          BY <4>1, DayToEmit
        <5> QED BY <1>6, <1>12, <4>1, <5>1 DEF BufferCells
      <4>2. CASE daySpread'.pc = "clean" <=> daySpread.pc = "clean"
        BY <1>6, <1>12, <4>2 DEF BufferCells
      <4> QED BY <1>7, <4>1, <4>2 DEF DayIdles
    <3>2. CellsOfAll(daySpread'.hand) \cup CellsOfAll(in1)
            = CellsOfAll(daySpread.hand) \cup CellsOfAll(in)
      <4>1. CASE daySpread'.hand = daySpread.hand /\ in1 = in
        BY <4>1
      <4>2. CASE /\ daySpread.hand = <<>> /\ daySpread'.hand = <<Head(in)>>
                 /\ in # <<>> /\ in1 = Tail(in)
        <5> DEFINE h == <<Head(in)>>
                   t == Tail(in)
        <5>1. h \in Seq(O) /\ t \in Seq(O) /\ in = h \o t
          <6> HIDE DEF h
          <6>1. <<Head(in)>> \in Seq(O) /\ Tail(in) \in Seq(O) /\ in = <<Head(in)>> \o Tail(in)
            BY <1>2, <4>2, HeadAndTail
          <6> QED BY <6>1 DEF h
        <5>2. CellsOfAll(<<>>) = {}
          BY CellsOfFew
        <5>3. daySpread.hand = <<>> /\ daySpread'.hand = h /\ in1 = t
          BY <4>2
        <5> HIDE DEF h, t, in1
        <5>4. CellsOfAll(in) = CellsOfAll(h) \cup CellsOfAll(t)
          BY <5>1, CellsOfConcat
        <5> QED BY <5>2, <5>3, <5>4
      <4> QED BY <1>7, <4>1, <4>2 DEF DayIdles
    <3> QED BY <3>1, <3>2 DEF LastCells
  <2> QED BY <1>3, <2>1, <2>2
<1>14. DayAtHand'
  BY <1>6, <1>7, <1>12 DEF PipelineInv, DayAtHand, DayIdles
<1>15. DaysApart'
  <2>1. DaysApart
    BY DEF PipelineInv
  <2>2. CASE daySpread'.pc = daySpread.pc /\ in1 = in
    BY <1>6, <1>12, <2>1, <2>2 DEF DaysApart
  <2>3. CASE daySpread.pc = "emit" /\ daySpread'.pc = "clean" /\ in1 = in
    BY <1>6, <1>12, <2>1, <2>3 DEF DaysApart
  <2>4. CASE daySpread'.pc \in {"failed", "done"}
    BY <1>6, <1>12, <2>1, <2>4 DEF DaysApart
  <2> QED BY <1>7, <2>2, <2>3, <2>4 DEF DayIdles
<1>16. Sorted(LastRows') /\ Src(LastRows') = Src(LastRows)
  BY <1>11, DaysInOrder DEF PipelineInv, DayOrder
<1> QED BY <1>3, <1>10, <1>13, <1>14, <1>15, <1>16, DayFrame

\* What the invariant says of the processor of days when it is in one of its handlers.
DayFacts ==
  /\ file \in Files /\ daySpread \in StageOf(ObsOf(file), DaysOf(file))
  /\ relSpreadQueue \in QueueOf(ObsOf(file)) /\ dayRelSpreadQueue \in QueueOf(DaysOf(file))
  /\ StageControl(daySpread, relSpreadQueue, dayRelSpreadQueue)
  /\ daySpread.pc \in {"peek", "emit", "clean"} => daySpread.buffer # <<>>
  /\ relSpreadQueue.items \in Seq(ObsOf(file)) /\ dayRelSpreadQueue.items \in Seq(DaysOf(file))
  /\ daySpread.buffer \in Seq(ObsOf(file)) /\ written \in Seq(DaysOf(file))
  /\ dropped \subseteq DOMAIN file
  /\ daySpread.pc # "emit" => daySpread.outbox = <<>>
  /\ daySpread.pc # "failed" => daySpread.hand = <<>>
  /\ wild = FALSE /\ heap = LastCells \cup Upstream

LEMMA DayAtWork == PipelineInv => DayFacts
<1> SUFFICES ASSUME PipelineInv PROVE DayFacts
  OBVIOUS
<1>1. /\ file \in Files /\ daySpread \in StageOf(ObsOf(file), DaysOf(file))
      /\ relSpreadQueue \in QueueOf(ObsOf(file)) /\ dayRelSpreadQueue \in QueueOf(DaysOf(file))
      /\ StageControl(daySpread, relSpreadQueue, dayRelSpreadQueue)
      /\ daySpread.pc \in {"peek", "emit", "clean"} => daySpread.buffer # <<>>
      /\ written \in Seq(DaysOf(file))
      /\ dropped \subseteq DOMAIN file
  BY DEF PipelineInv, Types, Control, DaySpreadControl
<1>2. /\ relSpreadQueue.items \in Seq(ObsOf(file)) /\ dayRelSpreadQueue.items \in Seq(DaysOf(file))
      /\ daySpread.buffer \in Seq(ObsOf(file))
  BY <1>1 DEF StageOf, QueueOf
<1>3. /\ daySpread.pc # "emit" => daySpread.outbox = <<>>
      /\ daySpread.pc # "failed" => daySpread.hand = <<>>
  BY <1>1 DEF StageControl
<1>4. wild = FALSE /\ heap = LastCells \cup Upstream
  BY HeapParts DEF PipelineInv
<1> QED BY <1>1, <1>2, <1>3, <1>4 DEF DayFacts

LEMMA Appended ==
  ASSUME NEW S, NEW s \in Seq(S), NEW e \in S
  PROVE  /\ Append(s, e) \in Seq(S) /\ Append(s, e) # <<>>
         /\ Len(Append(s, e)) = Len(s) + 1 /\ Len(s) \in Nat
         /\ \A i \in 1 .. Len(s) : Append(s, e)[i] = s[i]
         /\ Append(s, e)[Len(s) + 1] = e
         /\ s = <<>> <=> Len(s) = 0
<1>1. /\ Append(s, e) \in Seq(S) /\ Len(Append(s, e)) = Len(s) + 1
      /\ \A i \in 1 .. Len(s) : Append(s, e)[i] = s[i]
      /\ Append(s, e)[Len(s) + 1] = e
  BY AppendProperties
<1>2. Len(s) \in Nat /\ (s = <<>> <=> Len(s) = 0)
  BY LenProperties, EmptySeq
<1>3. Append(s, e) # <<>>
  BY <1>1, <1>2, EmptySeq
<1> QED BY <1>1, <1>2, <1>3

\* pollDayObs() takes an observation: it has the date of those in the buffer.
LEMMA DayTakes ==
  ASSUME PipelineInv, DaySpreadThread, DaySpread!TakeObs
  PROVE  PipelineInv'
<1> DEFINE O == ObsOf(file)
           D == DaysOf(file)
           R == RowOf(file)
           in == relSpreadQueue.items
           q == dayRelSpreadQueue.items
           b == daySpread.buffer
           b1 == Append(b, Head(in))
           t == Tail(in)
<1>1. DayFacts
  BY DayAtWork
<1>2. /\ daySpread.pc = "take" /\ in # <<>>
      /\ relSpreadQueue' = [relSpreadQueue EXCEPT !.items = Tail(@), !.empty = FALSE]
      /\ daySpread' = [daySpread EXCEPT !.pc = "peek", !.buffer = Append(@, Head(in))]
      /\ dayRelSpreadQueue' = dayRelSpreadQueue
      /\ UNCHANGED <<heap, wild, dropped>>
  BY DEF DaySpread!TakeObs, DaySpread!Takes, DaySpread!In!Dequeue, DaySpread!In!CanTake,
         DaySpread!In!Front, DaySpread!Quiet
<1>3. /\ in \in Seq(O) /\ q \in Seq(D) /\ b \in Seq(O) /\ written \in Seq(D)
      /\ daySpread.outbox = <<>> /\ daySpread.hand = <<>> /\ ~daySpread.ending
      /\ file \in Files
  BY <1>1, <1>2 DEF DayFacts, StageControl
<1>4. /\ file' = file /\ written' = written
  BY DEF DaySpreadThread
<1>5. Pops(O, relSpreadQueue, relSpreadQueue')
  BY <1>1, <1>2, QueueMoves, Zenon DEF DayFacts
<1>6. /\ Head(in) \in O /\ t \in Seq(O) /\ Head(in) = in[1] /\ in = <<Head(in)>> \o t
      /\ <<Head(in)>> \in Seq(O)
  BY <1>2, <1>3, HeadAndTail
<1>7. /\ b1 \in Seq(O) /\ b1 # <<>> /\ Len(b1) = Len(b) + 1 /\ Len(b) \in Nat
      /\ \A i \in 1 .. Len(b) : b1[i] = b[i]
      /\ b1[Len(b) + 1] = Head(in)
      /\ b = <<>> <=> Len(b) = 0
  <2> HIDE DEF O, in, b
  <2>1. b \in Seq(O) /\ Head(in) \in O
    BY <1>3, <1>6
  <2> QED BY <2>1, Appended
<1>8. /\ daySpread' \in StageOf(O, D) /\ daySpread'.pc = "peek" /\ daySpread'.buffer = b1
      /\ daySpread'.outbox = <<>> /\ daySpread'.hand = <<>>
      /\ daySpread'.ending = daySpread.ending
  BY <1>1, <1>2, <1>3, <1>7 DEF DayFacts, StageOf
<1>9. Types' /\ Control'
  <2>1. StepFits(O, D, daySpread, daySpread', relSpreadQueue, relSpreadQueue',
                 dayRelSpreadQueue, dayRelSpreadQueue')
    BY <1>1, <1>2, <1>3, <1>5, <1>8 DEF DayFacts, StepFits, StageControl, Over, Pops
  <2>2. Len(daySpread'.outbox) <= 1 /\ daySpread'.buffer # <<>> /\ dropped' = dropped
    BY <1>2, <1>7, <1>8
  <2> QED BY <2>1, <2>2, DaySpreadNeighbours DEF PipelineInv
<1>10. LastRows' = LastRows
  <2>1. in \in Seq(R) /\ q \in Seq(R) /\ b \in Seq(R) /\ <<>> \in Seq(R)
    BY <1>3, RowsInFile
  <2>2. /\ DaySpreadRows = Between(q, <<>>, b, <<>>, in)
        /\ DaySpreadRows' = Between(q, <<>>, b1, <<>>, t)
    BY <1>2, <1>3, <1>8 DEF DaySpreadRows, DayBuffer
  <2> HIDE DEF R, in, q, b
  <2>3. Taking(q, <<>>, b, in)
    BY <1>2, <2>1, BetweenTake
  <2> QED BY <1>4, <2>2, <2>3 DEF LastRows, Taking, in
<1>11. AllDays' = AllDays /\ HeldDays' = HeldDays
  BY <1>2, <1>3, <1>4, <1>8 DEF AllDays, HeldDays
<1>12. wild' = FALSE /\ heap' = LastCells' \cup Upstream
  <2>1. /\ BufferCells = CellsOfAll(b) /\ BufferCells' = CellsOfAll(b1)
        /\ relSpreadQueue'.items = t
    BY <1>2, <1>5, <1>8 DEF BufferCells, Pops
  <2> DEFINE h == <<Head(in)>>
  <2>2. h \in Seq(O) /\ t \in Seq(O) /\ in = h \o t /\ b1 = b \o h
    <3>1. Append(b, Head(in)) = b \o <<Head(in)>>
      BY <1>3, <1>6, AppendIsConcat
    <3> QED BY <1>6, <3>1
  <2> HIDE DEF h, t, b1, b, in, O
  <2>3. CellsOfAll(b1) = CellsOfAll(b) \cup CellsOfAll(h)
    BY <1>3, <2>2, CellsOfConcat
  <2>4. CellsOfAll(in) = CellsOfAll(h) \cup CellsOfAll(t)
    BY <2>2, CellsOfConcat
  <2>5. LastCells' = LastCells
    BY <1>3, <1>8, <1>11, <2>1, <2>3, <2>4 DEF LastCells, in
  <2> QED BY <1>1, <1>2, <2>5 DEF DayFacts
<1>13. DayAtHand'
  BY <1>8 DEF DayAtHand
<1>14. DaysApart'
  <2>1. /\ DatesDiffer(AllDays)
        /\ \A i \in 1 .. Len(b) : b[i].date = b[1].date
        /\ b # <<>> /\ AllDays # <<>> => Last(AllDays).date # b[1].date
        /\ b # <<>> => in[1].date = b[1].date
        /\ b = <<>> /\ AllDays # <<>> => in[1].date # Last(AllDays).date
    <3>1. daySpread.pc = "take" /\ ~daySpread.ending
      BY <1>2, <1>3
    <3> QED BY <3>1 DEF PipelineInv, DaysApart
  <2>2. \A i \in 1 .. Len(b1) : b1[i].date = b1[1].date
    <3> SUFFICES ASSUME NEW i \in 1 .. Len(b1) PROVE b1[i].date = b1[1].date
      OBVIOUS
    <3> HIDE DEF b1, b, in
    <3>1. CASE b = <<>>
      BY <1>7, <3>1
    <3>2. CASE b # <<>> /\ i \in 1 .. Len(b)
      BY <1>7, <2>1, <3>2
    <3>3. CASE b # <<>> /\ i = Len(b) + 1
      BY <1>6, <1>7, <2>1, <3>3
    <3> QED BY <1>7, <3>1, <3>2, <3>3
  <2>3. AllDays # <<>> => Last(AllDays).date # b1[1].date
    <3> HIDE DEF b1, b, in
    <3>1. CASE b = <<>>
      BY <1>6, <1>7, <2>1, <3>1
    <3>2. CASE b # <<>>
      BY <1>7, <2>1, <3>2
    <3> QED BY <3>1, <3>2
  <2> HIDE DEF b1
  <2> QED BY <1>8, <1>11, <2>1, <2>2, <2>3 DEF DaysApart
<1>15. Sorted(LastRows') /\ Src(LastRows') = Src(LastRows)
  BY <1>10, DaysInOrder DEF PipelineInv, DayOrder
<1> QED BY <1>2, <1>9, <1>12, <1>13, <1>14, <1>15, DayFrame

\* pollDayObs() sees that the day goes on.
LEMMA DayGoesOn ==
  ASSUME PipelineInv, DaySpreadThread, DaySpread!PeekSame
  PROVE  PipelineInv'
<1> DEFINE O == ObsOf(file)
           D == DaysOf(file)
           in == relSpreadQueue.items
           b == daySpread.buffer
           reads == KeyOf(Head(in)) \cup KeyOf(Last(b))
<1>1. DayFacts
  BY DayAtWork
<1>2. /\ daySpread.pc = "peek" /\ in # <<>>
      /\ relSpreadQueue' = [relSpreadQueue EXCEPT !.empty = FALSE]
      /\ daySpread' = [daySpread EXCEPT !.pc = "take"]
      /\ dayRelSpreadQueue' = dayRelSpreadQueue
      /\ Head(in).date = Last(b).date
      /\ Access(reads, {}, {}) /\ dropped' = dropped
  BY DaySpreadNames
     DEF DaySpread!PeekSame, DaySpread!In!Peek, DaySpread!In!CanTake, DaySpread!In!Front,
         DaySpread!DayOver, DaySpread!Reads
<1>3. /\ in \in Seq(O) /\ b \in Seq(O) /\ b # <<>> /\ file \in Files
      /\ daySpread.outbox = <<>> /\ daySpread.hand = <<>> /\ ~daySpread.ending
  BY <1>1, <1>2 DEF DayFacts, StageControl
<1>4. /\ file' = file /\ written' = written
  BY DEF DaySpreadThread
<1>5. Keeps(O, relSpreadQueue, relSpreadQueue')
  BY <1>1, <1>2, QueueMoves, Zenon DEF DayFacts
<1>6. Head(in) = in[1] /\ Head(in) \in ToSet(in) /\ Last(b) \in ToSet(b)
      /\ Last(b) = b[Len(b)] /\ Len(b) \in 1 .. Len(b)
  <2>1. Head(in) = in[1]
    BY <1>2, <1>3, HeadAndTail
  <2>2. Head(in) \in ToSet(in) /\ Last(b) \in ToSet(b)
    BY <1>2, <1>3, CellsOfMembers
  <2>3. Last(b) = b[Len(b)] /\ Len(b) \in Nat \ {0}
    BY <1>3, LastDay, HeadAndTail
  <2> QED BY <2>1, <2>2, <2>3
<1>7. /\ daySpread' \in StageOf(O, D) /\ daySpread'.pc = "take" /\ daySpread'.buffer = b
      /\ daySpread'.outbox = <<>> /\ daySpread'.hand = <<>>
      /\ daySpread'.ending = daySpread.ending
      /\ relSpreadQueue'.items = in
  BY <1>1, <1>2, <1>3, <1>5 DEF DayFacts, StageOf, Keeps
<1>8. Types' /\ Control'
  <2>1. StepFits(O, D, daySpread, daySpread', relSpreadQueue, relSpreadQueue',
                 dayRelSpreadQueue, dayRelSpreadQueue')
    BY <1>1, <1>2, <1>3, <1>5, <1>7 DEF DayFacts, StepFits, StageControl, Over, Keeps
  <2>2. Len(daySpread'.outbox) <= 1 /\ daySpread'.buffer # <<>> /\ dropped' = dropped
    BY <1>2, <1>3, <1>7
  <2> QED BY <2>1, <2>2, DaySpreadNeighbours DEF PipelineInv
<1>9. /\ LastRows' = LastRows /\ AllDays' = AllDays /\ HeldDays' = HeldDays
      /\ BufferCells = CellsOfAll(b) /\ BufferCells' = CellsOfAll(b)
  BY <1>2, <1>3, <1>4, <1>7
     DEF LastRows, DaySpreadRows, DayBuffer, AllDays, HeldDays, BufferCells
<1>10. wild' = FALSE /\ heap' = LastCells' \cup Upstream
  <2>1. reads \subseteq CellsOfAll(in) \cup CellsOfAll(b)
    BY <1>6 DEF CellsOfAll, CellsOf
  <2>2. reads \subseteq heap
    BY <1>1, <1>9, <2>1 DEF DayFacts, LastCells
  <2>3. LastCells' = LastCells
    BY <1>3, <1>7, <1>9 DEF LastCells
  <2> HIDE DEF reads
  <2> QED BY <1>1, <1>2, <2>2, <2>3 DEF DayFacts, Access
<1>11. DayAtHand'
  BY <1>7 DEF DayAtHand
<1>12. DaysApart'
  <2>1. /\ DatesDiffer(AllDays)
        /\ \A i \in 1 .. Len(b) : b[i].date = b[1].date
        /\ AllDays # <<>> => Last(AllDays).date # b[1].date
    BY <1>2, <1>3 DEF PipelineInv, DaysApart
  <2>2. in[1].date = b[1].date
    BY <1>2, <1>6, <2>1
  <2> QED BY <1>2, <1>3, <1>7, <1>9, <2>1, <2>2 DEF DaysApart
<1>13. Sorted(LastRows') /\ Src(LastRows') = Src(LastRows)
  BY <1>9, DaysInOrder DEF PipelineInv, DayOrder
<1> QED BY <1>2, <1>8, <1>10, <1>11, <1>12, <1>13, DayFrame

\* The day made of the buffer is one of the file's.
LEMMA DayOfBuffer ==
  ASSUME NEW f \in Files, NEW b \in Seq(ObsOf(f)), b # <<>>,
         \A i \in 1 .. Len(b) : b[i].date = b[1].date
  PROVE  /\ NewDaySpread(b) \in DaysOf(f)
         /\ NewDaySpread(b).id = b[1].id /\ NewDaySpread(b).date = b[1].date
         /\ NewDaySpread(b).src = Src(b)
<1>1. /\ NewDaySpread(b) = [id |-> b[1].id, date |-> b[1].date, src |-> Src(b)]
      /\ b[1] \in ObsOf(f) /\ b[1] \in ToSet(b)
  BY HeadAndTail, CellsOfMembers DEF NewDaySpread, Src
<1>2. /\ b[1].id \in Nat /\ b[1].date \in Nat /\ b[1].id \in b[1].src
      /\ b[1].src \subseteq Src(b)
  BY <1>1, CellsOfMembers DEF ObsOf, Stands
<1>3. ASSUME NEW l \in Src(b)
      PROVE  l \in Nat /\ l \in DOMAIN f /\ f[l].date = b[1].date
  <2>1. PICK i \in 1 .. Len(b) : l \in b[i].src
    BY SrcOfSeq
  <2>2. b[i] \in ObsOf(f) /\ b[i].date = b[1].date
    BY ElementOfSeq
  <2> QED BY <2>1, <2>2 DEF ObsOf, Stands
<1> DEFINE d == NewDaySpread(b)
<1>4. /\ d \in [id : Nat, date : Nat, src : SUBSET Nat]
      /\ d.id = b[1].id /\ d.date = b[1].date /\ d.src = Src(b)
  BY <1>1, <1>2, <1>3
<1> HIDE DEF d
<1>5. Stands(d, f)
  BY <1>2, <1>3, <1>4 DEF Stands
<1> QED BY <1>4, <1>5 DEF DaysOf, d

LEMMA DatesAppended ==
  ASSUME NEW S, NEW s \in Seq(S), NEW e \in S, DatesDiffer(s),
         s # <<>> => Last(s).date # e.date
  PROVE  DatesDiffer(s \o <<e>>) /\ s \o <<e>> # <<>> /\ Last(s \o <<e>>) = e
<1> DEFINE t == Append(s, e)
<1>1. t = s \o <<e>>
  BY AppendIsConcat
<1>2. /\ t \in Seq(S) /\ t # <<>> /\ Len(t) = Len(s) + 1 /\ Len(s) \in Nat
      /\ \A i \in 1 .. Len(s) : t[i] = s[i]
      /\ t[Len(s) + 1] = e
      /\ s = <<>> <=> Len(s) = 0
  BY Appended
<1> HIDE DEF t
<1>3. Last(t) = e
  BY <1>2, LastDay
<1>4. ASSUME NEW i \in 1 .. Len(t) - 1 PROVE t[i].date # t[i + 1].date
  <2>1. CASE i < Len(s)
    <3>1. i \in 1 .. Len(s) - 1 /\ i \in 1 .. Len(s) /\ i + 1 \in 1 .. Len(s)
      BY <1>2, <2>1
    <3>2. s[i].date # s[i + 1].date
      BY <3>1 DEF DatesDiffer
    <3> QED BY <1>2, <3>1, <3>2
  <2>2. CASE i = Len(s)
    <3>1. s # <<>>
      BY <1>2, <2>2
    <3>2. Last(s) = s[Len(s)]
      BY <3>1, LastDay
    <3>3. t[i] = s[Len(s)] /\ t[i + 1] = e
      BY <1>2, <2>2
    <3> QED BY <3>1, <3>2, <3>3
  <2> QED BY <1>2, <2>1, <2>2
<1>5. DatesDiffer(t)
  BY <1>4 DEF DatesDiffer
<1> QED BY <1>1, <1>2, <1>3, <1>5

Unnests(a, q, m, in) == a \o (q \o m \o in) = (a \o q) \o m \o in

LEMMA Unnested ==
  ASSUME NEW S, NEW a \in Seq(S), NEW q \in Seq(S), NEW m \in Seq(S), NEW in \in Seq(S)
  PROVE  Unnests(a, q, m, in)
<1>1. Regroups3(S, a, q, m, in)
  BY Regroup3
<1> QED BY <1>1 DEF Unnests, Regroups3, Cat

\* A day is built of the buffer: another one follows, or the input has ended.
LEMMA DayBuilt ==
  ASSUME PipelineInv, DaySpreadThread, daySpread.pc \in {"take", "peek"},
         daySpread.buffer # <<>>, NEW ending \in BOOLEAN, NEW reads,
         daySpread' = [daySpread EXCEPT !.pc = "emit", !.ending = ending,
                                        !.outbox = <<NewDaySpread(daySpread.buffer)>>],
         dayRelSpreadQueue' = dayRelSpreadQueue, dropped' = dropped,
         Keeps(ObsOf(file), relSpreadQueue, relSpreadQueue'),
         ending => relSpreadQueue.atEnd,
         ~ending => /\ relSpreadQueue.items # <<>>
                    /\ relSpreadQueue.items[1].date # daySpread.buffer[1].date,
         reads \subseteq CellsOfAll(daySpread.buffer) \cup CellsOfAll(relSpreadQueue.items),
         Access(reads, {}, {Cell(daySpread.buffer[1].id, "mean")})
  PROVE  PipelineInv'
<1> DEFINE O == ObsOf(file)
           D == DaysOf(file)
           R == RowOf(file)
           in == relSpreadQueue.items
           q == dayRelSpreadQueue.items
           b == daySpread.buffer
           day == NewDaySpread(b)
           one == <<day>>
           mean == {Cell(b[1].id, "mean")}
<1>1. DayFacts /\ DayOrder
  BY DayAtWork, DaysInOrder DEF PipelineInv
<1>2. /\ in \in Seq(O) /\ q \in Seq(D) /\ b \in Seq(O) /\ written \in Seq(D)
      /\ daySpread.outbox = <<>> /\ daySpread.hand = <<>> /\ ~daySpread.ending
      /\ file \in Files
  BY <1>1 DEF DayFacts, StageControl
<1>3. /\ file' = file /\ written' = written
  BY DEF DaySpreadThread
<1>4. /\ DatesDiffer(AllDays)
      /\ \A i \in 1 .. Len(b) : b[i].date = b[1].date
      /\ AllDays # <<>> => Last(AllDays).date # b[1].date
  BY DEF PipelineInv, DaysApart
<1>5. /\ day \in D /\ day.id = b[1].id /\ day.date = b[1].date /\ day.src = Src(b)
  BY <1>2, <1>4, DayOfBuffer
<1>6. one \in Seq(D)
  BY <1>5
<1>7. /\ daySpread' \in StageOf(O, D) /\ daySpread'.pc = "emit" /\ daySpread'.buffer = b
      /\ daySpread'.outbox = one /\ daySpread'.hand = <<>>
      /\ daySpread'.ending = ending
      /\ relSpreadQueue'.items = in
  <2> HIDE DEF one
  <2> QED BY <1>1, <1>2, <1>6 DEF DayFacts, StageOf, Keeps, one
<1>8. Len(one) = 1 /\ one # <<>>
  OBVIOUS
<1>9. Types' /\ Control'
  <2>1. StepFits(O, D, daySpread, daySpread', relSpreadQueue, relSpreadQueue',
                 dayRelSpreadQueue, dayRelSpreadQueue')
    <3> HIDE DEF one
    <3> QED BY <1>1, <1>2, <1>7, <1>8 DEF DayFacts, StepFits, StageControl, Over, Keeps
  <2>2. Len(daySpread'.outbox) <= 1 /\ daySpread'.buffer # <<>> /\ dropped' = dropped
    BY <1>7, <1>8
  <2> QED BY <2>1, <2>2, DaySpreadNeighbours DEF PipelineInv
<1>10. Sorted(LastRows') /\ Src(LastRows') = Src(LastRows)
  <2>1. /\ in \in Seq(R) /\ q \in Seq(R) /\ b \in Seq(R) /\ written \in Seq(R)
        /\ one \in Seq(R) /\ <<>> \in Seq(R)
    <3> HIDE DEF one
    <3> QED BY <1>2, <1>6, RowsInFile
  <2>2. /\ DaySpreadRows = Between(q, <<>>, b, <<>>, in)
        /\ DaySpreadRows' = Between(q, one, <<>>, <<>>, in)
    BY <1>2, <1>7 DEF DaySpreadRows, DayBuffer
  <2>3. Src(one) = Src(b) /\ Sorted(one)
    BY <1>5, SrcOfFew, SortedFew
  <2> HIDE DEF R, in, q, b, one, day
  <2>4. CoreBetween(q, b, in) /\ CoreBetween(q, one, in)
    BY <2>1, BetweenCore
  <2> DEFINE pre == written \o q
  <2>5. /\ pre \in Seq(R)
        /\ written \o (q \o b \o in) = pre \o b \o in
        /\ written \o (q \o one \o in) = pre \o one \o in
    <3>1. /\ written \o (q \o b \o in) = (written \o q) \o b \o in
          /\ written \o (q \o one \o in) = (written \o q) \o one \o in
      <4>1. /\ written \in Seq(R) /\ q \in Seq(R) /\ b \in Seq(R) /\ in \in Seq(R)
            /\ one \in Seq(R)
        BY <2>1
      <4>2. Unnests(written, q, b, in) /\ Unnests(written, q, one, in)
        BY <4>1, Unnested
      <4> QED BY <4>2 DEF Unnests
    <3> QED BY <2>1, <3>1, ConcatProperties
  <2>6. LastRows = pre \o b \o in /\ LastRows' = pre \o one \o in
    BY <1>3, <2>2, <2>4, <2>5 DEF LastRows, CoreBetween
  <2>7. Sorted(pre \o b \o in)
    BY <1>1, <2>6 DEF DayOrder
  <2> HIDE DEF pre
  <2>8. /\ Sorted(pre \o one \o in)
        /\ Src(pre \o b \o in) = Src(pre) \cup Src(b) \cup Src(in)
        /\ Src(pre \o one \o in) = Src(pre) \cup Src(one) \cup Src(in)
    <3>1. Src(one) \subseteq Src(b) /\ (Sorted(b) => Sorted(one))
      BY <2>3
    <3> QED BY <1>2, <2>1, <2>5, <2>7, <3>1, Replaced DEF R
  <2> QED BY <2>3, <2>6, <2>8
<1>11. AllDays' = AllDays \o one /\ HeldDays' = q \o one /\ HeldDays = q
       /\ AllDays \in Seq(D)
  <2> HIDE DEF one
  <2>1. written \o q \in Seq(D) /\ (written \o q) \o <<>> = written \o q /\ q \o <<>> = q
    BY <1>2, ConcatProperties, ConcatEmptySeq
  <2> QED BY <1>2, <1>3, <1>7, <2>1 DEF AllDays, HeldDays
<1>12. wild' = FALSE /\ heap' = LastCells' \cup Upstream
  <2>1. BufferCells = CellsOfAll(b) /\ BufferCells' = CellsOfAll(b)
    BY <1>7 DEF BufferCells
  <2>2. DayCellsOfAll(one) = KeyOf(b[1]) \cup mean
    <3>1. DayCellsOfAll(one) = DayCells(day)
      BY CellsOfFew
    <3>2. DayCells(day) = KeyOf(b[1]) \cup mean
      BY <1>5 DEF DayCells, KeyOf, Cell
    <3> QED BY <3>1, <3>2
  <2>3. KeyOf(b[1]) \subseteq CellsOfAll(b)
    <3>1. b[1] \in ToSet(b)
      BY <1>2, CellsOfMembers
    <3> QED BY <3>1 DEF CellsOfAll, CellsOf
  <2> HIDE DEF one, mean
  <2>4. DayCellsOfAll(HeldDays') = DayCellsOfAll(HeldDays) \cup KeyOf(b[1]) \cup mean
    BY <1>2, <1>6, <1>11, <2>2, CellsOfConcat
  <2>5. LastCells' = LastCells \cup mean
    BY <1>2, <1>7, <2>1, <2>3, <2>4 DEF LastCells
  <2>6. reads \subseteq heap
    BY <1>1, <2>1 DEF DayFacts, LastCells
  <2>7. Access(reads, {}, mean)
    BY DEF mean
  <2> QED BY <1>1, <2>5, <2>6, <2>7 DEF DayFacts, Access
<1>13. /\ DatesDiffer(AllDays') /\ AllDays' # <<>> /\ Last(AllDays') = day
  <2>1. AllDays # <<>> => Last(AllDays).date # day.date
    BY <1>4, <1>5
  <2> HIDE DEF day
  <2> QED BY <1>4, <1>5, <1>11, <2>1, DatesAppended
<1>14. DayAtHand'
  <2>1. Sorted(b)
    BY <1>1 DEF DayOrder, DayBuffer
  <2> HIDE DEF day
  <2> QED BY <1>5, <1>7, <1>13, <2>1 DEF DayAtHand
<1>15. DaysApart'
  <2> HIDE DEF day
  <2> QED BY <1>4, <1>5, <1>7, <1>13 DEF DaysApart
<1> QED BY <1>9, <1>10, <1>12, <1>14, <1>15, DayFrame

\* The input ends with nothing in the buffer.
LEMMA DayEndsEmpty ==
  ASSUME PipelineInv, DaySpreadThread, daySpread.pc = "take", daySpread.buffer = <<>>,
         daySpread' = [daySpread EXCEPT !.pc = "close", !.ending = TRUE],
         Keeps(ObsOf(file), relSpreadQueue, relSpreadQueue'), relSpreadQueue.atEnd,
         UNCHANGED <<dayRelSpreadQueue, heap, wild, dropped>>
  PROVE  PipelineInv'
<1> DEFINE O == ObsOf(file)
           D == DaysOf(file)
<1>1. DayFacts
  BY DayAtWork
<1>2. /\ daySpread' \in StageOf(O, D) /\ daySpread'.pc = "close" /\ daySpread'.buffer = <<>>
      /\ daySpread'.outbox = <<>> /\ daySpread'.hand = <<>> /\ daySpread'.ending
      /\ daySpread.outbox = <<>> /\ daySpread.hand = <<>>
      /\ relSpreadQueue'.items = relSpreadQueue.items
      /\ file' = file /\ written' = written
  BY <1>1 DEF DayFacts, StageOf, Keeps, DaySpreadThread
<1>3. Types' /\ Control'
  <2>1. StepFits(O, D, daySpread, daySpread', relSpreadQueue, relSpreadQueue',
                 dayRelSpreadQueue, dayRelSpreadQueue')
    BY <1>1, <1>2 DEF DayFacts, StepFits, StageControl, Over, Keeps
  <2>2. Len(daySpread'.outbox) <= 1 /\ daySpread'.pc \notin {"peek", "emit", "clean"}
    BY <1>2
  <2> QED BY <2>1, <2>2, DaySpreadNeighbours DEF PipelineInv
<1>4. /\ LastRows' = LastRows /\ AllDays' = AllDays /\ HeldDays' = HeldDays
      /\ BufferCells' = BufferCells
  BY <1>2 DEF LastRows, DaySpreadRows, DayBuffer, AllDays, HeldDays, BufferCells
<1>5. wild' = FALSE /\ heap' = LastCells' \cup Upstream
  BY <1>1, <1>2, <1>4 DEF DayFacts, LastCells
<1>6. DayAtHand' /\ DaysApart'
  BY <1>2, <1>4 DEF PipelineInv, DayAtHand, DaysApart
<1>7. Sorted(LastRows') /\ Src(LastRows') = Src(LastRows)
  BY <1>4, DaysInOrder DEF PipelineInv, DayOrder
<1> QED BY <1>3, <1>5, <1>6, <1>7, DayFrame

\* cleanBuffer(): the cells of the buffer are deleted but for those the day has taken over.
LEMMA DayCleans ==
  ASSUME PipelineInv, DaySpreadThread, DaySpread!CleanBuffer
  PROVE  PipelineInv'
<1> DEFINE O == ObsOf(file)
           D == DaysOf(file)
           b == daySpread.buffer
           rest == CellsOfAll(Tail(b))
           first == StampOf(b[1]) \cup QuoteOf(b[1]) \cup SpreadOf(b[1])
           next == DaySpread!After(<<>>, daySpread.ending)
<1>1. DayFacts /\ DayCellsDiffer
  BY DayAtWork, DayCellsApart
<1>2. /\ daySpread.pc = "clean" /\ Access({}, first \cup rest, {})
      /\ daySpread' = [daySpread EXCEPT !.pc = next, !.buffer = <<>>]
      /\ UNCHANGED <<relSpreadQueue, dayRelSpreadQueue, dropped>>
  BY DaySpreadNames DEF DaySpread!CleanBuffer
<1>3. next = IF daySpread.ending THEN "close" ELSE "take"
  BY DEF DaySpread!After
<1> HIDE DEF next
<1>4. /\ daySpread' \in StageOf(O, D) /\ daySpread'.pc = next /\ daySpread'.buffer = <<>>
      /\ daySpread'.outbox = <<>> /\ daySpread'.hand = <<>>
      /\ daySpread'.ending = daySpread.ending
      /\ daySpread.outbox = <<>> /\ daySpread.hand = <<>>
      /\ b \in Seq(O) /\ b # <<>> /\ file \in Files
      /\ file' = file /\ written' = written
  <2>1. <<>> \in Seq(O)
    OBVIOUS
  <2> QED BY <1>1, <1>2, <1>3, <2>1 DEF DayFacts, StageOf, DaySpreadThread
<1>5. Types' /\ Control'
  <2>1. StepFits(O, D, daySpread, daySpread', relSpreadQueue, relSpreadQueue',
                 dayRelSpreadQueue, dayRelSpreadQueue')
    BY <1>1, <1>2, <1>3, <1>4 DEF DayFacts, StepFits, StageControl, Over
  <2>2. Len(daySpread'.outbox) <= 1 /\ daySpread'.pc \notin {"peek", "emit", "clean"}
    BY <1>3, <1>4
  <2> QED BY <1>2, <2>1, <2>2, DaySpreadNeighbours DEF PipelineInv
<1>6. /\ LastRows' = LastRows /\ AllDays' = AllDays /\ HeldDays' = HeldDays
      /\ BufferCells' = {}
  <2>1. DayBuffer = <<>> /\ DayBuffer' = <<>>
    BY <1>2, <1>3, <1>4 DEF DayBuffer
  <2>2. CellsOfAll(<<>>) = {}
    BY CellsOfFew
  <2>3. BufferCells' = {}
    BY <1>3, <1>4, <2>2 DEF BufferCells
  <2> QED BY <1>2, <1>4, <2>1, <2>3 DEF LastRows, DaySpreadRows, AllDays, HeldDays
<1>7. BufferCells = first \cup rest
  <2>1. Sorted(b)
    BY <1>2 DEF PipelineInv, DayAtHand
  <2>2. /\ CellsOfAll(b) = CellsOf(b[1]) \cup rest
        /\ \A c \in rest : c[1] # b[1].id
    BY <1>4, <2>1, FirstApart
  <2>3. b[1] \in O
    BY <1>4, HeadAndTail
  <2>4. /\ CellsOf(b[1]) = KeyOf(b[1]) \cup first /\ first \cap KeyOf(b[1]) = {}
        /\ \A c \in KeyOf(b[1]) : c[1] = b[1].id
    BY <2>3 DEF CellsOf, KeyOf, StampOf, QuoteOf, SpreadOf, Cell, ObsOf
  <2>5. BufferCells = CellsOfAll(b) \ KeyOf(b[1])
    BY <1>2 DEF BufferCells
  <2> HIDE DEF first, rest
  <2> QED BY <2>2, <2>4, <2>5
<1>8. wild' = FALSE /\ heap' = LastCells' \cup Upstream
  <2> DEFINE held == DayCellsOfAll(HeldDays)
             waiting == CellsOfAll(relSpreadQueue.items)
  <2>1. CellsOfAll(<<>>) = {}
    BY CellsOfFew
  <2>2. /\ LastCells = held \cup BufferCells \cup waiting
        /\ LastCells' = held \cup waiting
    <3>1. relSpreadQueue'.items = relSpreadQueue.items
      BY <1>2
    <3> QED BY <1>4, <1>6, <2>1, <3>1 DEF LastCells
  <2>3. BufferCells \cap held = {} /\ BufferCells \cap (waiting \cup Upstream) = {}
    BY <1>1, <1>2 DEF DayCellsDiffer
  <2>4. Access({}, BufferCells, {})
    BY <1>2, <1>7
  <2>5. wild = FALSE /\ heap = LastCells \cup Upstream
    BY <1>1 DEF DayFacts
  <2> HIDE DEF held, waiting
  <2> QED BY <2>2, <2>3, <2>4, <2>5 DEF Access
<1>9. DayAtHand'
  BY <1>3, <1>4 DEF DayAtHand
<1>10. DaysApart'
  <2>1. /\ DatesDiffer(AllDays)
        /\ (AllDays # <<>> /\ ~daySpread.ending =>
              /\ relSpreadQueue.items # <<>>
              /\ relSpreadQueue.items[1].date # Last(AllDays).date)
    BY <1>2 DEF PipelineInv, DaysApart
  <2>2. \A i \in 1 .. Len(<<>>) : FALSE
    OBVIOUS
  <2> QED BY <1>2, <1>3, <1>4, <1>6, <2>1, <2>2 DEF DaysApart
<1>11. Sorted(LastRows') /\ Src(LastRows') = Src(LastRows)
  BY <1>6, DaysInOrder DEF PipelineInv, DayOrder
<1> QED BY <1>2, <1>5, <1>8, <1>9, <1>10, <1>11, DayFrame

\* What a step of the processor of days preserves.
LEMMA DaySpreadStep == PipelineInv /\ DaySpreadThread => PipelineInv'
<1> SUFFICES ASSUME PipelineInv, DaySpreadThread PROVE PipelineInv'
  OBVIOUS
<1> DEFINE O == ObsOf(file)
           D == DaysOf(file)
           in == relSpreadQueue.items
           b == daySpread.buffer
           mean == {Cell(b[1].id, "mean")}
           spreads == UNION {SpreadOf(o) : o \in ToSet(b)}
<1>1. DayFacts
  BY DayAtWork
<1>2. /\ relSpreadQueue \in QueueOf(O) /\ in \in Seq(O) /\ b \in Seq(O)
      /\ daySpread.pc = "peek" => b # <<>>
  BY <1>1 DEF DayFacts
<1>3. spreads \subseteq CellsOfAll(b)
  BY DEF CellsOfAll, CellsOf
<1>4. CASE /\ Shared(O, D, daySpread, daySpread', relSpreadQueue, relSpreadQueue',
                     dayRelSpreadQueue, dayRelSpreadQueue', "clean")
           /\ UNCHANGED <<heap, wild, dropped>>
  BY <1>4, DaySpreadIdles
<1>5. CASE DaySpread!TakeObs
  BY <1>5, DayTakes
<1>6. CASE DaySpread!PeekSame
  BY <1>6, DayGoesOn
<1>7. CASE DaySpread!CleanBuffer
  BY <1>7, DayCleans
<1>8. CASE DaySpread!PeekOther
  <2> DEFINE keys == KeyOf(Head(in)) \cup KeyOf(Last(b))
             reads == keys \cup spreads
             ending == FALSE
  <2>1. /\ daySpread.pc = "peek" /\ in # <<>>
        /\ relSpreadQueue' = [relSpreadQueue EXCEPT !.empty = FALSE]
        /\ Head(in).date # Last(b).date
        /\ dayRelSpreadQueue' = dayRelSpreadQueue /\ dropped' = dropped
    BY <1>8, DaySpreadNames
       DEF DaySpread!PeekOther, DaySpread!In!Peek, DaySpread!In!CanTake, DaySpread!In!Front,
           DaySpread!DayOver
  <2>2. daySpread' = [daySpread EXCEPT !.pc = "emit", !.ending = ending,
                                       !.outbox = <<NewDaySpread(b)>>]
    BY <1>8, DaySpreadNames DEF DaySpread!PeekOther, DaySpread!BuildDay
  <2>3. Access(reads, {}, mean)
    BY <1>8, DaySpreadNames
       DEF DaySpread!PeekOther, DaySpread!BuildDay, DaySpread!In!Front
  <2>4. Keeps(O, relSpreadQueue, relSpreadQueue')
    BY <1>2, <2>1, QueueMoves, Zenon
  <2>5. reads \subseteq CellsOfAll(b) \cup CellsOfAll(in)
    <3>1. Head(in) \in ToSet(in) /\ Last(b) \in ToSet(b)
      BY <1>2, <2>1, CellsOfMembers
    <3>2. keys \subseteq CellsOfAll(b) \cup CellsOfAll(in)
      BY <3>1 DEF CellsOfAll, CellsOf
    <3> HIDE DEF keys, spreads
    <3> QED BY <1>3, <3>2
  <2>6. in[1].date # b[1].date
    <3>1. \A i \in 1 .. Len(b) : b[i].date = b[1].date
      BY DEF PipelineInv, DaysApart
    <3>2. Last(b) = b[Len(b)] /\ Len(b) \in Nat \ {0}
      BY <1>2, <2>1, LastDay, HeadAndTail
    <3>3. Len(b) \in 1 .. Len(b)
      BY <3>2
    <3>4. Head(in) = in[1]
      BY <1>2, <2>1, HeadAndTail
    <3> QED BY <2>1, <3>1, <3>2, <3>3, <3>4
  <2>7. ending \in BOOLEAN /\ ~ending
    OBVIOUS
  <2> HIDE DEF reads, ending
  <2> QED BY <1>2, <2>1, <2>2, <2>3, <2>4, <2>5, <2>6, <2>7, DayBuilt, Zenon
<1>9. CASE DaySpread!AtEnd
  <2>1. /\ daySpread.pc \in {"take", "peek"} /\ relSpreadQueue.atEnd
        /\ relSpreadQueue' = [relSpreadQueue EXCEPT !.missed = FALSE]
        /\ dayRelSpreadQueue' = dayRelSpreadQueue /\ dropped' = dropped
    BY <1>9 DEF DaySpread!AtEnd, DaySpread!EndsInput, DaySpread!In!ThrowEnd, DaySpread!In!AtEnd
  <2>2. Keeps(O, relSpreadQueue, relSpreadQueue')
    BY <1>2, <2>1, QueueMoves, Zenon
  <2>3. CASE b = <<>>
    <3>1. /\ daySpread' = [daySpread EXCEPT !.pc = "close", !.ending = TRUE]
          /\ UNCHANGED <<heap, wild>>
      BY <1>9, <2>3 DEF DaySpread!AtEnd
    <3> QED BY <1>2, <2>1, <2>2, <2>3, <3>1, DayEndsEmpty
  <2>4. CASE b # <<>>
    <3> DEFINE ending == TRUE
               reads == {} \cup spreads
    <3>1. /\ daySpread' = [daySpread EXCEPT !.pc = "emit", !.ending = ending,
                                            !.outbox = <<NewDaySpread(b)>>]
          /\ Access(reads, {}, mean)
      BY <1>9, <2>4, DaySpreadNames, Zenon DEF DaySpread!AtEnd, DaySpread!BuildDay
    <3>2. reads \subseteq CellsOfAll(b) \cup CellsOfAll(in)
      BY <1>3
    <3>3. ending \in BOOLEAN /\ ending
      OBVIOUS
    <3> HIDE DEF reads, ending
    <3> QED BY <2>1, <2>2, <2>4, <3>1, <3>2, <3>3, DayBuilt, Zenon
  <2> QED BY <2>3, <2>4
<1> QED BY <1>4, <1>5, <1>6, <1>7, <1>8, <1>9, DaySpreadActs DEF PipelineInv, Control

-----------------------------------------------------------------------------
(* The writer, and the end. *)

LEMMA WriterNeighbours ==
  ASSUME Types, Control, WriterThread, ~Over(writer),
         dayRelSpreadQueue' \in QueueOf(DaysOf(file)),
         dayRelSpreadQueue'.atEnd = dayRelSpreadQueue.atEnd,
         writer' \in {"open", "take", "done", "failed"}, written' \in Seq(DaysOf(file)),
         writer' = "done" => dayRelSpreadQueue.atEnd
  PROVE  Types' /\ Control'
<1>1. UNCHANGED <<file, parser, merge, outliers, relSpread, daySpread, parsedQueue,
                  timestampMergedQueue, outliersFilteredQueue, relSpreadQueue,
                  dropped, main>>
  BY DEF WriterThread
<1>2. Types'
  BY <1>1 DEF Types
<1>3. /\ ParserControl' /\ MergeControl' /\ OutliersControl' /\ RelSpreadControl'
      /\ DaySpreadControl'
  BY <1>1 DEF Control, ParserControl, MergeControl, OutliersControl, RelSpreadControl,
              DaySpreadControl, StageControl
<1>4. WriterControl'
  <2>1. main # "returned"
    BY DEF Control, WriterControl, Stages, PcOf
  <2> QED BY <1>1, <2>1 DEF WriterControl
<1> QED BY <1>2, <1>3, <1>4 DEF Control

\* What the writer does leaves the rows where they are.
LEMMA WriterFrame ==
  ASSUME PipelineInv, WriterThread, Types', Control', AllDays' = AllDays, LastRows' = LastRows,
         wild' = FALSE, heap' = LastCells' \cup Upstream
  PROVE  PipelineInv'
<1>1. UNCHANGED <<file, parser, merge, outliers, relSpread, daySpread, parsedQueue,
                  timestampMergedQueue, outliersFilteredQueue, relSpreadQueue, dropped>>
  BY DEF WriterThread
<1>2. Sorted(LastRows') /\ Src(LastRows') = Src(LastRows)
  BY DaysInOrder DEF PipelineInv, DayOrder
<1>3. Ordered' /\ Upstream' = Upstream
  BY <1>1, <1>2, LastFrame DEF PipelineInv
<1>4. HeapExact'
  BY <1>3 DEF HeapExact, LastCells, Upstream
<1>5. DaysApart' /\ DayAtHand'
  BY <1>1 DEF PipelineInv, DaysApart, DayAtHand
<1> QED BY <1>1, <1>3, <1>4, <1>5, StampsUntouched DEF PipelineInv

\* The writer opens the file, waits, ends or fails.
LEMMA WriterIdles ==
  ASSUME PipelineInv, WriterThread, ~Over(writer),
         Keeps(DaysOf(file), dayRelSpreadQueue, dayRelSpreadQueue'),
         writer' \in {"open", "take", "done", "failed"},
         writer' = "done" => dayRelSpreadQueue.atEnd,
         UNCHANGED <<written, heap, wild>>
  PROVE  PipelineInv'
<1>1. DayFacts
  BY DayAtWork
<1>2. UNCHANGED <<file, daySpread, relSpreadQueue>>
  BY DEF WriterThread
<1>3. dayRelSpreadQueue'.items = dayRelSpreadQueue.items
  BY DEF Keeps
<1>4. Types' /\ Control'
  BY <1>1, WriterNeighbours DEF PipelineInv, Keeps, DayFacts
<1>5. /\ AllDays' = AllDays /\ LastRows' = LastRows /\ HeldDays' = HeldDays
      /\ BufferCells' = BufferCells
  BY <1>2, <1>3 DEF AllDays, LastRows, DaySpreadRows, DayBuffer, HeldDays, BufferCells
<1>6. wild' = FALSE /\ heap' = LastCells' \cup Upstream
  BY <1>1, <1>2, <1>5 DEF DayFacts, LastCells
<1> QED BY <1>4, <1>5, <1>6, WriterFrame

\* The writer writes a row and deletes its cells.
LEMMA WriterWrites ==
  ASSUME PipelineInv, WriterThread, Writer!Write
  PROVE  PipelineInv'
<1> DEFINE D == DaysOf(file)
           R == RowOf(file)
           q == dayRelSpreadQueue.items
           d == Head(q)
           t == Tail(q)
           w1 == Append(written, d)
           out == daySpread.outbox
           in == relSpreadQueue.items
           rest == t \o out
<1>1. DayFacts /\ DayCellsDiffer
  BY DayAtWork, DayCellsApart
<1>2. /\ writer = "take" /\ q # <<>>
      /\ dayRelSpreadQueue' = [dayRelSpreadQueue EXCEPT !.items = Tail(@), !.empty = FALSE]
      /\ written' = w1 /\ writer' = writer
      /\ Access(DayCells(d), DayCells(d), {})
  <2>1. /\ \A ds : Writer!DayCells(ds) = DayCells(ds)
        /\ \A reads, deletes, news :
             Writer!Access(reads, deletes, news) <=> Access(reads, deletes, news)
    BY DEF Writer!DayCells, DayCells, Writer!KeyOf, KeyOf, Writer!Cell, Cell,
           Writer!Access, Access
  <2> QED BY <2>1 DEF Writer!Write, Writer!In!Dequeue, Writer!In!CanTake, Writer!In!Front
<1>3. UNCHANGED <<file, daySpread, relSpreadQueue>>
  BY DEF WriterThread
<1>4. Pops(D, dayRelSpreadQueue, dayRelSpreadQueue')
  BY <1>1, <1>2, QueueMoves, Zenon DEF DayFacts
<1>5. /\ q \in Seq(D) /\ written \in Seq(D) /\ out \in Seq(D) /\ file \in Files
      /\ dayRelSpreadQueue'.items = t
      /\ RowsOf(daySpread, DayBuffer) \in Seq(R) /\ in \in Seq(R)
  <2>1. Parts
    BY PartsOf DEF PipelineInv
  <2> QED BY <1>1, <1>4, <2>1, RowsInFile DEF DayFacts, StageOf, Pops, Parts
<1>6. d \in D /\ t \in Seq(D)
  BY <1>2, <1>5, HeadAndTail
<1>7. w1 \in Seq(D) /\ w1 \o t = written \o q
  <2> HIDE DEF q
  <2> QED BY <1>2, <1>5, Shift
<1>8. Types' /\ Control'
  <2>1. ~Over(writer) /\ writer' \in {"open", "take", "done", "failed"} /\ writer' # "done"
    BY <1>2 DEF Over
  <2>2. written' \in Seq(D)
    BY <1>2, <1>7
  <2>3. dayRelSpreadQueue' \in QueueOf(D) /\ dayRelSpreadQueue'.atEnd = dayRelSpreadQueue.atEnd
    BY <1>4 DEF Pops
  <2> QED BY <2>1, <2>2, <2>3, WriterNeighbours DEF PipelineInv
<1>9. AllDays' = AllDays
  BY <1>2, <1>3, <1>5, <1>7 DEF AllDays
<1>10. LastRows' = LastRows
  <2> DEFINE x == RowsOf(daySpread, DayBuffer)
  <2>1. /\ LastRows = written \o (q \o x \o in)
        /\ LastRows' = w1 \o (t \o x \o in)
    <3>1. DayBuffer' = DayBuffer
      BY <1>3 DEF DayBuffer
    <3> QED BY <1>2, <1>3, <1>5, <3>1 DEF LastRows, DaySpreadRows, Between, RowsOf
  <2>2. written \in Seq(R) /\ q \in Seq(R) /\ w1 \in Seq(R) /\ t \in Seq(R) /\ x \in Seq(R)
    <3> HIDE DEF q, t, w1
    <3> QED BY <1>5, <1>6, <1>7, RowsInFile
  <2> HIDE DEF R, q, t, w1, x, in
  <2>3. Unnests(written, q, x, in) /\ Unnests(w1, t, x, in)
    BY <1>5, <2>2, Unnested
  <2> QED BY <1>7, <2>1, <2>3 DEF Unnests
<1>11. wild' = FALSE /\ heap' = LastCells' \cup Upstream
  <2> DEFINE held == DayCellsOfAll(HeldDays)
             held1 == DayCellsOfAll(rest)
             hand == CellsOfAll(daySpread.hand)
             waiting == CellsOfAll(in)
  <2>1. HeldDays' = rest /\ BufferCells' = BufferCells
    BY <1>3, <1>5 DEF HeldDays, BufferCells
  <2>2. /\ LastCells = held \cup BufferCells \cup hand \cup waiting
        /\ LastCells' = held1 \cup BufferCells \cup hand \cup waiting
    BY <1>3, <2>1 DEF LastCells
  <2>3. /\ held \cap (hand \cup waiting \cup Upstream) = {}
        /\ DayCells(d) \cap BufferCells = {} /\ DayCells(d) \cap held1 = {}
        /\ held = DayCells(d) \cup held1
    BY <1>1, <1>2 DEF DayCellsDiffer
  <2>4. wild = FALSE /\ heap = LastCells \cup Upstream
    BY <1>1 DEF DayFacts
  <2> DEFINE cells == DayCells(d)
  <2>5. /\ Access(cells, cells, {}) /\ cells \cap BufferCells = {} /\ cells \cap held1 = {}
        /\ held = cells \cup held1
    BY <1>2, <2>3
  <2> HIDE DEF held, held1, hand, waiting, cells
  <2>6. cells \subseteq heap
    BY <2>2, <2>4, <2>5
  <2>7. heap \ cells = held1 \cup BufferCells \cup hand \cup waiting \cup Upstream
    BY <2>2, <2>3, <2>4, <2>5
  <2> QED BY <2>2, <2>4, <2>5, <2>6, <2>7 DEF Access
<1> QED BY <1>8, <1>9, <1>10, <1>11, WriterFrame

\* What a step of the writer preserves.
LEMMA WriterStep == PipelineInv /\ WriterThread => PipelineInv'
<1> SUFFICES ASSUME PipelineInv, WriterThread PROVE PipelineInv'
  OBVIOUS
<1> DEFINE D == DaysOf(file)
           q == dayRelSpreadQueue
<1>1. q \in QueueOf(D)
  BY DayAtWork DEF DayFacts
<1>2. /\ Keeps(D, q, q)
      /\ Keeps(D, q, [q EXCEPT !.missed = TRUE])
      /\ Keeps(D, q, [q EXCEPT !.empty = TRUE, !.missed = FALSE])
      /\ Keeps(D, q, [q EXCEPT !.missed = FALSE])
  BY <1>1, QueueMoves, Zenon
<1>3. CASE Writer!Open
  <2>1. writer = "open" /\ writer' = "take" /\ UNCHANGED <<q, written, heap, wild>>
    BY <1>3 DEF Writer!Open
  <2> QED BY <1>2, <2>1, WriterIdles DEF Over
<1>4. CASE Writer!Fail
  <2>1. writer = "open" /\ writer' = "failed" /\ UNCHANGED <<q, written, heap, wild>>
    BY <1>4 DEF Writer!Fail
  <2> QED BY <1>2, <2>1, WriterIdles DEF Over
<1>5. CASE Writer!TryFails
  <2>1. /\ writer = "take" /\ writer' = writer /\ UNCHANGED <<written, heap, wild>>
        /\ q' = [q EXCEPT !.missed = TRUE]
    BY <1>5 DEF Writer!TryFails, Writer!In!Miss
  <2> QED BY <1>2, <2>1, WriterIdles DEF Over
<1>6. CASE Writer!Sleeps
  <2>1. /\ writer = "take" /\ writer' = writer /\ UNCHANGED <<written, heap, wild>>
        /\ q' = [q EXCEPT !.empty = TRUE, !.missed = FALSE]
    BY <1>6 DEF Writer!Sleeps, Writer!In!Wait
  <2> QED BY <1>2, <2>1, WriterIdles DEF Over
<1>7. CASE Writer!AtEnd
  <2>1. /\ writer = "take" /\ writer' = "done" /\ UNCHANGED <<written, heap, wild>>
        /\ q' = [q EXCEPT !.missed = FALSE] /\ q.atEnd
    BY <1>7, Zenon DEF Writer!AtEnd, Writer!In!ThrowEnd, Writer!In!AtEnd
  <2> QED BY <1>2, <2>1, WriterIdles DEF Over
<1>8. CASE Writer!Write
  BY <1>8, WriterWrites
<1> QED BY <1>3, <1>4, <1>5, <1>6, <1>7, <1>8 DEF WriterThread, Writer!Step

\* main returns when all the threads are over; before and after it nothing changes.
LEMMA MainStep == PipelineInv /\ (Return \/ UNCHANGED vars) => PipelineInv'
<1> SUFFICES ASSUME PipelineInv, Return \/ UNCHANGED vars PROVE PipelineInv'
  OBVIOUS
<1>1. UNCHANGED <<file, parser, merge, outliers, relSpread, daySpread, writer, parsedQueue,
                  timestampMergedQueue, outliersFilteredQueue, relSpreadQueue,
                  dayRelSpreadQueue, written, heap, wild, dropped>>
  BY DEF Return, vars, threads, queues
<1>2. main' \in {"joining", "returned"} /\ WriterControl'
  BY <1>1 DEF PipelineInv, Types, Control, WriterControl, Return, vars, PcOf
<1>3. Types' /\ Control'
  BY <1>1, <1>2 DEF PipelineInv, Types, Control, ParserControl, MergeControl, OutliersControl,
                    RelSpreadControl, DaySpreadControl
<1>4. Ordered'
  BY <1>1 DEF PipelineInv, Ordered, Rows, RowsOf, DayBuffer, EveryLineAccountedFor, Parsed
<1>5. DaysApart' /\ DayAtHand' /\ StampsApart' /\ HeapExact'
  BY <1>1, StampsUntouched, Zenon
     DEF PipelineInv, DaysApart, DayAtHand, AllDays, HeapExact, HeldDays, BufferCells
<1> QED BY <1>3, <1>4, <1>5 DEF PipelineInv

\* At the start there are no rows and no cells.
LEMMA InitInv == Init => PipelineInv
<1> SUFFICES ASSUME Init PROVE PipelineInv
  OBVIOUS
<1>1. /\ file \in Files /\ file \in Seq(LineType) /\ DOMAIN file = 1 .. Len(file)
      /\ Len(file) \in Nat
  BY RowsInFile DEF Init
<1>2. PICK g \in [1 .. 5 -> Garbage] :
        /\ parsedQueue = Queue!NewQueue(g[1])
        /\ timestampMergedQueue = Queue!NewQueue(g[2])
        /\ outliersFilteredQueue = Queue!NewQueue(g[3])
        /\ relSpreadQueue = Queue!NewQueue(g[4])
        /\ dayRelSpreadQueue = Queue!NewQueue(g[5])
  BY DEF Init
<1>3. ASSUME NEW Elem, NEW b \in BOOLEAN
      PROVE  /\ Queue!NewQueue(b) \in QueueOf(Elem)
             /\ Queue!NewQueue(b).items = <<>> /\ Queue!NewQueue(b).atEnd = FALSE
  <2>1. <<>> \in Seq(Elem) /\ Len(<<>>) = 0 /\ MaxCapacity \in Nat
    BY PipelineAssumption
  <2> QED BY <2>1 DEF Queue!NewQueue, QueueOf
<1>4. g[1] \in BOOLEAN /\ g[2] \in BOOLEAN /\ g[3] \in BOOLEAN /\ g[4] \in BOOLEAN
      /\ g[5] \in BOOLEAN
  BY PipelineAssumption
<1>5. /\ parsedQueue \in QueueOf(ObsOf(file)) /\ timestampMergedQueue \in QueueOf(ObsOf(file))
      /\ outliersFilteredQueue \in QueueOf(ObsOf(file))
      /\ relSpreadQueue \in QueueOf(ObsOf(file)) /\ dayRelSpreadQueue \in QueueOf(DaysOf(file))
  BY <1>2, <1>3, <1>4
<1>6. /\ parsedQueue.items = <<>> /\ timestampMergedQueue.items = <<>>
      /\ outliersFilteredQueue.items = <<>> /\ relSpreadQueue.items = <<>>
      /\ dayRelSpreadQueue.items = <<>>
      /\ parsedQueue.atEnd = FALSE /\ timestampMergedQueue.atEnd = FALSE
      /\ outliersFilteredQueue.atEnd = FALSE /\ relSpreadQueue.atEnd = FALSE
      /\ dayRelSpreadQueue.atEnd = FALSE
  BY <1>2, <1>3, <1>4
<1>7. /\ merge = Merge!NewStage /\ outliers = Merge!NewStage /\ relSpread = Merge!NewStage
      /\ daySpread = Merge!NewStage /\ parser = Parser!NewParser
      /\ writer = "open" /\ written = <<>> /\ dropped = {} /\ main = "joining"
      /\ heap = {} /\ wild = FALSE
  BY DEF Init, HeapInit
<1>8. ASSUME NEW A, NEW B PROVE Merge!NewStage \in StageOf(A, B)
  <2>1. <<>> \in Seq(A) /\ <<>> \in Seq(B)
    OBVIOUS
  <2> QED BY <2>1 DEF Merge!NewStage, StageOf
<1>9. /\ merge \in StageOf(ObsOf(file), ObsOf(file)) /\ outliers \in StageOf(ObsOf(file), ObsOf(file))
      /\ relSpread \in StageOf(ObsOf(file), ObsOf(file))
      /\ daySpread \in StageOf(ObsOf(file), DaysOf(file))
  BY <1>7, <1>8
<1>10. /\ merge.buffer = <<>> /\ merge.outbox = <<>> /\ merge.hand = <<>>
       /\ merge.pc = "take" /\ merge.ending = FALSE
       /\ outliers.buffer = <<>> /\ outliers.outbox = <<>> /\ outliers.hand = <<>>
       /\ outliers.pc = "take" /\ outliers.ending = FALSE
       /\ relSpread.buffer = <<>> /\ relSpread.outbox = <<>> /\ relSpread.hand = <<>>
       /\ relSpread.pc = "take" /\ relSpread.ending = FALSE
       /\ daySpread.buffer = <<>> /\ daySpread.outbox = <<>> /\ daySpread.hand = <<>>
       /\ daySpread.pc = "take" /\ daySpread.ending = FALSE
       /\ parser.outbox = <<>> /\ parser.line = 1 /\ parser.pc = "parse"
  BY <1>7 DEF Merge!NewStage, Parser!NewParser
<1>11. Types
  <2>1. written \in Seq(DaysOf(file)) /\ <<>> \in Seq(ObsOf(file))
    BY <1>7
  <2>2. parser \in [pc : {"parse", "emit", "close", "fault", "done"},
                    line : 1 .. Len(file) + 1, outbox : Seq(ObsOf(file))]
    BY <1>1, <1>7, <2>1 DEF Parser!NewParser
  <2> QED BY <1>1, <1>5, <1>7, <1>9, <2>1, <2>2 DEF Types
<1>12. Control
  <2>1. StageControl(merge, parsedQueue, timestampMergedQueue)
        /\ StageControl(outliers, timestampMergedQueue, outliersFilteredQueue)
    BY <1>6, <1>10 DEF StageControl
  <2>2. StageControl(relSpread, outliersFilteredQueue, relSpreadQueue)
        /\ StageControl(daySpread, relSpreadQueue, dayRelSpreadQueue)
    BY <1>6, <1>10 DEF StageControl
  <2>3. Len(daySpread.outbox) <= 1 /\ \A i \in 1 .. Len(merge.buffer) :
                                        merge.buffer[i].date = merge.buffer[1].date
    BY <1>10
  <2> QED BY <1>6, <1>7, <1>10, <2>1, <2>2, <2>3
          DEF Control, ParserControl, MergeControl, OutliersControl, RelSpreadControl,
              DaySpreadControl, WriterControl
<1>13. <<>> \o <<>> = <<>> /\ Reverse(<<>>) = <<>>
  <2>1. <<>> \in Seq({}) /\ Reverse(<<>>) \in Seq({}) /\ Len(Reverse(<<>>)) = 0
    BY ReverseProperties, <<>> \in Seq({})
  <2> QED BY <2>1, EmptySeq
<1>14. /\ RowsOf(merge, Reverse(merge.buffer)) = <<>> /\ RowsOf(outliers, outliers.buffer) = <<>>
       /\ RowsOf(relSpread, <<>>) = <<>> /\ RowsOf(daySpread, DayBuffer) = <<>>
  BY <1>10, <1>13 DEF RowsOf, DayBuffer
<1>15. Rows = <<>>
  BY <1>6, <1>7, <1>10, <1>13, <1>14 DEF Rows
<1>16. Ordered
  <2>1. Parsed = {}
    BY <1>1, <1>10 DEF Parsed
  <2> QED BY <1>7, <1>15, <2>1, SortedFew, SrcOfFew DEF Ordered, EveryLineAccountedFor
<1>17. DaysApart /\ DayAtHand
  <2>1. AllDays = <<>>
    BY <1>6, <1>7, <1>10, <1>13 DEF AllDays
  <2>2. DatesDiffer(<<>>) /\ \A i \in 1 .. Len(daySpread.buffer) :
                               daySpread.buffer[i].date = daySpread.buffer[1].date
    BY <1>10 DEF DatesDiffer
  <2> QED BY <1>10, <2>1, <2>2 DEF DaysApart, DayAtHand
<1>18. StampsApart
  <2>1. Stamped = <<>>
    BY <1>6, <1>10, <1>13 DEF Stamped
  <2>2. StampsMerged
    BY <2>1 DEF StampsMerged
  <2> QED BY <1>6, <1>10, <2>2 DEF StampsApart
<1>19. HeapExact
  <2>1. HeldDays = <<>> /\ BufferCells = {}
    BY <1>6, <1>10, <1>13, CellsOfFew DEF HeldDays, BufferCells
  <2> QED BY <1>6, <1>7, <1>10, <1>14, <2>1, CellsOfFew DEF HeapExact
<1> QED BY <1>11, <1>12, <1>16, <1>17, <1>18, <1>19 DEF PipelineInv

\* The parts of PipelineInv hold of every state that the pipeline reaches.
THEOREM PipelineInvariant == Spec => []PipelineInv
<1>1. PipelineInv /\ [Next]_vars => PipelineInv'
  <2> SUFFICES ASSUME PipelineInv, [Next]_vars PROVE PipelineInv'
    OBVIOUS
  <2>1. CASE ParserThread
    BY <2>1, ParserStep
  <2>2. CASE MergeThread
    BY <2>2, MergeStep
  <2>3. CASE OutliersThread
    BY <2>3, OutliersStep
  <2>4. CASE RelSpreadThread
    BY <2>4, RelSpreadStep
  <2>5. CASE DaySpreadThread
    BY <2>5, DaySpreadStep
  <2>6. CASE WriterThread
    BY <2>6, WriterStep
  <2>7. CASE Return \/ UNCHANGED vars
    BY <2>7, MainStep
  <2>8. CASE Terminated
    BY <2>8, MainStep DEF Terminated
  <2> QED BY <2>1, <2>2, <2>3, <2>4, <2>5, <2>6, <2>7, <2>8 DEF Next
<1> QED BY <1>1, InitInv, PTL DEF Spec

-----------------------------------------------------------------------------
(* What the invariant says of the properties of the pipeline. *)

LEMMA FiveQueues ==
  /\ DOMAIN queues = 1 .. 5
  /\ queues[1] = parsedQueue /\ queues[2] = timestampMergedQueue
  /\ queues[3] = outliersFilteredQueue /\ queues[4] = relSpreadQueue
  /\ queues[5] = dayRelSpreadQueue
BY DEF queues

LEMMA InvTypeOK == PipelineInv => TypeOK
<1> SUFFICES ASSUME PipelineInv PROVE TypeOK
  OBVIOUS
<1> DEFINE QueueOK(q) == /\ q.atEnd \in BOOLEAN /\ q.full \in BOOLEAN
                         /\ q.empty \in BOOLEAN /\ q.missed \in BOOLEAN
                         /\ Len(q.items) <= MaxCapacity
           StageOK(st) ==
             /\ st.pc \in {"take", "peek", "emit", "clean", "close", "done", "failed"}
             /\ st.ending \in BOOLEAN
             /\ st.pc = "emit" <=> st.outbox # <<>>
<1>1. Types /\ Control
  BY DEF PipelineInv
<1>2. \A Elem : \A q \in QueueOf(Elem) : QueueOK(q)
  BY DEF QueueOf
<1>3. ASSUME NEW k \in DOMAIN queues PROVE QueueOK(queues[k])
  <2>1. /\ QueueOK(parsedQueue) /\ QueueOK(timestampMergedQueue)
        /\ QueueOK(outliersFilteredQueue) /\ QueueOK(relSpreadQueue)
        /\ QueueOK(dayRelSpreadQueue)
    <3> HIDE DEF QueueOK
    <3> QED BY <1>1, <1>2 DEF Types
  <2> HIDE DEF QueueOK
  <2>2. k = 1 \/ k = 2 \/ k = 3 \/ k = 4 \/ k = 5
    BY FiveQueues
  <2> QED BY <2>1, <2>2, FiveQueues
<1>4. ASSUME NEW A, NEW B, NEW st \in StageOf(A, B), NEW in, NEW out, StageControl(st, in, out)
      PROVE  StageOK(st)
  BY <1>4 DEF StageOf, StageControl
<1>5. StageOK(merge) /\ StageOK(outliers) /\ StageOK(relSpread) /\ StageOK(daySpread)
  <2> HIDE DEF StageOK
  <2>1. /\ StageControl(merge, parsedQueue, timestampMergedQueue)
        /\ StageControl(outliers, timestampMergedQueue, outliersFilteredQueue)
        /\ StageControl(relSpread, outliersFilteredQueue, relSpreadQueue)
        /\ StageControl(daySpread, relSpreadQueue, dayRelSpreadQueue)
    BY <1>1 DEF Control, MergeControl, OutliersControl, RelSpreadControl, DaySpreadControl
  <2>2. /\ merge \in StageOf(ObsOf(file), ObsOf(file))
        /\ outliers \in StageOf(ObsOf(file), ObsOf(file))
        /\ relSpread \in StageOf(ObsOf(file), ObsOf(file))
        /\ daySpread \in StageOf(ObsOf(file), DaysOf(file))
    BY <1>1 DEF Types
  <2> QED BY <1>4, <2>1, <2>2
<1>6. /\ file \in Files
      /\ parser.pc \in {"parse", "emit", "close", "fault", "done"}
      /\ parser.line \in 1 .. Len(file) + 1
      /\ writer \in {"open", "take", "done", "failed"}
      /\ dropped \subseteq DOMAIN file /\ main \in {"joining", "returned"}
  BY <1>1 DEF Types
<1> HIDE DEF QueueOK, StageOK
<1>7. \A st \in {merge, outliers, relSpread, daySpread} : StageOK(st)
  BY <1>5
<1> QED BY <1>3, <1>6, <1>7 DEF TypeOK, QueueOK, StageOK

\* Every variable of the pipeline has its type, no queue holds more than it has room
\* for, and a stage is in enqueue() exactly while it has something to enqueue.
THEOREM TypeCorrect == Spec => []TypeOK
BY PipelineInvariant, InvTypeOK, PTL

LEMMA InvStampsMerged == PipelineInv => StampsMerged
BY DEF PipelineInv, StampsApart

\* Past the merge filter no two consecutive observations have the same date and time,
\* whatever the file, the capacity of the queues and the stages that fail: a group of
\* equal stamps is never split, wherever the queue happened to run empty.
THEOREM StampsAreMerged == Spec => []StampsMerged
BY PipelineInvariant, InvStampsMerged, PTL

LEMMA InvEndsInOrder == PipelineInv => EndsInOrder
<1> SUFFICES ASSUME PipelineInv PROVE EndsInOrder
  OBVIOUS
<1>1. /\ StageControl(merge, parsedQueue, timestampMergedQueue)
      /\ StageControl(outliers, timestampMergedQueue, outliersFilteredQueue)
      /\ StageControl(relSpread, outliersFilteredQueue, relSpreadQueue)
      /\ StageControl(daySpread, relSpreadQueue, dayRelSpreadQueue)
      /\ parsedQueue.atEnd => Over(parser.pc)
      /\ writer = "done" => dayRelSpreadQueue.atEnd
  BY DEF PipelineInv, Control, ParserControl, MergeControl, OutliersControl,
         RelSpreadControl, DaySpreadControl, WriterControl
<1>2. \A st, in, out : StageControl(st, in, out) =>
         /\ st.ending => in.atEnd
         /\ out.atEnd => Over(st.pc)
  BY DEF StageControl
<1> QED BY <1>1, <1>2 DEF EndsInOrder

\* The stages end from the parser on: no stage takes its input for ended while the
\* thread that fills it still runs, whenever it reads the flag of the end.
THEOREM StagesEndInOrder == Spec => []EndsInOrder
BY PipelineInvariant, InvEndsInOrder, PTL

\* A sequence is the start of the one that others are appended to.
StartsWith(u, s) == /\ Len(s) \in Nat /\ Len(u) \in Nat /\ Len(s) <= Len(u)
                    /\ \A i \in 1 .. Len(s) : u[i] = s[i]

LEMMA StartOfConcat ==
  \A S : \A s, t, u \in Seq(S) : StartsWith(s \o t \o u, s)
<1>1. ASSUME NEW S, NEW s \in Seq(S), NEW t \in Seq(S) PROVE StartsWith(s \o t, s)
  BY ConcatProperties, LenProperties DEF StartsWith
<1>2. ASSUME NEW u, NEW t, NEW s, StartsWith(u, t), StartsWith(t, s) PROVE StartsWith(u, s)
  BY <1>2 DEF StartsWith
<1> SUFFICES ASSUME NEW S, NEW s \in Seq(S), NEW t \in Seq(S), NEW u \in Seq(S)
             PROVE  StartsWith(s \o t \o u, s)
  OBVIOUS
<1> DEFINE head == s \o t
<1>3. head \in Seq(S)
  BY ConcatProperties
<1> HIDE DEF head
<1>4. StartsWith(head \o u, head)
  BY <1>1, <1>3
<1> QED BY <1>1, <1>2, <1>4 DEF head

LEMMA InvOneRowPerDay == PipelineInv => OneRowPerDay
<1> SUFFICES ASSUME PipelineInv PROVE OneRowPerDay
  OBVIOUS
<1> DEFINE D == DaysOf(file)
<1>1. /\ written \in Seq(D) /\ dayRelSpreadQueue.items \in Seq(D)
      /\ daySpread.outbox \in Seq(D) /\ DatesDiffer(AllDays)
  BY DEF PipelineInv, Types, QueueOf, StageOf, DaysApart
<1>2. DaysArePure
  <2>1. \A i \in DOMAIN written : written[i] \in D
    BY <1>1
  <2>2. \A d \in D : \A l \in d.src : file[l].date = d.date
    BY DEF DaysOf, Stands
  <2> HIDE DEF D
  <2> QED BY <2>1, <2>2 DEF DaysArePure
<1>3. NoSplitDay
  <2> HIDE DEF D
  <2>1. StartsWith(AllDays, written)
    BY <1>1, StartOfConcat DEF AllDays
  <2>3. ASSUME NEW i \in 1 .. Len(written) - 1 PROVE written[i].date # written[i + 1].date
    <3>1. /\ i \in 1 .. Len(AllDays) - 1
          /\ i \in 1 .. Len(written) /\ i + 1 \in 1 .. Len(written)
      BY <2>1 DEF StartsWith
    <3>2. AllDays[i].date # AllDays[i + 1].date
      BY <1>1, <3>1 DEF DatesDiffer
    <3> QED BY <2>1, <3>1, <3>2 DEF StartsWith
  <2> QED BY <2>3 DEF NoSplitDay
<1> QED BY <1>2, <1>3 DEF OneRowPerDay

\* The rows written are the days of the file one by one: each averages lines of one
\* date, and no two that follow each other are of one, so that peeking at the next
\* observation never cuts a day in two, however the threads are scheduled.
THEOREM RowsAreDays == Spec => []OneRowPerDay
BY PipelineInvariant, InvOneRowPerDay, PTL

\* The cells of ten sequences of rows in one.
TenParts(S, a, b, c, d, e, f, g, h, i, j) ==
  CellsOfAll(a \o b \o c \o d \o e \o f \o g \o h \o i \o j)
    = CellsOfAll(a) \cup CellsOfAll(b) \cup CellsOfAll(c) \cup CellsOfAll(d)
      \cup CellsOfAll(e) \cup CellsOfAll(f) \cup CellsOfAll(g) \cup CellsOfAll(h)
      \cup CellsOfAll(i) \cup CellsOfAll(j)

LEMMA CellsOfTen ==
  ASSUME NEW S, NEW a \in Seq(S), NEW b \in Seq(S), NEW c \in Seq(S), NEW d \in Seq(S),
         NEW e \in Seq(S), NEW f \in Seq(S), NEW g \in Seq(S), NEW h \in Seq(S),
         NEW i \in Seq(S), NEW j \in Seq(S)
  PROVE  TenParts(S, a, b, c, d, e, f, g, h, i, j)
<1>1. ASSUME NEW s \in Seq(S), NEW t \in Seq(S), NEW u \in Seq(S)
      PROVE  /\ Cat(Cat(s, t), u) \in Seq(S)
             /\ CellsOfAll(Cat(Cat(s, t), u))
                  = CellsOfAll(s) \cup CellsOfAll(t) \cup CellsOfAll(u)
  <2>1. Cat(Cat(s, t), u) \in Seq(S)
    BY CatFacts
  <2>2. CellsOfAll(s \o t \o u) = CellsOfAll(s) \cup CellsOfAll(t) \cup CellsOfAll(u)
    BY CellsBetween
  <2> QED BY <2>1, <2>2 DEF Cat
<1> DEFINE x == Cat(Cat(a, b), c)
           y == Cat(Cat(x, d), e)
           z == Cat(Cat(y, f), g)
           w == Cat(Cat(z, h), i)
<1>2. x \in Seq(S) /\ CellsOfAll(x) = CellsOfAll(a) \cup CellsOfAll(b) \cup CellsOfAll(c)
  BY <1>1
<1> HIDE DEF x
<1>3. y \in Seq(S) /\ CellsOfAll(y) = CellsOfAll(x) \cup CellsOfAll(d) \cup CellsOfAll(e)
  BY <1>1, <1>2
<1> HIDE DEF y
<1>4. z \in Seq(S) /\ CellsOfAll(z) = CellsOfAll(y) \cup CellsOfAll(f) \cup CellsOfAll(g)
  BY <1>1, <1>3
<1> HIDE DEF z
<1>5. w \in Seq(S) /\ CellsOfAll(w) = CellsOfAll(z) \cup CellsOfAll(h) \cup CellsOfAll(i)
  BY <1>1, <1>4
<1> HIDE DEF w
<1>6. CellsOfAll(w \o j) = CellsOfAll(w) \cup CellsOfAll(j)
  BY <1>5, CellsOfConcat
<1>7. CellsOfAll(w \o j)
        = CellsOfAll(a) \cup CellsOfAll(b) \cup CellsOfAll(c) \cup CellsOfAll(d)
          \cup CellsOfAll(e) \cup CellsOfAll(f) \cup CellsOfAll(g) \cup CellsOfAll(h)
          \cup CellsOfAll(i) \cup CellsOfAll(j)
  BY <1>2, <1>3, <1>4, <1>5, <1>6
<1> QED BY <1>7 DEF w, z, y, x, Cat, TenParts

\* A stage that has not failed has nothing at hand.
LEMMA NothingAtHand ==
  ASSUME PipelineInv, Failed = {}
  PROVE  /\ merge.hand = <<>> /\ outliers.hand = <<>> /\ relSpread.hand = <<>>
         /\ daySpread.hand = <<>>
         /\ \A s \in Stages : PcOf[s] # "failed"
<1>1. \A s \in Stages : PcOf[s] # "failed"
  BY DEF Failed
<1>2. /\ merge.pc # "failed" /\ outliers.pc # "failed" /\ relSpread.pc # "failed"
      /\ daySpread.pc # "failed"
  <2>1. /\ PcOf["merge"] = merge.pc /\ PcOf["outliers"] = outliers.pc
        /\ PcOf["relSpread"] = relSpread.pc /\ PcOf["daySpread"] = daySpread.pc
    BY DEF PcOf
  <2>2. "merge" \in Stages /\ "outliers" \in Stages /\ "relSpread" \in Stages
        /\ "daySpread" \in Stages
    BY DEF Stages
  <2> QED BY <1>1, <2>1, <2>2
<1> QED BY <1>1, <1>2 DEF PipelineInv, Control, MergeControl, OutliersControl,
                         RelSpreadControl, DaySpreadControl, StageControl

LEMMA InvHeapSound == PipelineInv => HeapSound
<1> SUFFICES ASSUME PipelineInv PROVE HeapSound
  OBVIOUS
<1> DEFINE O == ObsOf(file)
<1>1. HeapSafe
  BY DEF PipelineInv, HeapExact, HeapSafe
<1>2. ASSUME Failed = {} PROVE NothingLeaks
  <2>1. /\ merge.hand = <<>> /\ outliers.hand = <<>> /\ relSpread.hand = <<>>
        /\ daySpread.hand = <<>>
    BY <1>2, NothingAtHand
  <2>2. /\ outliers.buffer \in Seq(O) /\ outliers.outbox \in Seq(O) /\ merge.buffer \in Seq(O)
        /\ merge.outbox \in Seq(O) /\ relSpread.outbox \in Seq(O) /\ parser.outbox \in Seq(O)
        /\ parsedQueue.items \in Seq(O) /\ timestampMergedQueue.items \in Seq(O)
        /\ outliersFilteredQueue.items \in Seq(O) /\ relSpreadQueue.items \in Seq(O)
    BY DEF PipelineInv, Types, StageOf, QueueOf
  <2> HIDE DEF O
  <2>3. TenParts(O, outliers.buffer, outliers.outbox, merge.buffer, merge.outbox,
                 relSpread.outbox, parser.outbox, parsedQueue.items,
                 timestampMergedQueue.items, outliersFilteredQueue.items,
                 relSpreadQueue.items)
    BY <2>2, CellsOfTen
  <2>a. CellsOfAll(Held)
          = CellsOfAll(outliers.buffer) \cup CellsOfAll(outliers.outbox)
            \cup CellsOfAll(merge.buffer) \cup CellsOfAll(merge.outbox)
            \cup CellsOfAll(relSpread.outbox) \cup CellsOfAll(parser.outbox)
            \cup CellsOfAll(parsedQueue.items) \cup CellsOfAll(timestampMergedQueue.items)
            \cup CellsOfAll(outliersFilteredQueue.items) \cup CellsOfAll(relSpreadQueue.items)
    BY <2>3 DEF TenParts, Held
  <2>4. Reverse(merge.buffer) \in Seq(O) /\ CellsOfAll(Reverse(merge.buffer)) = CellsOfAll(merge.buffer)
    BY <2>2, ReverseProperties DEF CellsOfAll
  <2>5. CellsOfAll(<<>>) = {}
    BY CellsOfFew
  <2>b. ASSUME NEW st, NEW b \in Seq(O), st.outbox \in Seq(O), st.hand = <<>>
        PROVE  CellsOfAll(RowsOf(st, b)) = CellsOfAll(st.outbox) \cup CellsOfAll(b)
    <3> DEFINE nothing == <<>>
    <3>1. nothing \in Seq(O)
      OBVIOUS
    <3> HIDE DEF nothing
    <3>2. CellsOfAll(st.outbox \o b \o nothing)
            = CellsOfAll(st.outbox) \cup CellsOfAll(b) \cup CellsOfAll(nothing)
      BY <2>b, <3>1, CellsBetween
    <3> QED BY <2>b, <2>5, <3>2 DEF RowsOf, nothing
  <2>6. /\ CellsOfAll(RowsOf(relSpread, <<>>)) = CellsOfAll(relSpread.outbox)
        /\ CellsOfAll(RowsOf(outliers, outliers.buffer))
             = CellsOfAll(outliers.outbox) \cup CellsOfAll(outliers.buffer)
        /\ CellsOfAll(RowsOf(merge, Reverse(merge.buffer)))
             = CellsOfAll(merge.outbox) \cup CellsOfAll(merge.buffer)
    <3>1. <<>> \in Seq(O)
      OBVIOUS
    <3>2. CellsOfAll(RowsOf(relSpread, <<>>)) = CellsOfAll(relSpread.outbox) \cup CellsOfAll(<<>>)
      BY <2>1, <2>2, <2>b, <3>1
    <3>3. CellsOfAll(RowsOf(merge, Reverse(merge.buffer)))
             = CellsOfAll(merge.outbox) \cup CellsOfAll(Reverse(merge.buffer))
      BY <2>1, <2>2, <2>4, <2>b
    <3>4. CellsOfAll(RowsOf(outliers, outliers.buffer))
             = CellsOfAll(outliers.outbox) \cup CellsOfAll(outliers.buffer)
      BY <2>1, <2>2, <2>b
    <3> QED BY <2>4, <2>5, <3>2, <3>3, <3>4
  <2>7. heap = DayCellsOfAll(HeldDays) \cup BufferCells \cup CellsOfAll(daySpread.hand)
            \cup CellsOfAll(relSpreadQueue.items)
            \cup CellsOfAll(RowsOf(relSpread, <<>>))
            \cup CellsOfAll(outliersFilteredQueue.items)
            \cup CellsOfAll(RowsOf(outliers, outliers.buffer))
            \cup CellsOfAll(timestampMergedQueue.items)
            \cup CellsOfAll(RowsOf(merge, Reverse(merge.buffer)))
            \cup CellsOfAll(parsedQueue.items) \cup CellsOfAll(parser.outbox)
    BY DEF PipelineInv, HeapExact
  <2>8. heap = CellsOfAll(Held) \cup DayCellsOfAll(HeldDays) \cup BufferCells
    BY <2>1, <2>a, <2>5, <2>6, <2>7
  <2> QED BY <2>8 DEF NothingLeaks, DayCellsOfAll, BufferCells
<1> QED BY <1>1, <1>2 DEF HeapSound, NothingLeaks

\* No thread reads or deletes a cell that another has deleted, and while no stage
\* has failed the cells allocated are exactly those of the rows the stages and the
\* queues hold, for every interleaving of the six threads.
THEOREM HeapIsSound == Spec => []HeapSound
BY PipelineInvariant, InvHeapSound, PTL

\* The lines of all the rows.
LEMMA SrcOfRows ==
  ASSUME Types
  PROVE  Src(Rows) = Src(Ahead0) \cup Src(timestampMergedQueue.items) \cup Src(Behind1)
<1> DEFINE R == RowOf(file)
<1>1. /\ timestampMergedQueue.items \in Seq(R) /\ parsedQueue.items \in Seq(R)
      /\ RowsOf(merge, Reverse(merge.buffer)) \in Seq(R) /\ parser.outbox \in Seq(R)
      /\ MergeRows \in Seq(R)
  <2>1. file \in Files
    BY DEF Types
  <2>2. \A s \in Seq(ObsOf(file)) : s \in Seq(R)
    BY <2>1, RowsInFile
  <2> QED BY <2>2, PartsOf DEF Parts
<1>2. Ahead0 \in Seq(R) /\ Rows = Ahead0 \o MergeRows \o parser.outbox
  BY RowsCut DEF CutRows
<1> HIDE DEF R
<1>3. Src(MergeRows) = Src(timestampMergedQueue.items)
                       \cup Src(RowsOf(merge, Reverse(merge.buffer))) \cup Src(parsedQueue.items)
  <2>1. MergeRows = timestampMergedQueue.items \o RowsOf(merge, Reverse(merge.buffer))
                    \o parsedQueue.items
    BY DEF MergeRows, Between, RowsOf
  <2> QED BY <1>1, <2>1, CellsBetween
<1>4. Src(Ahead0 \o MergeRows \o parser.outbox)
        = Src(Ahead0) \cup Src(MergeRows) \cup Src(parser.outbox)
  BY <1>1, <1>2, CellsBetween
<1> QED BY <1>2, <1>3, <1>4, SrcAround

\* When main has returned and no stage has failed, the stages have nothing left.
NothingInStages ==
  /\ parser.outbox = <<>> /\ RowsOf(merge, Reverse(merge.buffer)) = <<>>
  /\ RowsOf(outliers, outliers.buffer) = <<>> /\ RowsOf(relSpread, <<>>) = <<>>
  /\ RowsOf(daySpread, DayBuffer) = <<>>

LEMMA StagesEmpty == PipelineInv /\ main = "returned" /\ Failed = {} => NothingInStages
<1> SUFFICES ASSUME PipelineInv, main = "returned", Failed = {} PROVE NothingInStages
  OBVIOUS
<1>1. /\ merge.hand = <<>> /\ outliers.hand = <<>> /\ relSpread.hand = <<>>
      /\ daySpread.hand = <<>>
      /\ \A s \in Stages : PcOf[s] # "failed"
  BY NothingAtHand
<1>2. \A s \in Stages : PcOf[s] = "done"
  BY <1>1 DEF PipelineInv, Control, WriterControl, Over
<1>3. /\ parser.pc = "done" /\ merge.pc = "done" /\ outliers.pc = "done"
      /\ relSpread.pc = "done" /\ daySpread.pc = "done"
  <2>1. /\ PcOf["merge"] = merge.pc /\ PcOf["outliers"] = outliers.pc
        /\ PcOf["relSpread"] = relSpread.pc /\ PcOf["daySpread"] = daySpread.pc
        /\ PcOf["parser"] = parser.pc
    BY DEF PcOf
  <2>2. "merge" \in Stages /\ "outliers" \in Stages /\ "relSpread" \in Stages
        /\ "daySpread" \in Stages /\ "parser" \in Stages
    BY DEF Stages
  <2> QED BY <1>2, <2>1, <2>2
<1>4. /\ parser.outbox = <<>>
      /\ merge.outbox = <<>> /\ merge.buffer = <<>>
      /\ outliers.outbox = <<>> /\ outliers.buffer = <<>>
      /\ relSpread.outbox = <<>>
      /\ daySpread.outbox = <<>> /\ daySpread.buffer = <<>>
  BY <1>3 DEF PipelineInv, Control, ParserControl, MergeControl, OutliersControl,
              RelSpreadControl, DaySpreadControl, StageControl
<1>5. <<>> \o <<>> = <<>> /\ Reverse(<<>>) = <<>>
  <2>1. <<>> \in Seq({}) /\ Reverse(<<>>) \in Seq({}) /\ Len(Reverse(<<>>)) = 0
    BY ReverseProperties, <<>> \in Seq({})
  <2> QED BY <2>1, EmptySeq
<1> QED BY <1>1, <1>3, <1>4, <1>5 DEF NothingInStages, RowsOf, DayBuffer

LEMMA InvLossOnlyInQueues == PipelineInv => LossOnlyInQueues
<1> SUFFICES ASSUME PipelineInv, main = "returned", Failed = {}
             PROVE  Parsed = Src(written) \cup dropped
                             \cup UNION {Src(queues[k].items) : k \in DOMAIN queues}
  BY DEF LossOnlyInQueues
<1>1. NothingInStages /\ Types
  BY StagesEmpty DEF PipelineInv
<1>2. Src(<<>>) = {}
  BY SrcOfFew
<1>3. Src(Rows) = Src(written) \cup Src(dayRelSpreadQueue.items) \cup Src(relSpreadQueue.items)
                  \cup Src(outliersFilteredQueue.items) \cup Src(timestampMergedQueue.items)
                  \cup Src(parsedQueue.items)
  BY <1>1, <1>2, SrcOfRows, SrcAround DEF NothingInStages
<1>4. UNION {Src(queues[k].items) : k \in DOMAIN queues}
        = Src(dayRelSpreadQueue.items) \cup Src(relSpreadQueue.items)
          \cup Src(outliersFilteredQueue.items) \cup Src(timestampMergedQueue.items)
          \cup Src(parsedQueue.items)
  <2> DEFINE S(k) == Src(queues[k].items)
  <2>1. /\ S(1) = Src(parsedQueue.items) /\ S(2) = Src(timestampMergedQueue.items)
        /\ S(3) = Src(outliersFilteredQueue.items) /\ S(4) = Src(relSpreadQueue.items)
        /\ S(5) = Src(dayRelSpreadQueue.items)
    BY FiveQueues
  <2>2. \A k : k \in DOMAIN queues <=> k = 1 \/ k = 2 \/ k = 3 \/ k = 4 \/ k = 5
    BY FiveQueues
  <2>3. UNION {S(k) : k \in DOMAIN queues} = S(1) \cup S(2) \cup S(3) \cup S(4) \cup S(5)
    <3> HIDE DEF S
    <3> QED BY <2>2, Zenon
  <2> HIDE DEF S
  <2>4. UNION {S(k) : k \in DOMAIN queues}
          = Src(dayRelSpreadQueue.items) \cup Src(relSpreadQueue.items)
            \cup Src(outliersFilteredQueue.items) \cup Src(timestampMergedQueue.items)
            \cup Src(parsedQueue.items)
    BY <2>1, <2>3
  <2> QED BY <2>4 DEF S
<1>5. Src(Rows) \cup dropped = Parsed
  BY DEF PipelineInv, Ordered, EveryLineAccountedFor
<1> QED BY <1>3, <1>4, <1>5

\* When all the stages have come to their end and none has failed, every observation
\* parsed has been averaged in a row written, or deleted on purpose, or left in a
\* queue; there is no other way for one to be lost.
THEOREM LossOnlyWhereQueued == Spec => []LossOnlyInQueues
BY PipelineInvariant, InvLossOnlyInQueues, PTL

\* The first and the last of a set of lines.
LEMMA FirstAndLast ==
  ASSUME NEW n \in Nat, NEW S \in SUBSET (1 .. n), S # {}
  PROVE  /\ Max(S) \in S /\ \A y \in S : y <= Max(S)
         /\ Min(S) \in S /\ \A y \in S : Min(S) <= y
<1>1. ASSUME NEW T, T \subseteq Nat, T # {} PROVE \E x \in T : \A y \in T : x <= y
  <2> DEFINE less == {ss \in Nat \X Nat : ss[1] < ss[2]}
  <2>1. less = OpToRel(<, Nat)
    BY Zenon DEF OpToRel
  <2>2. IsWellFoundedOn(less, Nat)
    BY <2>1, NatLessThanWellFounded, Zenon
  <2>3. \A x, y \in Nat : y < x => <<y, x>> \in less
    OBVIOUS
  <2> HIDE DEF less
  <2>4. PICK x \in T : \A y \in T : <<y, x>> \notin less
    BY <1>1, <2>2, WFMin
  <2>5. ASSUME NEW y \in T PROVE x <= y
    <3>1. x \in Nat /\ y \in Nat
      BY <1>1
    <3>2. ~(y < x)
      BY <2>3, <2>4, <3>1, Zenon
    <3> QED BY <3>1, <3>2
  <2> QED BY <2>5
<1>2. \E x \in S : \A y \in S : x <= y
  BY <1>1, S \subseteq Nat
<1>3. \E x \in S : \A y \in S : x >= y
  <2> DEFINE T == {n - x : x \in S}
  <2>1. T \subseteq Nat /\ T # {}
    <3>1. \A x \in S : n - x \in Nat /\ n - x \in T
      OBVIOUS
    <3> QED BY <3>1
  <2> HIDE DEF T
  <2>2. PICK t \in T : \A y \in T : t <= y
    BY <1>1, <2>1
  <2>3. PICK x \in S : t = n - x
    BY DEF T
  <2>4. ASSUME NEW y \in S PROVE x >= y
    <3>1. n - y \in T
      BY DEF T
    <3> QED BY <2>2, <2>3, <3>1
  <2> QED BY <2>4
<1>4. Min(S) \in S /\ \A y \in S : Min(S) <= y
  BY <1>2 DEF Min
<1>5. Max(S) \in S /\ \A y \in S : Max(S) >= y
  BY <1>3 DEF Max
<1> QED BY <1>4, <1>5

LEMMA InvRowsAccountedFor == PipelineInv => RowsAccountedFor
<1> SUFFICES ASSUME PipelineInv PROVE RowsAccountedFor
  OBVIOUS
<1>1. /\ Sorted(Rows) /\ EveryLineAccountedFor /\ Types /\ file \in Files
  BY DEF PipelineInv, Ordered, Types
<1>2. Rows \in Seq(RowOf(file)) /\ DOMAIN file = 1 .. Len(file) /\ Len(file) \in Nat
  BY <1>1, RowsCut, RowsInFile DEF CutRows
<1>3. ASSUME NEW r \in RowOf(file)
      PROVE  r.src \in SUBSET (1 .. Len(file)) /\ r.src # {}
  BY <1>2, <1>3 DEF RowOf, ObsOf, DaysOf, Stands
<1>4. ASSUME NEW i \in 1 .. Len(Rows) - 1 PROVE Max(Rows[i].src) < Min(Rows[i + 1].src)
  <2>1. Len(Rows) \in Nat
    BY <1>2, LenProperties
  <2>2. i \in 1 .. Len(Rows) /\ i + 1 \in 1 .. Len(Rows) /\ i < i + 1
    BY <2>1
  <2>3. Rows[i] \in RowOf(file) /\ Rows[i + 1] \in RowOf(file)
    BY <1>2, <2>2, ElementOfSeq
  <2>4. /\ Max(Rows[i].src) \in Rows[i].src
        /\ Min(Rows[i + 1].src) \in Rows[i + 1].src
    BY <1>2, <1>3, <2>3, FirstAndLast
  <2>5. \A x \in Rows[i].src, y \in Rows[i + 1].src : x < y
    BY <1>1, <2>2 DEF Sorted
  <2> QED BY <2>4, <2>5
<1> QED BY <1>1, <1>4 DEF RowsAccountedFor, InFileOrder

\* Between the file and the output no observation is lost, doubled or overtaken,
\* whatever the interleaving of the six threads and whatever stage has failed: every
\* one parsed is in one row, or was deleted on purpose, and the rows are in the order
\* of the file.
THEOREM RowsAreAccountedFor == Spec => []RowsAccountedFor
BY PipelineInvariant, InvRowsAccountedFor, PTL

LEMMA InvOutputIsPrefix == PipelineInv => OutputIsPrefix
<1> SUFFICES ASSUME PipelineInv, written # <<>>, NEW l \in Parsed, l <= Max(Src(written)),
                    l \notin dropped
             PROVE  l \in Src(written)
  BY DEF OutputIsPrefix
<1> DEFINE R == RowOf(file)
<1>1. /\ Types /\ Ordered /\ file \in Files
  BY DEF PipelineInv, Types
<1>2. DOMAIN file = 1 .. Len(file) /\ Len(file) \in Nat
  BY <1>1, RowsInFile
<1>3. /\ written \in Seq(R) /\ Rows \in Seq(R) /\ LastRows \in Seq(R) /\ Behind3 \in Seq(R)
      /\ Rows = LastRows \o Behind3
  BY <1>1, PartsOf, RowsCut, LastRowsCut DEF Parts, CutRows, LastCut
<1>4. DaySpreadRows \in Seq(R)
  <2>1. /\ relSpreadQueue.items \in Seq(ObsOf(file)) /\ dayRelSpreadQueue.items \in Seq(R)
        /\ RowsOf(daySpread, DayBuffer) \in Seq(R)
    BY <1>1, PartsOf DEF Parts
  <2>2. relSpreadQueue.items \in Seq(R)
    BY <1>1, <2>1, RowsInFile
  <2>3. DaySpreadRows = Cat(Cat(dayRelSpreadQueue.items, RowsOf(daySpread, DayBuffer)),
                            relSpreadQueue.items)
    BY DEF DaySpreadRows, Between, RowsOf, Cat
  <2> HIDE DEF R
  <2> QED BY <2>1, <2>2, <2>3, CatFacts
<1>5. /\ Src(written) \subseteq 1 .. Len(file)
      /\ \E r \in R : r.src \subseteq Src(written) /\ r.src # {}
  <2>1. Last(written) \in R /\ Last(written).src \subseteq Src(written)
    BY <1>3, LastDay
  <2>2. \A r \in R : r.src # {}
    BY DEF RowOf, ObsOf, DaysOf, Stands
  <2> QED BY <1>1, <1>3, <2>1, <2>2, RowsInFile
<1>6. Max(Src(written)) \in Src(written)
  BY <1>2, <1>5, FirstAndLast
<1> HIDE DEF R
<1>7. /\ Sorted(LastRows) /\ Before(Src(LastRows), Src(Behind3))
  BY <1>1, DaysInOrder DEF DayOrder
<1>8. /\ Src(LastRows) = Src(written) \cup Src(DaySpreadRows)
      /\ Before(Src(written), Src(DaySpreadRows))
  <2>1. Src(written \o DaySpreadRows) = Src(written) \cup Src(DaySpreadRows)
    BY <1>3, <1>4, SrcOfConcat
  <2>2. Sorted(written \o DaySpreadRows) => Before(Src(written), Src(DaySpreadRows))
    BY <1>3, <1>4, SortedConcat
  <2> QED BY <1>7, <2>1, <2>2 DEF LastRows
<1>9. l \in Src(LastRows) \cup Src(Behind3)
  <2>1. l \in Src(Rows)
    BY <1>1 DEF Ordered, EveryLineAccountedFor
  <2>2. Src(LastRows \o Behind3) = Src(LastRows) \cup Src(Behind3)
    BY <1>3, SrcOfConcat
  <2> QED BY <1>3, <2>1, <2>2
<1>10. l \in Nat /\ Max(Src(written)) \in Nat
  BY <1>2, <1>5, <1>6 DEF Parsed
<1>11. l \notin Src(DaySpreadRows) /\ l \notin Src(Behind3)
  <2>1. l \in Src(DaySpreadRows) \/ l \in Src(Behind3) => Max(Src(written)) < l
    BY <1>6, <1>7, <1>8 DEF Before
  <2> QED BY <1>10, <2>1
<1> QED BY <1>8, <1>9, <1>11

\* The output is never short of a line in its middle: up to the last line that made it
\* there, each has been averaged in a row written or deleted on purpose.
THEOREM OutputHasNoGaps == Spec => []OutputIsPrefix
BY PipelineInvariant, InvOutputIsPrefix, PTL

-----------------------------------------------------------------------------
(* The context of an outlier, whose values the filter's step leaves open. *)

\* The three shapes of a window: from the start of the day, to its end, or centered.
LEMMA WindowCases ==
  ASSUME NEW n \in Nat, NEW i \in 0 .. n - 1
  PROVE  LET w == Window(n, i) IN
         /\ w.low \in Nat /\ w.high \in Nat /\ w.current \in Nat
         /\ w.low + w.current = i
         /\ Size(w) \in Nat \ {0}
         /\ \/ w.low = 0 /\ w.high = 50 /\ i <= 25
            \/ w.low = n - 26 /\ w.high = n - 1 /\ i > 25 /\ n - i < 26
            \/ w.low = i - 25 /\ w.high = i + 25 /\ i > 25 /\ n - i >= 26
<1>1. Half = 25
  BY DEF Half, windowSize
<1>2. CASE i <= 25
  BY <1>1, <1>2 DEF Window, Size, windowSize
<1>3. CASE i > 25 /\ n - i < 26
  BY <1>1, <1>3 DEF Window, Size, windowSize
<1>4. CASE i > 25 /\ n - i >= 26
  BY <1>1, <1>4 DEF Window, Size, windowSize
<1> QED
  BY <1>2, <1>3, <1>4

\* Every index read is one of the day's, so that at() never throws, and none is that of
\* the observation the context is computed for.
THEOREM ContextInDay ==
  ASSUME NEW n \in Nat, NEW i \in 0 .. n - 1
  PROVE  Context(n, i) \subseteq (0 .. n - 1) \ {i}
<1> DEFINE w == Window(n, i)
<1>1. SUFFICES ASSUME NEW k \in 0 .. n - 1, k < Size(w), k # w.current
               PROVE  w.low + k \in (0 .. n - 1) \ {i}
  BY DEF Context
<1>0. /\ w.low \in Nat /\ w.high \in Nat /\ w.current \in Nat
      /\ w.low + w.current = i
      /\ \/ w.low = 0 /\ w.high = 50 /\ i <= 25
         \/ w.low = n - 26 /\ w.high = n - 1 /\ i > 25 /\ n - i < 26
         \/ w.low = i - 25 /\ w.high = i + 25 /\ i > 25 /\ n - i >= 26
  BY WindowCases
<1> HIDE DEF w
<1>2. w.low + k # i
  BY <1>0, <1>1
<1>3. w.low + k <= n - 1
  BY <1>0, <1>1 DEF Size
<1> QED
  BY <1>0, <1>2, <1>3

\* The context has the 25 observations that follow, as far as the day goes, and the 25
\* before, but near the end of a long day only those among its last 26.
THEOREM NeighboursAreContext ==
  ASSUME NEW n \in Nat, NEW i \in 0 .. n - 1, NEW j \in 0 .. n - 1,
         j # i, i - 25 <= j, j <= i + 25,
         \/ i < j
         \/ i <= 25 \/ n - i >= 26
         \/ j >= n - 26
  PROVE  j \in Context(n, i)
<1> DEFINE w == Window(n, i)  k == j - w.low
<1>1. SUFFICES k \in 0 .. n - 1 /\ k < Size(w) /\ k # w.current /\ w.low + k = j
  BY DEF Context
<1>0. /\ w.low \in Nat /\ w.high \in Nat /\ w.current \in Nat
      /\ w.low + w.current = i
      /\ \/ w.low = 0 /\ w.high = 50 /\ i <= 25
         \/ w.low = n - 26 /\ w.high = n - 1 /\ i > 25 /\ n - i < 26
         \/ w.low = i - 25 /\ w.high = i + 25 /\ i > 25 /\ n - i >= 26
  BY WindowCases
<1> HIDE DEF w
<1> QED
  BY <1>0 DEF Size

\* Only a day with a single observation has an empty context.
THEOREM ContextNotEmpty ==
  ASSUME NEW n \in Nat, n >= 2, NEW i \in 0 .. n - 1
  PROVE  Context(n, i) # {}
<1>1. CASE i < n - 1
  <2>1. i + 1 \in Context(n, i)
    BY <1>1, NeighboursAreContext
  <2> QED
    BY <2>1
<1>2. CASE i = n - 1
  <2>1. i - 1 \in Context(n, i)
    BY <1>2, NeighboursAreContext
  <2> QED
    BY <2>1
<1> QED
  BY <1>1, <1>2

\* The trimmed mean of one value or more reads only values there are, at least one, and
\* divides by how many they are.
THEOREM TrimKeepsSome ==
  ASSUME NEW c \in Nat \ {0}
  PROVE  /\ Kept(c) \subseteq 0 .. c - 1
         /\ Cardinality(Kept(c)) = c - 2 * Skip(c)
         /\ c - 2 * Skip(c) >= 1
<1>1. Skip(c) \in Nat /\ 2 * Skip(c) < c
  BY DEF Skip
<1>2. Kept(c) \subseteq 0 .. c - 1
  BY <1>1 DEF Kept
<1>3. Cardinality(Kept(c)) = c - 2 * Skip(c)
  BY <1>1, FS_Interval DEF Kept
<1> QED
  BY <1>1, <1>2, <1>3

\* The median of one value or more reads only values there are, as many below as above.
THEOREM MedianInMiddle ==
  ASSUME NEW c \in Nat \ {0}
  PROVE  /\ Middle(c) \subseteq 0 .. c - 1
         /\ \A m \in Middle(c) : (c - 1) - m \in Middle(c)
<1>1. CASE c % 2 = 0
  BY <1>1 DEF Middle
<1>2. CASE c % 2 = 1
  BY <1>2 DEF Middle
<1> QED
  BY <1>1, <1>2
=============================================================================
