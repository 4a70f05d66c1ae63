------------------------------ MODULE Pipeline ------------------------------
(***************************************************************************)
(* processFile(): six threads connected by five AtomicQueues turn a file   *)
(* of quotes into a file of daily relative spreads.                        *)
(*                                                                         *)
(*   StreamParser -> TimestampMergeFilter -> OutliersFilter ->             *)
(*   RelSpreadProcessor -> DayRelSpreadProcessor -> OutputWriter           *)
(*                                                                         *)
(* Each stage is a module of its own; here they run concurrently, and main *)
(* joins them.                                                             *)
(***************************************************************************)
EXTENDS DataStructures, FiniteSetsExt

CONSTANTS
  MinCapacity, MaxCapacity,  \* the room of each queue, see AtomicQueue
  Garbage,                   \* what an uninitialized m_empty may read as
  Files,                     \* the input files considered: sequences of lines
  Faulty                     \* the stages a std::exception may strike, for each file

Stages == {"parser", "merge", "outliers", "relSpread", "daySpread", "writer"}

LineType == [kind : {"good", "skip", "bad", "cut"}, date : Nat, time : Nat, neg : BOOLEAN]

ASSUME PipelineAssumption ==
  /\ MinCapacity \in Nat \ {0} /\ MaxCapacity \in Nat /\ MinCapacity <= MaxCapacity
  /\ Garbage \subseteq BOOLEAN
  /\ Faulty \in [Files -> SUBSET Stages]
  /\ \A f \in Files : f \in Seq(LineType)

VARIABLES
  file, parser, merge, outliers, relSpread, daySpread, writer, written,
  parsedQueue, timestampMergedQueue, outliersFilteredQueue, relSpreadQueue,
  dayRelSpreadQueue,
  msgs,      \* what the stages have put in msgQueue, the counters left out
  dropped,   \* history: the lines deleted as outliers or because the spread is negative
  main       \* processFile(): "joining" or "returned"

queues == <<parsedQueue, timestampMergedQueue, outliersFilteredQueue,
            relSpreadQueue, dayRelSpreadQueue>>
threads == <<parser, merge, outliers, relSpread, daySpread, writer>>
vars == <<file, threads, queues, written, heap, wild, msgs, dropped, main>>

Parser == INSTANCE StreamParser
Merge == INSTANCE TimestampMergeFilter
  WITH Sender <- "TIMESTAMP_MERGE_FILTER", stage <- merge,
       inputQueue <- parsedQueue, outputQueue <- timestampMergedQueue
Outliers == INSTANCE OutliersFilter
  WITH Sender <- "OUTLIER_FILTER", stage <- outliers,
       inputQueue <- timestampMergedQueue, outputQueue <- outliersFilteredQueue
RelSpread == INSTANCE RelSpreadProcessor
  WITH Sender <- "RELSPREAD_PROCESSOR", stage <- relSpread,
       inputQueue <- outliersFilteredQueue, outputQueue <- relSpreadQueue
DaySpread == INSTANCE DayRelSpreadProcessor
  WITH Sender <- "DAY_RELSPREAD_PROCESSOR", stage <- daySpread,
       inputQueue <- relSpreadQueue, outputQueue <- dayRelSpreadQueue
Writer == INSTANCE OutputWriter
Queue == INSTANCE AtomicQueue WITH q <- parsedQueue

Init == /\ file \in Files
        /\ parser = Parser!NewParser
        /\ merge = Merge!NewStage /\ outliers = Merge!NewStage
        /\ relSpread = Merge!NewStage /\ daySpread = Merge!NewStage
        /\ writer = "open" /\ written = <<>>
        /\ \E g \in [1 .. 5 -> Garbage] :
             /\ parsedQueue = Queue!NewQueue(g[1])
             /\ timestampMergedQueue = Queue!NewQueue(g[2])
             /\ outliersFilteredQueue = Queue!NewQueue(g[3])
             /\ relSpreadQueue = Queue!NewQueue(g[4])
             /\ dayRelSpreadQueue = Queue!NewQueue(g[5])
        /\ HeapInit
        /\ msgs = {} /\ dropped = {}
        /\ main = "joining"

-----------------------------------------------------------------------------
(* The threads.  Each leaves alone what it has no pointer to. *)

ParserThread ==
  /\ Parser!Step \/ ("parser" \in Faulty[file] /\ Parser!Fail)
  /\ UNCHANGED <<merge, outliers, relSpread, daySpread, writer, written,
                 timestampMergedQueue, outliersFilteredQueue, relSpreadQueue,
                 dayRelSpreadQueue, dropped, main>>

MergeThread ==
  /\ Merge!Step \/ ("merge" \in Faulty[file] /\ Merge!Fail)
  /\ UNCHANGED <<file, parser, outliers, relSpread, daySpread, writer, written,
                 outliersFilteredQueue, relSpreadQueue, dayRelSpreadQueue, main>>

OutliersThread ==
  /\ Outliers!Step \/ ("outliers" \in Faulty[file] /\ Outliers!Fail)
  /\ UNCHANGED <<file, parser, merge, relSpread, daySpread, writer, written,
                 parsedQueue, relSpreadQueue, dayRelSpreadQueue, main>>

RelSpreadThread ==
  /\ RelSpread!Step \/ ("relSpread" \in Faulty[file] /\ RelSpread!Fail)
  /\ UNCHANGED <<file, parser, merge, outliers, daySpread, writer, written,
                 parsedQueue, timestampMergedQueue, dayRelSpreadQueue, main>>

DaySpreadThread ==
  /\ DaySpread!Step \/ ("daySpread" \in Faulty[file] /\ DaySpread!Fail)
  /\ UNCHANGED <<file, parser, merge, outliers, relSpread, writer, written,
                 parsedQueue, timestampMergedQueue, outliersFilteredQueue, main>>

WriterThread ==
  /\ Writer!Step \/ ("writer" \in Faulty[file] /\ Writer!Fail)
  /\ UNCHANGED <<file, parser, merge, outliers, relSpread, daySpread, parsedQueue,
                 timestampMergedQueue, outliersFilteredQueue, relSpreadQueue,
                 dropped, main>>

Over(pc) == pc \in {"done", "failed"}

PcOf == [parser |-> parser.pc, merge |-> merge.pc, outliers |-> outliers.pc,
         relSpread |-> relSpread.pc, daySpread |-> daySpread.pc, writer |-> writer]

Failed == {s \in Stages : PcOf[s] = "failed"}

\* for_each(threads): t.join(); the queues are deleted when all have ended.
Return == /\ main = "joining"
          /\ \A s \in Stages : Over(PcOf[s])
          /\ main' = "returned"
          /\ UNCHANGED <<file, threads, queues, written, heap, wild, msgs, dropped>>

Terminated == main = "returned" /\ UNCHANGED vars

Next == \/ ParserThread \/ MergeThread \/ OutliersThread
        \/ RelSpreadThread \/ DaySpreadThread \/ WriterThread
        \/ Return \/ Terminated

Spec == Init /\ [][Next]_vars

\* Every loop retries after 25 ms and the scheduler runs every thread; no stage
\* is bound to fail.
Fairness ==
  /\ WF_vars(ParserThread /\ Parser!Step)
  /\ WF_vars(MergeThread /\ Merge!Step)
  /\ WF_vars(OutliersThread /\ Outliers!Step)
  /\ WF_vars(RelSpreadThread /\ RelSpread!Step)
  /\ WF_vars(DaySpreadThread /\ DaySpread!Step)
  /\ WF_vars(WriterThread /\ Writer!Step)
  /\ WF_vars(Return)

FairSpec == Spec /\ Fairness

-----------------------------------------------------------------------------
(* Where the rows are, the ones furthest on first.  While daySpread enqueues *)
(* or cleans up, the lines of its buffer are in the DaySpread made of them.  *)

Src(rows) == UNION {r.src : r \in ToSet(rows)}

DayBuffer == IF daySpread.pc \in {"emit", "clean"} THEN <<>> ELSE daySpread.buffer

\* The rows a stage has: those on their way out, those it collects, that at hand.
RowsOf(st, buffer) == st.outbox \o buffer \o st.hand

Rows == written \o dayRelSpreadQueue.items
        \o RowsOf(daySpread, DayBuffer) \o relSpreadQueue.items
        \o RowsOf(relSpread, <<>>) \o outliersFilteredQueue.items
        \o RowsOf(outliers, outliers.buffer) \o timestampMergedQueue.items
        \o RowsOf(merge, Reverse(merge.buffer)) \o parsedQueue.items
        \o parser.outbox

Parsed == {i \in DOMAIN file : /\ file[i].kind = "good"
                               /\ \/ i < parser.line
                                  \/ i = parser.line /\ parser.outbox # <<>>}

TypeOK ==
  /\ file \in Files
  /\ \A k \in DOMAIN queues : /\ queues[k].atEnd \in BOOLEAN /\ queues[k].full \in BOOLEAN
                              /\ queues[k].empty \in BOOLEAN /\ queues[k].missed \in BOOLEAN
                              /\ Len(queues[k].items) <= MaxCapacity
  /\ parser.pc \in {"parse", "emit", "close", "fault", "done"}
  /\ parser.line \in 1 .. Len(file) + 1
  /\ \A st \in {merge, outliers, relSpread, daySpread} :
       /\ st.pc \in {"take", "peek", "emit", "clean", "close", "done", "failed"}
       /\ st.ending \in BOOLEAN
       /\ st.pc = "emit" <=> st.outbox # <<>>
  /\ writer \in {"open", "take", "done", "failed"}
  /\ dropped \subseteq DOMAIN file
  /\ main \in {"joining", "returned"}

\* Rows never overtake each other between the file read and the file written:
\* the lines a row stands for all come before those of the row behind it.
InFileOrder ==
  \A i \in 1 .. Len(Rows) - 1 : Max(Rows[i].src) < Min(Rows[i + 1].src)

\* Every observation made by the parser is in one row of one stage or queue, or
\* was deleted on purpose, and not both, whatever stage has failed meanwhile.
EveryLineAccountedFor ==
  /\ Src(Rows) \cup dropped = Parsed
  /\ Src(Rows) \cap dropped = {}

\* Between the file and the output no row is lost, doubled or overtaken, while it
\* is handed from heap cell to queue to stage.
RowsAccountedFor == InFileOrder /\ EveryLineAccountedFor

\* Every row written is of one day: all the lines it averages have its date.
DaysArePure == \A i \in DOMAIN written : \A l \in written[i].src :
                 file[l].date = written[i].date

\* The peeking of pollDayObs never cuts a day in two, not even when the queue
\* runs empty in the middle of the day: consecutive rows differ in date.
NoSplitDay == \A i \in 1 .. Len(written) - 1 : written[i].date # written[i + 1].date

\* The rows written are the days of the file one by one: none is of two days, and no two
\* that follow each other are of one.
OneRowPerDay == DaysArePure /\ NoSplitDay

\* What has passed the merge filter and not yet the filter of outliers, and the
\* observation with which the next group starts or has started.
Stamped == outliers.buffer \o outliers.hand \o timestampMergedQueue.items \o merge.outbox
           \o (IF merge.buffer = <<>> THEN <<>> ELSE <<merge.buffer[1]>>)

\* Past the merge filter no two consecutive observations have the same date and
\* time, wherever the queue happened to run empty.
StampsMerged ==
  \A i \in 1 .. Len(Stamped) - 1 :
    \/ Stamped[i].date # Stamped[i + 1].date
    \/ Stamped[i].time # Stamped[i + 1].time

\* No thread reads or deletes a cell that another one has already deleted.
HeapSafe == ~wild

\* Every allocated cell belongs to a row that a stage or a queue still holds: as
\* long as no stage fails, nothing leaks on the way.
Held == outliers.buffer \o outliers.outbox \o merge.buffer \o merge.outbox
        \o relSpread.outbox \o parser.outbox \o parsedQueue.items
        \o timestampMergedQueue.items \o outliersFilteredQueue.items
        \o relSpreadQueue.items

HeldDays == dayRelSpreadQueue.items \o daySpread.outbox

NothingLeaks ==
  Failed = {} =>
    heap = CellsOfAll(Held)
           \cup (CellsOfAll(daySpread.buffer) \
                   (IF daySpread.pc = "clean" THEN KeyOf(daySpread.buffer[1]) ELSE {}))
           \cup UNION {DayCells(ds) : ds \in ToSet(HeldDays)}

\* The raw pointers the stages pass on are each deleted once, after the last use.
HeapSound == HeapSafe /\ NothingLeaks

\* When all the stages are over and none has failed, the only lines that did not
\* make it are those left in a queue whose reader was told of the end too early.
LossOnlyInQueues ==
  main = "returned" /\ Failed = {} =>
    Parsed = Src(written) \cup dropped \cup UNION {Src(queues[k].items) : k \in DOMAIN queues}

\* Whatever is lost is lost from the end: up to the last line that made it to the
\* output, every line has been averaged or deleted on purpose.
OutputIsPrefix ==
  written # <<>> => \A l \in Parsed : l <= Max(Src(written)) => l \in Src(written) \cup dropped

\* The stages end from the parser on: a stage has seen the end of its input only
\* if the stage before it is over.
EndsInOrder ==
  /\ merge.ending => Over(parser.pc)
  /\ outliers.ending => Over(merge.pc)
  /\ relSpread.ending => Over(outliers.pc)
  /\ daySpread.ending => Over(relSpread.pc)
  /\ writer = "done" => Over(daySpread.pc)

\* processFile() returns unless a stage fails.
ReturnsUnlessFailure == <>(main = "returned" \/ Failed # {})

\* A failure of the merge or of the outliers filter is contained downstream:
\* the stages after it, if they do not fail as well, come to their end.
DownstreamEnds ==
  Failed \cap {"merge", "outliers"} # {} ~>
    writer = "done" \/ Failed \cap {"relSpread", "daySpread", "writer"} # {}
=============================================================================
