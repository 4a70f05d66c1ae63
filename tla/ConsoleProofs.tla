--------------------------- MODULE ConsoleProofs ---------------------------
(***************************************************************************)
(* The console and the counters, for any stages, any number of rows and    *)
(* any number of reports.                                                  *)
(***************************************************************************)
EXTENDS Console, SequenceTheorems, TLAPS

\* A counter runs while its stage works, and its display thread is joined before the
\* stage is gone.
Lives == \A s \in Stages :
  /\ stages[s] = "start" <=> counters[s].thread = "none"
  /\ stages[s] = "work" => counters[s].running
  /\ stages[s] \in {"start", "join", "done"} => ~counters[s].running
  /\ stages[s] = "done" => counters[s].thread = "ended"

\* Nothing was late before the stop, nor is a report to come after a late one.
Lateness == \A s \in Stages :
  /\ late[s] <= 1
  /\ counters[s].running \/ counters[s].thread \in {"none", "call", "callback"}
       => late[s] = 0

\* The count that was handed over is part of the count until it is reset.
ReadIsPart == \A s \in Stages :
  counters[s].thread \in {"callback", "reset"} => counters[s].read <= counters[s].perSec

\* The console thread empties msgQueue when the stages are done.
Shutting ==
  /\ console \in {"lastSleep", "drain", "ended"} => m_shutdown
  /\ m_shutdown => StagesDone
  /\ console = "ended" => Out!Empty
  /\ main = "returned" => console = "ended"

Finished == <<"Finished !">>
LastReport(s) == <<counters[s].read, counters[s].reports>>

\* The threads of a stage put their own lines in their streams; the last report is the
\* last in its stream, or was shown as the last of the reports.
Lines == \A s \in Stages :
  LET ended == msgQueue[<<s, "stage">>]
      rates == msgQueue[<<s, "display">>]
  IN /\ \A k \in 1 .. Len(ended) : ended[k] = [sender |-> s, text |-> Finished]
     /\ \A k \in 1 .. Len(rates) : rates[k].sender = s
     /\ counters[s].thread # "callback" =>
          IF rates = <<>> THEN table[s] \in {<<>>, Finished, LastReport(s)}
          ELSE rates[Len(rates)].text = LastReport(s)

\* The inductive invariant.
ConsoleInv == /\ TypeOK /\ Lives /\ Lateness
              /\ ReadIsPart /\ NoTickCountedTwice
              /\ Shutting /\ Lines

-----------------------------------------------------------------------------
(* Types. *)

CounterType ==
  [running : BOOLEAN, perSec : Nat, total : Nat,
   thread : {"none", "test", "call", "callback", "reset", "sleep", "ended"},
   read : Nat, reported : Nat, reports : Nat]

MessageType == [sender : Stages, text : Text]

\* The operations of Counter, and the steps of its thread, make counters of counters.
LEMMA CountersStay ==
  ASSUME NEW c \in CounterType
  PROVE  /\ C!Start(c) \in CounterType /\ C!Stop(c) \in CounterType
         /\ C!Ticks(c, 1) \in CounterType /\ C!Test(c) \in CounterType
         /\ C!Call(c) \in CounterType /\ C!Return(c) \in CounterType
         /\ C!Reset(c) \in CounterType /\ C!Wake(c) \in CounterType
<1>0. /\ c.perSec + 1 \in Nat /\ c.total + 1 \in Nat
      /\ c.reported + c.perSec \in Nat /\ c.reports + 1 \in Nat /\ c.perSec \in Nat
  BY DEF CounterType
<1>1. C!Start(c) \in CounterType /\ C!Stop(c) \in CounterType
  BY DEF CounterType, C!Start, C!Stop
<1>2. C!Ticks(c, 1) \in CounterType
  BY <1>0 DEF CounterType, C!Ticks
<1>3. C!Test(c) \in CounterType
  BY DEF CounterType, C!Test
<1>4. C!Call(c) \in CounterType
  BY <1>0 DEF CounterType, C!Call
<1>5. C!Return(c) \in CounterType
  BY <1>0 DEF CounterType, C!Return
<1>6. C!Reset(c) \in CounterType /\ C!Wake(c) \in CounterType
  BY DEF CounterType, C!Reset, C!Wake
<1> QED
  BY <1>1, <1>2, <1>3, <1>4, <1>5, <1>6

\* A message put in a stream goes behind those that are there.
LEMMA PutAppends ==
  ASSUME TypeOK, NEW p \in Producers, NEW s \in Stages, NEW text \in Text,
         Out!Put(p, s, text)
  PROVE  /\ msgQueue' \in [Producers -> Seq(MessageType)]
         /\ msgQueue'[p] = Append(msgQueue[p], [sender |-> s, text |-> text])
         /\ \A r \in Producers \ {p} : msgQueue'[r] = msgQueue[r]
<1>1. msgQueue \in [Producers -> Seq(MessageType)]
  BY DEF TypeOK, MessageType
<1>2. [sender |-> s, text |-> text] \in MessageType
  BY DEF MessageType
<1> QED
  BY <1>1, <1>2 DEF Out!Put

\* A message that is shown is the first of a stream.
LEMMA ShowTakes ==
  ASSUME TypeOK, NEW p \in DOMAIN msgQueue, Out!Shows(p)
  PROVE  /\ p \in Producers /\ msgQueue[p] # <<>>
         /\ Head(msgQueue[p]) \in MessageType
         /\ msgQueue' \in [Producers -> Seq(MessageType)]
         /\ msgQueue'[p] = Tail(msgQueue[p])
         /\ \A r \in Producers \ {p} : msgQueue'[r] = msgQueue[r]
         /\ table' = [table EXCEPT ![Head(msgQueue[p]).sender] = Head(msgQueue[p]).text]
<1>1. msgQueue \in [Producers -> Seq(MessageType)]
  BY DEF TypeOK, MessageType
<1> QED
  BY <1>1 DEF Out!Shows

\* What a step of one stage, or of its display thread, leaves alone.
LEMMA OneStageGoes ==
  ASSUME TypeOK, NEW s \in Stages, StageStep(s) \/ DisplayStep(s)
  PROVE  /\ UNCHANGED <<table, console, m_shutdown, main>>
         /\ \A t \in Stages \ {s} : /\ counters'[t] = counters[t]
                                    /\ stages'[t] = stages[t] /\ late'[t] = late[t]
BY DEF TypeOK, StageStep, DisplayStep, StartCounter, Tick, StopCounter, EndWithNoRow,
       ReportEnd, Raise, Destroy, Join, DisplayTests, DisplayCalls, DisplayReports, DisplayResets,
       DisplayWakes, Goes, Counts, msgVars

\* The counter of a stage is replaced by another.
LEMMA CountsOne ==
  ASSUME TypeOK, NEW s \in Stages, NEW c \in CounterType, Counts(s, c)
  PROVE  counters' \in [Stages -> CounterType] /\ counters'[s] = c
BY DEF TypeOK, CounterType, Counts

\* Every variable keeps its type.
LEMMA TypesStay == ASSUME TypeOK, [Next]_vars PROVE TypeOK'
<1>1. CASE UNCHANGED vars
  BY <1>1 DEF TypeOK, Producers, vars, msgVars
<1>2. ASSUME NEW s \in Stages, StageStep(s) PROVE TypeOK'
  <2>1. counters[s] \in CounterType
    BY DEF TypeOK, CounterType
  <2>2. counters' \in [Stages -> CounterType]
    <3>1. CASE UNCHANGED counters
      BY <3>1 DEF TypeOK, CounterType
    <3>2. CASE StartCounter(s) \/ Tick(s) \/ StopCounter(s) \/ Destroy(s)
      BY <2>1, <3>2, CountersStay, CountsOne
         DEF StartCounter, Tick, StopCounter, Destroy
    <3> QED
      BY <1>2, <3>1, <3>2 DEF StageStep, ReportEnd, EndWithNoRow, Raise, Join
  <2>3. msgQueue' \in [Producers -> Seq(MessageType)]
    <3>1. CASE ReportEnd(s)
      BY <3>1, PutAppends DEF ReportEnd, Producers, Text
    <3>2. CASE UNCHANGED msgQueue
      BY <3>2 DEF TypeOK, MessageType
    <3> QED
      BY <1>2, <3>1, <3>2
         DEF StageStep, StartCounter, Tick, StopCounter, EndWithNoRow, Raise, Destroy,
             Join, msgVars
  <2>4. stages' \in [Stages -> {"start", "work", "report", "destroy", "join", "done"}]
        /\ UNCHANGED <<late, table, console, m_shutdown, main>>
    BY <1>2 DEF TypeOK, StageStep, StartCounter, Tick, StopCounter, EndWithNoRow,
                ReportEnd, Raise, Destroy, Join, Goes, msgVars
  <2> QED
    BY <2>2, <2>3, <2>4 DEF TypeOK, CounterType, MessageType, Producers
<1>3. ASSUME NEW s \in Stages, DisplayStep(s) PROVE TypeOK'
  <2>1. counters[s] \in CounterType
    BY DEF TypeOK, CounterType
  <2>2. counters' \in [Stages -> CounterType]
    BY <1>3, <2>1, CountersStay, CountsOne
       DEF DisplayStep, DisplayTests, DisplayCalls, DisplayReports, DisplayResets,
           DisplayWakes
  <2>3. msgQueue' \in [Producers -> Seq(MessageType)]
    <3>1. CASE DisplayReports(s)
      <4>1. <<counters[s].read, counters[s].reports + 1>> \in Text
        BY <2>1 DEF CounterType, Text
      <4> QED
        BY <3>1, <4>1, PutAppends DEF DisplayReports, Producers
    <3>2. CASE UNCHANGED msgQueue
      BY <3>2 DEF TypeOK, MessageType
    <3> QED
      BY <1>3, <3>1, <3>2
         DEF DisplayStep, DisplayTests, DisplayCalls, DisplayResets, DisplayWakes, msgVars
  <2>4. late' \in [Stages -> Nat] /\ UNCHANGED <<stages, table, console, m_shutdown, main>>
    <3>1. late \in [Stages -> Nat]
      BY DEF TypeOK
    <3>2. /\ late' = late \/ late' = [late EXCEPT ![s] = @ + 1]
                            \/ late' = [late EXCEPT ![s] = @]
          /\ UNCHANGED <<stages, table, console, m_shutdown, main>>
      BY <1>3 DEF DisplayStep, DisplayTests, DisplayCalls, DisplayReports,
                  DisplayResets, DisplayWakes, msgVars
    <3> QED
      BY <3>1, <3>2
  <2> QED
    BY <2>2, <2>3, <2>4 DEF TypeOK, CounterType, MessageType, Producers
<1>4. CASE ConsoleStep
  <2>1. ASSUME NEW p \in DOMAIN msgQueue, Out!Shows(p)
        PROVE  /\ msgQueue' \in [Producers -> Seq(MessageType)]
               /\ table' \in [Stages -> Text] /\ UNCHANGED <<console, m_shutdown>>
    BY <2>1, ShowTakes DEF TypeOK, MessageType, Out!Shows
  <2>2. CASE UNCHANGED <<msgQueue, table>>
    BY <1>4, <2>2 DEF TypeOK, ConsoleStep, Producers, Out!Step, Out!Construct, Out!Shows,
                     Out!Misses, Out!Test, Out!Wakes
  <2> QED
    BY <1>4, <2>1, <2>2 DEF TypeOK, MessageType, ConsoleStep, Producers, Out!Step,
                            Out!Construct, Out!Misses, Out!Test, Out!Wakes
<1>5. CASE ShutDown \/ Return \/ Terminated
  BY <1>1, <1>5 DEF TypeOK, ShutDown, Return, Terminated, Producers, msgVars, Out!Shutdown
<1> QED
  BY <1>1, <1>2, <1>3, <1>4, <1>5 DEF Next

-----------------------------------------------------------------------------
(* The counters. *)

\* What a step of a stage's thread makes of its own counter.
LEMMA StageCounts ==
  ASSUME TypeOK, NEW s \in Stages, StageStep(s)
  PROVE  \/ StartCounter(s) /\ counters'[s] = C!Start(counters[s])
         \/ Tick(s) /\ counters'[s] = C!Ticks(counters[s], 1)
         \/ StopCounter(s) /\ counters'[s] = C!Stop(counters[s])
         \/ Destroy(s) /\ counters'[s] = C!Stop(counters[s])
         \/ (EndWithNoRow(s) \/ ReportEnd(s) \/ Raise(s) \/ Join(s)) /\ counters' = counters
<1>1. counters[s] \in CounterType
  BY DEF TypeOK, CounterType
<1> QED
  BY <1>1, CountersStay, CountsOne
     DEF StageStep, StartCounter, Tick, StopCounter, EndWithNoRow, ReportEnd, Raise,
         Destroy, Join

\* What a step of its display thread makes of it.
LEMMA DisplayCounts ==
  ASSUME TypeOK, NEW s \in Stages, DisplayStep(s)
  PROVE  \/ DisplayTests(s) /\ counters'[s] = C!Test(counters[s])
         \/ DisplayCalls(s) /\ counters'[s] = C!Call(counters[s])
         \/ DisplayReports(s) /\ counters'[s] = C!Return(counters[s])
         \/ DisplayResets(s) /\ counters'[s] = C!Reset(counters[s])
         \/ DisplayWakes(s) /\ counters'[s] = C!Wake(counters[s])
<1>1. counters[s] \in CounterType
  BY DEF TypeOK, CounterType
<1> QED
  BY <1>1, CountersStay, CountsOne
     DEF DisplayStep, DisplayTests, DisplayCalls, DisplayReports, DisplayResets, DisplayWakes

\* The other threads leave the stages and their counters alone.
LEMMA OthersLeaveStages ==
  ASSUME ConsoleStep \/ ShutDown \/ Return \/ Terminated \/ UNCHANGED vars
  PROVE  UNCHANGED <<counters, stages, late>>
BY DEF ConsoleStep, ShutDown, Return, Terminated, vars

\* What holds of every stage, of this one after one of its steps.
LEMMA StageKeepsItsOwn ==
  ASSUME TypeOK, Lives, Lateness, ReadIsPart, NoTickCountedTwice,
         NEW s \in Stages, StageStep(s)
  PROVE  /\ stages'[s] = "start" <=> counters'[s].thread = "none"
         /\ stages'[s] = "work" => counters'[s].running
         /\ stages'[s] \in {"start", "join", "done"} => ~counters'[s].running
         /\ stages'[s] = "done" => counters'[s].thread = "ended"
         /\ late'[s] <= 1
         /\ counters'[s].running \/ counters'[s].thread \in {"none", "call", "callback"}
              => late'[s] = 0
         /\ counters'[s].thread \in {"callback", "reset"}
              => counters'[s].read <= counters'[s].perSec
         /\ counters'[s].reported + C!Unreported(counters'[s]) <= counters'[s].total
<1> DEFINE c == counters[s]
<1>1. c \in CounterType /\ late[s] \in Nat /\ stages = [t \in Stages |-> stages[t]]
  BY DEF TypeOK, CounterType
<1>2. CASE StartCounter(s) /\ counters'[s] = C!Start(c)
  BY <1>1, <1>2 DEF Lives, Lateness, ReadIsPart, NoTickCountedTwice, CounterType,
                    StartCounter, Goes, C!Start, C!Unreported
<1>3. CASE Tick(s) /\ counters'[s] = C!Ticks(c, 1)
  BY <1>1, <1>3 DEF Lives, Lateness, ReadIsPart, NoTickCountedTwice, CounterType,
                    Tick, C!Ticks, C!Unreported
<1>4. CASE StopCounter(s) /\ counters'[s] = C!Stop(c)
  BY <1>1, <1>4 DEF Lives, Lateness, ReadIsPart, NoTickCountedTwice, CounterType,
                    StopCounter, Goes, C!Stop, C!Unreported
<1>5. CASE Destroy(s) /\ counters'[s] = C!Stop(c)
  BY <1>1, <1>5 DEF Lives, Lateness, ReadIsPart, NoTickCountedTwice, CounterType,
                    Destroy, Goes, C!Stop, C!Unreported
<1>6. CASE (EndWithNoRow(s) \/ ReportEnd(s) \/ Raise(s) \/ Join(s)) /\ counters' = counters
  BY <1>1, <1>6 DEF Lives, Lateness, ReadIsPart, NoTickCountedTwice,
                    ReportEnd, EndWithNoRow, Raise, Join, Goes
<1> QED
  BY <1>2, <1>3, <1>4, <1>5, <1>6, StageCounts

\* The same after one of its display thread's.
LEMMA DisplayKeepsItsOwn ==
  ASSUME TypeOK, Lives, Lateness, ReadIsPart, NoTickCountedTwice,
         NEW s \in Stages, DisplayStep(s)
  PROVE  /\ stages'[s] = "start" <=> counters'[s].thread = "none"
         /\ stages'[s] = "work" => counters'[s].running
         /\ stages'[s] \in {"start", "join", "done"} => ~counters'[s].running
         /\ stages'[s] = "done" => counters'[s].thread = "ended"
         /\ late'[s] <= 1
         /\ counters'[s].running \/ counters'[s].thread \in {"none", "call", "callback"}
              => late'[s] = 0
         /\ counters'[s].thread \in {"callback", "reset"}
              => counters'[s].read <= counters'[s].perSec
         /\ counters'[s].reported + C!Unreported(counters'[s]) <= counters'[s].total
<1> DEFINE c == counters[s]
<1>1. c \in CounterType /\ late[s] \in Nat /\ late = [t \in Stages |-> late[t]]
  BY DEF TypeOK, CounterType
<1>2. CASE DisplayTests(s) /\ counters'[s] = C!Test(c)
  BY <1>1, <1>2 DEF Lives, Lateness, ReadIsPart, NoTickCountedTwice, CounterType,
                    DisplayTests, C!Test, C!Unreported
<1>3. CASE DisplayCalls(s) /\ counters'[s] = C!Call(c)
  BY <1>1, <1>3 DEF Lives, Lateness, ReadIsPart, NoTickCountedTwice, CounterType,
                    DisplayCalls, C!Call, C!Unreported
<1>4. CASE DisplayReports(s) /\ counters'[s] = C!Return(c)
  BY <1>1, <1>4 DEF Lives, Lateness, ReadIsPart, NoTickCountedTwice, CounterType,
                    DisplayReports, C!Return, C!Unreported
<1>5. CASE DisplayResets(s) /\ counters'[s] = C!Reset(c)
  BY <1>1, <1>5 DEF Lives, Lateness, ReadIsPart, NoTickCountedTwice, CounterType,
                    DisplayResets, C!Reset, C!Unreported
<1>6. CASE DisplayWakes(s) /\ counters'[s] = C!Wake(c)
  BY <1>1, <1>6 DEF Lives, Lateness, ReadIsPart, NoTickCountedTwice, CounterType,
                    DisplayWakes, C!Wake, C!Unreported
<1> QED
  BY <1>2, <1>3, <1>4, <1>5, <1>6, DisplayCounts

\* The parts of the invariant about the stages and their counters are kept.
LEMMA CountersKeep ==
  ASSUME TypeOK, Lives, Lateness, ReadIsPart, NoTickCountedTwice, [Next]_vars
  PROVE  Lives' /\ Lateness' /\ ReadIsPart' /\ NoTickCountedTwice'
<1>1. CASE ConsoleStep \/ ShutDown \/ Return \/ Terminated \/ UNCHANGED vars
  BY <1>1, OthersLeaveStages DEF Lives, Lateness, ReadIsPart, NoTickCountedTwice
<1>2. ASSUME NEW s \in Stages, StageStep(s) \/ DisplayStep(s)
      PROVE  Lives' /\ Lateness' /\ ReadIsPart' /\ NoTickCountedTwice'
  <2>1. \A t \in Stages \ {s} : /\ counters'[t] = counters[t]
                               /\ stages'[t] = stages[t] /\ late'[t] = late[t]
    BY <1>2, OneStageGoes
  <2> QED
    BY <1>2, <2>1, StageKeepsItsOwn, DisplayKeepsItsOwn
       DEF Lives, Lateness, ReadIsPart, NoTickCountedTwice
<1> QED
  BY <1>1, <1>2 DEF Next

-----------------------------------------------------------------------------
(* The shutdown. *)

\* A stage that is done does nothing, nor does its display thread.
LEMMA DoneIsDone ==
  ASSUME TypeOK, Lives, NEW s \in Stages, StageStep(s) \/ DisplayStep(s)
  PROVE  ~StagesDone
BY DEF Lives, StagesDone, StageStep, StartCounter, Tick, StopCounter, EndWithNoRow,
       ReportEnd, Raise, Destroy, Join, Goes, DisplayStep, DisplayTests, DisplayCalls, DisplayReports,
       DisplayResets, DisplayWakes

\* The console thread is shut down after the stages, and empties msgQueue then.
LEMMA ShuttingStays ==
  ASSUME TypeOK, Lives, Shutting, [Next]_vars
  PROVE  Shutting'
<1>1. CASE UNCHANGED vars
  BY <1>1 DEF Shutting, StagesDone, Out!Empty, vars, msgVars
<1>2. ASSUME NEW s \in Stages, StageStep(s) \/ DisplayStep(s) PROVE Shutting'
  BY <1>2, DoneIsDone, OneStageGoes DEF Shutting
<1>3. CASE ConsoleStep
  <2>1. StagesDone' = StagesDone /\ UNCHANGED <<main, m_shutdown>>
    BY <1>3 DEF StagesDone, ConsoleStep, Out!Step, Out!Construct, Out!Shows, Out!Misses,
                Out!Test, Out!Wakes
  <2>2. CASE Out!Misses(StagesDone)
    BY <2>1, <2>2 DEF Shutting, Out!Misses, Out!Empty
  <2>3. CASE Out!Construct \/ Out!Test \/ Out!Wakes
    BY <2>1, <2>3 DEF Shutting, Out!Construct, Out!Test, Out!Wakes, Out!Empty
  <2>4. CASE \E p \in DOMAIN msgQueue : Out!Shows(p)
    BY <2>1, <2>4 DEF Shutting, Out!Shows
  <2> QED
    BY <1>3, <2>2, <2>3, <2>4 DEF ConsoleStep, Out!Step
<1>4. CASE ShutDown
  BY <1>4 DEF Shutting, StagesDone, ShutDown, Out!Shutdown, Out!Empty, msgVars
<1>5. CASE Return
  BY <1>5 DEF Shutting, StagesDone, Return, Out!Empty, msgVars
<1> QED
  BY <1>1, <1>2, <1>3, <1>4, <1>5 DEF Next, Terminated

-----------------------------------------------------------------------------
(* The lines shown. *)

\* What Lines says of one stage.
LinesOf(s) ==
  LET ended == msgQueue[<<s, "stage">>]
      rates == msgQueue[<<s, "display">>]
  IN /\ \A k \in 1 .. Len(ended) : ended[k] = [sender |-> s, text |-> Finished]
     /\ \A k \in 1 .. Len(rates) : rates[k].sender = s
     /\ counters[s].thread # "callback" =>
          IF rates = <<>> THEN table[s] \in {<<>>, Finished, LastReport(s)}
          ELSE rates[Len(rates)].text = LastReport(s)

\* It stays if nothing of it changes but that a callback may begin.
LEMMA SameLines ==
  ASSUME NEW s \in Stages, LinesOf(s), table'[s] = table[s],
         msgQueue'[<<s, "stage">>] = msgQueue[<<s, "stage">>],
         msgQueue'[<<s, "display">>] = msgQueue[<<s, "display">>],
         counters'[s].thread # "callback" =>
           /\ counters[s].thread # "callback"
           /\ counters'[s].read = counters[s].read
           /\ counters'[s].reports = counters[s].reports
  PROVE  LinesOf(s)'
BY DEF LinesOf, LastReport

\* What is left of a sequence without its first element.
LEMMA TailKeeps ==
  ASSUME NEW S, NEW q \in Seq(S), q # <<>>
  PROVE  /\ Tail(q) \in Seq(S) /\ Len(Tail(q)) = Len(q) - 1
         /\ \A k \in 1 .. Len(q) - 1 : Tail(q)[k] = q[k + 1]
         /\ Tail(q) = <<>> <=> Len(q) = 1
         /\ Head(q) = q[1] /\ Len(q) \in Nat \ {0}
<1>1. Tail(q) \in Seq(S) /\ Len(Tail(q)) = Len(q) - 1 /\ Head(q) = q[1]
  OBVIOUS
<1>2. \A k \in 1 .. Len(q) - 1 : Tail(q)[k] = q[k + 1]
  OBVIOUS
<1>3. Tail(q) = <<>> <=> Len(q) = 1
  <2>1. \A r \in Seq(S) : r = <<>> <=> Len(r) = 0
    BY EmptySeq
  <2>2. Tail(q) = <<>> <=> Len(Tail(q)) = 0
    BY <1>1, <2>1
  <2>3. Len(q) \in Nat
    BY LenProperties
  <2> QED
    BY <1>1, <2>2, <2>3
<1>4. Len(q) \in Nat \ {0}
  BY <1>1
<1> QED
  BY <1>1, <1>2, <1>3, <1>4

\* A sequence and one element more.
LEMMA AppendKeeps ==
  ASSUME NEW S, NEW q \in Seq(S), NEW e \in S
  PROVE  /\ Append(q, e) # <<>> /\ Append(q, e)[Len(Append(q, e))] = e
         /\ Len(q) \in Nat /\ Len(Append(q, e)) = Len(q) + 1
         /\ \A k \in 1 .. Len(q) : Append(q, e)[k] = q[k]
BY AppendProperties, LenProperties

\* If all the messages of a stream are from one stage, so they are after its next one.
LEMMA SenderStays ==
  ASSUME NEW S, NEW q \in Seq(S), NEW e \in S, NEW s,
         e.sender = s, \A k \in 1 .. Len(q) : q[k].sender = s
  PROVE  /\ \A k \in 1 .. Len(Append(q, e)) : Append(q, e)[k].sender = s
         /\ Append(q, e) # <<>> /\ Append(q, e)[Len(Append(q, e))] = e
<1> DEFINE a == Append(q, e)
<1>1. /\ a # <<>> /\ a[Len(a)] = e /\ Len(q) \in Nat /\ Len(a) = Len(q) + 1
      /\ \A k \in 1 .. Len(q) : a[k] = q[k]
  BY AppendKeeps
<1> HIDE DEF a
<1>2. ASSUME NEW k \in 1 .. Len(a) PROVE a[k].sender = s
  <2>1. k \in 1 .. Len(q) \/ k = Len(a)
    BY <1>1
  <2> QED
    BY <1>1, <2>1
<1> QED
  BY <1>1, <1>2 DEF a

\* A thread puts a line of its own behind the others of its stream.
LEMMA LinesStay ==
  ASSUME TypeOK, Lives, Lines, [Next]_vars
  PROVE  Lines'
<1> SUFFICES ASSUME NEW t \in Stages PROVE LinesOf(t)'
  BY DEF Lines, LinesOf
<1>a. LinesOf(t) /\ counters[t] \in CounterType
  BY DEF Lines, LinesOf, TypeOK, CounterType
<1>b. /\ msgQueue \in [Producers -> Seq(MessageType)]
      /\ <<t, "stage">> \in Producers /\ <<t, "display">> \in Producers
  BY DEF TypeOK, MessageType, Producers
<1>1. CASE UNCHANGED msgVars /\ UNCHANGED counters
  BY <1>1, <1>a, SameLines DEF msgVars
<1>2. ASSUME NEW s \in Stages, StageStep(s) PROVE LinesOf(t)'
  <2>1. UNCHANGED table /\ (t # s => counters'[t] = counters[t])
    BY <1>2, OneStageGoes
  <2>2. CASE ReportEnd(s)
    <3>1. /\ counters' = counters
          /\ Out!Put(<<s, "stage">>, s, Finished)
      BY <2>2 DEF ReportEnd, Finished
    <3>2. /\ msgQueue'[<<s, "stage">>]
               = Append(msgQueue[<<s, "stage">>], [sender |-> s, text |-> Finished])
          /\ \A r \in Producers \ {<<s, "stage">>} : msgQueue'[r] = msgQueue[r]
      BY <3>1, PutAppends DEF Producers, Text, Finished
    <3>3. CASE t = s
      <4> DEFINE q == msgQueue[<<s, "stage">>]
                 e == [sender |-> s, text |-> Finished]
      <4>1. q \in Seq(MessageType) /\ e \in MessageType
        BY <1>b, <3>3 DEF MessageType, Text, Finished
      <4>2. \A k \in 1 .. Len(q) : q[k] = e
        BY <1>a, <3>3 DEF LinesOf
      <4>3. \A k \in 1 .. Len(Append(q, e)) : Append(q, e)[k] = e
        BY <4>1, <4>2, AppendKeeps
      <4>4. /\ msgQueue'[<<s, "display">>] = msgQueue[<<s, "display">>]
            /\ LastReport(s)' = LastReport(s)
        BY <1>b, <3>1, <3>2, <3>3 DEF LastReport
      <4> QED
        BY <1>a, <2>1, <3>1, <3>2, <3>3, <4>3, <4>4 DEF LinesOf, Finished
    <3>4. CASE t # s
      BY <1>a, <1>b, <2>1, <3>1, <3>2, <3>4, SameLines
    <3> QED
      BY <3>3, <3>4
  <2>3. CASE ~ReportEnd(s)
    <3>1. UNCHANGED msgQueue
      BY <1>2, <2>3 DEF StageStep, StartCounter, Tick, StopCounter, EndWithNoRow,
                        Raise, Destroy, Join, msgVars
    <3>2. /\ counters'[t].read = counters[t].read
          /\ counters'[t].reports = counters[t].reports
          /\ counters'[t].thread # counters[t].thread => counters[t].thread = "none"
      <4>1. CASE t # s
        BY <2>1, <4>1
      <4>2. CASE t = s
        <5>1. \/ StartCounter(s) /\ counters'[s] = C!Start(counters[s])
              \/ counters'[s] = C!Ticks(counters[s], 1)
              \/ counters'[s] = C!Stop(counters[s])
              \/ counters' = counters
          BY <1>2, StageCounts
        <5>2. StartCounter(s) => counters[s].thread = "none"
          BY DEF Lives, StartCounter, Goes
        <5> QED
          BY <1>a, <4>2, <5>1, <5>2 DEF CounterType, C!Start, C!Ticks, C!Stop
      <4> QED
        BY <4>1, <4>2
    <3> QED
      BY <1>a, <2>1, <3>1, <3>2, SameLines
  <2> QED
    BY <2>2, <2>3
<1>3. ASSUME NEW s \in Stages, DisplayStep(s) PROVE LinesOf(t)'
  <2>1. UNCHANGED table /\ (t # s => counters'[t] = counters[t])
    BY <1>3, OneStageGoes
  <2>2. CASE DisplayReports(s)
    <3> DEFINE text == <<counters[s].read, counters[s].reports + 1>>
    <3>1. /\ counters'[s] = C!Return(counters[s])
          /\ Out!Put(<<s, "display">>, s, text)
      <4>1. counters[s] \in CounterType
        BY DEF TypeOK, CounterType
      <4>2. C!Return(counters[s]) \in CounterType
        BY <4>1, CountersStay
      <4> QED
        BY <2>2, <4>2, CountsOne DEF DisplayReports
    <3>2. text \in Text
      <4>1. counters[s] \in CounterType
        BY DEF TypeOK, CounterType
      <4> QED
        BY <4>1 DEF CounterType, Text
    <3>3. /\ msgQueue'[<<s, "display">>]
               = Append(msgQueue[<<s, "display">>], [sender |-> s, text |-> text])
          /\ \A r \in Producers \ {<<s, "display">>} : msgQueue'[r] = msgQueue[r]
      BY <3>1, <3>2, PutAppends DEF Producers
    <3>4. CASE t = s
      <4>1. LastReport(s)' = text
        BY <1>a, <3>1, <3>4 DEF LastReport, CounterType, C!Return
      <4> DEFINE q == msgQueue[<<s, "display">>]
                 e == [sender |-> s, text |-> text]
      <4>2. q \in Seq(MessageType) /\ e \in MessageType /\ e.sender = s /\ e.text = text
        BY <1>b, <3>2, <3>4 DEF MessageType
      <4>3. \A k \in 1 .. Len(q) : q[k].sender = s
        BY <1>a, <3>4 DEF LinesOf
      <4> HIDE DEF e, text
      <4>4. /\ \A k \in 1 .. Len(Append(q, e)) : Append(q, e)[k].sender = s
            /\ Append(q, e) # <<>> /\ Append(q, e)[Len(Append(q, e))].text = text
        <5> HIDE DEF q
        <5>1. /\ \A k \in 1 .. Len(Append(q, e)) : Append(q, e)[k].sender = s
              /\ Append(q, e) # <<>> /\ Append(q, e)[Len(Append(q, e))] = e
          BY <4>2, <4>3, SenderStays
        <5> QED
          BY <4>2, <5>1
      <4>5. /\ msgQueue'[<<s, "stage">>] = msgQueue[<<s, "stage">>]
            /\ msgQueue'[<<s, "display">>] = Append(q, e)
        BY <1>b, <3>3, <3>4 DEF e
      <4> QED
        BY <1>a, <3>4, <4>1, <4>4, <4>5 DEF LinesOf
    <3>5. CASE t # s
      BY <1>a, <1>b, <2>1, <3>3, <3>5, SameLines
    <3> QED
      BY <3>4, <3>5
  <2>3. CASE ~DisplayReports(s)
    <3>1. UNCHANGED msgQueue
      BY <1>3, <2>3 DEF DisplayStep, DisplayTests, DisplayCalls, DisplayResets,
                        DisplayWakes, msgVars
    <3>2. counters'[t].thread # "callback" =>
            /\ counters[t].thread # "callback"
            /\ counters'[t].read = counters[t].read
            /\ counters'[t].reports = counters[t].reports
      <4>1. CASE t # s
        BY <2>1, <4>1
      <4>2. CASE t = s
        <5>1. \/ DisplayTests(s) /\ counters'[s] = C!Test(counters[s])
              \/ DisplayCalls(s) /\ counters'[s] = C!Call(counters[s])
              \/ DisplayResets(s) /\ counters'[s] = C!Reset(counters[s])
              \/ DisplayWakes(s) /\ counters'[s] = C!Wake(counters[s])
          BY <1>3, <2>3, DisplayCounts
        <5> QED
          BY <1>a, <4>2, <5>1
             DEF CounterType, DisplayTests, DisplayCalls, DisplayResets, DisplayWakes,
                 C!Test, C!Call, C!Reset, C!Wake
      <4> QED
        BY <4>1, <4>2
    <3> QED
      BY <1>a, <2>1, <3>1, <3>2, SameLines
  <2> QED
    BY <2>2, <2>3
<1>4. ASSUME ConsoleStep, NEW p \in DOMAIN msgQueue, Out!Shows(p) PROVE LinesOf(t)'
  <2>1. UNCHANGED counters
    BY <1>4 DEF ConsoleStep
  <2>2. /\ p \in Producers /\ msgQueue[p] # <<>>
        /\ msgQueue[p] \in Seq(MessageType) /\ Head(msgQueue[p]) = msgQueue[p][1]
        /\ msgQueue'[p] = Tail(msgQueue[p])
        /\ \A r \in Producers \ {p} : msgQueue'[r] = msgQueue[r]
        /\ table' = [table EXCEPT ![Head(msgQueue[p]).sender] = Head(msgQueue[p]).text]
        /\ table \in [Stages -> Text]
    <3>1. /\ p \in Producers /\ msgQueue[p] # <<>>
          /\ msgQueue'[p] = Tail(msgQueue[p])
          /\ \A r \in Producers \ {p} : msgQueue'[r] = msgQueue[r]
          /\ table' = [table EXCEPT ![Head(msgQueue[p]).sender] = Head(msgQueue[p]).text]
      BY <1>4, ShowTakes
    <3>2. msgQueue[p] \in Seq(MessageType) /\ table \in [Stages -> Text]
      BY <1>b, <3>1 DEF TypeOK
    <3>3. Head(msgQueue[p]) = msgQueue[p][1]
      BY <3>1, <3>2
    <3> QED
      BY <3>1, <3>2, <3>3
  <2>3. PICK s \in Stages : p = <<s, "stage">> \/ p = <<s, "display">>
    BY <2>2 DEF Producers
  <2>4. LinesOf(s) /\ Len(msgQueue[p]) \in Nat \ {0}
    <3>1. LinesOf(s)
      BY DEF Lines, LinesOf
    <3> QED
      BY <2>2, <3>1, TailKeeps
  <2>5. Head(msgQueue[p]).sender = s
    <3>1. CASE p = <<s, "stage">>
      <4>1. msgQueue[p][1] = [sender |-> s, text |-> Finished]
        BY <2>4, <3>1 DEF LinesOf
      <4> QED
        BY <2>2, <4>1
    <3>2. CASE p = <<s, "display">>
      <4>1. msgQueue[p][1].sender = s
        BY <2>4, <3>2 DEF LinesOf
      <4> QED
        BY <2>2, <4>1
    <3> QED
      BY <2>3, <3>1, <3>2
  <2>6. CASE t # s
    <3>1. p # <<t, "stage">> /\ p # <<t, "display">>
      BY <2>3, <2>6
    <3>2. table'[t] = table[t]
      BY <2>2, <2>5, <2>6
    <3> QED
      BY <1>a, <1>b, <2>1, <2>2, <3>1, <3>2, SameLines
  <2>7. CASE t = s /\ p = <<s, "stage">>
    <3> DEFINE q == msgQueue[p]
    <3>1. /\ Len(Tail(q)) = Len(q) - 1
          /\ \A k \in 1 .. Len(q) - 1 : Tail(q)[k] = q[k + 1]
      BY <2>2, TailKeeps
    <3>2. \A k \in 1 .. Len(q) : q[k] = [sender |-> s, text |-> Finished]
      BY <2>4, <2>7 DEF LinesOf
    <3>3. table'[s] = Finished
      BY <2>2, <2>4, <2>5, <3>2
    <3>4. \A k \in 1 .. Len(Tail(q)) : Tail(q)[k] = [sender |-> s, text |-> Finished]
      BY <2>4, <3>1, <3>2
    <3>5. /\ msgQueue'[<<s, "display">>] = msgQueue[<<s, "display">>]
          /\ LastReport(s)' = LastReport(s)
      BY <1>b, <2>1, <2>2, <2>7 DEF LastReport
    <3> QED
      BY <2>1, <2>2, <2>4, <2>7, <3>3, <3>4, <3>5 DEF LinesOf, Finished
  <2>8. CASE t = s /\ p = <<s, "display">>
    <3>1. table'[s] = msgQueue[p][1].text
      BY <2>2, <2>5
    <3> DEFINE q == msgQueue[p]
    <3>2. /\ Len(Tail(q)) = Len(q) - 1 /\ Tail(q) = <<>> <=> Len(q) = 1
          /\ \A k \in 1 .. Len(q) - 1 : Tail(q)[k] = q[k + 1]
      BY <2>2, TailKeeps
    <3>3. /\ \A k \in 1 .. Len(q) : q[k].sender = s
          /\ counters[s].thread # "callback" => q[Len(q)].text = LastReport(s)
          /\ LastReport(s)' = LastReport(s)
      BY <2>1, <2>2, <2>4, <2>8 DEF LinesOf, LastReport
    <3>4. /\ \A k \in 1 .. Len(Tail(q)) : Tail(q)[k].sender = s
          /\ counters[s].thread # "callback" =>
               IF Tail(q) = <<>> THEN table'[s] = LastReport(s)
               ELSE Tail(q)[Len(Tail(q))].text = LastReport(s)
      BY <2>4, <3>1, <3>2, <3>3
    <3>5. msgQueue'[<<s, "stage">>] = msgQueue[<<s, "stage">>]
      BY <1>b, <2>2, <2>8
    <3> QED
      BY <2>1, <2>2, <2>4, <2>8, <3>3, <3>4, <3>5 DEF LinesOf
  <2> QED
    BY <2>3, <2>6, <2>7, <2>8
<1>5. CASE ConsoleStep /\ UNCHANGED <<msgQueue, table>>
  BY <1>5, <1>a, SameLines DEF ConsoleStep
<1>6. CASE ShutDown \/ Return \/ Terminated \/ UNCHANGED vars
  <2>1. UNCHANGED <<msgQueue, table, counters>>
    BY <1>6 DEF ShutDown, Return, Terminated, vars, msgVars, Out!Shutdown
  <2> QED
    BY <1>a, <2>1, SameLines
<1> QED
  BY <1>2, <1>3, <1>4, <1>5, <1>6
     DEF Next, ConsoleStep, Out!Step, Out!Construct, Out!Misses, Out!Test, Out!Wakes

-----------------------------------------------------------------------------
(* The theorems. *)

\* Everything above holds when the threads are started.
LEMMA ConsoleInit == Init => ConsoleInv
<1> SUFFICES ASSUME Init PROVE ConsoleInv
  OBVIOUS
<1>1. C!NewCounter \in CounterType /\ C!NewCounter.thread = "none"
      /\ ~C!NewCounter.running /\ C!NewCounter.reported = 0
      /\ C!NewCounter.perSec = 0 /\ C!NewCounter.total = 0
  BY DEF C!NewCounter, CounterType
<1>2. TypeOK
  <2>1. counters \in [Stages -> CounterType] /\ late \in [Stages -> Nat]
    BY <1>1 DEF Init
  <2>2. msgQueue \in [Producers -> Seq(MessageType)]
    BY EmptySeq DEF Init
  <2>3. table \in [Stages -> Text]
    BY DEF Init, Text
  <2> QED
    BY <2>1, <2>2, <2>3 DEF Init, TypeOK, CounterType, MessageType
<1>3. Lives /\ Lateness /\ ReadIsPart
  BY <1>1 DEF Init, Lives, Lateness, ReadIsPart
<1>4. NoTickCountedTwice
  <2> SUFFICES ASSUME NEW s \in Stages
               PROVE  counters[s].reported + C!Unreported(counters[s]) <= counters[s].total
    BY DEF NoTickCountedTwice
  <2>1. counters[s] = C!NewCounter
    BY DEF Init
  <2>2. C!Unreported(counters[s]) = 0
    BY <1>1, <2>1 DEF C!Unreported
  <2> QED
    BY <1>1, <2>1, <2>2
<1>5. Shutting
  BY DEF Init, Shutting
<1>6. Lines
  <2>1. \A s \in Stages : /\ msgQueue[<<s, "stage">>] = <<>> /\ table[s] = <<>>
                          /\ msgQueue[<<s, "display">>] = <<>>
    BY DEF Init, Producers
  <2>2. 1 .. Len(<<>>) = {}
    OBVIOUS
  <2> QED
    BY <2>1, <2>2, Zenon DEF Lines
<1> QED
  BY <1>2, <1>3, <1>4, <1>5, <1>6 DEF ConsoleInv

\* The inductive invariant of the console, the counters and processFile.
THEOREM ConsoleInvariant == Spec => []ConsoleInv
<1>1. ConsoleInv /\ [Next]_vars => ConsoleInv'
  BY TypesStay, CountersKeep, ShuttingStays, LinesStay DEF ConsoleInv
<1> QED
  BY <1>1, ConsoleInit, PTL DEF Spec

\* Every variable keeps its type: in particular no rate is negative.
THEOREM ConsoleTypes == Spec => []TypeOK
<1>1. ConsoleInv => TypeOK
  BY DEF ConsoleInv
<1> QED
  BY <1>1, ConsoleInvariant, PTL

\* processFile() deletes msgQueue when every message has been shown.
THEOREM AllPrinted == Spec => []NothingUnprinted
<1>1. ConsoleInv => NothingUnprinted
  BY DEF ConsoleInv, Shutting, NothingUnprinted
<1> QED
  BY <1>1, ConsoleInvariant, PTL

\* No display thread is in its callback when the stage it reports on is gone.
THEOREM CallbacksEndFirst == Spec => []NoCallbackOutlivesStage
<1>1. ConsoleInv => NoCallbackOutlivesStage
  BY DEF ConsoleInv, Lives, NoCallbackOutlivesStage, C!InCallback
<1> QED
  BY <1>1, ConsoleInvariant, PTL

\* A stopped counter reports once more at most.
THEOREM AtMostOneLate == Spec => []OneLateReport
<1>1. ConsoleInv => OneLateReport
  BY DEF ConsoleInv, Lateness, OneLateReport
<1> QED
  BY <1>1, ConsoleInvariant, PTL

\* No row is part of two reports.
THEOREM TicksCountOnce == Spec => []NoTickCountedTwice
<1>1. ConsoleInv => NoTickCountedTwice
  BY DEF ConsoleInv
<1> QED
  BY <1>1, ConsoleInvariant, PTL

\* In the end each stage's line is its "Finished !" or its last report.
THEOREM LastLines == Spec => []LastLineIsLast
<1>1. ConsoleInv => LastLineIsLast
  <2> SUFFICES ASSUME ConsoleInv, main = "returned", NEW s \in Stages
               PROVE  table[s] \in {<<>>, Finished, LastReport(s)}
    BY DEF LastLineIsLast, Finished, LastReport
  <2>1. StagesDone /\ Out!Empty
    BY DEF ConsoleInv, Shutting
  <2>2. counters[s].thread = "ended"
    BY <2>1 DEF ConsoleInv, Lives, StagesDone
  <2>3. msgQueue[<<s, "display">>] = <<>>
    BY <2>1 DEF ConsoleInv, TypeOK, Producers, Out!Empty
  <2> QED
    BY <2>2, <2>3 DEF ConsoleInv, Lines
<1> QED
  BY <1>1, ConsoleInvariant, PTL
=============================================================================
