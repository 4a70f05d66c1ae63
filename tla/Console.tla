------------------------------ MODULE Console ------------------------------
(***************************************************************************)
(* What processFile() shows while it works: each stage counts with a       *)
(* Counter, the stages and their counters' display threads put messages in *)
(* msgQueue, the console thread shows them, and processFile joins, shuts   *)
(* down and deletes.                                                       *)
(*                                                                         *)
(* The stages are those of Pipeline seen from this side: one that has      *)
(* constructed its Counter ticks a number of times, and ends by the end of *)
(* its queue or by an exception.                                           *)
(***************************************************************************)
EXTENDS Naturals, Sequences

CONSTANTS Stages,
          Mergers,      \* TimestampMergeFilter, which stops its counter only if it has
                        \* received a row
          MaxTicks,     \* the rows a stage may count
          MaxReports    \* the rounds of a display thread up to its last sleep,
                        \* from which it wakes when the stage is over

ASSUME ConsoleAssumption == /\ Mergers \subseteq Stages
                            /\ MaxTicks \in [Stages -> Nat]
                            /\ MaxReports \in [Stages -> Nat \ {0}]

VARIABLES counters,     \* the Counter of each stage
          stages,       \* where each stage's thread is
          late,         \* history: the reports each counter made after its stop()
          msgQueue, table, console, m_shutdown,
          main          \* processFile()

msgVars == <<msgQueue, table, console, m_shutdown>>
vars == <<counters, stages, late, msgVars, main>>

C == INSTANCE Counter
Out == INSTANCE MsgOutput

\* The threads that put messages in msgQueue.
Producers == Stages \X {"stage", "display"}

Init == /\ counters = [s \in Stages |-> C!NewCounter]
        /\ stages = [s \in Stages |-> "start"]
        /\ late = [s \in Stages |-> 0]
        /\ msgQueue = [p \in Producers |-> <<>>]
        /\ table = [s \in Stages |-> <<>>]
        /\ console = "new" /\ m_shutdown = FALSE
        /\ main = "joining"

Goes(s, from, to) == stages[s] = from /\ stages' = [stages EXCEPT ![s] = to]
Counts(s, c) == counters' = [counters EXCEPT ![s] = c]

-----------------------------------------------------------------------------
(* The thread of a stage. *)

StartCounter(s) == /\ Goes(s, "start", "work")
                   /\ Counts(s, C!Start(counters[s]))
                   /\ UNCHANGED <<late, msgVars, main>>

Tick(s) == /\ stages[s] = "work" /\ counters[s].total < MaxTicks[s]
           /\ Counts(s, C!Ticks(counters[s], 1))
           /\ UNCHANGED <<stages, late, msgVars, main>>

\* At the end of the queue, or in StreamParser's catch block.
StopCounter(s) == /\ Goes(s, "work", "report")
                  /\ Counts(s, C!Stop(counters[s]))
                  /\ UNCHANGED <<late, msgVars, main>>

\* The buffer of a merge filter is empty at the end of its queue if it never was
\* anything else, and then the counter runs on.
EndWithNoRow(s) == /\ s \in Mergers /\ counters[s].total = 0
                   /\ Goes(s, "work", "report")
                   /\ UNCHANGED <<counters, late, msgVars, main>>

\* msgQueue->enqueue(Message(sender, "Finished !"))
ReportEnd(s) == /\ Goes(s, "report", "destroy")
                /\ Out!Put(<<s, "stage">>, s, <<"Finished !">>)
                /\ UNCHANGED <<counters, late, table, console, m_shutdown, main>>

\* A std::exception leaves filter(), process() or run().
Raise(s) == /\ Goes(s, "work", "destroy")
            /\ UNCHANGED <<counters, late, msgVars, main>>

\* Slip: the destructor does not stop the thread it is about to join.
DestroyRunning(s) == /\ Goes(s, "destroy", "join")
                     /\ UNCHANGED <<counters, late, msgVars, main>>

\* ~Counter(): stop() ...
Destroy(s) == /\ Goes(s, "destroy", "join")
              /\ Counts(s, C!Stop(counters[s]))
              /\ UNCHANGED <<late, msgVars, main>>

\* Slip: the display thread is detached.
Detach(s) == /\ Goes(s, "join", "done")
             /\ UNCHANGED <<counters, late, msgVars, main>>

\* ... and join(), after which the stage's object is gone.
Join(s) == /\ Goes(s, "join", "done")
           /\ counters[s].thread = "ended"
           /\ UNCHANGED <<counters, late, msgVars, main>>

StageStep(s) == \/ StartCounter(s) \/ Tick(s) \/ StopCounter(s) \/ EndWithNoRow(s)
                \/ ReportEnd(s) \/ Raise(s) \/ Destroy(s) \/ Join(s)

-----------------------------------------------------------------------------
(* The display thread of a stage's counter. *)

DisplayTests(s) == /\ counters[s].thread = "test"
                   /\ Counts(s, C!Test(counters[s]))
                   /\ UNCHANGED <<stages, late, msgVars, main>>

DisplayCalls(s) == /\ counters[s].thread = "call"
                   /\ Counts(s, C!Call(counters[s]))
                   /\ UNCHANGED <<stages, late, msgVars, main>>

\* The callback of the stage: m_msgQueue->enqueue(Message(sender, n + " obs/s"))
DisplayReports(s) ==
  /\ counters[s].thread = "callback"
  /\ Out!Put(<<s, "display">>, s, <<counters[s].read, counters[s].reports + 1>>)
  /\ Counts(s, C!Return(counters[s]))
  /\ late' = [late EXCEPT ![s] = IF counters[s].running THEN @ ELSE @ + 1]
  /\ UNCHANGED <<stages, table, console, m_shutdown, main>>

DisplayResets(s) == /\ counters[s].thread = "reset"
                    /\ Counts(s, C!Reset(counters[s]))
                    /\ UNCHANGED <<stages, late, msgVars, main>>

DisplayWakes(s) == /\ counters[s].thread = "sleep"
                   /\ counters[s].reports < MaxReports[s] \/ ~counters[s].running
                   /\ Counts(s, C!Wake(counters[s]))
                   /\ UNCHANGED <<stages, late, msgVars, main>>

DisplayStep(s) == \/ DisplayTests(s) \/ DisplayCalls(s) \/ DisplayReports(s)
                  \/ DisplayResets(s) \/ DisplayWakes(s)

-----------------------------------------------------------------------------
(* The console thread and processFile's. *)

StagesDone == \A s \in Stages : stages[s] = "done"

ConsoleStep == /\ Out!Step(StagesDone)
               /\ UNCHANGED <<counters, stages, late, main>>

\* The stages have been joined.  msgOutput may still be the null pointer if the
\* console thread has not run yet: what msgOutput->shutdown() does then is undefined.
ShutDown == /\ main = "joining" /\ StagesDone
            /\ IF console = "new"
               THEN main' = "undefined" /\ UNCHANGED msgVars
               ELSE main' = "joinConsole" /\ Out!Shutdown
            /\ UNCHANGED <<counters, stages, late>>

\* msgOutputThread.join(), then the queues are deleted.
Return == /\ main = "joinConsole" /\ console = "ended"
          /\ main' = "returned"
          /\ UNCHANGED <<counters, stages, late, msgVars>>

Terminated == main \in {"returned", "undefined"} /\ UNCHANGED vars

Next == \/ \E s \in Stages : StageStep(s) \/ DisplayStep(s)
        \/ ConsoleStep \/ ShutDown \/ Return \/ Terminated

Spec == Init /\ [][Next]_vars

\* Every thread is scheduled; a stage's input ends, so it does not tick for ever.
Fairness == /\ \A s \in Stages : WF_vars(StageStep(s)) /\ WF_vars(DisplayStep(s))
            /\ WF_vars(ConsoleStep) /\ WF_vars(ShutDown) /\ WF_vars(Return)

FairSpec == Spec /\ Fairness

-----------------------------------------------------------------------------
\* A rate is the rows of a round and the round.
Text == {<<>>, <<"Finished !">>} \cup (Nat \X (Nat \ {0}))

\* The values of the variables.
TypeOK ==
  /\ counters \in [Stages ->
       [running : BOOLEAN, perSec : Nat, total : Nat,
        thread : {"none", "test", "call", "callback", "reset", "sleep", "ended"},
        read : Nat, reported : Nat, reports : Nat]]
  /\ stages \in [Stages -> {"start", "work", "report", "destroy", "join", "done"}]
  /\ late \in [Stages -> Nat]
  /\ msgQueue \in [Producers -> Seq([sender : Stages, text : Text])]
  /\ table \in [Stages -> Text]
  /\ console \in {"new", "try", "test", "sleep", "lastSleep", "drain", "ended"}
  /\ m_shutdown \in BOOLEAN
  /\ main \in {"joining", "joinConsole", "returned", "undefined"}

\* No message is left in msgQueue when processFile deletes it: the console thread
\* empties the queue once more after it has seen m_shutdown, because the last
\* messages may have come between its failed try and the shutdown.
NothingUnprinted == main = "returned" => Out!Empty

\* The callback uses the stage's queues through `this`: the display thread is never in
\* it once the stage has been destroyed.
NoCallbackOutlivesStage ==
  \A s \in Stages : C!InCallback(counters[s]) => stages[s] # "done"

\* A counter that has been stopped reports at most once more, in the callback that
\* was running or about to run.
OneLateReport == \A s \in Stages : late[s] <= 1

\* A row is counted in one report at most: ticks during a callback are lost to the
\* rate shown, never shown twice.
NoTickCountedTwice ==
  \A s \in Stages : counters[s].reported + C!Unreported(counters[s]) <= counters[s].total

\* What the console shows of a stage in the end is its last message or its counter's
\* last report, never an older rate.
LastLineIsLast ==
  main = "returned" =>
    \A s \in Stages :
      table[s] \in {<<>>, <<"Finished !">>, <<counters[s].read, counters[s].reports>>}

\* processFile comes to an end: no join() waits for a thread that nobody stops.
ConsoleEnds == <>(main \in {"returned", "undefined"})
=============================================================================
