----------------------- MODULE DayRelSpreadProcessor -----------------------
(***************************************************************************)
(* DayRelSpreadProcessor: the observations of a day become one DaySpread   *)
(* with the mean of their relative spreads.  The stage peeks at the next   *)
(* observation before it takes it, to see whether the day is over.         *)
(***************************************************************************)
EXTENDS Stage

\* Slips: a day that never ends, and one that ends with each observation.
DayNeverOver == FALSE
DayAlwaysOver == TRUE

DayOver == In!Front.date # Last(stage.buffer).date

\* pollDayObs(): dequeue() and push_back.
TakeObs ==
  /\ Takes
  /\ stage' = [stage EXCEPT !.pc = "peek", !.buffer = Append(@, In!Front)]
  /\ UNCHANGED outputQueue /\ Quiet

\* pollDayObs(): the observation peek() shows has the date of the buffer.
PeekSame ==
  /\ stage.pc = "peek" /\ In!Peek /\ ~DayOver
  /\ stage' = [stage EXCEPT !.pc = "take"]
  /\ Reads(KeyOf(In!Front) \cup KeyOf(Last(stage.buffer)))
  /\ UNCHANGED <<outputQueue, msgs, dropped>>

\* process(): the DaySpread of the buffer is built and about to be enqueued.
BuildDay(ending, reads) ==
  /\ stage' = [stage EXCEPT !.pc = "emit", !.ending = ending,
                            !.outbox = <<NewDaySpread(stage.buffer)>>]
  /\ Access(reads \cup UNION {SpreadOf(o) : o \in ToSet(stage.buffer)}, {},
            {Cell(stage.buffer[1].id, "mean")})

PeekOther ==
  /\ stage.pc = "peek" /\ In!Peek /\ DayOver
  /\ BuildDay(FALSE, KeyOf(In!Front) \cup KeyOf(Last(stage.buffer)))
  /\ UNCHANGED <<outputQueue, msgs, dropped>>

AtEnd ==
  /\ EndsInput
  /\ IF stage.buffer = <<>>
     THEN /\ stage' = [stage EXCEPT !.pc = "close", !.ending = TRUE]
          /\ UNCHANGED <<heap, wild>>
     ELSE BuildDay(TRUE, {})
  /\ UNCHANGED <<outputQueue, msgs, dropped>>

Emit == Emits("clean")

\* Slip: deleteAll() on the first observation too.
CleanWholeBuffer ==
  /\ stage.pc = "clean"
  /\ Access({}, CellsOfAll(stage.buffer), {})
  /\ stage' = [stage EXCEPT !.pc = After(<<>>, stage.ending), !.buffer = <<>>]
  /\ UNCHANGED <<inputQueue, outputQueue, msgs, dropped>>

\* cleanBuffer(): the DaySpread has taken over the symbol and the date of the
\* first observation, and may already have been written and deleted.
CleanBuffer ==
  /\ stage.pc = "clean"
  /\ LET first == stage.buffer[1]
     IN Access({}, StampOf(first) \cup QuoteOf(first) \cup SpreadOf(first)
                     \cup CellsOfAll(Tail(stage.buffer)), {})
  /\ stage' = [stage EXCEPT !.pc = After(<<>>, stage.ending), !.buffer = <<>>]
  /\ UNCHANGED <<inputQueue, outputQueue, msgs, dropped>>

Step == \/ TryFails \/ Sleeps \/ TakeObs \/ PeekSame \/ PeekOther \/ AtEnd
        \/ Emit \/ EmitBlocks \/ CleanBuffer \/ Closes

Fail == RaisesSilently
=============================================================================
