------------------------ MODULE TimestampMergeFilter ------------------------
(***************************************************************************)
(* TimestampMergeFilter: consecutive observations with the same date and   *)
(* time become one, with the median bid and offer.                         *)
(***************************************************************************)
EXTENDS Stage

\* Slip: != instead of == on the time.
SameStampInverted(a, b) == a.date = b.date /\ a.time # b.time

SameStamp(a, b) == a.date = b.date /\ a.time = b.time

(***************************************************************************)
(* getMergedObs(): a single observation is passed on as it is; of several, *)
(* the front one (the last received) lends its cells, new cells take the   *)
(* medians, and the others are deleted.  The median offer can be below the *)
(* median bid only if the offer is below the bid in some observation (and  *)
(* need not be, even if it is in all: the float average rounds).           *)
(***************************************************************************)
Merged(buffer) ==
  IF Len(buffer) = 1 THEN {buffer[1]}
  ELSE {[buffer[1] EXCEPT !.quote = "median", !.src = SrcOfAll(buffer), !.neg = n] :
          n \in {FALSE} \cup {o.neg : o \in ToSet(buffer)}}

MergeAccess(buffer, reads) ==
  IF Len(buffer) = 1 THEN Reads(reads)
  ELSE Access(reads \cup UNION {QuoteOf(o) : o \in ToSet(buffer)},
              QuoteOf(buffer[1]) \cup CellsOfAll(Tail(buffer)),
              {Cell(buffer[1].id, "median")})

Compared(obs) == KeyOf(obs) \cup StampOf(obs)

-----------------------------------------------------------------------------
\* The buffer is empty or has the same date and time: push_front.
Collect ==
  /\ Takes
  /\ stage.buffer # <<>> => SameStamp(In!Front, stage.buffer[1])
  /\ stage' = [stage EXCEPT !.buffer = <<In!Front>> \o @]
  /\ Reads(IF stage.buffer = <<>> THEN {}
           ELSE Compared(In!Front) \cup Compared(stage.buffer[1]))
  /\ UNCHANGED <<outputQueue, msgs, dropped>>

\* Slip: the observation that ended the group is not pushed.
MergeForgetsNext ==
  /\ Takes
  /\ stage.buffer # <<>> /\ ~SameStamp(In!Front, stage.buffer[1])
  /\ \E obs \in Merged(stage.buffer) :
       stage' = [stage EXCEPT !.pc = "emit", !.outbox = <<obs>>, !.buffer = <<>>]
  /\ MergeAccess(stage.buffer, Compared(In!Front) \cup Compared(stage.buffer[1]))
  /\ UNCHANGED <<outputQueue, msgs, dropped>>

\* Another date or time: the buffer is merged and enqueued, and starts anew.
MergeOnChange ==
  /\ Takes
  /\ stage.buffer # <<>> /\ ~SameStamp(In!Front, stage.buffer[1])
  /\ \E obs \in Merged(stage.buffer) :
       stage' = [stage EXCEPT !.pc = "emit", !.outbox = <<obs>>, !.buffer = <<In!Front>>]
  /\ MergeAccess(stage.buffer, Compared(In!Front) \cup Compared(stage.buffer[1]))
  /\ UNCHANGED <<outputQueue, msgs, dropped>>

\* Slip: the buffer is not flushed at the end.
EndWithoutMerge ==
  /\ EndsInput
  /\ stage' = [stage EXCEPT !.pc = "close", !.ending = TRUE]
  /\ UNCHANGED outputQueue /\ Quiet

\* QueueEndException: what is in the buffer is merged and enqueued.
MergeAtEnd ==
  /\ EndsInput
  /\ IF stage.buffer = <<>>
     THEN /\ stage' = [stage EXCEPT !.pc = "close", !.ending = TRUE]
          /\ UNCHANGED <<heap, wild>>
     ELSE /\ \E obs \in Merged(stage.buffer) :
               stage' = [stage EXCEPT !.pc = "emit", !.outbox = <<obs>>,
                                      !.buffer = <<>>, !.ending = TRUE]
          /\ MergeAccess(stage.buffer, {})
  /\ UNCHANGED <<outputQueue, msgs, dropped>>

Emit == Emits(After(Tail(stage.outbox), stage.ending))

Step == \/ TryFails \/ Sleeps \/ Collect \/ MergeOnChange \/ MergeAtEnd
        \/ Emit \/ EmitBlocks \/ Closes

Fail == RaisesAndCloses
=============================================================================
