--------------------------- MODULE OutliersFilter ---------------------------
(***************************************************************************)
(* OutliersFilter: the observations of a day are buffered; when the date   *)
(* changes the outliers among them are deleted and the others passed on.   *)
(*                                                                         *)
(* Which observations are outliers is a matter of their values, which the  *)
(* model does not have: any subset may be.  (For a day with a single       *)
(* observation computeContextStats computes on an empty context, which is  *)
(* undefined: of its outcomes the model has "kept" and "deleted", not a    *)
(* crash of the process.)                                                  *)
(***************************************************************************)
EXTENDS Stage

\* The positions kept of n, in order: the indices the loop after
\* removeDayOutliers() finds with a symbol that is not null.
Selections(n) ==
  UNION {{f \in [1 .. m -> 1 .. n] : \A i, j \in 1 .. m : i < j => f[i] < f[j]} :
           m \in 0 .. n}

\* removeDayOutliers() reads every quote of the day and deletes the flagged rows;
\* the loop after it enqueues the rows whose symbol is not null.
FlushDay(day, selection, reads, next, ending) ==
  LET kept == [k \in DOMAIN selection |-> day[selection[k]]]
      gone == ToSet(day) \ ToSet(kept)
  IN /\ stage' = [stage EXCEPT !.pc = After(kept, ending), !.outbox = kept,
                               !.buffer = next, !.ending = ending]
     /\ Access(reads \cup UNION {QuoteOf(o) : o \in ToSet(day)},
               UNION {CellsOf(o) : o \in gone}, {})
     /\ dropped' = dropped \cup UNION {o.src : o \in gone}

-----------------------------------------------------------------------------
\* The buffer is empty or its last observation has the same date: push_back.
Collect ==
  /\ Takes
  /\ stage.buffer # <<>> => In!Front.date = Last(stage.buffer).date
  /\ stage' = [stage EXCEPT !.buffer = Append(@, In!Front)]
  /\ Reads(IF stage.buffer = <<>> THEN {}
           ELSE KeyOf(In!Front) \cup KeyOf(Last(stage.buffer)))
  /\ UNCHANGED <<outputQueue, msgs, dropped>>

\* Another date: the buffered day is filtered and passed on.
FlushOnChange ==
  /\ Takes
  /\ stage.buffer # <<>> /\ In!Front.date # Last(stage.buffer).date
  /\ \E selection \in Selections(Len(stage.buffer)) :
       FlushDay(stage.buffer, selection,
                KeyOf(In!Front) \cup KeyOf(Last(stage.buffer)), <<In!Front>>, FALSE)
  /\ UNCHANGED <<outputQueue, msgs>>

\* QueueEndException: the same for the last day.
FlushAtEnd ==
  /\ EndsInput
  /\ \E selection \in Selections(Len(stage.buffer)) :
       FlushDay(stage.buffer, selection, {}, <<>>, TRUE)
  /\ UNCHANGED <<outputQueue, msgs>>

Emit == Emits(After(Tail(stage.outbox), stage.ending))

Step == \/ TryFails \/ Sleeps \/ Collect \/ FlushOnChange \/ FlushAtEnd
        \/ Emit \/ EmitBlocks \/ Closes

Fail == RaisesAndCloses
=============================================================================
