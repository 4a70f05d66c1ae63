------------------------- MODULE RelSpreadProcessor -------------------------
(***************************************************************************)
(* RelSpreadProcessor: computes the relative spread of each observation    *)
(* and deletes the observations in which it is negative.                   *)
(***************************************************************************)
EXTENDS Stage

\* relSpread >= 0: the observation goes on, with a new cell.
AddSpread ==
  /\ Takes
  /\ ~In!Front.neg
  /\ stage' = [stage EXCEPT !.pc = "emit", !.outbox = <<[In!Front EXCEPT !.spread = TRUE]>>]
  /\ Access(QuoteOf(In!Front), {}, {Cell(In!Front.id, "spread")})
  /\ UNCHANGED <<outputQueue, msgs, dropped>>

\* relSpread < 0: the observation and the new cell are deleted.
DropNegative ==
  /\ Takes
  /\ In!Front.neg
  /\ Access(QuoteOf(In!Front), CellsOf(In!Front), {})
  /\ Drop(<<In!Front>>)
  /\ UNCHANGED <<outputQueue, stage, msgs>>

AtEnd ==
  /\ EndsInput
  /\ stage' = [stage EXCEPT !.pc = "close", !.ending = TRUE]
  /\ UNCHANGED outputQueue /\ Quiet

Emit == Emits(After(Tail(stage.outbox), stage.ending))

Step == \/ TryFails \/ Sleeps \/ AddSpread \/ DropNegative \/ AtEnd
        \/ Emit \/ EmitBlocks \/ Closes

Fail == RaisesSilently
=============================================================================
