------------------------------ MODULE Counter ------------------------------
(***************************************************************************)
(* Counter: what a stage counts its elements with, and the display thread  *)
(* that once a second hands the count to a callback and sets it to zero.   *)
(*                                                                         *)
(* A counter is a record, each operation or step of the display thread     *)
(* gives the one after it:                                                 *)
(*   running     m_running                                                 *)
(*   perSec      m_perSecTickCount                                         *)
(*   total       m_totalTickCount                                          *)
(*   thread      where the display thread is                               *)
(*   read        the count it has last handed to the callback              *)
(* and, as history, the sum of the counts handed over and the number of    *)
(* times the callback ran to its end.  The list of callbacks has the one   *)
(* element that each stage registers before it starts the counter, so the  *)
(* mutex is always free.                                                   *)
(***************************************************************************)
EXTENDS Naturals

NewCounter == [running |-> FALSE, perSec |-> 0, total |-> 0, thread |-> "none",
               read |-> 0, reported |-> 0, reports |-> 0]

Start(c) == [c EXCEPT !.running = TRUE, !.thread = "test"]

Stop(c) == [c EXCEPT !.running = FALSE]

Ticks(c, n) == [c EXCEPT !.perSec = @ + n, !.total = @ + n]

-----------------------------------------------------------------------------
(* The display thread. *)

\* Slip: the flag is tested only before the first round.
TestOnce(c) ==
  [c EXCEPT !.thread = IF c.running \/ c.reports > 0 THEN "call" ELSE "ended"]

\* while(m_running.load())
Test(c) == [c EXCEPT !.thread = IF c.running THEN "call" ELSE "ended"]

\* callback(m_perSecTickCount): the count is read here, the callback then runs.
Call(c) == [c EXCEPT !.thread = "callback",
                     !.read = c.perSec, !.reported = @ + c.perSec]

\* The callback has put its message in msgQueue.
Return(c) == [c EXCEPT !.thread = "reset", !.reports = @ + 1]

\* Slip: the count goes on from one second to the next.
ResetNothing(c) == [c EXCEPT !.thread = "sleep"]

\* Slip: what is taken off is the count since the start.
ResetByTotal(c) == [c EXCEPT !.thread = "sleep", !.perSec = @ - c.total]

\* m_perSecTickCount = 0, and with it what was ticked during the callback.
Reset(c) == [c EXCEPT !.thread = "sleep", !.perSec = 0]

Wake(c) == [c EXCEPT !.thread = "test"]

InCallback(c) == c.thread \in {"call", "callback"}

\* What has been ticked since the count was last read.
Unreported(c) == IF c.thread \in {"callback", "reset"} THEN c.perSec - c.read
                 ELSE c.perSec
=============================================================================
