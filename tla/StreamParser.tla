---------------------------- MODULE StreamParser ----------------------------
(***************************************************************************)
(* StreamParser: reads the file line by line and enqueues an Observation   *)
(* for each line that passes the filter on bid, offer and mode.            *)
(*                                                                         *)
(* A line of the file (after the 30 bytes of the header) has a kind:       *)
(*   "good"  an observation is made of it;                                 *)
(*   "skip"  bid or offer is not above 0.01, or mode is not 12;            *)
(*   "bad"   fewer than six tokens, the empty line included;               *)
(*   "cut"   longer than 127 characters, or the last one without a newline *)
(*           at its end: getline() sets failbit or eofbit and get(), on a  *)
(*           stream that is not good(), returns EOF, so parsing ends.      *)
(***************************************************************************)
EXTENDS DataStructures

CONSTANTS MinCapacity, MaxCapacity

VARIABLES file,       \* the lines
          parser,     \* [pc, line, outbox]; pc: "parse", "emit", "close", "fault", "done"
          parsedQueue,
          msgs

Out == INSTANCE AtomicQueue WITH q <- parsedQueue

NewParser == [pc |-> "parse", line |-> 1, outbox |-> <<>>]

AtLine(kind) == /\ parser.pc = "parse"
                /\ parser.line <= Len(file)
                /\ file[parser.line].kind = kind

ParseObservation ==
  /\ AtLine("good")
  /\ LET obs == NewObservation(parser.line, file[parser.line])
     IN /\ parser' = [parser EXCEPT !.pc = "emit", !.outbox = <<obs>>]
        /\ Access({}, {}, CellsOf(obs))
  /\ UNCHANGED <<file, parsedQueue, msgs>>

SkipLine ==
  /\ AtLine("skip")
  /\ parser' = [parser EXCEPT !.line = @ + 1]
  /\ UNCHANGED <<file, parsedQueue, heap, wild, msgs>>

\* "Parse error (tokens)"
ParseError ==
  /\ AtLine("bad")
  /\ parser' = [parser EXCEPT !.pc = "fault"]
  /\ UNCHANGED <<file, parsedQueue, heap, wild, msgs>>

EndOfFile ==
  /\ parser.pc = "parse"
  /\ parser.line <= Len(file) => file[parser.line].kind = "cut"
  /\ parser' = [parser EXCEPT !.pc = "close"]
  /\ UNCHANGED <<file, parsedQueue, heap, wild, msgs>>

Emit ==
  /\ parser.pc = "emit"
  /\ Out!Enqueue(parser.outbox[1])
  /\ parser' = [parser EXCEPT !.pc = "parse", !.line = @ + 1, !.outbox = <<>>]
  /\ UNCHANGED <<file, heap, wild, msgs>>

EmitBlocks ==
  /\ parser.pc = "emit"
  /\ Out!EnqueueBlocked
  /\ UNCHANGED <<file, parser, heap, wild, msgs>>

\* Either way the message is enqueued and the queue closed.
Closes ==
  /\ parser.pc \in {"close", "fault"}
  /\ Out!SetQueueEnd
  /\ parser' = [parser EXCEPT !.pc = "done"]
  /\ msgs' = msgs \cup {[sender |-> "PARSER",
                         text |-> IF parser.pc = "close" THEN "Finished !" ELSE "Exception"]}
  /\ UNCHANGED <<file, heap, wild>>

\* bad_alloc, anywhere in the loop: caught by parse() like a parse error
\* (what had been allocated for the line is left out of the heap).
Fail ==
  /\ parser.pc = "parse"
  /\ parser' = [parser EXCEPT !.pc = "fault"]
  /\ UNCHANGED <<file, parsedQueue, heap, wild, msgs>>

Step == \/ ParseObservation \/ SkipLine \/ ParseError \/ EndOfFile
        \/ Emit \/ EmitBlocks \/ Closes
=============================================================================
