------------------------------- MODULE Tokens -------------------------------
(***************************************************************************)
(* StreamParser::parseFloat() and parseUChar(): what the parser takes a    *)
(* price and a mode for, read digit by digit until the first character     *)
(* that is neither a digit nor, in a price, a point.                       *)
(***************************************************************************)
EXTENDS Naturals, Sequences, SequencesExt

CONSTANTS Digits, Point, Other,   \* the characters
          UCharSize,              \* 256
          MaxLength               \* bound on the length of a token

ASSUME TokenAssumption ==
  Digits \subseteq 0 .. 9 /\ Point \notin Digits /\ Other \notin Digits \cup {Point}

VARIABLES token, next,   \* the cell, and where ptr is in it
          tenths, afterComma,   \* parseFloat's x, in tenths
          mode, inMode          \* parseUChar's x; it has not met another character

vars == <<token, next, tenths, afterComma, mode, inMode>>

Init == /\ token \in BoundedSeq(Digits \cup {Point, Other}, MaxLength) /\ next = 1
        /\ tenths = 0 /\ afterComma = FALSE
        /\ mode = 0 /\ inMode = TRUE

\* Slip: the digits before the point count as tenths, too.
FloatDigitShort(d) == tenths' = tenths * 10 + d

\* Every digit after the point is added as a tenth.
FloatDigit(d) == tenths' = IF afterComma THEN tenths + d ELSE tenths * 10 + d * 10

UCharDigit(d) == mode' = (mode * 10 + d) % UCharSize

\* ptr is at a digit or a point.
More == next <= Len(token) /\ token[next] # Other

Read ==
  /\ More
  /\ next' = next + 1 /\ UNCHANGED token
  /\ IF token[next] = Point
     THEN afterComma' = TRUE /\ inMode' = FALSE /\ UNCHANGED <<tenths, mode>>
     ELSE /\ FloatDigit(token[next]) /\ UNCHANGED <<afterComma, inMode>>
          /\ IF inMode THEN UCharDigit(token[next]) ELSE UNCHANGED mode

Ended == ~More /\ UNCHANGED vars

Next == Read \/ Ended

Spec == Init /\ [][Next]_vars

-----------------------------------------------------------------------------
\* The token up to the first of these characters.
Before(stops) ==
  LET first == SelectInSeq(token, LAMBDA ch : ch \in stops) IN
  IF first = 0 THEN token ELSE SubSeq(token, 1, first - 1)

\* The number these digits stand for.
Value(digits) == FoldLeft(LAMBDA n, d : 10 * n + d, 0, digits)

\* A price with at most one digit after its point is read as what it says; of more
\* digits each counts as a tenth, so that 12.25 is 12.7 and 0.01 is 0.1.  A mode is
\* read modulo 256: 268 is taken for 12.
ReadsValue ==
  ~More =>
    LET price == Before({Other})
        whole == Before({Point, Other})
        parts == SelectSeq(price, LAMBDA ch : ch # Point)
        decimals == SubSeq(parts, Len(whole) + 1, Len(parts)) IN
    /\ tenths = 10 * Value(whole) + FoldLeft(LAMBDA n, d : n + d, 0, decimals)
    /\ Len(decimals) <= 1 => tenths = Value(parts) * (IF decimals = <<>> THEN 10 ELSE 1)
    /\ mode = Value(whole) % UCharSize
=============================================================================
