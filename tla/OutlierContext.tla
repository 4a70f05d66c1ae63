--------------------------- MODULE OutlierContext ---------------------------
(***************************************************************************)
(* The index arithmetic behind an outlier: which observations of a day of  *)
(* n are the context of the i-th (OutliersFilter::removeDayOutliers and    *)
(* computeContextStats), and which of the c sorted values of a context     *)
(* trimmedMean and median use (StatsUtils).                                *)
(*                                                                         *)
(* Indices are size_t in the code; the theorems that bound them from below *)
(* are why the naturals do for them.                                       *)
(***************************************************************************)
EXTENDS Integers

windowSize == 51
Half == (windowSize - 1) \div 2

\* Interval window: its ends, and the place of the observation itself in it.
Window(n, i) ==
  IF i <= Half
  THEN [low |-> 0, high |-> windowSize - 1, current |-> i]
  ELSE IF n - i < Half + 1
  THEN [low |-> n - (Half + 1), high |-> n - 1, current |-> i - (n - (Half + 1))]
  ELSE [low |-> i - Half, high |-> i + Half, current |-> Half]

Size(w) == (w.high - w.low) + 1

\* The indices computeContextStats reads: m_buffer.at(window.low + k).
Context(n, i) ==
  LET w == Window(n, i) IN
  {w.low + k : k \in {k \in 0 .. n - 1 : k < Size(w) /\ k # w.current}}

\* trimmedMean: round((c - 1) * 0.1) values are skipped at each end.
Skip(c) == ((c - 1) + 5) \div 10
Kept(c) == Skip(c) .. (c - Skip(c)) - 1

\* median: the middle one or two of c sorted values.
Middle(c) == IF c % 2 = 0 THEN {(c \div 2) - 1, c \div 2} ELSE {c \div 2}
=============================================================================
