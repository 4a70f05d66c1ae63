--------------------------- MODULE DataStructures ---------------------------
(***************************************************************************)
(* The values that travel through the pipeline (DataStructures.h) and the  *)
(* heap cells they point to.                                               *)
(*                                                                         *)
(* An Observation is seven raw pointers and a DaySpread is three; both are *)
(* copied from queue to buffer to queue while the cells stay where they    *)
(* are, so that several threads in turn own, read and delete them.  Cells  *)
(* that the code always allocates, passes on and deletes together are one  *)
(* cell here: the "key" (symbol and date), the "stamp" (time and mode),    *)
(* the "own" or "median" quote (bid and offer), the "spread" (relSpread)   *)
(* and the "mean" (DaySpread::relSpread).                                  *)
(*                                                                         *)
(* Of the values in the cells the model keeps what the code branches on:   *)
(* the date, the time, and whether offer < bid (neg).  id is the number of *)
(* the line whose cells the row points to, src the lines it stands for.    *)
(***************************************************************************)
EXTENDS Naturals, Sequences, FiniteSets, SequencesExt

VARIABLES heap,   \* the cells that are allocated
          wild    \* a cell was read or deleted when it was not allocated

Cell(id, part) == <<id, part>>

NewObservation(i, line) ==
  [id |-> i, date |-> line.date, time |-> line.time, neg |-> line.neg,
   src |-> {i}, quote |-> "own", spread |-> FALSE]

KeyOf(row) == {Cell(row.id, "key")}
StampOf(obs) == {Cell(obs.id, "stamp")}
QuoteOf(obs) == {Cell(obs.id, obs.quote)}
SpreadOf(obs) == IF obs.spread THEN {Cell(obs.id, "spread")} ELSE {}

\* The cells Observation::deleteAll() deletes.
CellsOf(obs) == KeyOf(obs) \cup StampOf(obs) \cup QuoteOf(obs) \cup SpreadOf(obs)
CellsOfAll(rows) == UNION {CellsOf(o) : o \in ToSet(rows)}

\* DaySpread(m_buffer[0].symbol, m_buffer[0].date, mean(m_buffer))
NewDaySpread(buffer) ==
  [id |-> buffer[1].id, date |-> buffer[1].date, src |-> UNION {o.src : o \in ToSet(buffer)}]

\* The cells DaySpread::deleteAll() deletes.
DayCells(ds) == KeyOf(ds) \cup {Cell(ds.id, "mean")}

\* One operation's effect on the heap.
Access(reads, deletes, news) ==
  /\ heap' = (heap \ deletes) \cup news
  /\ wild' = (wild \/ ~(reads \cup deletes \subseteq heap))

Reads(cells) == Access(cells, {}, {})

HeapInit == heap = {} /\ wild = FALSE
=============================================================================
