----------------------------- MODULE MCPipeline -----------------------------
(***************************************************************************)
(* Pipeline on small instances.  The files are chosen so that every branch *)
(* of every stage is taken: stamps that repeat and that do not, a day that *)
(* ends with a lone observation, a date that comes back after another, a   *)
(* negative spread alone in its day and among others, lines that are       *)
(* skipped, cannot be parsed, or cut the file short, and no line at all.   *)
(***************************************************************************)
EXTENDS Pipeline

Line(kind, date, time, neg) == [kind |-> kind, date |-> date, time |-> time, neg |-> neg]

Quote(date, time) == Line("good", date, time, FALSE)
Crossed(date, time) == Line("good", date, time, TRUE)
Other(kind) == Line(kind, 0, 0, FALSE)

\* Four observations keep all six stages busy at once.
MCGoodFiles ==
  {<<>>,
   <<Quote(1, 1), Quote(1, 1), Quote(1, 2), Quote(2, 1)>>,
   <<Quote(1, 1), Crossed(1, 1), Quote(1, 1), Quote(1, 2)>>,
   <<Quote(1, 1), Quote(2, 1), Crossed(2, 2), Quote(1, 1)>>,
   <<Crossed(1, 1), Other("skip"), Quote(1, 1), Quote(2, 2)>>,
   <<Quote(1, 2), Quote(1, 1), Other("bad"), Quote(2, 2)>>,
   <<Quote(1, 1), Quote(2, 1), Other("cut"), Quote(2, 1)>>}

\* The file during which stages fail, any of them and any number.
MCBadFile == <<Quote(1, 1), Quote(2, 1)>>

MCFiles == MCGoodFiles \cup {MCBadFile}
MCFaulty == [f \in MCFiles |-> IF f = MCBadFile THEN Stages ELSE {}]

MCGarbage == {TRUE}
=============================================================================
