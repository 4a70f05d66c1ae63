---------------------------- MODULE PipelineRows ----------------------------
(***************************************************************************)
(* The rows on their way through the pipeline: the inductive invariant of  *)
(* Pipeline, how a step of a stage moves rows and cells without losing or  *)
(* mixing up any, and the three filters: the one that merges equal stamps, *)
(* that of outliers, and the processor of relative spreads.                *)
(***************************************************************************)
EXTENDS Pipeline, SequenceTheorems, TLAPS

\* A row stands for lines of its own date, the one whose cells it points to among them.
Stands(r, f) == /\ r.id \in r.src
                /\ \A l \in r.src : l \in DOMAIN f /\ f[l].date = r.date

ObsOf(f) == {o \in [id : Nat, date : Nat, time : Nat, neg : BOOLEAN, src : SUBSET Nat,
                    quote : {"own", "median"}, spread : BOOLEAN] : Stands(o, f)}

DaysOf(f) == {d \in [id : Nat, date : Nat, src : SUBSET Nat] : Stands(d, f)}

RowOf(f) == ObsOf(f) \cup DaysOf(f)

\* The lines of every row come before those of the rows behind it.
Sorted(rows) == \A i, j \in 1 .. Len(rows) : i < j =>
                  \A x \in rows[i].src, y \in rows[j].src : x < y

Before(A, B) == \A x \in A, y \in B : x < y

-----------------------------------------------------------------------------
(* The inductive invariant. *)

StageOf(In, Out) ==
  [pc : {"take", "peek", "emit", "clean", "close", "done", "failed"},
   buffer : Seq(In), outbox : Seq(Out), hand : Seq(In), ending : BOOLEAN]

QueueOf(Elem) ==
  {q \in [items : Seq(Elem), atEnd : BOOLEAN, full : BOOLEAN, empty : BOOLEAN,
          missed : BOOLEAN] : Len(q.items) <= MaxCapacity}

Types ==
  /\ file \in Files
  /\ parser \in [pc : {"parse", "emit", "close", "fault", "done"},
                 line : 1 .. Len(file) + 1, outbox : Seq(ObsOf(file))]
  /\ merge \in StageOf(ObsOf(file), ObsOf(file))
  /\ outliers \in StageOf(ObsOf(file), ObsOf(file))
  /\ relSpread \in StageOf(ObsOf(file), ObsOf(file))
  /\ daySpread \in StageOf(ObsOf(file), DaysOf(file))
  /\ writer \in {"open", "take", "done", "failed"}
  /\ written \in Seq(DaysOf(file))
  /\ parsedQueue \in QueueOf(ObsOf(file))
  /\ timestampMergedQueue \in QueueOf(ObsOf(file))
  /\ outliersFilteredQueue \in QueueOf(ObsOf(file))
  /\ relSpreadQueue \in QueueOf(ObsOf(file))
  /\ dayRelSpreadQueue \in QueueOf(DaysOf(file))
  /\ dropped \subseteq DOMAIN file
  /\ main \in {"joining", "returned"}

\* A stage emits while it has something to, collects until its input ends, and closes
\* its output when it is over.
StageControl(st, in, out) ==
  /\ st.pc = "emit" <=> st.outbox # <<>>
  /\ st.pc # "failed" => st.hand = <<>>
  /\ st.pc \in {"take", "peek"} => ~st.ending
  /\ st.pc \in {"close", "done"} => st.buffer = <<>>
  /\ st.ending => in.atEnd
  /\ out.atEnd => Over(st.pc)

ParserControl ==
  /\ parser.pc = "emit" <=> parser.outbox # <<>>
  /\ parser.outbox # <<>> =>
       /\ parser.line <= Len(file) /\ file[parser.line].kind = "good"
       /\ parser.outbox = <<NewObservation(parser.line, file[parser.line])>>
  /\ parsedQueue.atEnd => Over(parser.pc)

MergeControl ==
  /\ StageControl(merge, parsedQueue, timestampMergedQueue)
  /\ merge.pc \notin {"peek", "clean"}
  /\ merge.ending => merge.buffer = <<>>
  /\ \A i \in 1 .. Len(merge.buffer) : merge.buffer[i].date = merge.buffer[1].date

OutliersControl ==
  /\ StageControl(outliers, timestampMergedQueue, outliersFilteredQueue)
  /\ outliers.pc \notin {"peek", "clean"}
  /\ outliers.ending => outliers.buffer = <<>>

RelSpreadControl ==
  /\ StageControl(relSpread, outliersFilteredQueue, relSpreadQueue)
  /\ relSpread.pc \notin {"peek", "clean"}
  /\ relSpread.buffer = <<>>

DaySpreadControl ==
  /\ StageControl(daySpread, relSpreadQueue, dayRelSpreadQueue)
  /\ daySpread.pc \in {"peek", "emit", "clean"} => daySpread.buffer # <<>>
  /\ Len(daySpread.outbox) <= 1

WriterControl ==
  /\ writer = "done" => dayRelSpreadQueue.atEnd
  /\ main = "returned" => \A s \in Stages : Over(PcOf[s])

Control == /\ ParserControl /\ MergeControl /\ OutliersControl
           /\ RelSpreadControl /\ DaySpreadControl /\ WriterControl

Ordered == Sorted(Rows) /\ EveryLineAccountedFor

AllDays == written \o dayRelSpreadQueue.items \o daySpread.outbox

DatesDiffer(rows) == \A i \in 1 .. Len(rows) - 1 : rows[i].date # rows[i + 1].date

\* No day is cut in two: the day in the buffer is another than the last one built, and
\* so is the one that begins with the observation peeked at.
DaysApart ==
  /\ DatesDiffer(AllDays)
  /\ \A i \in 1 .. Len(daySpread.buffer) :
       daySpread.buffer[i].date = daySpread.buffer[1].date
  /\ daySpread.pc \in {"take", "peek"} /\ daySpread.buffer # <<>> /\ AllDays # <<>> =>
       Last(AllDays).date # daySpread.buffer[1].date
  /\ daySpread.pc = "take" /\ daySpread.buffer # <<>> =>
       /\ relSpreadQueue.items # <<>>
       /\ relSpreadQueue.items[1].date = daySpread.buffer[1].date
  /\ (\/ daySpread.pc \in {"emit", "clean"}
      \/ daySpread.pc = "take" /\ daySpread.buffer = <<>>)
     => (AllDays # <<>> /\ ~daySpread.ending =>
           /\ relSpreadQueue.items # <<>>
           /\ relSpreadQueue.items[1].date # Last(AllDays).date)

\* While its buffer is still there, the last day built is the one made of it.
DayAtHand ==
  daySpread.pc \in {"emit", "clean"} =>
    /\ AllDays # <<>>
    /\ Last(AllDays).id = daySpread.buffer[1].id
    /\ Last(AllDays).src = Src(daySpread.buffer)
    /\ Sorted(daySpread.buffer)

\* The first observation starts the first group.
StampsApart ==
  /\ StampsMerged
  /\ merge.buffer = <<>> /\ ~merge.ending =>
       /\ outliers.buffer = <<>> /\ outliers.hand = <<>>
       /\ timestampMergedQueue.items = <<>> /\ merge.outbox = <<>>

BufferCells ==
  CellsOfAll(daySpread.buffer)
    \ (IF daySpread.pc = "clean" THEN KeyOf(daySpread.buffer[1]) ELSE {})

DayCellsOfAll(days) == UNION {DayCells(d) : d \in ToSet(days)}

\* The cells on the heap are those of the rows, whatever stage has failed.
HeapExact ==
  /\ wild = FALSE
  /\ heap = DayCellsOfAll(HeldDays) \cup BufferCells \cup CellsOfAll(daySpread.hand)
            \cup CellsOfAll(relSpreadQueue.items)
            \cup CellsOfAll(RowsOf(relSpread, <<>>))
            \cup CellsOfAll(outliersFilteredQueue.items)
            \cup CellsOfAll(RowsOf(outliers, outliers.buffer))
            \cup CellsOfAll(timestampMergedQueue.items)
            \cup CellsOfAll(RowsOf(merge, Reverse(merge.buffer)))
            \cup CellsOfAll(parsedQueue.items) \cup CellsOfAll(parser.outbox)

PipelineInv == /\ Types /\ Control /\ Ordered /\ DaysApart /\ DayAtHand
               /\ StampsApart /\ HeapExact

-----------------------------------------------------------------------------
(* Sequences of rows. *)

\* The rows of a sequence, one by one.
LEMMA SrcOfSeq ==
  ASSUME NEW S, NEW s \in Seq(S)
  PROVE  /\ \A x : x \in Src(s) <=> \E i \in 1 .. Len(s) : x \in s[i].src
         /\ \A o : o \in ToSet(s) <=> \E i \in 1 .. Len(s) : o = s[i]
BY DEF Src, ToSet

LEMMA SrcOfConcat ==
  ASSUME NEW S, NEW s \in Seq(S), NEW t \in Seq(S)
  PROVE  /\ Src(s \o t) = Src(s) \cup Src(t)
         /\ ToSet(s \o t) = ToSet(s) \cup ToSet(t)
         /\ s \o t \in Seq(S)
<1> DEFINE u == s \o t
<1>1. /\ u \in Seq(S) /\ Len(u) = Len(s) + Len(t)
      /\ Len(s) \in Nat /\ Len(t) \in Nat
      /\ \A i \in 1 .. Len(s) : u[i] = s[i]
      /\ \A i \in 1 .. Len(t) : u[Len(s) + i] = t[i]
  BY ConcatProperties, LenProperties
<1>2. \A i \in 1 .. Len(u) : \/ i \in 1 .. Len(s)
                             \/ \E j \in 1 .. Len(t) : i = Len(s) + j
  <2> SUFFICES ASSUME NEW i \in 1 .. Len(u), i \notin 1 .. Len(s)
               PROVE  \E j \in 1 .. Len(t) : i = Len(s) + j
    OBVIOUS
  <2> WITNESS i - Len(s) \in 1 .. Len(t)
  <2> QED BY <1>1
<1>3. /\ \A i \in 1 .. Len(s) : i \in 1 .. Len(u)
      /\ \A i \in 1 .. Len(t) : Len(s) + i \in 1 .. Len(u)
  BY <1>1
<1> HIDE DEF u
<1>4. ToSet(u) = ToSet(s) \cup ToSet(t)
  <2>1. /\ \A x : x \in ToSet(u) <=> \E i \in 1 .. Len(u) : x = u[i]
        /\ \A x : x \in ToSet(s) <=> \E i \in 1 .. Len(s) : x = s[i]
        /\ \A x : x \in ToSet(t) <=> \E i \in 1 .. Len(t) : x = t[i]
    BY <1>1, SrcOfSeq
  <2>2. ASSUME NEW x \in ToSet(u) PROVE x \in ToSet(s) \cup ToSet(t)
    <3>1. PICK i \in 1 .. Len(u) : x = u[i]
      BY <2>1
    <3>2. CASE i \in 1 .. Len(s)
      BY <1>1, <2>1, <3>1, <3>2
    <3>3. CASE \E j \in 1 .. Len(t) : i = Len(s) + j
      BY <1>1, <2>1, <3>1, <3>3
    <3> QED BY <1>2, <3>2, <3>3
  <2>3. ASSUME NEW x \in ToSet(s) PROVE x \in ToSet(u)
    BY <1>1, <1>3, <2>1
  <2>4. ASSUME NEW x \in ToSet(t) PROVE x \in ToSet(u)
    <3>1. PICK j \in 1 .. Len(t) : x = t[j]
      BY <2>1
    <3> QED BY <1>1, <1>3, <2>1, <3>1
  <2> QED BY <2>2, <2>3, <2>4
<1>5. Src(u) = Src(s) \cup Src(t)
  BY <1>4 DEF Src
<1> QED BY <1>1, <1>4, <1>5 DEF u

LEMMA SrcOfFew ==
  ASSUME NEW r
  PROVE  /\ Src(<<>>) = {} /\ Src(<<r>>) = r.src
         /\ ToSet(<<>>) = {} /\ ToSet(<<r>>) = {r}
<1>1. ToSet(<<>>) = {} /\ ToSet(<<r>>) = {r}
  BY DEF ToSet
<1> QED BY <1>1 DEF Src

LEMMA SortedConcat ==
  ASSUME NEW S, NEW s \in Seq(S), NEW t \in Seq(S)
  PROVE  Sorted(s \o t) <=> Sorted(s) /\ Sorted(t) /\ Before(Src(s), Src(t))
<1> DEFINE u == s \o t
<1>1. /\ u \in Seq(S) /\ Len(u) = Len(s) + Len(t)
      /\ Len(s) \in Nat /\ Len(t) \in Nat
      /\ \A i \in 1 .. Len(s) : u[i] = s[i]
      /\ \A i \in 1 .. Len(t) : u[Len(s) + i] = t[i]
  BY ConcatProperties, LenProperties
<1> HIDE DEF u
<1>2. ASSUME Sorted(u) PROVE Sorted(s) /\ Sorted(t) /\ Before(Src(s), Src(t))
  <2>1. Sorted(s)
    <3> SUFFICES ASSUME NEW i \in 1 .. Len(s), NEW j \in 1 .. Len(s), i < j,
                        NEW x \in s[i].src, NEW y \in s[j].src
                 PROVE  x < y
      BY DEF Sorted
    <3>1. i \in 1 .. Len(u) /\ j \in 1 .. Len(u) /\ u[i] = s[i] /\ u[j] = s[j]
      BY <1>1
    <3> QED BY <1>2, <3>1 DEF Sorted
  <2>2. Sorted(t)
    <3> SUFFICES ASSUME NEW i \in 1 .. Len(t), NEW j \in 1 .. Len(t), i < j,
                        NEW x \in t[i].src, NEW y \in t[j].src
                 PROVE  x < y
      BY DEF Sorted
    <3>1. /\ Len(s) + i \in 1 .. Len(u) /\ Len(s) + j \in 1 .. Len(u)
          /\ Len(s) + i < Len(s) + j
          /\ u[Len(s) + i] = t[i] /\ u[Len(s) + j] = t[j]
      BY <1>1
    <3> QED BY <1>2, <3>1 DEF Sorted
  <2>3. Before(Src(s), Src(t))
    <3> SUFFICES ASSUME NEW x \in Src(s), NEW y \in Src(t) PROVE x < y
      BY DEF Before
    <3>1. PICK i \in 1 .. Len(s) : x \in s[i].src
      BY SrcOfSeq, Zenon
    <3>2. PICK j \in 1 .. Len(t) : y \in t[j].src
      BY SrcOfSeq, Zenon
    <3>3. /\ i \in 1 .. Len(u) /\ Len(s) + j \in 1 .. Len(u) /\ i < Len(s) + j
          /\ u[i] = s[i] /\ u[Len(s) + j] = t[j]
      BY <1>1
    <3> QED BY <1>2, <3>1, <3>2, <3>3 DEF Sorted
  <2> QED BY <2>1, <2>2, <2>3
<1>3. ASSUME Sorted(s), Sorted(t), Before(Src(s), Src(t)) PROVE Sorted(u)
  <2> SUFFICES ASSUME NEW i \in 1 .. Len(u), NEW j \in 1 .. Len(u), i < j,
                      NEW x \in u[i].src, NEW y \in u[j].src
               PROVE  x < y
    BY DEF Sorted
  <2>1. CASE j <= Len(s)
    <3>1. i \in 1 .. Len(s) /\ j \in 1 .. Len(s)
      BY <1>1, <2>1
    <3>2. u[i] = s[i] /\ u[j] = s[j]
      BY <1>1, <3>1
    <3> QED BY <1>3, <3>1, <3>2 DEF Sorted
  <2>2. CASE i > Len(s)
    <3> DEFINE k == i - Len(s)
               l == j - Len(s)
    <3>1. k \in 1 .. Len(t) /\ l \in 1 .. Len(t) /\ k < l
      BY <1>1, <2>2
    <3>2. i = Len(s) + k /\ j = Len(s) + l
      BY <1>1
    <3> HIDE DEF k, l
    <3>3. u[i] = t[k] /\ u[j] = t[l]
      BY <1>1, <3>1, <3>2
    <3> QED BY <1>3, <3>1, <3>3 DEF Sorted
  <2>3. CASE i <= Len(s) /\ j > Len(s)
    <3> DEFINE l == j - Len(s)
    <3>1. i \in 1 .. Len(s) /\ l \in 1 .. Len(t) /\ j = Len(s) + l
      BY <1>1, <2>3
    <3> HIDE DEF l
    <3>2. u[i] = s[i] /\ u[j] = t[l]
      BY <1>1, <3>1
    <3>3. x \in Src(s) /\ y \in Src(t)
      BY <3>1, <3>2, SrcOfSeq, Zenon
    <3> QED BY <1>3, <3>3 DEF Before
  <2> QED BY <1>1, <2>1, <2>2, <2>3
<1> QED BY <1>2, <1>3 DEF u

LEMMA SortedFew == ASSUME NEW r PROVE Sorted(<<>>) /\ Sorted(<<r>>)
BY DEF Sorted

LEMMA HeadAndTail ==
  ASSUME NEW S, NEW s \in Seq(S), s # <<>>
  PROVE  /\ Head(s) \in S /\ Tail(s) \in Seq(S) /\ <<Head(s)>> \in Seq(S)
         /\ Head(s) = s[1] /\ s = <<Head(s)>> \o Tail(s)
         /\ Len(s) \in Nat \ {0}
<1>1. Head(s) \in S /\ Tail(s) \in Seq(S) /\ Head(s) = s[1] /\ Len(s) \in Nat \ {0}
  BY HeadTailProperties, EmptySeq
<1>2. <<Head(s)>> \in Seq(S) /\ Len(<<Head(s)>>) = 1
  BY <1>1
<1> DEFINE u == <<Head(s)>> \o Tail(s)
<1>3. /\ u \in Seq(S) /\ Len(u) = 1 + Len(Tail(s))
      /\ \A i \in 1 .. Len(u) : u[i] = IF i <= 1 THEN <<Head(s)>>[i] ELSE Tail(s)[i - 1]
  BY <1>1, <1>2, ConcatProperties
<1>4. Len(u) = Len(s) /\ \A i \in 1 .. Len(s) : u[i] = s[i]
  BY <1>1, <1>2, <1>3, HeadTailProperties
<1>5. u = s
  BY <1>3, <1>4, SeqEqual
<1> QED BY <1>1, <1>2, <1>5

\* What is taken from the front of one sequence and put at the end of another stays
\* where it is in the two together.
LEMMA Shift ==
  ASSUME NEW S, NEW s \in Seq(S), NEW t \in Seq(S), t # <<>>
  PROVE  /\ Append(s, Head(t)) \o Tail(t) = s \o t
         /\ Append(s, Head(t)) \in Seq(S)
<1>1. /\ Head(t) \in S /\ Tail(t) \in Seq(S) /\ <<Head(t)>> \in Seq(S)
      /\ t = <<Head(t)>> \o Tail(t)
  BY HeadAndTail
<1>2. Append(s, Head(t)) = s \o <<Head(t)>>
  BY <1>1, AppendIsConcat
<1>3. (s \o <<Head(t)>>) \o Tail(t) = s \o (<<Head(t)>> \o Tail(t))
  BY <1>1, ConcatAssociative
<1>4. Append(s, Head(t)) \in Seq(S)
  BY <1>1, AppendProperties
<1> QED BY <1>1, <1>2, <1>3, <1>4

\* Concatenation, of which only these facts are used.
Cat(s, t) == s \o t

LEMMA CatFacts ==
  \A S : \A s, t, u \in Seq(S) : /\ Cat(Cat(s, t), u) = Cat(s, Cat(t, u))
                                /\ Cat(s, t) \in Seq(S)
BY ConcatAssociative, ConcatProperties DEF Cat

\* A row and the sequences of rows of a file.
LEMMA RowsInFile ==
  ASSUME NEW f \in Files
  PROVE  /\ f \in Seq(LineType) /\ DOMAIN f = 1 .. Len(f) /\ Len(f) \in Nat
         /\ \A s \in Seq(ObsOf(f)) : s \in Seq(RowOf(f))
         /\ \A s \in Seq(DaysOf(f)) : s \in Seq(RowOf(f))
         /\ \A s \in Seq(RowOf(f)) : Src(s) \subseteq 1 .. Len(f)
<1>1. f \in Seq(LineType) /\ DOMAIN f = 1 .. Len(f) /\ Len(f) \in Nat
  BY PipelineAssumption, LenProperties
<1>2. \A s \in Seq(ObsOf(f)) : s \in Seq(RowOf(f))
  BY SeqMonotonic, ObsOf(f) \subseteq RowOf(f) DEF RowOf
<1>3. \A s \in Seq(DaysOf(f)) : s \in Seq(RowOf(f))
  BY SeqMonotonic, DaysOf(f) \subseteq RowOf(f) DEF RowOf
<1>4. ASSUME NEW s \in Seq(RowOf(f)), NEW x \in Src(s) PROVE x \in DOMAIN f
  <2>1. PICK i \in 1 .. Len(s) : x \in s[i].src
    BY SrcOfSeq, Zenon
  <2>2. s[i] \in RowOf(f)
    BY ElementOfSeq
  <2> QED BY <2>1, <2>2 DEF RowOf, ObsOf, DaysOf, Stands
<1> QED BY <1>1, <1>2, <1>3, <1>4

\* Rows are replaced in the middle by rows of some of the same lines.
LEMMA Replaced ==
  ASSUME NEW f \in Files, NEW pre \in Seq(RowOf(f)), NEW mid \in Seq(RowOf(f)),
         NEW new \in Seq(RowOf(f)), NEW post \in Seq(RowOf(f)),
         Sorted(pre \o mid \o post), Sorted(mid) => Sorted(new), Src(new) \subseteq Src(mid)
  PROVE  /\ Sorted(mid) /\ Sorted(pre \o new \o post)
         /\ Src(pre \o mid \o post) = Src(pre) \cup Src(mid) \cup Src(post)
         /\ Src(pre \o new \o post) = Src(pre) \cup Src(new) \cup Src(post)
         /\ Src(mid) \cap (Src(pre) \cup Src(post)) = {}
<1> DEFINE head == pre \o mid
           newHead == pre \o new
<1>1. /\ head \in Seq(RowOf(f)) /\ newHead \in Seq(RowOf(f))
      /\ Src(head) = Src(pre) \cup Src(mid)
      /\ Src(newHead) = Src(pre) \cup Src(new)
      /\ Sorted(head \o post)
  BY SrcOfConcat
<1>a. /\ Sorted(head) <=> Sorted(pre) /\ Sorted(mid) /\ Before(Src(pre), Src(mid))
      /\ Sorted(newHead) <=> Sorted(pre) /\ Sorted(new) /\ Before(Src(pre), Src(new))
  BY SortedConcat
<1> HIDE DEF head, newHead
<1>2. /\ Src(head \o post) = Src(pre) \cup Src(mid) \cup Src(post)
      /\ Src(newHead \o post) = Src(pre) \cup Src(new) \cup Src(post)
  BY <1>1, SrcOfConcat
<1>b. /\ Sorted(head \o post) <=> Sorted(head) /\ Sorted(post) /\ Before(Src(head), Src(post))
      /\ Sorted(newHead \o post) <=>
           Sorted(newHead) /\ Sorted(post) /\ Before(Src(newHead), Src(post))
  BY <1>1, SortedConcat
<1>3. /\ Sorted(pre) /\ Sorted(mid) /\ Sorted(post)
      /\ Before(Src(pre), Src(mid)) /\ Before(Src(pre) \cup Src(mid), Src(post))
  BY <1>1, <1>a, <1>b
<1>4. /\ Before(Src(pre), Src(new)) /\ Before(Src(pre) \cup Src(new), Src(post))
  BY <1>3 DEF Before
<1>6. Sorted(newHead \o post)
  BY <1>1, <1>3, <1>4, <1>a, <1>b
<1>7. /\ Src(mid) \subseteq Nat /\ Src(pre) \subseteq Nat /\ Src(post) \subseteq Nat
  BY RowsInFile
<1>8. Src(mid) \cap (Src(pre) \cup Src(post)) = {}
  BY <1>3, <1>7 DEF Before
<1> QED BY <1>2, <1>3, <1>6, <1>8 DEF head, newHead

\* The cells of a row belong to a line it stands for.
LEMMA CellsOfConcat ==
  ASSUME NEW S, NEW s \in Seq(S), NEW t \in Seq(S)
  PROVE  /\ CellsOfAll(s \o t) = CellsOfAll(s) \cup CellsOfAll(t)
         /\ DayCellsOfAll(s \o t) = DayCellsOfAll(s) \cup DayCellsOfAll(t)
<1>1. ToSet(s \o t) = ToSet(s) \cup ToSet(t)
  BY SrcOfConcat
<1> QED BY <1>1 DEF CellsOfAll, DayCellsOfAll

LEMMA CellsOfFew ==
  ASSUME NEW r
  PROVE  /\ CellsOfAll(<<>>) = {} /\ CellsOfAll(<<r>>) = CellsOf(r)
         /\ DayCellsOfAll(<<>>) = {} /\ DayCellsOfAll(<<r>>) = DayCells(r)
<1>1. ToSet(<<>>) = {} /\ ToSet(<<r>>) = {r}
  BY SrcOfFew
<1>2. CellsOfAll(<<>>) = {} /\ CellsOfAll(<<r>>) = CellsOf(r)
  BY <1>1 DEF CellsOfAll
<1>3. DayCellsOfAll(<<>>) = {} /\ DayCellsOfAll(<<r>>) = DayCells(r)
  BY <1>1 DEF DayCellsOfAll
<1> QED BY <1>2, <1>3

CellsIn(cells, lines) == \A c \in cells : c[1] \in lines

LEMMA CellsOfSrc ==
  ASSUME NEW f \in Files
  PROVE  /\ \A s \in Seq(ObsOf(f)) : CellsIn(CellsOfAll(s), Src(s))
         /\ \A s \in Seq(DaysOf(f)) : CellsIn(DayCellsOfAll(s), Src(s))
<1>1. ASSUME NEW s \in Seq(ObsOf(f)), NEW c \in CellsOfAll(s) PROVE c[1] \in Src(s)
  <2>1. PICK o \in ToSet(s) : c \in CellsOf(o)
    BY DEF CellsOfAll
  <2>2. c[1] = o.id
    BY <2>1 DEF CellsOf, KeyOf, StampOf, QuoteOf, SpreadOf, Cell
  <2>3. o \in ObsOf(f)
    BY ElementOfSeq DEF ToSet
  <2>4. o.id \in o.src
    BY <2>3 DEF ObsOf, Stands
  <2> QED BY <2>2, <2>4 DEF Src
<1>2. ASSUME NEW s \in Seq(DaysOf(f)), NEW c \in DayCellsOfAll(s) PROVE c[1] \in Src(s)
  <2>1. PICK d \in ToSet(s) : c \in DayCells(d)
    BY DEF DayCellsOfAll
  <2>2. c[1] = d.id
    BY <2>1 DEF DayCells, KeyOf, Cell
  <2>3. d \in DaysOf(f)
    BY ElementOfSeq DEF ToSet
  <2>4. d.id \in d.src
    BY <2>3 DEF DaysOf, Stands
  <2> QED BY <2>2, <2>4 DEF Src
<1> QED BY <1>1, <1>2 DEF CellsIn

-----------------------------------------------------------------------------
(* What a thread does to the rows between its two queues. *)

\* The rows of the queue ahead of a stage, of the stage and of the queue behind it.
Between(out, outbox, buffer, hand, in) == out \o (outbox \o buffer \o hand) \o in

LEMMA BetweenEmit ==
  ASSUME NEW S, NEW out \in Seq(S), NEW outbox \in Seq(S), NEW buffer \in Seq(S),
         NEW hand \in Seq(S), NEW in \in Seq(S), outbox # <<>>
  PROVE  Between(Append(out, Head(outbox)), Tail(outbox), buffer, hand, in)
           = Between(out, outbox, buffer, hand, in)
<1> DEFINE a == Append(out, Head(outbox))
           t == Tail(outbox)
<1>1. Cat(a, t) = Cat(out, outbox) /\ a \in Seq(S) /\ t \in Seq(S)
  BY Shift, HeadAndTail DEF Cat
<1> HIDE DEF a, t
<1>2. Cat(a, Cat(Cat(t, buffer), hand)) = Cat(Cat(Cat(a, t), buffer), hand)
  BY <1>1, CatFacts
<1>3. Cat(out, Cat(Cat(outbox, buffer), hand)) = Cat(Cat(Cat(out, outbox), buffer), hand)
  BY CatFacts
<1>4. Cat(Cat(a, Cat(Cat(t, buffer), hand)), in)
        = Cat(Cat(out, Cat(Cat(outbox, buffer), hand)), in)
  BY <1>1, <1>2, <1>3
<1> QED BY <1>4 DEF Cat, Between, a, t

\* The front row of the queue behind is taken, at hand or into the buffer.
Taking(out, outbox, buffer, in) ==
  /\ Between(out, outbox, buffer, <<Head(in)>>, Tail(in))
       = Between(out, outbox, buffer, <<>>, in)
  /\ Between(out, outbox, Append(buffer, Head(in)), <<>>, Tail(in))
       = Between(out, outbox, buffer, <<>>, in)

LEMMA BetweenTake ==
  ASSUME NEW S, NEW out \in Seq(S), NEW outbox \in Seq(S), NEW buffer \in Seq(S),
         NEW in \in Seq(S), in # <<>>
  PROVE  Taking(out, outbox, buffer, in)
<1> DEFINE h == <<Head(in)>>
           t == Tail(in)
           r == Cat(outbox, buffer)
           more == Append(buffer, Head(in))
<1>1. h \in Seq(S) /\ t \in Seq(S) /\ in = Cat(h, t) /\ Head(in) \in S
  BY HeadAndTail DEF Cat
<1>2. more = Cat(buffer, h)
  BY <1>1, AppendIsConcat DEF Cat
<1>3. r \in Seq(S)
  BY CatFacts
<1> HIDE DEF h, t, more
<1>4. Cat(outbox, more) = Cat(r, h) /\ Cat(r, h) \in Seq(S)
  <2>1. Cat(outbox, Cat(buffer, h)) = Cat(Cat(outbox, buffer), h)
    BY <1>1, CatFacts
  <2> HIDE DEF r
  <2>2. Cat(r, h) \in Seq(S)
    BY <1>1, <1>3, CatFacts
  <2> QED BY <1>2, <2>1, <2>2 DEF r
<1> HIDE DEF r
<1>5. Cat(r, <<>>) = r /\ Cat(Cat(r, h), <<>>) = Cat(r, h)
  BY <1>3, <1>4, ConcatEmptySeq DEF Cat
<1>6. Cat(Cat(out, Cat(r, h)), t) = Cat(Cat(out, r), in)
  BY <1>1, <1>3, CatFacts
<1>7. /\ Cat(Cat(out, Cat(r, h)), t) = Cat(Cat(out, Cat(r, <<>>)), in)
      /\ Cat(Cat(out, Cat(Cat(outbox, more), <<>>)), t) = Cat(Cat(out, Cat(r, <<>>)), in)
  BY <1>4, <1>5, <1>6
<1> QED BY <1>7 DEF Taking, Cat, Between, h, t, r, more

LEMMA ReverseProperties ==
  ASSUME NEW S, NEW s \in Seq(S)
  PROVE  /\ Reverse(s) \in Seq(S) /\ Len(Reverse(s)) = Len(s)
         /\ ToSet(Reverse(s)) = ToSet(s)
         /\ \A e \in S : Reverse(<<e>> \o s) = Append(Reverse(s), e)
<1>1. /\ Reverse(s) \in Seq(S) /\ Len(Reverse(s)) = Len(s) /\ Len(s) \in Nat
      /\ \A i \in 1 .. Len(s) : Reverse(s)[i] = s[Len(s) - i + 1]
  BY DEF Reverse
<1>2. ToSet(Reverse(s)) = ToSet(s)
  <2>1. ASSUME NEW i \in 1 .. Len(s)
        PROVE  /\ Len(s) - i + 1 \in 1 .. Len(s)
               /\ s[i] = Reverse(s)[Len(s) - i + 1]
    <3>1. Len(s) - i + 1 \in 1 .. Len(s) /\ Len(s) - (Len(s) - i + 1) + 1 = i
      BY <1>1
    <3> QED BY <1>1, <3>1
  <2>2. ToSet(Reverse(s)) = {Reverse(s)[i] : i \in 1 .. Len(s)}
    BY <1>1 DEF ToSet
  <2>3. ToSet(s) = {s[i] : i \in 1 .. Len(s)}
    BY DEF ToSet
  <2> QED BY <1>1, <2>1, <2>2, <2>3, Zenon
<1>3. ASSUME NEW e \in S PROVE Reverse(<<e>> \o s) = Append(Reverse(s), e)
  <2> DEFINE u == <<e>> \o s
             v == Append(Reverse(s), e)
  <2>1. /\ u \in Seq(S) /\ Len(u) = Len(s) + 1
        /\ \A i \in 1 .. Len(s) + 1 : u[i] = IF i <= 1 THEN e ELSE s[i - 1]
    BY <1>1, ConcatProperties, <<e>> \in Seq(S), Len(<<e>>) = 1
  <2>2. /\ v \in Seq(S) /\ Len(v) = Len(s) + 1
        /\ \A i \in 1 .. Len(s) : v[i] = s[Len(s) - i + 1]
        /\ v[Len(s) + 1] = e
    BY <1>1, AppendProperties
  <2> HIDE DEF u, v
  <2>3. /\ Reverse(u) \in Seq(S) /\ Len(Reverse(u)) = Len(s) + 1
        /\ \A i \in 1 .. Len(s) + 1 : Reverse(u)[i] = u[Len(s) + 1 - i + 1]
    BY <1>1, <2>1 DEF Reverse
  <2>4. ASSUME NEW i \in 1 .. Len(s) + 1 PROVE Reverse(u)[i] = v[i]
    <3>1. CASE i = Len(s) + 1
      BY <1>1, <2>1, <2>2, <2>3, <3>1
    <3>2. CASE i <= Len(s)
      <4> DEFINE k == Len(s) + 1 - i + 1
      <4>1. k \in 1 .. Len(s) + 1 /\ k > 1 /\ k - 1 = Len(s) - i + 1 /\ i \in 1 .. Len(s)
        BY <1>1, <3>2
      <4>2. Reverse(u)[i] = u[k]
        BY <2>3
      <4> HIDE DEF k
      <4>3. u[k] = s[k - 1]
        BY <2>1, <4>1
      <4> QED BY <2>2, <4>1, <4>2, <4>3
    <3> QED BY <1>1, <3>1, <3>2
  <2>5. Reverse(u) = v
    BY <2>2, <2>3, <2>4, SeqEqual
  <2> QED BY <2>5 DEF u, v
<1> QED BY <1>1, <1>2, <1>3

\* The rows mid become the rows new: the lines gone are deleted, some cells are read,
\* some deleted and some are new.
Moves(f, mid, new, gone, reads, deletes, news) ==
  /\ new \in Seq(ObsOf(f))
  /\ Sorted(mid) =>
       /\ Sorted(new)
       /\ Src(new) \cup gone = Src(mid) /\ Src(new) \cap gone = {}
       /\ reads \cup deletes \subseteq CellsOfAll(mid)
       /\ CellsOfAll(new) = (CellsOfAll(mid) \ deletes) \cup news

LEMMA StayingMoves ==
  ASSUME NEW f, NEW mid \in Seq(ObsOf(f)), NEW reads, reads \subseteq CellsOfAll(mid)
  PROVE  Moves(f, mid, mid, {}, reads, {}, {})
BY DEF Moves

\* Then the rows are in order, every line is accounted for, and the heap has the cells
\* of the rows.
SafeMove(pre, mid, new, post, gone, reads, deletes, news, others) ==
  /\ Sorted(pre \o new \o post)
  /\ Src(pre \o new \o post) \cup gone = Src(pre \o mid \o post)
  /\ Src(pre \o new \o post) \cap gone = {}
  /\ ((others \cup CellsOfAll(mid)) \ deletes) \cup news = others \cup CellsOfAll(new)
  /\ reads \cup deletes \subseteq others \cup CellsOfAll(mid)

LEMMA MovesAreSafe ==
  ASSUME NEW f \in Files, NEW pre \in Seq(RowOf(f)), NEW mid \in Seq(ObsOf(f)),
         NEW new, NEW post \in Seq(RowOf(f)),
         NEW gone, NEW reads, NEW deletes, NEW news,
         Moves(f, mid, new, gone, reads, deletes, news),
         Sorted(pre \o mid \o post),
         NEW others, CellsIn(others, Src(pre) \cup Src(post))
  PROVE  SafeMove(pre, mid, new, post, gone, reads, deletes, news, others)
<1>1. mid \in Seq(RowOf(f)) /\ new \in Seq(RowOf(f)) /\ new \in Seq(ObsOf(f))
  BY RowsInFile DEF Moves
<1>2. Sorted(mid)
  BY <1>1, Replaced
<1>3. /\ Sorted(new)
      /\ Src(new) \cup gone = Src(mid) /\ Src(new) \cap gone = {}
      /\ reads \cup deletes \subseteq CellsOfAll(mid)
      /\ CellsOfAll(new) = (CellsOfAll(mid) \ deletes) \cup news
  BY <1>2 DEF Moves
<1>4. /\ Sorted(pre \o new \o post)
      /\ Src(pre \o mid \o post) = Src(pre) \cup Src(mid) \cup Src(post)
      /\ Src(pre \o new \o post) = Src(pre) \cup Src(new) \cup Src(post)
      /\ Src(mid) \cap (Src(pre) \cup Src(post)) = {}
  BY <1>1, <1>3, Replaced, Src(new) \subseteq Src(mid)
<1>5. others \cap deletes = {}
  <2>1. CellsIn(CellsOfAll(mid), Src(mid))
    BY CellsOfSrc
  <2> QED BY <1>3, <1>4, <2>1 DEF CellsIn
<1> QED BY <1>3, <1>4, <1>5 DEF SafeMove

-----------------------------------------------------------------------------
(* The rows of the pipeline seen from each thread: what is ahead of it, what it can *)
(* move, what is behind it.                                                          *)

Regroups3(S, x, a, b, c) ==
  /\ Cat(Cat(Cat(x, a), b), c) = Cat(x, Cat(Cat(a, b), c))
  /\ Cat(Cat(Cat(x, a), b), c) \in Seq(S) /\ Cat(Cat(a, b), c) \in Seq(S)

LEMMA Regroup3 == \A S : \A x, a, b, c \in Seq(S) : Regroups3(S, x, a, b, c)
<1> SUFFICES ASSUME NEW S, NEW x \in Seq(S), NEW a \in Seq(S), NEW b \in Seq(S), NEW c \in Seq(S)
             PROVE  Regroups3(S, x, a, b, c)
  OBVIOUS
<1> QED BY CatFacts DEF Regroups3

Regroups5(S, x, a, b, c, d, e) ==
  /\ Cat(Cat(Cat(Cat(Cat(x, a), b), c), d), e) = Cat(x, Cat(Cat(Cat(Cat(a, b), c), d), e))
  /\ Cat(Cat(Cat(Cat(Cat(x, a), b), c), d), e) \in Seq(S)
  /\ Cat(Cat(Cat(Cat(a, b), c), d), e) \in Seq(S)

LEMMA Regroup5 == \A S : \A x, a, b, c, d, e \in Seq(S) : Regroups5(S, x, a, b, c, d, e)
<1> SUFFICES ASSUME NEW S, NEW x, NEW a, NEW b, NEW c, NEW d, NEW e,
                    /\ x \in Seq(S) /\ a \in Seq(S) /\ b \in Seq(S)
                    /\ c \in Seq(S) /\ d \in Seq(S) /\ e \in Seq(S)
             PROVE  Regroups5(S, x, a, b, c, d, e)
  OBVIOUS
<1> DEFINE abc == Cat(Cat(a, b), c)
<1>1. Regroups3(S, x, a, b, c)
  BY Regroup3
<1>2. abc \in Seq(S)
  BY <1>1 DEF Regroups3
<1> HIDE DEF abc
<1>3. Regroups3(S, x, abc, d, e)
  BY <1>2, Regroup3
<1> QED BY <1>1, <1>3 DEF Regroups3, Regroups5, abc

\* The rows of all the threads and queues, and the same grouped for each of the stages.
AllOf(p, q5, s4, q4, s3, q3, s2, q2, s1, q1, s0) ==
  p \o q5 \o s4 \o q4 \o s3 \o q3 \o s2 \o q2 \o s1 \o q1 \o s0

Grouped(S, p, q5, s4, q4, s3, q3, s2, q2, s1, q1, s0) ==
  LET all == AllOf(p, q5, s4, q4, s3, q3, s2, q2, s1, q1, s0)
      ahead2 == p \o q5 \o s4
      ahead1 == ahead2 \o q4 \o s3
      ahead0 == ahead1 \o q3 \o s2
      behind1 == s1 \o q1 \o s0
      behind2 == s2 \o q2 \o s1 \o q1 \o s0
      behind3 == s3 \o q3 \o behind2
  IN /\ all \in Seq(S)
     /\ all = ahead0 \o (q2 \o s1 \o q1) \o s0
     /\ all = ahead1 \o (q3 \o s2 \o q2) \o behind1
     /\ all = ahead2 \o (q4 \o s3 \o q3) \o behind2
     /\ all = p \o (q5 \o s4 \o q4) \o behind3
     /\ ahead0 \in Seq(S) /\ ahead1 \in Seq(S) /\ ahead2 \in Seq(S)
     /\ behind1 \in Seq(S) /\ behind2 \in Seq(S) /\ behind3 \in Seq(S)

LEMMA Cuts ==
  ASSUME NEW S, NEW p, NEW q5, NEW s4, NEW q4, NEW s3, NEW q3, NEW s2, NEW q2, NEW s1,
         NEW q1, NEW s0,
         /\ p \in Seq(S) /\ q5 \in Seq(S) /\ s4 \in Seq(S) /\ q4 \in Seq(S)
         /\ s3 \in Seq(S) /\ q3 \in Seq(S) /\ s2 \in Seq(S) /\ q2 \in Seq(S)
         /\ s1 \in Seq(S) /\ q1 \in Seq(S) /\ s0 \in Seq(S)
  PROVE  Grouped(S, p, q5, s4, q4, s3, q3, s2, q2, s1, q1, s0)
<1> DEFINE ahead2 == Cat(Cat(p, q5), s4)
           ahead1 == Cat(Cat(ahead2, q4), s3)
           ahead0 == Cat(Cat(ahead1, q3), s2)
           behind2 == Cat(Cat(Cat(Cat(s2, q2), s1), q1), s0)
           upTo4 == Cat(ahead2, q4)
           upTo3 == Cat(ahead1, q3)
           upTo2 == Cat(ahead0, q2)
<1>1. Regroups3(S, p, q5, s4, q4) /\ upTo4 \in Seq(S)
  BY Regroup3 DEF Regroups3
<1>2. Regroups3(S, p, p, q5, s4) /\ ahead2 \in Seq(S)
  BY Regroup3 DEF Regroups3
<1> HIDE DEF ahead2
<1>3. Regroups3(S, ahead2, q4, s3, q3) /\ upTo3 \in Seq(S)
  <2>1. Regroups3(S, ahead2, q4, s3, q3)
    BY <1>2, Regroup3
  <2> QED BY <2>1 DEF Regroups3
<1>4. ahead1 \in Seq(S)
  <2>1. Regroups3(S, ahead2, ahead2, q4, s3)
    BY <1>2, Regroup3
  <2> QED BY <2>1 DEF Regroups3
<1> HIDE DEF ahead1
<1>5. Regroups3(S, ahead1, q3, s2, q2) /\ upTo2 \in Seq(S)
  <2>1. Regroups3(S, ahead1, q3, s2, q2)
    BY <1>4, Regroup3
  <2> QED BY <2>1 DEF Regroups3
<1>6. ahead0 \in Seq(S)
  <2>1. Regroups3(S, ahead1, ahead1, q3, s2)
    BY <1>4, Regroup3
  <2> QED BY <2>1 DEF Regroups3
<1> HIDE DEF ahead0
<1>7. Regroups3(S, ahead0, q2, s1, q1)
  BY <1>6, Regroup3
<1> HIDE DEF upTo2, upTo3, upTo4
<1>8. Regroups3(S, upTo2, s1, q1, s0)
  BY <1>5, Regroup3
<1>9. Regroups5(S, upTo3, s2, q2, s1, q1, s0)
  BY <1>3, Regroup5
<1>10. behind2 \in Seq(S)
  BY <1>9 DEF Regroups5
<1> HIDE DEF behind2
<1>11. Regroups3(S, upTo4, s3, q3, behind2)
  BY <1>1, <1>10, Regroup3
<1> USE DEF Cat
<1>12. AllOf(p, q5, s4, q4, s3, q3, s2, q2, s1, q1, s0) = ahead0 \o (q2 \o s1 \o q1) \o s0
  BY <1>7 DEF AllOf, Regroups3, ahead0, ahead1, ahead2
<1>13. AllOf(p, q5, s4, q4, s3, q3, s2, q2, s1, q1, s0)
         = ahead1 \o (q3 \o s2 \o q2) \o (s1 \o q1 \o s0)
  BY <1>5, <1>8 DEF AllOf, Regroups3, ahead0, ahead1, ahead2, upTo2
<1>14. AllOf(p, q5, s4, q4, s3, q3, s2, q2, s1, q1, s0)
         = ahead2 \o (q4 \o s3 \o q3) \o behind2
  BY <1>3, <1>9 DEF AllOf, Regroups3, Regroups5, ahead1, ahead2, upTo3, behind2
<1>15. AllOf(p, q5, s4, q4, s3, q3, s2, q2, s1, q1, s0)
         = p \o (q5 \o s4 \o q4) \o (s3 \o q3 \o behind2)
  BY <1>1, <1>9, <1>11 DEF AllOf, Regroups3, Regroups5, upTo3, upTo4, behind2, ahead1, ahead2
<1>16. /\ AllOf(p, q5, s4, q4, s3, q3, s2, q2, s1, q1, s0) \in Seq(S)
       /\ s1 \o q1 \o s0 \in Seq(S)
  BY <1>8 DEF AllOf, Regroups3, upTo2, ahead0, ahead1, ahead2
<1>17. s3 \o q3 \o behind2 \in Seq(S)
  BY <1>11 DEF Regroups3
<1> QED BY <1>2, <1>4, <1>6, <1>10, <1>12, <1>13, <1>14, <1>15, <1>16, <1>17
        DEF Grouped, ahead0, ahead1, ahead2, behind2

Ahead2 == written \o dayRelSpreadQueue.items \o RowsOf(daySpread, DayBuffer)
Ahead1 == Ahead2 \o relSpreadQueue.items \o RowsOf(relSpread, <<>>)
Ahead0 == Ahead1 \o outliersFilteredQueue.items \o RowsOf(outliers, outliers.buffer)
Behind1 == RowsOf(merge, Reverse(merge.buffer)) \o parsedQueue.items \o parser.outbox
Behind2 == RowsOf(outliers, outliers.buffer) \o timestampMergedQueue.items
           \o RowsOf(merge, Reverse(merge.buffer)) \o parsedQueue.items \o parser.outbox
Behind3 == RowsOf(relSpread, <<>>) \o outliersFilteredQueue.items \o Behind2

MergeRows == Between(timestampMergedQueue.items, merge.outbox, Reverse(merge.buffer),
                     merge.hand, parsedQueue.items)
OutliersRows == Between(outliersFilteredQueue.items, outliers.outbox, outliers.buffer,
                        outliers.hand, timestampMergedQueue.items)
RelSpreadRows == Between(relSpreadQueue.items, relSpread.outbox, <<>>, relSpread.hand,
                         outliersFilteredQueue.items)
DaySpreadRows == Between(dayRelSpreadQueue.items, daySpread.outbox, DayBuffer,
                         daySpread.hand, relSpreadQueue.items)

\* The parts of Rows are sequences of rows; upstream of daySpread, of observations.
Parts ==
  /\ written \in Seq(RowOf(file)) /\ dayRelSpreadQueue.items \in Seq(RowOf(file))
  /\ RowsOf(daySpread, DayBuffer) \in Seq(RowOf(file))
  /\ relSpreadQueue.items \in Seq(ObsOf(file))
  /\ RowsOf(relSpread, <<>>) \in Seq(ObsOf(file))
  /\ outliersFilteredQueue.items \in Seq(ObsOf(file))
  /\ RowsOf(outliers, outliers.buffer) \in Seq(ObsOf(file))
  /\ timestampMergedQueue.items \in Seq(ObsOf(file))
  /\ RowsOf(merge, Reverse(merge.buffer)) \in Seq(ObsOf(file))
  /\ parsedQueue.items \in Seq(ObsOf(file))
  /\ parser.outbox \in Seq(ObsOf(file))
  /\ MergeRows \in Seq(ObsOf(file)) /\ OutliersRows \in Seq(ObsOf(file))
  /\ RelSpreadRows \in Seq(ObsOf(file))

CutRows ==
  /\ Rows \in Seq(RowOf(file))
  /\ Rows = Ahead0 \o MergeRows \o parser.outbox
  /\ Rows = Ahead1 \o OutliersRows \o Behind1
  /\ Rows = Ahead2 \o RelSpreadRows \o Behind2
  /\ Rows = written \o DaySpreadRows \o Behind3
  /\ Ahead0 \in Seq(RowOf(file)) /\ Ahead1 \in Seq(RowOf(file))
  /\ Ahead2 \in Seq(RowOf(file))
  /\ Behind1 \in Seq(RowOf(file)) /\ Behind2 \in Seq(RowOf(file))
  /\ Behind3 \in Seq(RowOf(file))

LEMMA StageRows ==
  ASSUME NEW S, NEW outbox \in Seq(S), NEW buffer \in Seq(S), NEW hand \in Seq(S)
  PROVE  /\ outbox \o buffer \o hand \in Seq(S)
         /\ \A out, in \in Seq(S) : Between(out, outbox, buffer, hand, in) \in Seq(S)
<1> DEFINE u == Cat(Cat(outbox, buffer), hand)
<1>1. u \in Seq(S)
  BY CatFacts
<1> HIDE DEF u
<1>2. ASSUME NEW out \in Seq(S), NEW in \in Seq(S) PROVE Cat(Cat(out, u), in) \in Seq(S)
  BY <1>1, CatFacts
<1> QED BY <1>1, <1>2 DEF u, Cat, Between

LEMMA PartsOf == Types => Parts
<1> SUFFICES ASSUME Types PROVE Parts
  OBVIOUS
<1> DEFINE O == ObsOf(file)
           R == RowOf(file)
<1>1. file \in Files
  BY DEF Types
<1>2. /\ \A s \in Seq(O) : s \in Seq(R)
      /\ \A s \in Seq(DaysOf(file)) : s \in Seq(R)
      /\ <<>> \in Seq(O)
  BY <1>1, RowsInFile
<1>3. /\ written \in Seq(DaysOf(file)) /\ dayRelSpreadQueue.items \in Seq(DaysOf(file))
      /\ relSpreadQueue.items \in Seq(O) /\ outliersFilteredQueue.items \in Seq(O)
      /\ timestampMergedQueue.items \in Seq(O) /\ parsedQueue.items \in Seq(O)
  BY DEF Types, QueueOf
<1>4. /\ daySpread.outbox \in Seq(DaysOf(file))
      /\ daySpread.buffer \in Seq(O) /\ daySpread.hand \in Seq(O)
      /\ relSpread.outbox \in Seq(O) /\ relSpread.hand \in Seq(O)
      /\ outliers.outbox \in Seq(O) /\ outliers.buffer \in Seq(O) /\ outliers.hand \in Seq(O)
      /\ merge.outbox \in Seq(O) /\ merge.buffer \in Seq(O) /\ merge.hand \in Seq(O)
      /\ parser.outbox \in Seq(O)
  BY DEF Types, StageOf
<1> HIDE DEF O, R
<1>5. Reverse(merge.buffer) \in Seq(O)
  BY <1>4, ReverseProperties
<1>6. RowsOf(daySpread, DayBuffer) \in Seq(R)
  <2>1. /\ daySpread.outbox \in Seq(R) /\ DayBuffer \in Seq(R) /\ daySpread.hand \in Seq(R)
    BY <1>2, <1>4 DEF DayBuffer
  <2> QED BY <2>1, StageRows DEF RowsOf
<1>7. RowsOf(relSpread, <<>>) \in Seq(O) /\ RelSpreadRows \in Seq(O)
  BY <1>2, <1>3, <1>4, StageRows DEF RowsOf, RelSpreadRows
<1>8. RowsOf(outliers, outliers.buffer) \in Seq(O) /\ OutliersRows \in Seq(O)
  BY <1>3, <1>4, StageRows DEF RowsOf, OutliersRows
<1>9. RowsOf(merge, Reverse(merge.buffer)) \in Seq(O) /\ MergeRows \in Seq(O)
  BY <1>3, <1>4, <1>5, StageRows DEF RowsOf, MergeRows
<1> QED BY <1>2, <1>3, <1>4, <1>6, <1>7, <1>8, <1>9 DEF Parts, O, R

\* Rows, cut at each stage.
LEMMA RowsCut == Types => CutRows
<1> SUFFICES ASSUME Types PROVE CutRows
  OBVIOUS
<1> DEFINE R == RowOf(file)
           q5 == dayRelSpreadQueue.items
           s4 == RowsOf(daySpread, DayBuffer)
           q4 == relSpreadQueue.items
           s3 == RowsOf(relSpread, <<>>)
           q3 == outliersFilteredQueue.items
           s2 == RowsOf(outliers, outliers.buffer)
           q2 == timestampMergedQueue.items
           s1 == RowsOf(merge, Reverse(merge.buffer))
           q1 == parsedQueue.items
           s0 == parser.outbox
<1>1. /\ written \in Seq(R) /\ q5 \in Seq(R) /\ s4 \in Seq(R) /\ q4 \in Seq(R)
      /\ s3 \in Seq(R) /\ q3 \in Seq(R) /\ s2 \in Seq(R) /\ q2 \in Seq(R)
      /\ s1 \in Seq(R) /\ q1 \in Seq(R) /\ s0 \in Seq(R)
  <2>1. file \in Files
    BY DEF Types
  <2>2. \A s \in Seq(ObsOf(file)) : s \in Seq(RowOf(file))
    BY <2>1, RowsInFile
  <2> QED BY <2>2, PartsOf DEF Parts
<1>2. Rows = AllOf(written, q5, s4, q4, s3, q3, s2, q2, s1, q1, s0)
  BY DEF Rows, AllOf
<1>3. /\ MergeRows = q2 \o s1 \o q1 /\ OutliersRows = q3 \o s2 \o q2
      /\ RelSpreadRows = q4 \o s3 \o q3 /\ DaySpreadRows = q5 \o s4 \o q4
  BY DEF MergeRows, OutliersRows, RelSpreadRows, DaySpreadRows, Between, RowsOf
<1>4. /\ Ahead2 = written \o q5 \o s4 /\ Ahead1 = Ahead2 \o q4 \o s3
      /\ Ahead0 = Ahead1 \o q3 \o s2 /\ Behind1 = s1 \o q1 \o s0
      /\ Behind2 = s2 \o q2 \o s1 \o q1 \o s0 /\ Behind3 = s3 \o q3 \o Behind2
  BY DEF Ahead0, Ahead1, Ahead2, Behind1, Behind2, Behind3
<1> HIDE DEF R, q5, s4, q4, s3, q3, s2, q2, s1, q1, s0
<1>5. Grouped(R, written, q5, s4, q4, s3, q3, s2, q2, s1, q1, s0)
  BY <1>1, Cuts
<1>6. /\ Rows \in Seq(R)
      /\ Rows = Ahead0 \o MergeRows \o s0
      /\ Rows = Ahead1 \o OutliersRows \o Behind1
      /\ Rows = Ahead2 \o RelSpreadRows \o Behind2
      /\ Rows = written \o DaySpreadRows \o Behind3
      /\ Ahead0 \in Seq(R) /\ Ahead1 \in Seq(R) /\ Ahead2 \in Seq(R)
      /\ Behind1 \in Seq(R) /\ Behind2 \in Seq(R) /\ Behind3 \in Seq(R)
  BY <1>2, <1>3, <1>4, <1>5 DEF Grouped
<1> QED BY <1>6 DEF CutRows, R, s0

\* The cells of a stage between two queues are those of its parts.
LEMMA CellsBetween ==
  ASSUME NEW S, NEW out \in Seq(S), NEW rows \in Seq(S), NEW in \in Seq(S)
  PROVE  /\ CellsOfAll(out \o rows \o in)
               = CellsOfAll(out) \cup CellsOfAll(rows) \cup CellsOfAll(in)
         /\ Src(out \o rows \o in) = Src(out) \cup Src(rows) \cup Src(in)
<1> DEFINE u == out \o rows
<1>1. /\ u \in Seq(S) /\ CellsOfAll(u) = CellsOfAll(out) \cup CellsOfAll(rows)
      /\ Src(u) = Src(out) \cup Src(rows)
  BY CellsOfConcat, SrcOfConcat
<1> HIDE DEF u
<1>2. /\ CellsOfAll(u \o in) = CellsOfAll(u) \cup CellsOfAll(in)
      /\ Src(u \o in) = Src(u) \cup Src(in)
  BY <1>1, CellsOfConcat, SrcOfConcat
<1> QED BY <1>1, <1>2 DEF u

\* The lines ahead of and behind a stage.
LEMMA SrcAround ==
  ASSUME Types
  PROVE  /\ Src(Ahead2) = Src(written) \cup Src(dayRelSpreadQueue.items)
                          \cup Src(RowsOf(daySpread, DayBuffer))
         /\ Src(Ahead1) = Src(Ahead2) \cup Src(relSpreadQueue.items)
                          \cup Src(RowsOf(relSpread, <<>>))
         /\ Src(Ahead0) = Src(Ahead1) \cup Src(outliersFilteredQueue.items)
                          \cup Src(RowsOf(outliers, outliers.buffer))
         /\ Src(Behind1) = Src(RowsOf(merge, Reverse(merge.buffer)))
                           \cup Src(parsedQueue.items) \cup Src(parser.outbox)
         /\ Src(Behind2) = Src(RowsOf(outliers, outliers.buffer))
                           \cup Src(timestampMergedQueue.items) \cup Src(Behind1)
<1> DEFINE R == RowOf(file)
           q5 == dayRelSpreadQueue.items
           s4 == RowsOf(daySpread, DayBuffer)
           q4 == relSpreadQueue.items
           s3 == RowsOf(relSpread, <<>>)
           q3 == outliersFilteredQueue.items
           s2 == RowsOf(outliers, outliers.buffer)
           q2 == timestampMergedQueue.items
           s1 == RowsOf(merge, Reverse(merge.buffer))
           q1 == parsedQueue.items
           s0 == parser.outbox
<1>1. /\ written \in Seq(R) /\ q5 \in Seq(R) /\ s4 \in Seq(R) /\ q4 \in Seq(R)
      /\ s3 \in Seq(R) /\ q3 \in Seq(R) /\ s2 \in Seq(R) /\ q2 \in Seq(R)
      /\ s1 \in Seq(R) /\ q1 \in Seq(R) /\ s0 \in Seq(R)
  <2>1. file \in Files
    BY DEF Types
  <2>2. \A s \in Seq(ObsOf(file)) : s \in Seq(RowOf(file))
    BY <2>1, RowsInFile
  <2> QED BY <2>2, PartsOf DEF Parts
<1>2. Ahead1 \in Seq(R) /\ Ahead2 \in Seq(R)
  BY RowsCut DEF CutRows
<1> HIDE DEF R, q5, s4, q4, s3, q3, s2, q2, s1, q1, s0
<1>3. Src(written \o q5 \o s4) = Src(written) \cup Src(q5) \cup Src(s4)
  BY <1>1, CellsBetween
<1>4. Src(Ahead2 \o q4 \o s3) = Src(Ahead2) \cup Src(q4) \cup Src(s3)
  BY <1>1, <1>2, CellsBetween
<1>5. Src(Ahead1 \o q3 \o s2) = Src(Ahead1) \cup Src(q3) \cup Src(s2)
  BY <1>1, <1>2, CellsBetween
<1>6. Src(s1 \o q1 \o s0) = Src(s1) \cup Src(q1) \cup Src(s0)
  BY <1>1, CellsBetween
<1>7. Src(s2 \o q2 \o s1 \o q1 \o s0) = Src(s2) \cup Src(q2) \cup Src(s1) \cup Src(q1) \cup Src(s0)
  <2> DEFINE u == s2 \o q2 \o s1
  <2>1. u \in Seq(R)
    BY <1>1, CatFacts DEF Cat
  <2>2. Src(u) = Src(s2) \cup Src(q2) \cup Src(s1)
    BY <1>1, CellsBetween
  <2> HIDE DEF u
  <2>3. Src(u \o q1 \o s0) = Src(u) \cup Src(q1) \cup Src(s0)
    BY <1>1, <2>1, CellsBetween
  <2> QED BY <2>2, <2>3 DEF u
<1>8. /\ Ahead2 = written \o q5 \o s4 /\ Ahead1 = Ahead2 \o q4 \o s3
      /\ Ahead0 = Ahead1 \o q3 \o s2 /\ Behind1 = s1 \o q1 \o s0
      /\ Behind2 = s2 \o q2 \o s1 \o q1 \o s0
  BY DEF Ahead0, Ahead1, Ahead2, Behind1, Behind2, q5, s4, q4, s3, q3, s2, q2, s1, q1, s0
<1>9. /\ Src(Ahead2) = Src(written) \cup Src(q5) \cup Src(s4)
      /\ Src(Ahead1) = Src(Ahead2) \cup Src(q4) \cup Src(s3)
      /\ Src(Ahead0) = Src(Ahead1) \cup Src(q3) \cup Src(s2)
      /\ Src(Behind1) = Src(s1) \cup Src(q1) \cup Src(s0)
      /\ Src(Behind2) = Src(s2) \cup Src(q2) \cup Src(Behind1)
  BY <1>3, <1>4, <1>5, <1>6, <1>7, <1>8
<1> QED BY <1>9 DEF q5, s4, q4, s3, q3, s2, q2, s1, q1, s0

\* The lines of the last stages: of the days, of the buffer and of the row at hand.
LEMMA SrcOfDays ==
  ASSUME Types
  PROVE  /\ AllDays \in Seq(DaysOf(file)) /\ HeldDays \in Seq(DaysOf(file))
         /\ Src(AllDays) = Src(written) \cup Src(HeldDays)
         /\ Src(HeldDays) = Src(dayRelSpreadQueue.items) \cup Src(daySpread.outbox)
         /\ Src(RowsOf(daySpread, DayBuffer))
              = Src(daySpread.outbox) \cup Src(DayBuffer) \cup Src(daySpread.hand)
<1>1. /\ written \in Seq(DaysOf(file)) /\ dayRelSpreadQueue.items \in Seq(DaysOf(file))
      /\ daySpread.outbox \in Seq(DaysOf(file))
      /\ daySpread.buffer \in Seq(ObsOf(file)) /\ daySpread.hand \in Seq(ObsOf(file))
      /\ file \in Files
  BY DEF Types, QueueOf, StageOf
<1>2. /\ AllDays \in Seq(DaysOf(file)) /\ HeldDays \in Seq(DaysOf(file))
  BY <1>1, CatFacts DEF AllDays, HeldDays, Cat
<1>3. Src(AllDays) = Src(written) \cup Src(dayRelSpreadQueue.items) \cup Src(daySpread.outbox)
  BY <1>1, CellsBetween DEF AllDays
<1>4. Src(HeldDays) = Src(dayRelSpreadQueue.items) \cup Src(daySpread.outbox)
  BY <1>1, SrcOfConcat DEF HeldDays
<1>5. /\ daySpread.outbox \in Seq(RowOf(file)) /\ DayBuffer \in Seq(RowOf(file))
      /\ daySpread.hand \in Seq(RowOf(file))
  BY <1>1, RowsInFile DEF DayBuffer
<1>6. Src(RowsOf(daySpread, DayBuffer))
        = Src(daySpread.outbox) \cup Src(DayBuffer) \cup Src(daySpread.hand)
  BY <1>5, CellsBetween DEF RowsOf
<1> QED BY <1>2, <1>3, <1>4, <1>6

LEMMA LastDay ==
  ASSUME NEW S, NEW s \in Seq(S), s # <<>>
  PROVE  Last(s) \in S /\ Last(s) = s[Len(s)] /\ Last(s).src \subseteq Src(s)
<1>1. Len(s) \in 1 .. Len(s)
  BY EmptySeq
<1>2. Last(s) = s[Len(s)]
  BY DEF Last
<1> QED BY <1>1, <1>2, ElementOfSeq, SrcOfSeq

\* The cells of the days, and of the buffer a day has been made of, are ahead of what
\* the other stages move.
LEMMA CellsAhead ==
  ASSUME Types, DayAtHand
  PROVE  CellsIn(DayCellsOfAll(HeldDays) \cup BufferCells \cup CellsOfAll(daySpread.hand),
                 Src(Ahead2))
<1>1. /\ file \in Files /\ daySpread.buffer \in Seq(ObsOf(file))
      /\ daySpread.hand \in Seq(ObsOf(file))
  BY DEF Types, StageOf
<1>2. CellsIn(DayCellsOfAll(HeldDays), Src(HeldDays))
  BY <1>1, SrcOfDays, CellsOfSrc
<1>3. CellsIn(CellsOfAll(daySpread.hand), Src(daySpread.hand))
  BY <1>1, CellsOfSrc
<1>4. CellsIn(CellsOfAll(daySpread.buffer), Src(daySpread.buffer))
  BY <1>1, CellsOfSrc
<1>5. Src(daySpread.buffer) \subseteq Src(written) \cup Src(HeldDays) \cup Src(DayBuffer)
  <2>1. CASE daySpread.pc \in {"emit", "clean"}
    <3>1. AllDays # <<>> /\ Last(AllDays).src = Src(daySpread.buffer)
      BY <2>1 DEF DayAtHand
    <3>2. Last(AllDays).src \subseteq Src(AllDays)
      BY <3>1, SrcOfDays, LastDay
    <3> QED BY <3>1, <3>2, SrcOfDays
  <2>2. CASE daySpread.pc \notin {"emit", "clean"}
    BY <2>2 DEF DayBuffer
  <2> QED BY <2>1, <2>2
<1>6. BufferCells \subseteq CellsOfAll(daySpread.buffer)
  BY DEF BufferCells
<1> QED BY <1>2, <1>3, <1>4, <1>5, <1>6, SrcAround, SrcOfDays DEF CellsIn

\* The cells of what a stage moves, in its queues and in the stage.
MoveCells ==
  /\ CellsOfAll(MergeRows) = CellsOfAll(timestampMergedQueue.items)
       \cup CellsOfAll(RowsOf(merge, Reverse(merge.buffer))) \cup CellsOfAll(parsedQueue.items)
  /\ CellsOfAll(OutliersRows) = CellsOfAll(outliersFilteredQueue.items)
       \cup CellsOfAll(RowsOf(outliers, outliers.buffer))
       \cup CellsOfAll(timestampMergedQueue.items)
  /\ CellsOfAll(RelSpreadRows) = CellsOfAll(relSpreadQueue.items)
       \cup CellsOfAll(RowsOf(relSpread, <<>>)) \cup CellsOfAll(outliersFilteredQueue.items)

LEMMA CellsOfMoves == Types => MoveCells
<1> SUFFICES ASSUME Types PROVE MoveCells
  OBVIOUS
<1> DEFINE q4 == relSpreadQueue.items
           s3 == RowsOf(relSpread, <<>>)
           q3 == outliersFilteredQueue.items
           s2 == RowsOf(outliers, outliers.buffer)
           q2 == timestampMergedQueue.items
           s1 == RowsOf(merge, Reverse(merge.buffer))
           q1 == parsedQueue.items
           S == ObsOf(file)
<1>1. /\ q4 \in Seq(S) /\ s3 \in Seq(S) /\ q3 \in Seq(S) /\ s2 \in Seq(S)
      /\ q2 \in Seq(S) /\ s1 \in Seq(S) /\ q1 \in Seq(S)
  BY PartsOf DEF Parts
<1>2. /\ MergeRows = q2 \o s1 \o q1 /\ OutliersRows = q3 \o s2 \o q2
      /\ RelSpreadRows = q4 \o s3 \o q3
  BY DEF MergeRows, OutliersRows, RelSpreadRows, Between, RowsOf
<1> HIDE DEF q4, s3, q3, s2, q2, s1, q1, S
<1>3. CellsOfAll(q2 \o s1 \o q1) = CellsOfAll(q2) \cup CellsOfAll(s1) \cup CellsOfAll(q1)
  BY <1>1, CellsBetween
<1>4. CellsOfAll(q3 \o s2 \o q2) = CellsOfAll(q3) \cup CellsOfAll(s2) \cup CellsOfAll(q2)
  BY <1>1, CellsBetween
<1>5. CellsOfAll(q4 \o s3 \o q3) = CellsOfAll(q4) \cup CellsOfAll(s3) \cup CellsOfAll(q3)
  BY <1>1, CellsBetween
<1>6. /\ CellsOfAll(MergeRows) = CellsOfAll(q2) \cup CellsOfAll(s1) \cup CellsOfAll(q1)
      /\ CellsOfAll(OutliersRows) = CellsOfAll(q3) \cup CellsOfAll(s2) \cup CellsOfAll(q2)
      /\ CellsOfAll(RelSpreadRows) = CellsOfAll(q4) \cup CellsOfAll(s3) \cup CellsOfAll(q3)
  BY <1>2, <1>3, <1>4, <1>5
<1> QED BY <1>6 DEF MoveCells, q4, s3, q3, s2, q2, s1, q1

\* A state and the next one, cut at each stage.
LEMMA BothStates ==
  ASSUME Types, Types', file' = file
  PROVE  /\ file \in Files
         /\ Parts /\ CutRows /\ MoveCells
         /\ Parts' /\ CutRows' /\ MoveCells'
<1>1. Types' => Parts' /\ CutRows' /\ MoveCells'
  BY PartsOf, RowsCut, CellsOfMoves, PTL
<1> QED BY <1>1, PartsOf, RowsCut, CellsOfMoves DEF Types

\* What the merge filter moves leaves the pipeline in order.
LEMMA MergeFrame ==
  ASSUME Types, Types', Ordered, DayAtHand, HeapExact,
         UNCHANGED <<file, parser, outliers, relSpread, daySpread, written,
                     outliersFilteredQueue, relSpreadQueue, dayRelSpreadQueue, dropped>>,
         NEW reads, NEW deletes, NEW news,
         Moves(file, MergeRows, MergeRows', {}, reads, deletes, news),
         Access(reads, deletes, news)
  PROVE  Ordered' /\ HeapExact'
<1> DEFINE K == DayCellsOfAll(HeldDays) \cup BufferCells \cup CellsOfAll(daySpread.hand)
                \cup CellsOfAll(relSpreadQueue.items)
                \cup CellsOfAll(RowsOf(relSpread, <<>>))
                \cup CellsOfAll(outliersFilteredQueue.items)
                \cup CellsOfAll(RowsOf(outliers, outliers.buffer))
                \cup CellsOfAll(parser.outbox)
<1>1. /\ file \in Files /\ Parts /\ CutRows /\ MoveCells
      /\ Parts' /\ CutRows' /\ MoveCells'
  BY BothStates
<1>2. /\ Rows = Ahead0 \o MergeRows \o parser.outbox /\ Ahead0 \in Seq(RowOf(file))
      /\ parser.outbox \in Seq(ObsOf(file)) /\ parser.outbox \in Seq(RowOf(file))
      /\ MergeRows \in Seq(ObsOf(file))
  BY <1>1, RowsInFile DEF CutRows, Parts
<1>3. Rows' = Ahead0 \o MergeRows' \o parser.outbox
  <2>1. Rows' = Ahead0' \o MergeRows' \o parser.outbox'
    BY <1>1 DEF CutRows
  <2>2. Ahead0' = Ahead0
    BY DEF Ahead0, Ahead1, Ahead2, RowsOf, DayBuffer
  <2> QED BY <2>1, <2>2
<1>4. CellsIn(K, Src(Ahead0) \cup Src(parser.outbox))
  <2>1. /\ CellsIn(CellsOfAll(relSpreadQueue.items), Src(relSpreadQueue.items))
        /\ CellsIn(CellsOfAll(RowsOf(relSpread, <<>>)), Src(RowsOf(relSpread, <<>>)))
        /\ CellsIn(CellsOfAll(outliersFilteredQueue.items), Src(outliersFilteredQueue.items))
        /\ CellsIn(CellsOfAll(RowsOf(outliers, outliers.buffer)),
                   Src(RowsOf(outliers, outliers.buffer)))
        /\ CellsIn(CellsOfAll(parser.outbox), Src(parser.outbox))
    BY <1>1, CellsOfSrc DEF Parts
  <2> QED BY <2>1, CellsAhead, SrcAround DEF CellsIn
<1>5. /\ heap = K \cup CellsOfAll(MergeRows) /\ wild = FALSE
      /\ HeapExact' <=> wild' = FALSE /\ heap' = K \cup CellsOfAll(MergeRows')
  <2>1. /\ HeldDays' = HeldDays /\ BufferCells' = BufferCells
        /\ RowsOf(relSpread, <<>>)' = RowsOf(relSpread, <<>>)
        /\ RowsOf(outliers, outliers.buffer)' = RowsOf(outliers, outliers.buffer)
    BY DEF HeldDays, BufferCells, RowsOf
  <2> QED BY <1>1, <2>1 DEF HeapExact, MoveCells
<1>6. Parsed' = Parsed /\ dropped' = dropped
  BY DEF Parsed
<1>7. Sorted(Ahead0 \o MergeRows \o parser.outbox)
  BY <1>2 DEF Ordered
<1> HIDE DEF K
<1>8. SafeMove(Ahead0, MergeRows, MergeRows', parser.outbox, {}, reads, deletes, news, K)
  BY <1>1, <1>2, <1>4, <1>7, MovesAreSafe
<1>9. /\ Sorted(Rows') /\ Src(Rows') = Src(Rows)
      /\ ((K \cup CellsOfAll(MergeRows)) \ deletes) \cup news = K \cup CellsOfAll(MergeRows')
      /\ reads \cup deletes \subseteq K \cup CellsOfAll(MergeRows)
  BY <1>2, <1>3, <1>8 DEF SafeMove
<1>10. Ordered'
  BY <1>6, <1>9 DEF Ordered, EveryLineAccountedFor
<1>11. wild' = FALSE /\ heap' = K \cup CellsOfAll(MergeRows')
  BY <1>5, <1>9 DEF Access
<1> QED BY <1>5, <1>10, <1>11

\* So does what the filter of outliers moves; the lines gone are those it deletes.
LEMMA OutliersFrame ==
  ASSUME Types, Types', Ordered, DayAtHand, HeapExact,
         UNCHANGED <<file, parser, merge, relSpread, daySpread, written, parsedQueue,
                     relSpreadQueue, dayRelSpreadQueue>>,
         NEW gone, NEW reads, NEW deletes, NEW news,
         dropped' = dropped \cup gone,
         Moves(file, OutliersRows, OutliersRows', gone, reads, deletes, news),
         Access(reads, deletes, news)
  PROVE  Ordered' /\ HeapExact'
<1> DEFINE K == DayCellsOfAll(HeldDays) \cup BufferCells \cup CellsOfAll(daySpread.hand)
                \cup CellsOfAll(relSpreadQueue.items)
                \cup CellsOfAll(RowsOf(relSpread, <<>>))
                \cup CellsOfAll(RowsOf(merge, Reverse(merge.buffer)))
                \cup CellsOfAll(parsedQueue.items)
                \cup CellsOfAll(parser.outbox)
<1>1. /\ file \in Files /\ Parts /\ CutRows /\ MoveCells
      /\ Parts' /\ CutRows' /\ MoveCells'
  BY BothStates
<1>2. /\ Rows = Ahead1 \o OutliersRows \o Behind1 /\ Ahead1 \in Seq(RowOf(file))
      /\ Behind1 \in Seq(RowOf(file))
      /\ OutliersRows \in Seq(ObsOf(file))
  BY <1>1, RowsInFile DEF CutRows, Parts
<1>3. Rows' = Ahead1 \o OutliersRows' \o Behind1
  <2>1. Rows' = Ahead1' \o OutliersRows' \o Behind1'
    BY <1>1 DEF CutRows
  <2>2. Ahead1' = Ahead1 /\ Behind1' = Behind1
    BY DEF Ahead1, Ahead2, Behind1, RowsOf, DayBuffer
  <2> QED BY <2>1, <2>2
<1>4. CellsIn(K, Src(Ahead1) \cup Src(Behind1))
  <2>1. /\ CellsIn(CellsOfAll(relSpreadQueue.items), Src(relSpreadQueue.items))
        /\ CellsIn(CellsOfAll(RowsOf(relSpread, <<>>)), Src(RowsOf(relSpread, <<>>)))
        /\ CellsIn(CellsOfAll(RowsOf(merge, Reverse(merge.buffer))),
                   Src(RowsOf(merge, Reverse(merge.buffer))))
        /\ CellsIn(CellsOfAll(parsedQueue.items), Src(parsedQueue.items))
        /\ CellsIn(CellsOfAll(parser.outbox), Src(parser.outbox))
    BY <1>1, CellsOfSrc DEF Parts
  <2> QED BY <2>1, CellsAhead, SrcAround DEF CellsIn
<1>5. /\ heap = K \cup CellsOfAll(OutliersRows) /\ wild = FALSE
      /\ HeapExact' <=> wild' = FALSE /\ heap' = K \cup CellsOfAll(OutliersRows')
  <2>1. /\ HeldDays' = HeldDays /\ BufferCells' = BufferCells
        /\ RowsOf(relSpread, <<>>)' = RowsOf(relSpread, <<>>)
        /\ RowsOf(merge, Reverse(merge.buffer))' = RowsOf(merge, Reverse(merge.buffer))
    BY DEF HeldDays, BufferCells, RowsOf
  <2> QED BY <1>1, <2>1 DEF HeapExact, MoveCells
<1>6. Parsed' = Parsed
  BY DEF Parsed
<1>7. Sorted(Ahead1 \o OutliersRows \o Behind1)
  BY <1>2 DEF Ordered
<1> HIDE DEF K
<1>8. SafeMove(Ahead1, OutliersRows, OutliersRows', Behind1, gone, reads, deletes, news, K)
  BY <1>1, <1>2, <1>4, <1>7, MovesAreSafe
<1>9. /\ Sorted(Rows') /\ Src(Rows') \cup gone = Src(Rows) /\ Src(Rows') \cap gone = {}
      /\ ((K \cup CellsOfAll(OutliersRows)) \ deletes) \cup news
           = K \cup CellsOfAll(OutliersRows')
      /\ reads \cup deletes \subseteq K \cup CellsOfAll(OutliersRows)
  BY <1>2, <1>3, <1>8 DEF SafeMove
<1>10. Ordered'
  BY <1>6, <1>9 DEF Ordered, EveryLineAccountedFor
<1>11. wild' = FALSE /\ heap' = K \cup CellsOfAll(OutliersRows')
  BY <1>5, <1>9 DEF Access
<1> QED BY <1>5, <1>10, <1>11

\* And what the processor of relative spreads moves.
LEMMA RelSpreadFrame ==
  ASSUME Types, Types', Ordered, DayAtHand, HeapExact,
         UNCHANGED <<file, parser, merge, outliers, daySpread, written, parsedQueue,
                     timestampMergedQueue, dayRelSpreadQueue>>,
         NEW gone, NEW reads, NEW deletes, NEW news,
         dropped' = dropped \cup gone,
         Moves(file, RelSpreadRows, RelSpreadRows', gone, reads, deletes, news),
         Access(reads, deletes, news)
  PROVE  Ordered' /\ HeapExact'
<1> DEFINE K == DayCellsOfAll(HeldDays) \cup BufferCells \cup CellsOfAll(daySpread.hand)
                \cup CellsOfAll(RowsOf(outliers, outliers.buffer))
                \cup CellsOfAll(timestampMergedQueue.items)
                \cup CellsOfAll(RowsOf(merge, Reverse(merge.buffer)))
                \cup CellsOfAll(parsedQueue.items)
                \cup CellsOfAll(parser.outbox)
<1>1. /\ file \in Files /\ Parts /\ CutRows /\ MoveCells
      /\ Parts' /\ CutRows' /\ MoveCells'
  BY BothStates
<1>2. /\ Rows = Ahead2 \o RelSpreadRows \o Behind2 /\ Ahead2 \in Seq(RowOf(file))
      /\ Behind2 \in Seq(RowOf(file))
      /\ RelSpreadRows \in Seq(ObsOf(file))
  BY <1>1, RowsInFile DEF CutRows, Parts
<1>3. Rows' = Ahead2 \o RelSpreadRows' \o Behind2
  <2>1. Rows' = Ahead2' \o RelSpreadRows' \o Behind2'
    BY <1>1 DEF CutRows
  <2>2. Ahead2' = Ahead2 /\ Behind2' = Behind2
    BY DEF Ahead2, Behind2, RowsOf, DayBuffer
  <2> QED BY <2>1, <2>2
<1>4. CellsIn(K, Src(Ahead2) \cup Src(Behind2))
  <2>1. /\ CellsIn(CellsOfAll(RowsOf(outliers, outliers.buffer)),
                   Src(RowsOf(outliers, outliers.buffer)))
        /\ CellsIn(CellsOfAll(timestampMergedQueue.items), Src(timestampMergedQueue.items))
        /\ CellsIn(CellsOfAll(RowsOf(merge, Reverse(merge.buffer))),
                   Src(RowsOf(merge, Reverse(merge.buffer))))
        /\ CellsIn(CellsOfAll(parsedQueue.items), Src(parsedQueue.items))
        /\ CellsIn(CellsOfAll(parser.outbox), Src(parser.outbox))
    BY <1>1, CellsOfSrc DEF Parts
  <2> QED BY <2>1, CellsAhead, SrcAround DEF CellsIn
<1>5. /\ heap = K \cup CellsOfAll(RelSpreadRows) /\ wild = FALSE
      /\ HeapExact' <=> wild' = FALSE /\ heap' = K \cup CellsOfAll(RelSpreadRows')
  <2>1. /\ HeldDays' = HeldDays /\ BufferCells' = BufferCells
        /\ RowsOf(outliers, outliers.buffer)' = RowsOf(outliers, outliers.buffer)
        /\ RowsOf(merge, Reverse(merge.buffer))' = RowsOf(merge, Reverse(merge.buffer))
    BY DEF HeldDays, BufferCells, RowsOf
  <2> QED BY <1>1, <2>1 DEF HeapExact, MoveCells
<1>6. Parsed' = Parsed
  BY DEF Parsed
<1>7. Sorted(Ahead2 \o RelSpreadRows \o Behind2)
  BY <1>2 DEF Ordered
<1> HIDE DEF K
<1>8. SafeMove(Ahead2, RelSpreadRows, RelSpreadRows', Behind2, gone, reads, deletes, news, K)
  BY <1>1, <1>2, <1>4, <1>7, MovesAreSafe
<1>9. /\ Sorted(Rows') /\ Src(Rows') \cup gone = Src(Rows) /\ Src(Rows') \cap gone = {}
      /\ ((K \cup CellsOfAll(RelSpreadRows)) \ deletes) \cup news
           = K \cup CellsOfAll(RelSpreadRows')
      /\ reads \cup deletes \subseteq K \cup CellsOfAll(RelSpreadRows)
  BY <1>2, <1>3, <1>8 DEF SafeMove
<1>10. Ordered'
  BY <1>6, <1>9 DEF Ordered, EveryLineAccountedFor
<1>11. wild' = FALSE /\ heap' = K \cup CellsOfAll(RelSpreadRows')
  BY <1>5, <1>9 DEF Access
<1> QED BY <1>5, <1>10, <1>11

-----------------------------------------------------------------------------
(* What the threads do to a queue, and what the four middle stages have in common. *)

Keeps(Elem, q, r) == r \in QueueOf(Elem) /\ r.items = q.items /\ r.atEnd = q.atEnd
Pops(Elem, q, r) == /\ r \in QueueOf(Elem) /\ q.items # <<>>
                    /\ r.items = Tail(q.items) /\ r.atEnd = q.atEnd
Pushes(Elem, q, r, e) == /\ r \in QueueOf(Elem)
                         /\ r.items = Append(q.items, e) /\ r.atEnd = q.atEnd
Ends(Elem, q, r) == r \in QueueOf(Elem) /\ r.items = q.items /\ r.atEnd = TRUE

LEMMA QueueMoves ==
  ASSUME NEW Elem, NEW q \in QueueOf(Elem)
  PROVE  /\ Keeps(Elem, q, q)
         /\ Keeps(Elem, q, [q EXCEPT !.missed = TRUE])
         /\ Keeps(Elem, q, [q EXCEPT !.empty = TRUE, !.missed = FALSE])
         /\ Keeps(Elem, q, [q EXCEPT !.missed = FALSE])
         /\ Keeps(Elem, q, [q EXCEPT !.empty = FALSE])
         /\ Keeps(Elem, q, [q EXCEPT !.full = TRUE])
         /\ Ends(Elem, q, [q EXCEPT !.atEnd = TRUE])
         /\ q.items # <<>> => Pops(Elem, q, [q EXCEPT !.items = Tail(@), !.empty = FALSE])
         /\ \A e \in Elem : Len(q.items) < MaxCapacity =>
              Pushes(Elem, q, [q EXCEPT !.items = Append(@, e), !.full = FALSE], e)
<1>1. /\ q.items \in Seq(Elem) /\ Len(q.items) <= MaxCapacity /\ Len(q.items) \in Nat
      /\ MaxCapacity \in Nat
  BY PipelineAssumption DEF QueueOf
<1>2. /\ Keeps(Elem, q, q)
      /\ Keeps(Elem, q, [q EXCEPT !.missed = TRUE])
      /\ Keeps(Elem, q, [q EXCEPT !.empty = TRUE, !.missed = FALSE])
      /\ Keeps(Elem, q, [q EXCEPT !.missed = FALSE])
      /\ Keeps(Elem, q, [q EXCEPT !.empty = FALSE])
      /\ Keeps(Elem, q, [q EXCEPT !.full = TRUE])
      /\ Ends(Elem, q, [q EXCEPT !.atEnd = TRUE])
  BY DEF QueueOf, Keeps, Ends
<1>a. ASSUME NEW s \in Seq(Elem), Len(s) <= MaxCapacity, NEW b \in BOOLEAN
      PROVE  /\ [q EXCEPT !.items = s, !.empty = b] \in QueueOf(Elem)
             /\ [q EXCEPT !.items = s, !.full = b] \in QueueOf(Elem)
             /\ [q EXCEPT !.items = s, !.empty = b].items = s
             /\ [q EXCEPT !.items = s, !.full = b].items = s
             /\ [q EXCEPT !.items = s, !.empty = b].atEnd = q.atEnd
             /\ [q EXCEPT !.items = s, !.full = b].atEnd = q.atEnd
  BY <1>a DEF QueueOf
<1>3. ASSUME q.items # <<>>
      PROVE  Pops(Elem, q, [q EXCEPT !.items = Tail(@), !.empty = FALSE])
  <2>1. Tail(q.items) \in Seq(Elem) /\ Len(Tail(q.items)) = Len(q.items) - 1
    BY <1>1, <1>3, HeadTailProperties
  <2>2. Len(Tail(q.items)) <= MaxCapacity
    BY <1>1, <2>1
  <2> QED BY <1>a, <1>3, <2>1, <2>2, Zenon DEF Pops
<1>4. ASSUME NEW e \in Elem, Len(q.items) < MaxCapacity
      PROVE  Pushes(Elem, q, [q EXCEPT !.items = Append(@, e), !.full = FALSE], e)
  <2>1. Append(q.items, e) \in Seq(Elem) /\ Len(Append(q.items, e)) = Len(q.items) + 1
    BY <1>1, AppendProperties
  <2>2. Len(Append(q.items, e)) <= MaxCapacity
    BY <1>1, <1>4, <2>1
  <2> QED BY <1>a, <2>1, <2>2, Zenon DEF Pushes
<1> QED BY <1>2, <1>3, <1>4, Zenon

\* The steps in which a stage waits, emits, closes its output or fails.
Shared(A, B, st, st1, in, in1, out, out1, next) ==
  \/ /\ st.pc \in {"take", "peek", "emit"} /\ st1 = st
     /\ Keeps(A, in, in1) /\ Keeps(B, out, out1)
  \/ /\ st.pc = "emit" /\ st1 = [st EXCEPT !.outbox = Tail(@), !.pc = next]
     /\ in1 = in /\ Pushes(B, out, out1, Head(st.outbox))
  \/ /\ st.pc = "close" /\ st1 = [st EXCEPT !.pc = "done"]
     /\ in1 = in /\ Ends(B, out, out1)
  \/ /\ st.pc = "take" /\ st1 = [st EXCEPT !.pc = "failed", !.hand = <<Head(in.items)>>]
     /\ Pops(A, in, in1) /\ (out1 = out \/ Ends(B, out, out1))
  \/ /\ st.pc \in {"take", "peek"} /\ st1 = [st EXCEPT !.pc = "failed"]
     /\ Keeps(A, in, in1) /\ (out1 = out \/ Ends(B, out, out1))

\* What every step of a stage keeps of its own control and of its neighbours'.
StepFits(A, B, st, st1, in, in1, out, out1) ==
  /\ st1 \in StageOf(A, B) /\ in1 \in QueueOf(A) /\ out1 \in QueueOf(B)
  /\ StageControl(st1, in1, out1)
  /\ ~Over(st.pc)
  /\ in1.atEnd = in.atEnd /\ (out.atEnd => out1.atEnd)

KeepsBuffer(st, st1) == st1.buffer = st.buffer /\ st1.ending = st.ending

LEMMA SharedFits ==
  ASSUME NEW A, NEW B, NEW st \in StageOf(A, B), NEW st1, NEW in \in QueueOf(A), NEW in1,
         NEW out \in QueueOf(B), NEW out1, NEW next,
         StageControl(st, in, out),
         Shared(A, B, st, st1, in, in1, out, out1, next),
         st.pc = "emit" =>
           /\ next \in {"take", "emit", "clean", "close"}
           /\ next = "emit" <=> Tail(st.outbox) # <<>>
           /\ next = "take" => ~st.ending
           /\ next = "close" => st.buffer = <<>>
  PROVE  StepFits(A, B, st, st1, in, in1, out, out1) /\ KeepsBuffer(st, st1)
<1>1. /\ st.pc \in {"take", "peek", "emit", "clean", "close", "done", "failed"}
      /\ st.buffer \in Seq(A) /\ st.outbox \in Seq(B) /\ st.hand \in Seq(A)
      /\ st.ending \in BOOLEAN /\ in.items \in Seq(A)
  BY DEF StageOf, QueueOf
<1>2. /\ st.pc = "emit" <=> st.outbox # <<>>
      /\ st.pc # "failed" => st.hand = <<>>
      /\ st.pc \in {"take", "peek"} => ~st.ending
      /\ st.pc \in {"close", "done"} => st.buffer = <<>>
      /\ st.ending => in.atEnd
      /\ out.atEnd => Over(st.pc)
  BY DEF StageControl
<1>3. CASE /\ st.pc \in {"take", "peek", "emit"} /\ st1 = st
           /\ Keeps(A, in, in1) /\ Keeps(B, out, out1)
  BY <1>1, <1>2, <1>3 DEF StepFits, KeepsBuffer, StageControl, Keeps, Over
<1>4. CASE /\ st.pc = "emit" /\ st1 = [st EXCEPT !.outbox = Tail(@), !.pc = next]
           /\ in1 = in /\ Pushes(B, out, out1, Head(st.outbox))
  <2>1. Tail(st.outbox) \in Seq(B)
    BY <1>1, <1>2, <1>4, HeadTailProperties
  <2>2. /\ st1 \in StageOf(A, B) /\ st1.outbox = Tail(st.outbox) /\ st1.pc = next
        /\ st1.buffer = st.buffer /\ st1.hand = st.hand /\ st1.ending = st.ending
    BY <1>1, <1>4, <2>1 DEF StageOf
  <2>3. out1 \in QueueOf(B) /\ out1.atEnd = out.atEnd
    BY <1>4 DEF Pushes
  <2> QED BY <1>1, <1>2, <1>4, <2>2, <2>3 DEF StepFits, KeepsBuffer, StageControl, Over
<1>5. CASE /\ st.pc = "close" /\ st1 = [st EXCEPT !.pc = "done"]
           /\ in1 = in /\ Ends(B, out, out1)
  <2>1. /\ st1 \in StageOf(A, B) /\ st1.outbox = st.outbox /\ st1.pc = "done"
        /\ st1.buffer = st.buffer /\ st1.hand = st.hand /\ st1.ending = st.ending
    BY <1>1, <1>5 DEF StageOf
  <2> QED BY <1>1, <1>2, <1>5, <2>1 DEF StepFits, KeepsBuffer, StageControl, Over, Ends
<1>6. CASE /\ st.pc = "take" /\ st1 = [st EXCEPT !.pc = "failed", !.hand = <<Head(in.items)>>]
           /\ Pops(A, in, in1) /\ (out1 = out \/ Ends(B, out, out1))
  <2>1. <<Head(in.items)>> \in Seq(A)
    BY <1>1, <1>6, HeadAndTail DEF Pops
  <2>2. /\ st1 \in StageOf(A, B) /\ st1.outbox = st.outbox /\ st1.pc = "failed"
        /\ st1.buffer = st.buffer /\ st1.ending = st.ending
    BY <1>1, <1>6, <2>1 DEF StageOf
  <2> QED BY <1>1, <1>2, <1>6, <2>2 DEF StepFits, KeepsBuffer, StageControl, Over, Ends, Pops
<1>7. CASE /\ st.pc \in {"take", "peek"} /\ st1 = [st EXCEPT !.pc = "failed"]
           /\ Keeps(A, in, in1) /\ (out1 = out \/ Ends(B, out, out1))
  <2>1. /\ st1 \in StageOf(A, B) /\ st1.outbox = st.outbox /\ st1.pc = "failed"
        /\ st1.buffer = st.buffer /\ st1.ending = st.ending
    BY <1>1, <1>7 DEF StageOf
  <2> QED BY <1>1, <1>2, <1>7, <2>1 DEF StepFits, KeepsBuffer, StageControl, Over, Ends, Keeps
<1> QED BY <1>3, <1>4, <1>5, <1>6, <1>7 DEF Shared

\* None of these steps moves a row past another.
SameRows(st, st1, in, in1, out, out1, buffer) ==
  Between(out1.items, st1.outbox, buffer, st1.hand, in1.items)
    = Between(out.items, st.outbox, buffer, st.hand, in.items)

LEMMA SharedRows ==
  ASSUME NEW S, NEW A, NEW B, NEW st \in StageOf(A, B), NEW st1,
         NEW in, NEW in1, NEW out, NEW out1, NEW next, NEW buffer \in Seq(S),
         in.items \in Seq(S), out.items \in Seq(S), st.outbox \in Seq(S), st.hand \in Seq(S),
         StageControl(st, in, out),
         Shared(A, B, st, st1, in, in1, out, out1, next)
  PROVE  SameRows(st, st1, in, in1, out, out1, buffer)
<1> USE DEF SameRows
<1>1. CASE /\ st.pc \in {"take", "peek", "emit"} /\ st1 = st
           /\ Keeps(A, in, in1) /\ Keeps(B, out, out1)
  BY <1>1 DEF Keeps
<1>2. CASE /\ st.pc = "emit" /\ st1 = [st EXCEPT !.outbox = Tail(@), !.pc = next]
           /\ in1 = in /\ Pushes(B, out, out1, Head(st.outbox))
  <2>1. st1.outbox = Tail(st.outbox) /\ st1.hand = st.hand /\ st.outbox # <<>>
    BY <1>2 DEF StageOf, StageControl
  <2>2. out1.items = Append(out.items, Head(st.outbox))
    BY <1>2 DEF Pushes
  <2> QED BY <1>2, <2>1, <2>2, BetweenEmit
<1>3. CASE /\ st.pc = "close" /\ st1 = [st EXCEPT !.pc = "done"]
           /\ in1 = in /\ Ends(B, out, out1)
  BY <1>3 DEF StageOf, Ends
<1>4. CASE /\ st.pc = "take" /\ st1 = [st EXCEPT !.pc = "failed", !.hand = <<Head(in.items)>>]
           /\ Pops(A, in, in1) /\ (out1 = out \/ Ends(B, out, out1))
  <2>1. st1.outbox = st.outbox /\ st1.hand = <<Head(in.items)>> /\ st.hand = <<>>
    BY <1>4 DEF StageOf, StageControl
  <2>2. out1.items = out.items /\ in.items # <<>> /\ in1.items = Tail(in.items)
    BY <1>4 DEF Pops, Ends
  <2>3. Taking(out.items, st.outbox, buffer, in.items)
    BY <2>2, BetweenTake
  <2> QED BY <2>1, <2>2, <2>3 DEF Taking
<1>5. CASE /\ st.pc \in {"take", "peek"} /\ st1 = [st EXCEPT !.pc = "failed"]
           /\ Keeps(A, in, in1) /\ (out1 = out \/ Ends(B, out, out1))
  BY <1>5 DEF StageOf, Ends, Keeps
<1> QED BY <1>1, <1>2, <1>3, <1>4, <1>5 DEF Shared

\* A stage with nothing at hand that replaces what it has collected.
CoreBetween(out, core, in) ==
  /\ Between(out, <<>>, core, <<>>, in) = out \o core \o in
  /\ Between(out, core, <<>>, <<>>, in) = out \o core \o in
  /\ in # <<>> => Between(out, core, <<Head(in)>>, <<>>, Tail(in)) = out \o core \o in

LEMMA BetweenCore ==
  ASSUME NEW S, NEW out \in Seq(S), NEW core \in Seq(S), NEW in \in Seq(S)
  PROVE  CoreBetween(out, core, in)
<1>1. <<>> \o core = core /\ core \o <<>> = core /\ <<>> \in Seq(S)
  BY ConcatEmptySeq
<1>2. Between(out, <<>>, core, <<>>, in) = out \o core \o in
  BY <1>1 DEF Between
<1>3. Between(out, core, <<>>, <<>>, in) = out \o core \o in
  BY <1>1 DEF Between
<1>4. ASSUME in # <<>>
      PROVE  Between(out, core, <<Head(in)>>, <<>>, Tail(in)) = out \o core \o in
  <2> DEFINE h == <<Head(in)>>
             t == Tail(in)
  <2>1. h \in Seq(S) /\ t \in Seq(S) /\ in = Cat(h, t)
    BY <1>4, HeadAndTail DEF Cat
  <2> HIDE DEF h, t
  <2>2. Cat(core, h) \in Seq(S)
    BY <2>1, CatFacts
  <2>3. Cat(core, h) \o <<>> = Cat(core, h)
    BY <2>2, ConcatEmptySeq
  <2>4. Cat(Cat(out, Cat(core, h)), t) = Cat(Cat(out, core), Cat(h, t))
    <3>1. Cat(out, Cat(core, h)) = Cat(Cat(out, core), h) /\ Cat(out, core) \in Seq(S)
      BY <2>1, CatFacts
    <3> QED BY <2>1, <3>1, CatFacts
  <2> QED BY <2>1, <2>3, <2>4 DEF Between, Cat, h, t
<1> QED BY <1>2, <1>3, <1>4 DEF CoreBetween

LEMMA MovesInside ==
  ASSUME NEW f \in Files, NEW out \in Seq(ObsOf(f)), NEW core \in Seq(ObsOf(f)), NEW new,
         NEW in \in Seq(ObsOf(f)), NEW gone, NEW reads, NEW more, NEW deletes, NEW news,
         Moves(f, core, new, gone, reads, deletes, news),
         more \subseteq CellsOfAll(out) \cup CellsOfAll(core) \cup CellsOfAll(in)
  PROVE  Moves(f, out \o core \o in, out \o new \o in, gone, more \cup reads, deletes, news)
<1> DEFINE mid == out \o core \o in
           next == out \o new \o in
<1>1. new \in Seq(ObsOf(f))
  BY DEF Moves
<1>2. next \in Seq(ObsOf(f)) /\ mid \in Seq(ObsOf(f))
  BY <1>1, CatFacts DEF Cat
<1>3. /\ CellsOfAll(mid) = CellsOfAll(out) \cup CellsOfAll(core) \cup CellsOfAll(in)
      /\ CellsOfAll(next) = CellsOfAll(out) \cup CellsOfAll(new) \cup CellsOfAll(in)
  BY <1>1, CellsBetween
<1>4. /\ out \in Seq(RowOf(f)) /\ core \in Seq(RowOf(f)) /\ new \in Seq(RowOf(f))
      /\ in \in Seq(RowOf(f))
  BY <1>1, RowsInFile
<1>5. CellsIn(CellsOfAll(out), Src(out)) /\ CellsIn(CellsOfAll(in), Src(in))
  BY CellsOfSrc
<1> SUFFICES ASSUME Sorted(mid)
             PROVE  /\ Sorted(next)
                    /\ Src(next) \cup gone = Src(mid) /\ Src(next) \cap gone = {}
                    /\ (more \cup reads) \cup deletes \subseteq CellsOfAll(mid)
                    /\ CellsOfAll(next) = (CellsOfAll(mid) \ deletes) \cup news
  BY <1>2 DEF Moves
<1>6. /\ Src(mid) = Src(out) \cup Src(core) \cup Src(in)
      /\ Src(next) = Src(out) \cup Src(new) \cup Src(in)
  BY <1>1, CellsBetween
<1>7. Sorted(core) /\ Src(core) \cap (Src(out) \cup Src(in)) = {}
  BY <1>4, Replaced
<1>8. /\ Sorted(new)
      /\ Src(new) \cup gone = Src(core) /\ Src(new) \cap gone = {}
      /\ reads \cup deletes \subseteq CellsOfAll(core)
      /\ CellsOfAll(new) = (CellsOfAll(core) \ deletes) \cup news
  BY <1>7 DEF Moves
<1>9. Sorted(next)
  BY <1>4, <1>8, Replaced, Src(new) \subseteq Src(core)
<1>10. deletes \cap (CellsOfAll(out) \cup CellsOfAll(in)) = {}
  <2>1. CellsIn(CellsOfAll(core), Src(core))
    BY CellsOfSrc
  <2> QED BY <1>5, <1>7, <1>8, <2>1 DEF CellsIn
<1> HIDE DEF mid, next
<1>11. Src(next) \cup gone = Src(mid) /\ Src(next) \cap gone = {}
  BY <1>6, <1>7, <1>8
<1>12. (more \cup reads) \cup deletes \subseteq CellsOfAll(mid)
  BY <1>3, <1>8
<1>13. CellsOfAll(next) = (CellsOfAll(mid) \ deletes) \cup news
  BY <1>3, <1>8, <1>10
<1> QED BY <1>9, <1>11, <1>12, <1>13

LEMMA CellsOfMembers ==
  ASSUME NEW S, NEW s \in Seq(S)
  PROVE  /\ \A o \in ToSet(s) : CellsOf(o) \subseteq CellsOfAll(s) /\ o.src \subseteq Src(s)
         /\ \A i \in 1 .. Len(s) : s[i] \in ToSet(s)
         /\ s # <<>> => /\ Head(s) \in ToSet(s) /\ s[1] \in ToSet(s)
                        /\ Last(s) \in ToSet(s)
<1>1. \A o \in ToSet(s) : CellsOf(o) \subseteq CellsOfAll(s) /\ o.src \subseteq Src(s)
  BY DEF CellsOfAll, Src
<1>2. \A i \in 1 .. Len(s) : s[i] \in ToSet(s)
  BY SrcOfSeq, Zenon
<1>3. ASSUME s # <<>> PROVE 1 \in 1 .. Len(s) /\ Len(s) \in 1 .. Len(s) /\ Head(s) = s[1]
  BY <1>3, HeadAndTail
<1>4. Last(s) = s[Len(s)]
  BY DEF Last
<1> QED BY <1>1, <1>2, <1>3, <1>4

\* The ids of rows in order differ.
LEMMA FirstApart ==
  ASSUME NEW f \in Files, NEW s \in Seq(ObsOf(f)), s # <<>>, Sorted(s)
  PROVE  /\ CellsOfAll(s) = CellsOf(s[1]) \cup CellsOfAll(Tail(s))
         /\ \A c \in CellsOfAll(Tail(s)) : c[1] # s[1].id
         /\ Src(s) = s[1].src \cup Src(Tail(s))
<1> DEFINE first == s[1]
           rest == Tail(s)
<1>1. rest \in Seq(ObsOf(f)) /\ first \in ObsOf(f) /\ s = <<first>> \o rest
      /\ <<first>> \in Seq(ObsOf(f))
  BY HeadAndTail
<1> HIDE DEF first, rest
<1>2. /\ Src(<<first>>) = first.src /\ CellsOfAll(<<first>>) = CellsOf(first)
      /\ first.id \in first.src
  BY <1>1, SrcOfFew, CellsOfFew DEF ObsOf, Stands
<1>3. CellsOfAll(s) = CellsOf(first) \cup CellsOfAll(rest) /\ Src(s) = first.src \cup Src(rest)
  <2> DEFINE alone == <<first>>
  <2>1. alone \in Seq(ObsOf(f)) /\ s = alone \o rest
    BY <1>1
  <2> HIDE DEF alone
  <2>2. /\ CellsOfAll(alone \o rest) = CellsOfAll(alone) \cup CellsOfAll(rest)
        /\ Src(alone \o rest) = Src(alone) \cup Src(rest)
    BY <1>1, <2>1, CellsOfConcat, SrcOfConcat
  <2> QED BY <1>2, <2>1, <2>2 DEF alone
<1>4. Before(first.src, Src(rest))
  BY <1>1, <1>2, SortedConcat
<1>5. CellsIn(CellsOfAll(rest), Src(rest))
  BY <1>1, CellsOfSrc
<1>6. Src(rest) \subseteq Nat
  <2>1. rest \in Seq(RowOf(f))
    BY <1>1, RowsInFile
  <2> QED BY <2>1, RowsInFile
<1>7. first.src \subseteq Nat
  BY <1>1 DEF ObsOf
<1>8. \A c \in CellsOfAll(rest) : c[1] # first.id
  BY <1>2, <1>4, <1>5, <1>6, <1>7 DEF CellsIn, Before
<1> QED BY <1>3, <1>8 DEF first, rest

-----------------------------------------------------------------------------
(* The merge filter. *)

\* The observation made of a group.
LEMMA MergedRow ==
  ASSUME NEW f \in Files, NEW b \in Seq(ObsOf(f)), b # <<>>,
         \A i \in 1 .. Len(b) : b[i].date = b[1].date,
         NEW obs \in Merge!Merged(b)
  PROVE  /\ obs \in ObsOf(f) /\ obs.src = Src(b)
         /\ obs.id = b[1].id /\ obs.date = b[1].date /\ obs.time = b[1].time
<1>1. b[1] \in ObsOf(f) /\ 1 \in 1 .. Len(b) /\ Len(b) \in Nat
  BY HeadAndTail
<1>2. CASE Len(b) = 1
  <2>1. obs = b[1]
    BY <1>2 DEF Merge!Merged
  <2>2. \A x : x \in Src(b) <=> x \in b[1].src
    BY <1>2, SrcOfSeq
  <2> QED BY <1>1, <2>1, <2>2
<1>3. CASE Len(b) # 1
  <2>1. PICK n \in {FALSE} \cup {o.neg : o \in ToSet(b)} :
          obs = [b[1] EXCEPT !.quote = "median", !.src = Src(b), !.neg = n]
    BY <1>3, Zenon DEF Merge!Merged, Merge!SrcOfAll, Src, Merge!ToSet, ToSet
  <2>2. n \in BOOLEAN
    <3>1. \A o \in ToSet(b) : o \in ObsOf(f)
      BY ElementOfSeq DEF ToSet
    <3> QED BY <3>1 DEF ObsOf
  <2>3. Src(b) \subseteq Nat
    <3>1. b \in Seq(RowOf(f))
      BY RowsInFile
    <3> QED BY <3>1, RowsInFile
  <2>4. b[1].id \in Src(b)
    <3>1. b[1].id \in b[1].src
      BY <1>1 DEF ObsOf, Stands
    <3> QED BY <1>1, <3>1, SrcOfSeq
  <2>5. ASSUME NEW l \in Src(b) PROVE l \in DOMAIN f /\ f[l].date = b[1].date
    <3>1. PICK i \in 1 .. Len(b) : l \in b[i].src
      BY SrcOfSeq, Zenon
    <3>2. b[i] \in ObsOf(f) /\ b[i].date = b[1].date
      BY ElementOfSeq
    <3> QED BY <3>1, <3>2 DEF ObsOf, Stands
  <2>6. /\ obs \in [id : Nat, date : Nat, time : Nat, neg : BOOLEAN, src : SUBSET Nat,
                    quote : {"own", "median"}, spread : BOOLEAN]
        /\ obs.src = Src(b) /\ obs.id = b[1].id /\ obs.date = b[1].date
        /\ obs.time = b[1].time
    BY <1>1, <2>1, <2>2, <2>3 DEF ObsOf
  <2>7. Stands(obs, f)
    BY <2>4, <2>5, <2>6 DEF Stands
  <2> QED BY <2>6, <2>7 DEF ObsOf
<1> QED BY <1>2, <1>3

\* The cells read, deleted and new when a group is merged.
MergedReads(b) == IF Len(b) = 1 THEN {} ELSE UNION {QuoteOf(o) : o \in ToSet(b)}
MergedDeletes(b) == IF Len(b) = 1 THEN {} ELSE QuoteOf(b[1]) \cup CellsOfAll(Tail(b))
MergedNews(b) == IF Len(b) = 1 THEN {} ELSE {Cell(b[1].id, "median")}

\* The operators of the module are those of the pipeline.
LEMMA MergeNames ==
  /\ \A rows : Merge!ToSet(rows) = ToSet(rows) /\ Merge!CellsOfAll(rows) = CellsOfAll(rows)
  /\ \A id, part : Merge!Cell(id, part) = Cell(id, part)
  /\ \A o : /\ Merge!QuoteOf(o) = QuoteOf(o)
            /\ Merge!Compared(o) = KeyOf(o) \cup StampOf(o)
  /\ \A reads, deletes, news :
       Merge!Access(reads, deletes, news) <=> Access(reads, deletes, news)
<1>1. /\ \A rows : Merge!ToSet(rows) = ToSet(rows)
      /\ \A id, part : Merge!Cell(id, part) = Cell(id, part)
  BY DEF Merge!ToSet, ToSet, Merge!Cell, Cell
<1>2. \A o : /\ Merge!QuoteOf(o) = QuoteOf(o) /\ Merge!CellsOf(o) = CellsOf(o)
             /\ Merge!Compared(o) = KeyOf(o) \cup StampOf(o)
  BY <1>1 DEF Merge!QuoteOf, QuoteOf, Merge!CellsOf, CellsOf, Merge!KeyOf, KeyOf,
              Merge!StampOf, StampOf, Merge!SpreadOf, SpreadOf, Merge!Compared
<1>3. \A rows : Merge!CellsOfAll(rows) = CellsOfAll(rows)
  BY <1>1, <1>2 DEF Merge!CellsOfAll, CellsOfAll
<1>4. \A reads, deletes, news :
        Merge!Access(reads, deletes, news) <=> Access(reads, deletes, news)
  BY DEF Merge!Access, Access
<1> QED BY <1>1, <1>2, <1>3, <1>4

\* The group is collected front to back: the last received is its first.
LEMMA LatestApart ==
  ASSUME NEW f \in Files, NEW b \in Seq(ObsOf(f)), b # <<>>, Sorted(Reverse(b))
  PROVE  /\ CellsOfAll(b) = CellsOf(b[1]) \cup CellsOfAll(Tail(b))
         /\ \A c \in CellsOfAll(Tail(b)) : c[1] # b[1].id
<1> DEFINE first == b[1]
           alone == <<b[1]>>
           rest == Tail(b)
           back == Reverse(rest)
<1>1. rest \in Seq(ObsOf(f)) /\ first \in ObsOf(f) /\ b = alone \o rest
      /\ alone \in Seq(ObsOf(f))
  BY HeadAndTail
<1>2. /\ Src(alone) = first.src /\ CellsOfAll(alone) = CellsOf(first)
      /\ first.id \in first.src /\ first.src \subseteq Nat
  BY <1>1, SrcOfFew, CellsOfFew DEF ObsOf, Stands
<1>3. /\ back \in Seq(ObsOf(f)) /\ ToSet(back) = ToSet(rest)
      /\ Reverse(b) = back \o alone
  <2>1. Reverse(b) = Append(back, first)
    BY <1>1, ReverseProperties
  <2>2. back \in Seq(ObsOf(f)) /\ ToSet(back) = ToSet(rest)
    BY <1>1, ReverseProperties
  <2> QED BY <1>1, <2>1, <2>2, AppendIsConcat
<1> HIDE DEF first, rest, back, alone
<1>4. CellsOfAll(b) = CellsOf(first) \cup CellsOfAll(rest)
  BY <1>1, <1>2, CellsOfConcat
<1>5. Before(Src(back), first.src)
  BY <1>1, <1>2, <1>3, SortedConcat
<1>6. CellsOfAll(rest) = CellsOfAll(back)
  BY <1>3 DEF CellsOfAll
<1>7. CellsIn(CellsOfAll(back), Src(back)) /\ Src(back) \subseteq Nat
  <2>1. back \in Seq(RowOf(f))
    BY <1>3, RowsInFile
  <2> QED BY <1>3, <2>1, RowsInFile, CellsOfSrc
<1>8. \A c \in CellsOfAll(rest) : c[1] # first.id
  BY <1>2, <1>5, <1>6, <1>7 DEF CellsIn, Before
<1> QED BY <1>4, <1>8 DEF first, rest, alone

LEMMA MergedMoves ==
  ASSUME NEW f \in Files, NEW b \in Seq(ObsOf(f)), b # <<>>,
         \A i \in 1 .. Len(b) : b[i].date = b[1].date,
         NEW obs \in Merge!Merged(b)
  PROVE  Moves(f, Reverse(b), <<obs>>, {}, MergedReads(b), MergedDeletes(b), MergedNews(b))
<1>1. /\ obs \in ObsOf(f) /\ obs.src = Src(b) /\ obs.id = b[1].id
      /\ <<obs>> \in Seq(ObsOf(f))
  BY MergedRow
<1>2. Src(<<obs>>) = Src(b) /\ CellsOfAll(<<obs>>) = CellsOf(obs) /\ Sorted(<<obs>>)
  BY <1>1, SrcOfFew, CellsOfFew, SortedFew
<1>3. Src(Reverse(b)) = Src(b) /\ CellsOfAll(Reverse(b)) = CellsOfAll(b)
  BY ReverseProperties DEF Src, CellsOfAll
<1>4. ASSUME Sorted(Reverse(b))
      PROVE  /\ MergedReads(b) \cup MergedDeletes(b) \subseteq CellsOfAll(b)
             /\ CellsOf(obs) = (CellsOfAll(b) \ MergedDeletes(b)) \cup MergedNews(b)
  <2>1. /\ CellsOfAll(b) = CellsOf(b[1]) \cup CellsOfAll(Tail(b))
        /\ \A c \in CellsOfAll(Tail(b)) : c[1] # b[1].id
    BY <1>4, LatestApart
  <2>2. CASE Len(b) = 1
    <3>1. obs = b[1] /\ ToSet(b) = {b[1]}
      <4>1. obs = b[1]
        BY <2>2 DEF Merge!Merged
      <4> QED BY <2>2, <4>1, SrcOfSeq
    <3> QED BY <2>2, <3>1 DEF MergedReads, MergedDeletes, MergedNews, CellsOfAll
  <2>3. CASE Len(b) # 1
    <3>1. MergedReads(b) \subseteq CellsOfAll(b)
      BY <2>3 DEF MergedReads, CellsOfAll, CellsOf
    <3>2. MergedDeletes(b) \subseteq CellsOfAll(b)
      BY <2>1, <2>3 DEF MergedDeletes, CellsOf
    <3>3. CellsOf(obs) = (CellsOf(b[1]) \ QuoteOf(b[1])) \cup MergedNews(b)
      <4>1. obs.quote = "median" /\ obs.spread = b[1].spread
        <5>1. b[1] \in ObsOf(f)
          BY HeadAndTail
        <5>2. \E n : obs = [b[1] EXCEPT !.quote = "median", !.src = Merge!SrcOfAll(b), !.neg = n]
          BY <2>3, Zenon DEF Merge!Merged
        <5> QED BY <5>1, <5>2 DEF ObsOf
      <4>2. b[1].quote \in {"own", "median"}
        BY HeadAndTail DEF ObsOf
      <4> QED BY <1>1, <2>3, <4>1, <4>2
              DEF CellsOf, KeyOf, StampOf, QuoteOf, SpreadOf, MergedNews, Cell
    <3>4. CellsOfAll(Tail(b)) \cap CellsOf(b[1]) = {}
      BY <2>1 DEF CellsOf, KeyOf, StampOf, QuoteOf, SpreadOf, Cell
    <3>5. MergedDeletes(b) = QuoteOf(b[1]) \cup CellsOfAll(Tail(b))
      BY <2>3 DEF MergedDeletes
    <3> QED BY <2>1, <3>1, <3>2, <3>3, <3>4, <3>5
  <2> QED BY <2>2, <2>3
<1> QED BY <1>1, <1>2, <1>3, <1>4 DEF Moves

LEMMA MergedAccess ==
  ASSUME NEW b, NEW more
  PROVE  Merge!MergeAccess(b, more)
           => Access(more \cup MergedReads(b), MergedDeletes(b), MergedNews(b))
<1>1. CASE Len(b) = 1
  <2>1. Merge!MergeAccess(b, more) => Access(more, {}, {})
    BY <1>1, MergeNames DEF Merge!MergeAccess, Merge!Reads
  <2>2. /\ more \cup MergedReads(b) = more
        /\ MergedDeletes(b) = {} /\ MergedNews(b) = {}
    BY <1>1 DEF MergedReads, MergedDeletes, MergedNews
  <2> QED BY <2>1, <2>2
<1>2. CASE Len(b) # 1
  BY <1>2, MergeNames DEF Merge!MergeAccess, MergedReads, MergedDeletes, MergedNews
<1> QED BY <1>1, <1>2

\* A step of the merge filter is one that all stages have or one of its handlers.
LEMMA MergeActs ==
  ASSUME Types, MergeControl, MergeThread
  PROVE  \/ /\ Shared(ObsOf(file), ObsOf(file), merge, merge', parsedQueue, parsedQueue',
                      timestampMergedQueue, timestampMergedQueue',
                      Merge!After(Tail(merge.outbox), merge.ending))
            /\ UNCHANGED <<heap, wild, dropped>>
         \/ Merge!Collect \/ Merge!MergeOnChange \/ Merge!MergeAtEnd
<1> DEFINE O == ObsOf(file)
           next == Merge!After(Tail(merge.outbox), merge.ending)
           Common == /\ Shared(O, O, merge, merge', parsedQueue, parsedQueue',
                               timestampMergedQueue, timestampMergedQueue', next)
                     /\ UNCHANGED <<heap, wild, dropped>>
<1> SUFFICES Common \/ Merge!Collect \/ Merge!MergeOnChange \/ Merge!MergeAtEnd
  OBVIOUS
<1>1. /\ merge \in StageOf(O, O) /\ parsedQueue \in QueueOf(O)
      /\ timestampMergedQueue \in QueueOf(O)
      /\ merge.pc \notin {"peek", "clean"}
      /\ merge.pc = "emit" => merge.outbox # <<>>
  BY DEF Types, MergeControl, StageControl
<1> HIDE DEF O, next
<1>2. \A q \in {parsedQueue, timestampMergedQueue} :
        /\ Keeps(O, q, q)
        /\ Keeps(O, q, [q EXCEPT !.missed = TRUE])
        /\ Keeps(O, q, [q EXCEPT !.empty = TRUE, !.missed = FALSE])
        /\ Keeps(O, q, [q EXCEPT !.missed = FALSE])
        /\ Keeps(O, q, [q EXCEPT !.full = TRUE])
        /\ Ends(O, q, [q EXCEPT !.atEnd = TRUE])
        /\ q.items # <<>> => Pops(O, q, [q EXCEPT !.items = Tail(@), !.empty = FALSE])
        /\ \A e \in O : Len(q.items) < MaxCapacity =>
             Pushes(O, q, [q EXCEPT !.items = Append(@, e), !.full = FALSE], e)
  BY <1>1, QueueMoves, Zenon
<1>3. CASE Merge!TryFails
  <2>1. /\ merge.pc \in {"take", "peek"} /\ merge' = merge
        /\ parsedQueue' = [parsedQueue EXCEPT !.missed = TRUE]
        /\ timestampMergedQueue' = timestampMergedQueue
        /\ UNCHANGED <<heap, wild, dropped>>
    BY <1>3 DEF Merge!TryFails, Merge!In!Miss, Merge!Quiet
  <2> QED BY <1>2, <2>1, Zenon DEF Shared
<1>4. CASE Merge!Sleeps
  <2>1. /\ merge.pc \in {"take", "peek"} /\ merge' = merge
        /\ parsedQueue' = [parsedQueue EXCEPT !.empty = TRUE, !.missed = FALSE]
        /\ timestampMergedQueue' = timestampMergedQueue
        /\ UNCHANGED <<heap, wild, dropped>>
    BY <1>4 DEF Merge!Sleeps, Merge!In!Wait, Merge!Quiet
  <2> QED BY <1>2, <2>1, Zenon DEF Shared
<1>5. CASE Merge!Emit
  <2>1. /\ merge.pc = "emit" /\ Len(timestampMergedQueue.items) < MaxCapacity
        /\ merge' = [merge EXCEPT !.outbox = Tail(@), !.pc = next]
        /\ parsedQueue' = parsedQueue
        /\ timestampMergedQueue' = [timestampMergedQueue EXCEPT
                                      !.items = Append(@, Head(merge.outbox)), !.full = FALSE]
        /\ UNCHANGED <<heap, wild, dropped>>
    BY <1>5 DEF Merge!Emit, Merge!Emits, Merge!Out!Enqueue, Merge!Quiet, next
  <2>2. Head(merge.outbox) \in O
    BY <1>1, <2>1, HeadTailProperties DEF StageOf
  <2> QED BY <1>2, <2>1, <2>2, Zenon DEF Shared
<1>6. CASE Merge!EmitBlocks
  <2>1. /\ merge.pc = "emit" /\ merge' = merge
        /\ parsedQueue' = parsedQueue
        /\ timestampMergedQueue' = [timestampMergedQueue EXCEPT !.full = TRUE]
        /\ UNCHANGED <<heap, wild, dropped>>
    BY <1>6 DEF Merge!EmitBlocks, Merge!Out!EnqueueBlocked, Merge!Quiet
  <2> QED BY <1>2, <2>1, Zenon DEF Shared
<1>7. CASE Merge!Closes
  <2>1. /\ merge.pc = "close" /\ merge' = [merge EXCEPT !.pc = "done"]
        /\ parsedQueue' = parsedQueue
        /\ timestampMergedQueue' = [timestampMergedQueue EXCEPT !.atEnd = TRUE]
        /\ UNCHANGED <<heap, wild, dropped>>
    BY <1>7, Zenon DEF Merge!Closes, Merge!Out!SetQueueEnd, Merge!NoHeapUse
  <2> QED BY <1>2, <2>1, Zenon DEF Shared
<1>8. CASE Merge!Fail
  <2>1. /\ timestampMergedQueue' = [timestampMergedQueue EXCEPT !.atEnd = TRUE]
        /\ UNCHANGED <<heap, wild, dropped>>
        /\ \/ /\ merge.pc = "take" /\ parsedQueue.items # <<>>
              /\ parsedQueue' = [parsedQueue EXCEPT !.items = Tail(@), !.empty = FALSE]
              /\ merge' = [merge EXCEPT !.pc = "failed", !.hand = <<Head(parsedQueue.items)>>]
           \/ /\ merge.pc \in {"take", "peek"}
              /\ \/ parsedQueue' = parsedQueue
                 \/ parsedQueue' = [parsedQueue EXCEPT !.missed = FALSE]
              /\ merge' = [merge EXCEPT !.pc = "failed"]
    BY <1>8 DEF Merge!Fail, Merge!RaisesAndCloses, Merge!Raises, Merge!Out!SetQueueEnd,
                Merge!Quiet, Merge!In!Dequeue, Merge!In!CanTake, Merge!In!Front,
                Merge!EndsInput, Merge!In!ThrowEnd
  <2> QED BY <1>2, <2>1, Zenon DEF Shared
<1> QED BY <1>3, <1>4, <1>5, <1>6, <1>7, <1>8 DEF MergeThread, Merge!Step

\* Control and types of the other threads, whatever the merge filter does.
LEMMA MergeNeighbours ==
  ASSUME Types, Control, MergeThread,
         StepFits(ObsOf(file), ObsOf(file), merge, merge', parsedQueue, parsedQueue',
                  timestampMergedQueue, timestampMergedQueue'),
         dropped' = dropped,
         merge'.pc \notin {"peek", "clean"},
         merge'.ending => merge'.buffer = <<>>,
         \A i \in 1 .. Len(merge'.buffer) : merge'.buffer[i].date = merge'.buffer[1].date
  PROVE  Types' /\ Control'
<1>1. UNCHANGED <<file, parser, outliers, relSpread, daySpread, writer, written,
                  outliersFilteredQueue, relSpreadQueue, dayRelSpreadQueue, dropped, main>>
  BY DEF MergeThread
<1>2. Types'
  BY <1>1 DEF Types, StepFits
<1>3. MergeControl'
  BY DEF MergeControl, StepFits
<1>4. ParserControl' /\ OutliersControl' /\ RelSpreadControl' /\ DaySpreadControl'
  BY <1>1 DEF Control, ParserControl, OutliersControl, RelSpreadControl, DaySpreadControl,
              StageControl, StepFits
<1>5. WriterControl'
  <2>1. main # "returned"
    BY DEF Control, WriterControl, StepFits, Stages, PcOf
  <2> QED BY <1>1, <2>1 DEF Control, WriterControl
<1> QED BY <1>2, <1>3, <1>4, <1>5 DEF Control

\* No two neighbours have one date and time.
StampsDiffer(rows) == \A i \in 1 .. Len(rows) - 1 :
                        rows[i].date # rows[i + 1].date \/ rows[i].time # rows[i + 1].time

LEMMA StampsOfConcat ==
  ASSUME NEW S, NEW s \in Seq(S), NEW t \in Seq(S)
  PROVE  StampsDiffer(s \o t) <=>
           /\ StampsDiffer(s) /\ StampsDiffer(t)
           /\ s # <<>> /\ t # <<>> =>
                Last(s).date # t[1].date \/ Last(s).time # t[1].time
<1> DEFINE u == s \o t
<1>1. /\ u \in Seq(S) /\ Len(u) = Len(s) + Len(t)
      /\ Len(s) \in Nat /\ Len(t) \in Nat
      /\ \A i \in 1 .. Len(s) : u[i] = s[i]
      /\ \A i \in 1 .. Len(t) : u[Len(s) + i] = t[i]
      /\ s # <<>> <=> Len(s) > 0
      /\ t # <<>> <=> Len(t) > 0
      /\ Last(s) = s[Len(s)]
  BY ConcatProperties, LenProperties, EmptySeq DEF Last
<1> HIDE DEF u
<1>2. ASSUME StampsDiffer(u), NEW i \in 1 .. Len(s) - 1
      PROVE  s[i].date # s[i + 1].date \/ s[i].time # s[i + 1].time
  <2>1. i \in 1 .. Len(u) - 1 /\ u[i] = s[i] /\ u[i + 1] = s[i + 1]
    BY <1>1
  <2> QED BY <1>2, <2>1 DEF StampsDiffer
<1>3. ASSUME StampsDiffer(u), NEW i \in 1 .. Len(t) - 1
      PROVE  t[i].date # t[i + 1].date \/ t[i].time # t[i + 1].time
  <2>1. /\ Len(s) + i \in 1 .. Len(u) - 1 /\ i \in 1 .. Len(t) /\ i + 1 \in 1 .. Len(t)
        /\ Len(s) + (i + 1) = (Len(s) + i) + 1
    BY <1>1
  <2>2. u[Len(s) + i] = t[i] /\ u[(Len(s) + i) + 1] = t[i + 1]
    BY <1>1, <2>1
  <2> QED BY <1>3, <2>1, <2>2 DEF StampsDiffer
<1>4. ASSUME StampsDiffer(u), s # <<>>, t # <<>>
      PROVE  Last(s).date # t[1].date \/ Last(s).time # t[1].time
  <2>1. Len(s) \in 1 .. Len(u) - 1 /\ Len(s) \in 1 .. Len(s) /\ 1 \in 1 .. Len(t)
    BY <1>1, <1>4
  <2>2. u[Len(s)] = Last(s) /\ u[Len(s) + 1] = t[1]
    BY <1>1, <2>1
  <2> QED BY <1>4, <2>1, <2>2 DEF StampsDiffer
<1>5. ASSUME StampsDiffer(s), StampsDiffer(t),
             s # <<>> /\ t # <<>> =>
               Last(s).date # t[1].date \/ Last(s).time # t[1].time,
             NEW i \in 1 .. Len(u) - 1
      PROVE  u[i].date # u[i + 1].date \/ u[i].time # u[i + 1].time
  <2>1. CASE i < Len(s)
    <3>1. i \in 1 .. Len(s) - 1 /\ u[i] = s[i] /\ u[i + 1] = s[i + 1]
      BY <1>1, <2>1
    <3> QED BY <1>5, <3>1 DEF StampsDiffer
  <2>2. CASE i = Len(s)
    <3>1. s # <<>> /\ t # <<>> /\ i \in 1 .. Len(s) /\ 1 \in 1 .. Len(t)
      BY <1>1, <2>2
    <3>2. u[i] = Last(s) /\ u[i + 1] = t[1]
      BY <1>1, <2>2, <3>1
    <3> QED BY <1>5, <3>1, <3>2
  <2>3. CASE i > Len(s)
    <3> DEFINE k == i - Len(s)
    <3>1. /\ k \in 1 .. Len(t) - 1 /\ k \in 1 .. Len(t) /\ k + 1 \in 1 .. Len(t)
          /\ i = Len(s) + k /\ i + 1 = Len(s) + (k + 1)
      BY <1>1, <2>3
    <3> HIDE DEF k
    <3>2. u[i] = t[k] /\ u[i + 1] = t[k + 1]
      BY <1>1, <3>1
    <3> QED BY <1>5, <3>1, <3>2 DEF StampsDiffer
  <2> QED BY <1>1, <2>1, <2>2, <2>3
<1>6. StampsDiffer(u) => StampsDiffer(s) /\ StampsDiffer(t)
  BY <1>2, <1>3 DEF StampsDiffer
<1>7. StampsDiffer(s) /\ StampsDiffer(t)
        /\ (s # <<>> /\ t # <<>> => Last(s).date # t[1].date \/ Last(s).time # t[1].time)
      => StampsDiffer(u)
  BY <1>5 DEF StampsDiffer
<1> QED BY <1>4, <1>6, <1>7 DEF u

LEMMA StampsOfOne == ASSUME NEW r PROVE StampsDiffer(<<>>) /\ StampsDiffer(<<r>>)
BY DEF StampsDiffer

\* One row at the end.
LEMMA StampsAppended ==
  ASSUME NEW S, NEW s \in Seq(S), NEW r \in S
  PROVE  /\ StampsDiffer(s \o <<r>>) <=>
              /\ StampsDiffer(s)
              /\ s # <<>> => Last(s).date # r.date \/ Last(s).time # r.time
         /\ s \o <<r>> \in Seq(S) /\ s \o <<r>> # <<>> /\ Last(s \o <<r>>) = r
<1> DEFINE t == <<r>>
<1>1. t \in Seq(S) /\ t # <<>> /\ t[1] = r /\ StampsDiffer(t) /\ Len(t) = 1
  BY StampsOfOne
<1> HIDE DEF t
<1>2. StampsDiffer(s \o t) <=> /\ StampsDiffer(s)
                               /\ s # <<>> => Last(s).date # r.date \/ Last(s).time # r.time
  BY <1>1, StampsOfConcat
<1>3. s \o t \in Seq(S) /\ Len(s \o t) = Len(s) + 1 /\ (s \o t)[Len(s) + 1] = r
  BY <1>1, ConcatProperties
<1>4. s \o t # <<>>
  BY <1>3, LenProperties
<1>5. Last(s \o t) = r
  BY <1>3 DEF Last
<1> QED BY <1>2, <1>3, <1>4, <1>5 DEF t

\* The rows of a queue and of the outbox before it, when one is enqueued.
Passed(x, q, o) == x \o Append(q, Head(o)) \o Tail(o) = x \o q \o o

LEMMA Passes ==
  ASSUME NEW S, NEW x \in Seq(S), NEW q \in Seq(S), NEW o \in Seq(S), o # <<>>
  PROVE  Passed(x, q, o)
<1> DEFINE a == Append(q, Head(o))
           t == Tail(o)
<1>1. Cat(a, t) = Cat(q, o) /\ a \in Seq(S) /\ t \in Seq(S)
  BY Shift, HeadAndTail DEF Cat
<1> HIDE DEF a, t
<1>2. Cat(Cat(x, a), t) = Cat(x, Cat(a, t)) /\ Cat(Cat(x, q), o) = Cat(x, Cat(q, o))
  BY <1>1, CatFacts
<1> QED BY <1>1, <1>2 DEF a, t, Cat, Passed

\* The two ends of a stage in a step that all stages have.
SharedAtEnds(st, st1, in, in1, out, out1) ==
  /\ \/ out1.items = out.items /\ st1.outbox = st.outbox
     \/ /\ st.outbox # <<>> /\ st1.outbox = Tail(st.outbox)
        /\ out1.items = Append(out.items, Head(st.outbox))
  /\ \/ in1.items = in.items /\ st1.hand = st.hand
     \/ /\ in.items # <<>> /\ in1.items = Tail(in.items)
        /\ st.hand = <<>> /\ st1.hand = <<Head(in.items)>>

LEMMA SharedEnds ==
  ASSUME NEW A, NEW B, NEW st \in StageOf(A, B), NEW st1, NEW in, NEW in1,
         NEW out, NEW out1, NEW next,
         StageControl(st, in, out),
         Shared(A, B, st, st1, in, in1, out, out1, next)
  PROVE  SharedAtEnds(st, st1, in, in1, out, out1)
<1> USE DEF StageOf, SharedAtEnds
<1>1. CASE /\ st.pc \in {"take", "peek", "emit"} /\ st1 = st
           /\ Keeps(A, in, in1) /\ Keeps(B, out, out1)
  BY <1>1 DEF Keeps
<1>2. CASE /\ st.pc = "emit" /\ st1 = [st EXCEPT !.outbox = Tail(@), !.pc = next]
           /\ in1 = in /\ Pushes(B, out, out1, Head(st.outbox))
  BY <1>2 DEF StageControl, Pushes
<1>3. CASE /\ st.pc = "close" /\ st1 = [st EXCEPT !.pc = "done"]
           /\ in1 = in /\ Ends(B, out, out1)
  BY <1>3 DEF Ends
<1>4. CASE /\ st.pc = "take" /\ st1 = [st EXCEPT !.pc = "failed", !.hand = <<Head(in.items)>>]
           /\ Pops(A, in, in1) /\ (out1 = out \/ Ends(B, out, out1))
  BY <1>4 DEF StageControl, Pops, Ends
<1>5. CASE /\ st.pc \in {"take", "peek"} /\ st1 = [st EXCEPT !.pc = "failed"]
           /\ Keeps(A, in, in1) /\ (out1 = out \/ Ends(B, out, out1))
  BY <1>5 DEF Ends, Keeps
<1> QED BY <1>1, <1>2, <1>3, <1>4, <1>5 DEF Shared

\* The stamps, with the merge filter's part set apart.
FirstOf(buffer) == IF buffer = <<>> THEN <<>> ELSE <<buffer[1]>>

StampedParts ==
  LET x == outliers.buffer \o outliers.hand
  IN /\ Stamped = x \o timestampMergedQueue.items \o merge.outbox \o FirstOf(merge.buffer)
     /\ StampsMerged <=> StampsDiffer(Stamped)
     /\ x \in Seq(ObsOf(file)) /\ x \o timestampMergedQueue.items \in Seq(ObsOf(file))
     /\ x \o timestampMergedQueue.items \o merge.outbox \in Seq(ObsOf(file))
     /\ timestampMergedQueue.items \in Seq(ObsOf(file)) /\ merge.outbox \in Seq(ObsOf(file))
     /\ FirstOf(merge.buffer) \in Seq(ObsOf(file))

LEMMA StampedRows == Types => StampedParts
<1> SUFFICES ASSUME Types PROVE StampedParts
  OBVIOUS
<1>1. /\ outliers.buffer \in Seq(ObsOf(file)) /\ outliers.hand \in Seq(ObsOf(file))
      /\ timestampMergedQueue.items \in Seq(ObsOf(file))
      /\ merge.outbox \in Seq(ObsOf(file)) /\ merge.buffer \in Seq(ObsOf(file))
  BY DEF Types, StageOf, QueueOf
<1> DEFINE x == Cat(outliers.buffer, outliers.hand)
<1>2. x \in Seq(ObsOf(file))
  BY <1>1, CatFacts
<1> HIDE DEF x
<1>3. /\ Cat(x, timestampMergedQueue.items) \in Seq(ObsOf(file))
      /\ Cat(Cat(x, timestampMergedQueue.items), merge.outbox) \in Seq(ObsOf(file))
  BY <1>1, <1>2, CatFacts
<1>4. FirstOf(merge.buffer) \in Seq(ObsOf(file))
  BY <1>1, HeadAndTail DEF FirstOf
<1>5. Stamped = (outliers.buffer \o outliers.hand) \o timestampMergedQueue.items
                \o merge.outbox \o FirstOf(merge.buffer)
  BY DEF Stamped, FirstOf
<1>6. StampsMerged <=> StampsDiffer(Stamped)
  BY DEF StampsMerged, StampsDiffer
<1> QED BY <1>1, <1>2, <1>3, <1>4, <1>5, <1>6 DEF x, Cat, StampedParts

\* The merge filter waits, enqueues, closes its output or fails.
LEMMA MergeIdles ==
  ASSUME PipelineInv, MergeThread,
         Shared(ObsOf(file), ObsOf(file), merge, merge', parsedQueue, parsedQueue',
                timestampMergedQueue, timestampMergedQueue',
                Merge!After(Tail(merge.outbox), merge.ending)),
         UNCHANGED <<heap, wild, dropped>>
  PROVE  Types' /\ Control' /\ Ordered' /\ HeapExact' /\ StampsApart'
<1> DEFINE O == ObsOf(file)
           next == Merge!After(Tail(merge.outbox), merge.ending)
<1>1. /\ merge \in StageOf(O, O) /\ parsedQueue \in QueueOf(O)
      /\ timestampMergedQueue \in QueueOf(O)
      /\ StageControl(merge, parsedQueue, timestampMergedQueue)
  BY DEF PipelineInv, Types, Control, MergeControl
<1>b. /\ merge.pc \notin {"peek", "clean"}
      /\ merge.ending => merge.buffer = <<>>
      /\ \A i \in 1 .. Len(merge.buffer) : merge.buffer[i].date = merge.buffer[1].date
  BY DEF PipelineInv, Control, MergeControl
<1>2. merge.pc = "emit" =>
        /\ next \in {"take", "emit", "clean", "close"}
        /\ next = "emit" <=> Tail(merge.outbox) # <<>>
        /\ next = "take" => ~merge.ending
        /\ next = "close" => merge.buffer = <<>>
  BY <1>b DEF Merge!After
<1>c. next \notin {"peek", "clean"}
  BY DEF Merge!After
<1>3. merge'.pc \in {merge.pc, next, "done", "failed"}
  BY <1>1 DEF Shared, StageOf
<1>a. Shared(O, O, merge, merge', parsedQueue, parsedQueue', timestampMergedQueue,
             timestampMergedQueue', next)
  OBVIOUS
<1> HIDE DEF O, next
<1>d. /\ StepFits(O, O, merge, merge', parsedQueue, parsedQueue',
                  timestampMergedQueue, timestampMergedQueue')
      /\ KeepsBuffer(merge, merge')
  BY <1>1, <1>2, <1>a, SharedFits
<1>4. /\ StepFits(O, O, merge, merge', parsedQueue, parsedQueue',
                  timestampMergedQueue, timestampMergedQueue')
      /\ merge'.buffer = merge.buffer /\ merge'.ending = merge.ending
  BY <1>d DEF KeepsBuffer
<1>5. Types' /\ Control'
  <2>1. /\ merge'.pc \notin {"peek", "clean"}
        /\ merge'.ending => merge'.buffer = <<>>
        /\ \A i \in 1 .. Len(merge'.buffer) : merge'.buffer[i].date = merge'.buffer[1].date
    BY <1>3, <1>4, <1>b, <1>c
  <2> QED BY <1>4, <2>1, MergeNeighbours DEF PipelineInv, O
<1>6. UNCHANGED <<file, parser, outliers, relSpread, daySpread, written,
                  outliersFilteredQueue, relSpreadQueue, dayRelSpreadQueue, dropped>>
  BY DEF MergeThread
<1>7. MergeRows' = MergeRows
  <2>1. /\ parsedQueue.items \in Seq(O) /\ timestampMergedQueue.items \in Seq(O)
        /\ merge.outbox \in Seq(O) /\ merge.hand \in Seq(O) /\ merge.buffer \in Seq(O)
    BY <1>1 DEF StageOf, QueueOf
  <2>2. Reverse(merge.buffer) \in Seq(O)
    BY <2>1, ReverseProperties
  <2> DEFINE back == Reverse(merge.buffer)
  <2> HIDE DEF back
  <2>3. back \in Seq(O)
    BY <2>2 DEF back
  <2>4. SameRows(merge, merge', parsedQueue, parsedQueue', timestampMergedQueue,
                 timestampMergedQueue', back)
    BY <1>1, <1>a, <2>1, <2>3, SharedRows
  <2>5. Reverse(merge.buffer)' = back
    BY <1>4 DEF back
  <2> QED BY <2>4, <2>5 DEF MergeRows, SameRows, back
<1>8. Ordered' /\ HeapExact'
  <2>1. Moves(file, MergeRows, MergeRows', {}, {}, {}, {})
    <3>1. MergeRows \in Seq(ObsOf(file))
      BY PartsOf DEF Parts, PipelineInv
    <3> QED BY <1>7, <3>1, StayingMoves
  <2>2. Access({}, {}, {})
    BY DEF Access, PipelineInv, HeapExact
  <2> QED BY <1>5, <1>6, <2>1, <2>2, MergeFrame DEF PipelineInv
<1>9. StampsApart'
  <2> DEFINE x == outliers.buffer \o outliers.hand
             q == timestampMergedQueue.items
             o == merge.outbox
             first == FirstOf(merge.buffer)
  <2>1. StampedParts /\ StampedParts'
    BY <1>5, StampedRows, PTL DEF PipelineInv
  <2>2. /\ Stamped = x \o q \o o \o first
        /\ x \in Seq(O) /\ q \in Seq(O) /\ o \in Seq(O)
        /\ Stamped' = x \o timestampMergedQueue'.items \o merge'.outbox \o first
    BY <1>4, <1>6, <2>1 DEF StampedParts, O
  <2> HIDE DEF x, first
  <2>3. \/ /\ timestampMergedQueue'.items = q /\ merge'.outbox = o
        \/ /\ o # <<>> /\ merge'.outbox = Tail(o)
           /\ timestampMergedQueue'.items = Append(q, Head(o))
    <3>1. SharedAtEnds(merge, merge', parsedQueue, parsedQueue', timestampMergedQueue,
                       timestampMergedQueue')
      BY <1>1, <1>a, SharedEnds
    <3> QED BY <3>1 DEF SharedAtEnds
  <2> HIDE DEF q, o
  <2>4. x \o timestampMergedQueue'.items \o merge'.outbox = x \o q \o o
    <3>1. o # <<>> => Passed(x, q, o)
      BY <2>2, Passes
    <3> QED BY <2>3, <3>1 DEF Passed
  <2>5. Stamped' = Stamped
    BY <2>2, <2>4
  <2>6. StampsMerged'
    BY <2>5 DEF PipelineInv, StampsApart, StampsMerged
  <2>7. merge.buffer = <<>> /\ ~merge.ending =>
          /\ outliers.buffer = <<>> /\ outliers.hand = <<>>
          /\ timestampMergedQueue'.items = <<>> /\ merge'.outbox = <<>>
    BY <2>3 DEF PipelineInv, StampsApart, q, o
  <2> QED BY <1>4, <1>6, <2>6, <2>7 DEF StampsApart
<1> QED BY <1>5, <1>8, <1>9

\* The merge filter adds an observation to its group.
LEMMA MergeCollects ==
  ASSUME PipelineInv, MergeThread, Merge!Collect
  PROVE  Types' /\ Control' /\ Ordered' /\ HeapExact' /\ StampsApart'
<1> DEFINE O == ObsOf(file)
           in == parsedQueue.items
           b == merge.buffer
           obs == Head(in)
           back == Reverse(b)
           reads == IF b = <<>> THEN {} ELSE Merge!Compared(obs) \cup Merge!Compared(b[1])
<1>1. /\ merge \in StageOf(O, O) /\ parsedQueue \in QueueOf(O)
      /\ timestampMergedQueue \in QueueOf(O)
      /\ StageControl(merge, parsedQueue, timestampMergedQueue)
      /\ \A i \in 1 .. Len(b) : b[i].date = b[1].date
      /\ file \in Files
  BY DEF PipelineInv, Types, Control, MergeControl
<1>2. /\ merge.pc = "take" /\ in # <<>>
      /\ parsedQueue' = [parsedQueue EXCEPT !.items = Tail(@), !.empty = FALSE]
      /\ merge' = [merge EXCEPT !.buffer = <<obs>> \o @]
      /\ b # <<>> => obs.date = b[1].date /\ obs.time = b[1].time
      /\ timestampMergedQueue' = timestampMergedQueue /\ dropped' = dropped
  BY DEF Merge!Collect, Merge!Takes, Merge!SameStamp, Merge!In!Dequeue, Merge!In!CanTake,
         Merge!In!Front
<1>3. Access(reads, {}, {})
  BY MergeNames DEF Merge!Collect, Merge!Reads, Merge!In!Front
<1>4. UNCHANGED <<file, parser, outliers, relSpread, daySpread, written,
                  outliersFilteredQueue, relSpreadQueue, dayRelSpreadQueue, dropped>>
  BY <1>2 DEF MergeThread
<1>5. /\ b \in Seq(O) /\ in \in Seq(O) /\ obs \in O /\ obs = in[1]
      /\ <<obs>> \o b \in Seq(O) /\ <<obs>> \o b # <<>> /\ (<<obs>> \o b)[1] = obs
      /\ Len(<<obs>> \o b) = Len(b) + 1 /\ Len(b) \in Nat
      /\ \A i \in 2 .. Len(b) + 1 : (<<obs>> \o b)[i] = b[i - 1]
      /\ merge.outbox = <<>> /\ merge.hand = <<>> /\ ~merge.ending
  <2>1. b \in Seq(O) /\ in \in Seq(O) /\ merge.outbox = <<>> /\ merge.hand = <<>> /\ ~merge.ending
    BY <1>1, <1>2 DEF StageOf, QueueOf, StageControl
  <2> HIDE DEF O, b, in
  <2>2. obs \in O /\ obs = in[1] /\ <<obs>> \in Seq(O) /\ Len(<<obs>>) = 1
    BY <1>2, <2>1, HeadAndTail
  <2> HIDE DEF obs
  <2>3. /\ <<obs>> \o b \in Seq(O) /\ Len(<<obs>> \o b) = Len(b) + 1 /\ Len(b) \in Nat
        /\ \A i \in 1 .. Len(b) + 1 : (<<obs>> \o b)[i] = IF i <= 1 THEN obs ELSE b[i - 1]
    BY <2>1, <2>2, ConcatProperties
  <2> QED BY <2>1, <2>2, <2>3
<1>6. /\ merge'.buffer = <<obs>> \o b /\ merge'.pc = "take" /\ merge'.outbox = <<>>
      /\ merge'.hand = <<>> /\ ~merge'.ending /\ merge' \in StageOf(O, O)
  BY <1>1, <1>2, <1>5 DEF StageOf
<1>7. StepFits(O, O, merge, merge', parsedQueue, parsedQueue',
               timestampMergedQueue, timestampMergedQueue')
  <2>1. Pops(O, parsedQueue, parsedQueue')
    BY <1>1, <1>2, QueueMoves, Zenon
  <2> QED BY <1>1, <1>2, <1>6, <2>1 DEF StepFits, Pops, StageControl, Over
<1>8. \A i \in 1 .. Len(merge'.buffer) : merge'.buffer[i].date = merge'.buffer[1].date
  <2> SUFFICES ASSUME NEW i \in 1 .. Len(b) + 1, b # <<>>, i \in 2 .. Len(b) + 1
               PROVE  (<<obs>> \o b)[i].date = obs.date
    BY <1>5, <1>6
  <2>1. i - 1 \in 1 .. Len(b) /\ (<<obs>> \o b)[i] = b[i - 1]
    BY <1>5
  <2> QED BY <1>1, <1>2, <2>1
<1>9. Types' /\ Control'
  BY <1>2, <1>6, <1>7, <1>8, MergeNeighbours DEF PipelineInv
<1>10. MergeRows' = MergeRows
  <2> DEFINE out == timestampMergedQueue.items
  <2>1. back \in Seq(O) /\ Reverse(<<obs>> \o b) = Append(back, obs) /\ out \in Seq(O)
    BY <1>1, <1>5, ReverseProperties DEF QueueOf
  <2>2. MergeRows' = Between(out, <<>>, Append(back, obs), <<>>, Tail(in))
    <3>1. Reverse(merge.buffer)' = Append(back, obs) /\ parsedQueue'.items = Tail(in)
      BY <1>1, <1>2, <1>6, <2>1 DEF QueueOf
    <3> QED BY <1>2, <1>6, <3>1 DEF MergeRows
  <2>3. MergeRows = Between(out, <<>>, back, <<>>, in)
    BY <1>5 DEF MergeRows
  <2> HIDE DEF out, back, in, O
  <2>4. Between(out, <<>>, Append(back, obs), <<>>, Tail(in)) = Between(out, <<>>, back, <<>>, in)
    <3>1. Taking(out, <<>>, back, in)
      <4>1. <<>> \in Seq(O) /\ in \in Seq(O) /\ in # <<>>
        BY <1>2, <1>5
      <4> QED BY <2>1, <4>1, BetweenTake
    <3> QED BY <1>5, <3>1 DEF Taking, obs
  <2> QED BY <2>2, <2>3, <2>4
<1>11. reads \subseteq CellsOfAll(MergeRows)
  <2> DEFINE out == timestampMergedQueue.items
  <2>1. back \in Seq(O) /\ out \in Seq(O) /\ CellsOfAll(back) = CellsOfAll(b)
    BY <1>1, <1>5, ReverseProperties DEF QueueOf, CellsOfAll
  <2>2. MergeRows = out \o back \o in
    <3>1. MergeRows = Between(out, <<>>, back, <<>>, in)
      BY <1>5 DEF MergeRows
    <3> HIDE DEF out, back, in, O
    <3>2. CoreBetween(out, back, in)
      BY <1>5, <2>1, BetweenCore
    <3> QED BY <3>1, <3>2 DEF CoreBetween
  <2>3. /\ CellsOf(obs) \subseteq CellsOfAll(in)
        /\ b # <<>> => CellsOf(b[1]) \subseteq CellsOfAll(b)
    BY <1>2, <1>5, CellsOfMembers
  <2> HIDE DEF out, back, in, O, b, obs
  <2>4. CellsOfAll(MergeRows) = CellsOfAll(out) \cup CellsOfAll(back) \cup CellsOfAll(in)
    BY <1>5, <2>1, <2>2, CellsBetween
  <2> QED BY <2>1, <2>3, <2>4, MergeNames DEF CellsOf
<1>12. Ordered' /\ HeapExact'
  <2>1. Moves(file, MergeRows, MergeRows', {}, reads, {}, {})
    <3>1. MergeRows \in Seq(ObsOf(file))
      BY PartsOf DEF Parts, PipelineInv
    <3> HIDE DEF reads
    <3> QED BY <1>10, <1>11, <3>1, StayingMoves
  <2> HIDE DEF reads
  <2> QED BY <1>3, <1>4, <1>9, <2>1, MergeFrame DEF PipelineInv
<1>13. StampsApart'
  <2> DEFINE x == outliers.buffer \o outliers.hand
             rows == x \o timestampMergedQueue.items \o merge.outbox
  <2>1. StampedParts /\ StampedParts'
    BY <1>9, StampedRows, PTL DEF PipelineInv
  <2>2. Stamped = rows \o FirstOf(b) /\ rows \in Seq(O) /\ StampsDiffer(Stamped)
    BY <2>1 DEF StampedParts, PipelineInv, StampsApart
  <2>3. Stamped' = rows \o <<obs>> /\ (StampsMerged' <=> StampsDiffer(Stamped'))
    <3>1. FirstOf(merge.buffer)' = <<obs>>
      BY <1>5, <1>6 DEF FirstOf
    <3> QED BY <1>2, <1>4, <1>5, <1>6, <2>1, <3>1 DEF StampedParts
  <2>4. b = <<>> => rows = <<>>
    <3>1. b = <<>> => x = <<>> \o <<>> /\ timestampMergedQueue.items = <<>>
      BY <1>5 DEF PipelineInv, StampsApart
    <3> QED BY <1>5, <3>1
  <2> HIDE DEF rows, b, obs, O
  <2>5. StampsDiffer(rows \o <<obs>>)
    <3>1. CASE b = <<>>
      BY <1>5, <2>2, <2>4, <3>1, StampsAppended, StampsOfOne
    <3>2. CASE b # <<>>
      <4>1. FirstOf(b) = <<b[1]>> /\ b[1] \in O
        BY <1>5, <3>2, HeadAndTail DEF FirstOf
      <4>2. StampsDiffer(rows) /\ (rows # <<>> => Last(rows).date # b[1].date
                                                  \/ Last(rows).time # b[1].time)
        BY <2>2, <4>1, StampsAppended
      <4>3. rows # <<>> => Last(rows).date # obs.date \/ Last(rows).time # obs.time
        BY <1>2, <3>2, <4>2 DEF b, obs
      <4> QED BY <1>5, <2>2, <4>2, <4>3, StampsAppended
    <3> QED BY <3>1, <3>2
  <2>7. StampsMerged'
    BY <2>3, <2>5
  <2> QED BY <1>5, <1>6, <2>7 DEF StampsApart
<1> QED BY <1>9, <1>12, <1>13

\* The merge filter makes one observation of its group: another follows (next has it), or
\* the input has ended.
LEMMA MergeEnqueues ==
  ASSUME PipelineInv, MergeThread, merge.pc = "take", merge.buffer # <<>>,
         NEW obs \in Merge!Merged(merge.buffer), NEW next, NEW ending \in BOOLEAN, NEW reads,
         merge' = [merge EXCEPT !.pc = "emit", !.outbox = <<obs>>, !.buffer = next,
                                !.ending = ending],
         \/ /\ ~ending /\ Pops(ObsOf(file), parsedQueue, parsedQueue')
            /\ next = <<Head(parsedQueue.items)>>
            /\ \/ Head(parsedQueue.items).date # merge.buffer[1].date
               \/ Head(parsedQueue.items).time # merge.buffer[1].time
         \/ /\ ending /\ Keeps(ObsOf(file), parsedQueue, parsedQueue')
            /\ parsedQueue.atEnd /\ next = <<>>,
         timestampMergedQueue' = timestampMergedQueue, dropped' = dropped,
         Merge!MergeAccess(merge.buffer, reads),
         reads \subseteq CellsOfAll(merge.buffer) \cup CellsOfAll(parsedQueue.items)
  PROVE  Types' /\ Control' /\ Ordered' /\ HeapExact' /\ StampsApart'
<1> DEFINE O == ObsOf(file)
           in == parsedQueue.items
           b == merge.buffer
           out == timestampMergedQueue.items
           back == Reverse(b)
           core == <<obs>>
<1>1. /\ merge \in StageOf(O, O) /\ parsedQueue \in QueueOf(O)
      /\ timestampMergedQueue \in QueueOf(O)
      /\ StageControl(merge, parsedQueue, timestampMergedQueue)
      /\ \A i \in 1 .. Len(b) : b[i].date = b[1].date
      /\ file \in Files
  BY DEF PipelineInv, Types, Control, MergeControl
<1>2. UNCHANGED <<file, parser, outliers, relSpread, daySpread, written,
                  outliersFilteredQueue, relSpreadQueue, dayRelSpreadQueue, dropped>>
  BY DEF MergeThread
<1>3. /\ b \in Seq(O) /\ in \in Seq(O) /\ out \in Seq(O) /\ back \in Seq(O)
      /\ CellsOfAll(back) = CellsOfAll(b)
      /\ merge.outbox = <<>> /\ merge.hand = <<>>
  <2>1. /\ b \in Seq(O) /\ in \in Seq(O) /\ out \in Seq(O)
        /\ merge.outbox = <<>> /\ merge.hand = <<>>
    BY <1>1 DEF StageOf, QueueOf, StageControl
  <2> HIDE DEF O, b, in
  <2>2. back \in Seq(O) /\ CellsOfAll(back) = CellsOfAll(b)
    BY <2>1, ReverseProperties DEF CellsOfAll
  <2> QED BY <2>1, <2>2
<1>4. /\ obs \in O /\ obs.date = b[1].date /\ obs.time = b[1].time
      /\ core \in Seq(O) /\ core # <<>>
  <2>1. obs \in O /\ obs.date = b[1].date /\ obs.time = b[1].time
    <3> HIDE DEF b
    <3> QED BY <1>1, <1>3, MergedRow DEF b
  <2> QED BY <2>1
<1>5. next \in Seq(O) /\ Reverse(next) = next
      /\ \A i \in 1 .. Len(next) : next[i].date = next[1].date
  <2>1. CASE next = <<Head(in)>> /\ in # <<>>
    <3>1. <<Head(in)>> \in Seq(O)
      BY <1>3, <2>1, HeadAndTail
    <3>2. Reverse(<<Head(in)>>) = <<Head(in)>>
      BY DEF Reverse
    <3> QED BY <2>1, <3>1, <3>2
  <2>2. CASE next = <<>>
    BY <2>2 DEF Reverse
  <2> QED BY <2>1, <2>2 DEF Pops
<1>6. /\ merge'.buffer = next /\ merge'.pc = "emit" /\ merge'.outbox = core
      /\ merge'.hand = <<>> /\ merge'.ending = ending /\ merge' \in StageOf(O, O)
  BY <1>1, <1>3, <1>4, <1>5 DEF StageOf
<1>7. StepFits(O, O, merge, merge', parsedQueue, parsedQueue',
               timestampMergedQueue, timestampMergedQueue')
  BY <1>1, <1>4, <1>6 DEF StepFits, Pops, Keeps, StageControl, Over
<1>8. Types' /\ Control'
  BY <1>5, <1>6, <1>7, MergeNeighbours DEF PipelineInv
<1>9. CoreBetween(out, back, in) /\ CoreBetween(out, core, in)
  <2> HIDE DEF out, back, core, in, O
  <2> QED BY <1>3, <1>4, BetweenCore
<1>10. MergeRows = out \o back \o in
  BY <1>3, <1>9 DEF MergeRows, CoreBetween
<1>11. MergeRows' = out \o core \o in
  <2>1. Reverse(merge.buffer)' = next
    BY <1>5, <1>6
  <2>2. MergeRows' = Between(out, core, next, <<>>, parsedQueue'.items)
    BY <1>6, <2>1 DEF MergeRows
  <2>3. \/ next = <<Head(in)>> /\ in # <<>> /\ parsedQueue'.items = Tail(in)
        \/ next = <<>> /\ parsedQueue'.items = in
    BY DEF Pops, Keeps
  <2> QED BY <1>9, <2>2, <2>3 DEF CoreBetween
<1>12. Moves(file, MergeRows, MergeRows', {}, reads \cup MergedReads(b), MergedDeletes(b),
             MergedNews(b))
  <2>1. Moves(file, back, core, {}, MergedReads(b), MergedDeletes(b), MergedNews(b))
    <3> HIDE DEF b
    <3> QED BY <1>1, <1>3, MergedMoves DEF b
  <2> HIDE DEF out, back, core, in, b
  <2>2. reads \subseteq CellsOfAll(out) \cup CellsOfAll(back) \cup CellsOfAll(in)
    BY <1>3 DEF b, in
  <2> QED BY <1>1, <1>3, <1>10, <1>11, <2>1, <2>2, MovesInside
<1>13. Access(reads \cup MergedReads(b), MergedDeletes(b), MergedNews(b))
  BY MergedAccess
<1>14. Ordered' /\ HeapExact'
  BY <1>2, <1>8, <1>12, <1>13, MergeFrame DEF PipelineInv
<1>15. StampsApart'
  <2> DEFINE x == outliers.buffer \o outliers.hand
             rows == x \o out
  <2>1. StampedParts /\ StampedParts'
    BY <1>8, StampedRows, PTL DEF PipelineInv
  <2>2. Stamped = rows \o <<b[1]>> /\ rows \in Seq(O) /\ StampsDiffer(Stamped) /\ b[1] \in O
    <3>1. /\ Stamped = rows \o <<>> \o FirstOf(b) /\ rows \in Seq(O)
          /\ StampsDiffer(Stamped)
      BY <1>3, <2>1 DEF StampedParts, PipelineInv, StampsApart
    <3>2. FirstOf(b) = <<b[1]>> /\ b[1] \in O
      BY <1>3, HeadAndTail DEF FirstOf
    <3> HIDE DEF rows
    <3>3. rows \o <<>> = rows
      BY <3>1, ConcatEmptySeq
    <3> QED BY <3>1, <3>2, <3>3
  <2>3. Stamped' = rows \o core \o FirstOf(next) /\ (StampsMerged' <=> StampsDiffer(Stamped'))
    BY <1>2, <1>6, <2>1 DEF StampedParts
  <2>4. \/ FirstOf(next) = <<>>
        \/ /\ FirstOf(next) = <<Head(in)>> /\ Head(in) \in O
           /\ Head(in).date # obs.date \/ Head(in).time # obs.time
    BY <1>3, <1>4, HeadAndTail DEF FirstOf, Pops
  <2> HIDE DEF rows
  <2>5. rows \o core \in Seq(O) /\ StampsDiffer(rows \o core) /\ rows \o core # <<>>
        /\ Last(rows \o core) = obs
    <3>1. StampsDiffer(rows \o <<b[1]>>)
      BY <2>2
    <3>2. StampsDiffer(rows) /\ (rows # <<>> => Last(rows).date # b[1].date
                                                \/ Last(rows).time # b[1].time)
      <4> HIDE DEF b
      <4> QED BY <2>2, <3>1, StampsAppended
    <3> QED BY <1>4, <2>2, <3>2, StampsAppended
  <2>6. StampsDiffer(Stamped')
    <3>1. CASE FirstOf(next) = <<>>
      <4>1. (rows \o core) \o <<>> = rows \o core
        BY <2>5, ConcatEmptySeq
      <4> QED BY <2>3, <2>5, <3>1, <4>1
    <3>2. CASE /\ FirstOf(next) = <<Head(in)>> /\ Head(in) \in O
               /\ Head(in).date # obs.date \/ Head(in).time # obs.time
      <4> DEFINE first == rows \o core
      <4>1. first \in Seq(O) /\ StampsDiffer(first) /\ Last(first) = obs
        BY <2>5
      <4>2. Stamped' = first \o <<Head(in)>>
        BY <2>3, <3>2
      <4> HIDE DEF first, in
      <4> QED BY <3>2, <4>1, <4>2, StampsAppended
    <3> QED BY <2>4, <3>1, <3>2
  <2>7. merge'.buffer = <<>> => merge'.ending
    BY <1>6 DEF Pops
  <2> QED BY <2>3, <2>6, <2>7 DEF StampsApart
<1> QED BY <1>8, <1>14, <1>15

\* The merge filter ends its input with nothing collected.
LEMMA MergeEndsEmpty ==
  ASSUME PipelineInv, MergeThread, merge.pc = "take", merge.buffer = <<>>,
         merge' = [merge EXCEPT !.pc = "close", !.ending = TRUE],
         Keeps(ObsOf(file), parsedQueue, parsedQueue'), parsedQueue.atEnd,
         UNCHANGED <<timestampMergedQueue, heap, wild, dropped>>
  PROVE  Types' /\ Control' /\ Ordered' /\ HeapExact' /\ StampsApart'
<1> DEFINE O == ObsOf(file)
<1>1. /\ merge \in StageOf(O, O) /\ parsedQueue \in QueueOf(O)
      /\ timestampMergedQueue \in QueueOf(O)
      /\ StageControl(merge, parsedQueue, timestampMergedQueue)
  BY DEF PipelineInv, Types, Control, MergeControl
<1>2. UNCHANGED <<file, parser, outliers, relSpread, daySpread, written,
                  outliersFilteredQueue, relSpreadQueue, dayRelSpreadQueue, dropped>>
  BY DEF MergeThread
<1>3. /\ merge'.buffer = <<>> /\ merge'.pc = "close" /\ merge'.outbox = merge.outbox
      /\ merge'.hand = merge.hand /\ merge'.ending /\ merge' \in StageOf(O, O)
  BY <1>1 DEF StageOf
<1>4. StepFits(O, O, merge, merge', parsedQueue, parsedQueue',
               timestampMergedQueue, timestampMergedQueue')
  BY <1>1, <1>3 DEF StepFits, Keeps, StageControl, Over
<1>5. Types' /\ Control'
  <2>1. Len(<<>>) = 0
    OBVIOUS
  <2> QED BY <1>3, <1>4, <2>1, MergeNeighbours DEF PipelineInv
<1>6. MergeRows' = MergeRows
  BY <1>3 DEF MergeRows, Keeps
<1>7. Moves(file, MergeRows, MergeRows', {}, {}, {}, {})
  <2>1. MergeRows \in Seq(ObsOf(file))
    BY PartsOf DEF Parts, PipelineInv
  <2> QED BY <1>6, <2>1, StayingMoves
<1>8. Access({}, {}, {})
  BY DEF Access, PipelineInv, HeapExact
<1>9. Ordered' /\ HeapExact'
  BY <1>2, <1>5, <1>7, <1>8, MergeFrame DEF PipelineInv
<1>10. StampsApart'
  <2>1. Stamped' = Stamped
    BY <1>2, <1>3 DEF Stamped
  <2> QED BY <1>3, <2>1 DEF PipelineInv, StampsApart, StampsMerged
<1> QED BY <1>5, <1>9, <1>10

\* The threads upstream of the days leave them alone.
LEMMA DaysUntouched ==
  ASSUME PipelineInv,
         UNCHANGED <<daySpread, written, relSpreadQueue, dayRelSpreadQueue>>
  PROVE  DaysApart' /\ DayAtHand'
<1>1. AllDays' = AllDays
  BY DEF AllDays
<1> QED BY <1>1 DEF PipelineInv, DaysApart, DayAtHand

\* What a step of the merge filter preserves.
LEMMA MergeStep == PipelineInv /\ MergeThread => PipelineInv'
<1> SUFFICES ASSUME PipelineInv, MergeThread
             PROVE  Types' /\ Control' /\ Ordered' /\ HeapExact' /\ StampsApart'
  BY DaysUntouched DEF PipelineInv, MergeThread
<1> DEFINE O == ObsOf(file)
           next == Merge!After(Tail(merge.outbox), merge.ending)
<1>1. /\ merge \in StageOf(O, O) /\ parsedQueue \in QueueOf(O)
      /\ merge.pc \notin {"peek", "clean"}
  BY DEF PipelineInv, Types, Control, MergeControl
<1>2. CASE /\ Shared(O, O, merge, merge', parsedQueue, parsedQueue', timestampMergedQueue,
                     timestampMergedQueue', next)
           /\ UNCHANGED <<heap, wild, dropped>>
  BY <1>2, MergeIdles
<1>3. CASE Merge!Collect
  BY <1>3, MergeCollects
<1>4. CASE Merge!MergeOnChange
  <2>1. /\ merge.pc = "take" /\ merge.buffer # <<>> /\ parsedQueue.items # <<>>
        /\ parsedQueue' = [parsedQueue EXCEPT !.items = Tail(@), !.empty = FALSE]
        /\ \/ Head(parsedQueue.items).date # merge.buffer[1].date
           \/ Head(parsedQueue.items).time # merge.buffer[1].time
        /\ timestampMergedQueue' = timestampMergedQueue /\ dropped' = dropped
    BY <1>4 DEF Merge!MergeOnChange, Merge!Takes, Merge!SameStamp, Merge!In!Dequeue,
                Merge!In!CanTake, Merge!In!Front
  <2> DEFINE reads == Merge!Compared(Head(parsedQueue.items)) \cup Merge!Compared(merge.buffer[1])
  <2>2. PICK obs \in Merge!Merged(merge.buffer) :
          merge' = [merge EXCEPT !.pc = "emit", !.outbox = <<obs>>,
                                 !.buffer = <<Head(parsedQueue.items)>>]
    BY <1>4, Zenon DEF Merge!MergeOnChange, Merge!In!Front
  <2>3. merge' = [merge EXCEPT !.pc = "emit", !.outbox = <<obs>>,
                               !.buffer = <<Head(parsedQueue.items)>>, !.ending = FALSE]
    <3>1. ~merge.ending
      BY <2>1 DEF PipelineInv, Control, MergeControl, StageControl
    <3> QED BY <1>1, <2>2, <3>1 DEF StageOf
  <2>4. Merge!MergeAccess(merge.buffer, reads)
    BY <1>4 DEF Merge!MergeOnChange, Merge!In!Front
  <2>5. Pops(O, parsedQueue, parsedQueue')
    BY <1>1, <2>1, QueueMoves, Zenon
  <2>6. reads \subseteq CellsOfAll(merge.buffer) \cup CellsOfAll(parsedQueue.items)
    <3>1. merge.buffer \in Seq(O) /\ parsedQueue.items \in Seq(O)
      BY <1>1 DEF StageOf, QueueOf
    <3>2. /\ CellsOf(Head(parsedQueue.items)) \subseteq CellsOfAll(parsedQueue.items)
          /\ CellsOf(merge.buffer[1]) \subseteq CellsOfAll(merge.buffer)
      BY <2>1, <3>1, CellsOfMembers
    <3> QED BY <3>2, MergeNames DEF CellsOf
  <2> HIDE DEF reads
  <2> QED BY <2>1, <2>3, <2>4, <2>5, <2>6, MergeEnqueues, Zenon
<1>5. CASE Merge!MergeAtEnd
  <2>1. /\ merge.pc = "take" /\ parsedQueue.atEnd
        /\ parsedQueue' = [parsedQueue EXCEPT !.missed = FALSE]
        /\ timestampMergedQueue' = timestampMergedQueue /\ dropped' = dropped
    BY <1>1, <1>5, Zenon DEF Merge!MergeAtEnd, Merge!EndsInput, Merge!In!ThrowEnd, Merge!In!AtEnd
  <2>2. Keeps(O, parsedQueue, parsedQueue')
    BY <1>1, <2>1, QueueMoves, Zenon
  <2>3. CASE merge.buffer = <<>>
    <3>1. /\ merge' = [merge EXCEPT !.pc = "close", !.ending = TRUE]
          /\ UNCHANGED <<heap, wild>>
      BY <1>5, <2>3 DEF Merge!MergeAtEnd
    <3> QED BY <2>1, <2>2, <2>3, <3>1, MergeEndsEmpty
  <2>4. CASE merge.buffer # <<>>
    <3>1. PICK obs \in Merge!Merged(merge.buffer) :
            merge' = [merge EXCEPT !.pc = "emit", !.outbox = <<obs>>,
                                   !.buffer = <<>>, !.ending = TRUE]
      BY <1>5, <2>4, Zenon DEF Merge!MergeAtEnd
    <3>2. Merge!MergeAccess(merge.buffer, {})
      BY <1>5, <2>4, Zenon DEF Merge!MergeAtEnd
    <3> QED BY <2>1, <2>2, <2>4, <3>1, <3>2, MergeEnqueues, Zenon
  <2> QED BY <2>3, <2>4
<1> QED BY <1>2, <1>3, <1>4, <1>5, MergeActs DEF PipelineInv, Control

-----------------------------------------------------------------------------
(* The filter of outliers. *)

\* The operators of the module are those of the pipeline.
LEMMA OutliersNames ==
  /\ \A rows : Outliers!ToSet(rows) = ToSet(rows) /\ Outliers!Last(rows) = Last(rows)
  /\ \A o : /\ Outliers!QuoteOf(o) = QuoteOf(o) /\ Outliers!KeyOf(o) = KeyOf(o)
            /\ Outliers!CellsOf(o) = CellsOf(o)
  /\ \A reads, deletes, news :
       Outliers!Access(reads, deletes, news) <=> Access(reads, deletes, news)
<1>1. /\ \A rows : Outliers!ToSet(rows) = ToSet(rows) /\ Outliers!Last(rows) = Last(rows)
      /\ \A id, part : Outliers!Cell(id, part) = Cell(id, part)
  BY DEF Outliers!ToSet, ToSet, Outliers!Cell, Cell, Outliers!Last, Last
<1>2. \A o : /\ Outliers!QuoteOf(o) = QuoteOf(o) /\ Outliers!KeyOf(o) = KeyOf(o)
             /\ Outliers!CellsOf(o) = CellsOf(o)
  BY <1>1 DEF Outliers!QuoteOf, QuoteOf, Outliers!CellsOf, CellsOf, Outliers!KeyOf, KeyOf,
              Outliers!StampOf, StampOf, Outliers!SpreadOf, SpreadOf
<1>3. \A reads, deletes, news :
        Outliers!Access(reads, deletes, news) <=> Access(reads, deletes, news)
  BY DEF Outliers!Access, Access
<1> QED BY <1>1, <1>2, <1>3

\* A step of the filter of outliers is one that all stages have or one of its handlers.
LEMMA OutliersActs ==
  ASSUME Types, OutliersControl, OutliersThread
  PROVE  \/ /\ Shared(ObsOf(file), ObsOf(file), outliers, outliers', timestampMergedQueue,
                      timestampMergedQueue', outliersFilteredQueue, outliersFilteredQueue',
                      Outliers!After(Tail(outliers.outbox), outliers.ending))
            /\ UNCHANGED <<heap, wild, dropped>>
         \/ Outliers!Collect \/ Outliers!FlushOnChange \/ Outliers!FlushAtEnd
<1> DEFINE O == ObsOf(file)
           next == Outliers!After(Tail(outliers.outbox), outliers.ending)
           Common == /\ Shared(O, O, outliers, outliers', timestampMergedQueue,
                               timestampMergedQueue', outliersFilteredQueue,
                               outliersFilteredQueue', next)
                     /\ UNCHANGED <<heap, wild, dropped>>
<1> SUFFICES Common \/ Outliers!Collect \/ Outliers!FlushOnChange \/ Outliers!FlushAtEnd
  OBVIOUS
<1>1. /\ outliers \in StageOf(O, O) /\ timestampMergedQueue \in QueueOf(O)
      /\ outliersFilteredQueue \in QueueOf(O)
      /\ outliers.pc \notin {"peek", "clean"}
      /\ outliers.pc = "emit" => outliers.outbox # <<>>
  BY DEF Types, OutliersControl, StageControl
<1> HIDE DEF O, next
<1>2. \A q \in {timestampMergedQueue, outliersFilteredQueue} :
        /\ Keeps(O, q, q)
        /\ Keeps(O, q, [q EXCEPT !.missed = TRUE])
        /\ Keeps(O, q, [q EXCEPT !.empty = TRUE, !.missed = FALSE])
        /\ Keeps(O, q, [q EXCEPT !.missed = FALSE])
        /\ Keeps(O, q, [q EXCEPT !.full = TRUE])
        /\ Ends(O, q, [q EXCEPT !.atEnd = TRUE])
        /\ q.items # <<>> => Pops(O, q, [q EXCEPT !.items = Tail(@), !.empty = FALSE])
        /\ \A e \in O : Len(q.items) < MaxCapacity =>
             Pushes(O, q, [q EXCEPT !.items = Append(@, e), !.full = FALSE], e)
  BY <1>1, QueueMoves, Zenon
<1>3. CASE Outliers!TryFails
  <2>1. /\ outliers.pc \in {"take", "peek"} /\ outliers' = outliers
        /\ timestampMergedQueue' = [timestampMergedQueue EXCEPT !.missed = TRUE]
        /\ outliersFilteredQueue' = outliersFilteredQueue
        /\ UNCHANGED <<heap, wild, dropped>>
    BY <1>3 DEF Outliers!TryFails, Outliers!In!Miss, Outliers!Quiet
  <2> QED BY <1>2, <2>1, Zenon DEF Shared
<1>4. CASE Outliers!Sleeps
  <2>1. /\ outliers.pc \in {"take", "peek"} /\ outliers' = outliers
        /\ timestampMergedQueue' = [timestampMergedQueue EXCEPT !.empty = TRUE, !.missed = FALSE]
        /\ outliersFilteredQueue' = outliersFilteredQueue
        /\ UNCHANGED <<heap, wild, dropped>>
    BY <1>4 DEF Outliers!Sleeps, Outliers!In!Wait, Outliers!Quiet
  <2> QED BY <1>2, <2>1, Zenon DEF Shared
<1>5. CASE Outliers!Emit
  <2>1. /\ outliers.pc = "emit" /\ Len(outliersFilteredQueue.items) < MaxCapacity
        /\ outliers' = [outliers EXCEPT !.outbox = Tail(@), !.pc = next]
        /\ timestampMergedQueue' = timestampMergedQueue
        /\ outliersFilteredQueue' = [outliersFilteredQueue EXCEPT
                                       !.items = Append(@, Head(outliers.outbox)), !.full = FALSE]
        /\ UNCHANGED <<heap, wild, dropped>>
    BY <1>5 DEF Outliers!Emit, Outliers!Emits, Outliers!Out!Enqueue, Outliers!Quiet, next
  <2>2. Head(outliers.outbox) \in O
    BY <1>1, <2>1, HeadTailProperties DEF StageOf
  <2> QED BY <1>2, <2>1, <2>2, Zenon DEF Shared
<1>6. CASE Outliers!EmitBlocks
  <2>1. /\ outliers.pc = "emit" /\ outliers' = outliers
        /\ timestampMergedQueue' = timestampMergedQueue
        /\ outliersFilteredQueue' = [outliersFilteredQueue EXCEPT !.full = TRUE]
        /\ UNCHANGED <<heap, wild, dropped>>
    BY <1>6 DEF Outliers!EmitBlocks, Outliers!Out!EnqueueBlocked, Outliers!Quiet
  <2> QED BY <1>2, <2>1, Zenon DEF Shared
<1>7. CASE Outliers!Closes
  <2>1. /\ outliers.pc = "close" /\ outliers' = [outliers EXCEPT !.pc = "done"]
        /\ timestampMergedQueue' = timestampMergedQueue
        /\ outliersFilteredQueue' = [outliersFilteredQueue EXCEPT !.atEnd = TRUE]
        /\ UNCHANGED <<heap, wild, dropped>>
    BY <1>7, Zenon DEF Outliers!Closes, Outliers!Out!SetQueueEnd, Outliers!NoHeapUse
  <2> QED BY <1>2, <2>1, Zenon DEF Shared
<1>8. CASE Outliers!Fail
  <2>1. /\ outliersFilteredQueue' = [outliersFilteredQueue EXCEPT !.atEnd = TRUE]
        /\ UNCHANGED <<heap, wild, dropped>>
        /\ \/ /\ outliers.pc = "take" /\ timestampMergedQueue.items # <<>>
              /\ timestampMergedQueue'
                   = [timestampMergedQueue EXCEPT !.items = Tail(@), !.empty = FALSE]
              /\ outliers' = [outliers EXCEPT !.pc = "failed",
                                              !.hand = <<Head(timestampMergedQueue.items)>>]
           \/ /\ outliers.pc \in {"take", "peek"}
              /\ \/ timestampMergedQueue' = timestampMergedQueue
                 \/ timestampMergedQueue' = [timestampMergedQueue EXCEPT !.missed = FALSE]
              /\ outliers' = [outliers EXCEPT !.pc = "failed"]
    BY <1>8 DEF Outliers!Fail, Outliers!RaisesAndCloses, Outliers!Raises,
                Outliers!Out!SetQueueEnd, Outliers!Quiet, Outliers!In!Dequeue,
                Outliers!In!CanTake, Outliers!In!Front,
                Outliers!EndsInput, Outliers!In!ThrowEnd
  <2> QED BY <1>2, <2>1, Zenon DEF Shared
<1> QED BY <1>3, <1>4, <1>5, <1>6, <1>7, <1>8 DEF OutliersThread, Outliers!Step

\* Control and types of the other threads, whatever the filter of outliers does.
LEMMA OutliersNeighbours ==
  ASSUME Types, Control, OutliersThread,
         StepFits(ObsOf(file), ObsOf(file), outliers, outliers', timestampMergedQueue,
                  timestampMergedQueue', outliersFilteredQueue, outliersFilteredQueue'),
         dropped' \subseteq DOMAIN file,
         outliers'.pc \notin {"peek", "clean"},
         outliers'.ending => outliers'.buffer = <<>>
  PROVE  Types' /\ Control'
<1>1. UNCHANGED <<file, parser, merge, relSpread, daySpread, writer, written,
                  parsedQueue, relSpreadQueue, dayRelSpreadQueue, main>>
  BY DEF OutliersThread
<1>2. Types'
  BY <1>1 DEF Types, StepFits
<1>3. OutliersControl'
  BY DEF OutliersControl, StepFits
<1>4. ParserControl' /\ MergeControl' /\ RelSpreadControl' /\ DaySpreadControl'
  BY <1>1 DEF Control, ParserControl, MergeControl, RelSpreadControl, DaySpreadControl,
              StageControl, StepFits
<1>5. WriterControl'
  <2>1. main # "returned"
    BY DEF Control, WriterControl, StepFits, Stages, PcOf
  <2> QED BY <1>1, <2>1 DEF Control, WriterControl
<1> QED BY <1>2, <1>3, <1>4, <1>5 DEF Control

\* The stamped rows that the filter of outliers has taken or can take.
Waiting == outliers.buffer \o outliers.hand \o timestampMergedQueue.items

LEMMA EmptyConcat ==
  ASSUME NEW S, NEW s \in Seq(S), NEW t \in Seq(S)
  PROVE  s \o t = <<>> <=> s = <<>> /\ t = <<>>
<1>1. Len(s \o t) = Len(s) + Len(t) /\ s \o t \in Seq(S)
  BY ConcatProperties
<1>2. Len(s) \in Nat /\ Len(t) \in Nat
  BY LenProperties
<1>3. \A u \in Seq(S) : u = <<>> <=> Len(u) = 0
  BY EmptySeq
<1> QED BY <1>1, <1>2, <1>3

\* It can drop the first of them: the others are as far apart as they were.
LEMMA StampsTrimmed ==
  ASSUME PipelineInv, Types', UNCHANGED <<file, merge>>,
         NEW pre \in Seq(ObsOf(file)), Waiting = pre \o Waiting'
  PROVE  StampsApart'
<1> DEFINE O == ObsOf(file)
           o == merge.outbox
           first == FirstOf(merge.buffer)
           w == Waiting
           w1 == Waiting'
<1>1. StampedParts /\ StampedParts'
  BY StampedRows, PTL DEF PipelineInv
<1>2. /\ w \in Seq(O) /\ w1 \in Seq(O) /\ o \in Seq(O) /\ first \in Seq(O)
      /\ Stamped = Cat(Cat(w, o), first) /\ Stamped' = Cat(Cat(w1, o), first)
      /\ StampsMerged <=> StampsDiffer(Stamped)
      /\ StampsMerged' <=> StampsDiffer(Stamped')
  BY <1>1 DEF StampedParts, Waiting, Cat
<1> HIDE DEF O, o, first, w, w1
<1>3. Cat(Cat(w, o), first) = Cat(pre, Cat(Cat(w1, o), first))
  <2>1. w = Cat(pre, w1) /\ pre \in Seq(O)
    BY DEF Cat, O, w, w1
  <2>2. Cat(Cat(pre, w1), o) = Cat(pre, Cat(w1, o)) /\ Cat(w1, o) \in Seq(O)
    BY <1>2, <2>1, CatFacts
  <2>3. Cat(Cat(pre, Cat(w1, o)), first) = Cat(pre, Cat(Cat(w1, o), first))
    BY <1>2, <2>1, <2>2, CatFacts
  <2> QED BY <2>1, <2>2, <2>3
<1>4. StampsMerged'
  <2> DEFINE rest == Cat(Cat(w1, o), first)
  <2>1. rest \in Seq(O)
    <3>1. Cat(w1, o) \in Seq(O)
      BY <1>2, CatFacts
    <3> QED BY <1>2, <3>1, CatFacts
  <2> HIDE DEF rest
  <2>2. StampsDiffer(pre \o rest)
    BY <1>2, <1>3 DEF PipelineInv, StampsApart, rest, Cat
  <2>3. pre \in Seq(O)
    BY DEF O
  <2>4. StampsDiffer(rest)
    BY <2>1, <2>2, <2>3, StampsOfConcat
  <2> QED BY <1>2, <2>4 DEF rest
<1>5. ASSUME outliers.buffer = <<>>, outliers.hand = <<>>, timestampMergedQueue.items = <<>>
      PROVE  /\ outliers'.buffer = <<>> /\ outliers'.hand = <<>>
             /\ timestampMergedQueue'.items = <<>>
  <2>1. <<>> = pre \o w1
    <3>1. <<>> \in Seq(O) /\ <<>> \o <<>> = <<>>
      BY EmptyConcat
    <3>2. Waiting = <<>>
      BY <1>5, <3>1 DEF Waiting
    <3> QED BY <3>2 DEF w1
  <2>2. w1 = <<>>
    BY <1>2, <2>1, EmptyConcat, Zenon DEF O
  <2>3. /\ outliers'.buffer \in Seq(O) /\ outliers'.hand \in Seq(O)
        /\ timestampMergedQueue'.items \in Seq(O)
        /\ outliers'.buffer \o outliers'.hand \in Seq(O)
    <3>1. /\ outliers'.buffer \in Seq(O) /\ outliers'.hand \in Seq(O)
          /\ timestampMergedQueue'.items \in Seq(O)
      BY DEF Types, StageOf, QueueOf, O
    <3> QED BY <3>1, CatFacts DEF Cat
  <2>4. outliers'.buffer \o outliers'.hand = <<>> /\ timestampMergedQueue'.items = <<>>
    <3>1. (outliers'.buffer \o outliers'.hand) \o timestampMergedQueue'.items = <<>>
      BY <2>2 DEF w1, Waiting
    <3> QED BY <2>3, <3>1, EmptyConcat
  <2> QED BY <2>3, <2>4, EmptyConcat
<1> QED BY <1>4, <1>5 DEF PipelineInv, StampsApart

\* The front of the queue is taken, at hand or into the buffer: no row moves.
LEMMA WaitingTaken ==
  ASSUME NEW S, NEW b \in Seq(S), NEW q \in Seq(S), q # <<>>
  PROVE  /\ b \o <<Head(q)>> \o Tail(q) = b \o <<>> \o q
         /\ Append(b, Head(q)) \o <<>> \o Tail(q) = b \o <<>> \o q
<1> DEFINE a == <<Head(q)>>
           t == Tail(q)
<1>1. /\ a \in Seq(S) /\ t \in Seq(S) /\ <<>> \in Seq(S) /\ q = Cat(a, t) /\ Head(q) \in S
  BY HeadAndTail DEF Cat
<1>2. b \o <<>> = b
  BY ConcatEmptySeq
<1>3. Append(b, Head(q)) = Cat(b, a) /\ Cat(b, a) \in Seq(S)
  BY <1>1, AppendIsConcat, CatFacts DEF Cat
<1> HIDE DEF a, t
<1>4. Cat(Cat(b, a), t) = Cat(b, Cat(a, t))
  BY <1>1, CatFacts
<1>5. Cat(b, a) \o <<>> = Cat(b, a)
  BY <1>3, ConcatEmptySeq
<1>6. b \o a \o t = b \o q
  BY <1>1, <1>4 DEF Cat
<1>7. (Append(b, Head(q)) \o <<>>) \o t = b \o a \o t
  BY <1>3, <1>5 DEF Cat
<1> QED BY <1>2, <1>6, <1>7 DEF a, t

\* The filter of outliers waits, enqueues, closes its output or fails.
LEMMA OutliersIdles ==
  ASSUME PipelineInv, OutliersThread,
         Shared(ObsOf(file), ObsOf(file), outliers, outliers', timestampMergedQueue,
                timestampMergedQueue', outliersFilteredQueue, outliersFilteredQueue',
                Outliers!After(Tail(outliers.outbox), outliers.ending)),
         UNCHANGED <<heap, wild, dropped>>
  PROVE  Types' /\ Control' /\ Ordered' /\ HeapExact' /\ StampsApart'
<1> DEFINE O == ObsOf(file)
           next == Outliers!After(Tail(outliers.outbox), outliers.ending)
           b == outliers.buffer
           q == timestampMergedQueue.items
<1>1. /\ outliers \in StageOf(O, O) /\ timestampMergedQueue \in QueueOf(O)
      /\ outliersFilteredQueue \in QueueOf(O)
      /\ StageControl(outliers, timestampMergedQueue, outliersFilteredQueue)
      /\ outliers.pc \notin {"peek", "clean"}
      /\ outliers.ending => outliers.buffer = <<>>
      /\ dropped \subseteq DOMAIN file
  BY DEF PipelineInv, Types, Control, OutliersControl
<1>2. /\ next \notin {"peek", "clean"}
      /\ outliers.pc = "emit" =>
           /\ next \in {"take", "emit", "clean", "close"}
           /\ next = "emit" <=> Tail(outliers.outbox) # <<>>
           /\ next = "take" => ~outliers.ending
           /\ next = "close" => outliers.buffer = <<>>
  BY <1>1 DEF Outliers!After
<1>3. outliers'.pc \in {outliers.pc, next, "done", "failed"}
  BY <1>1 DEF Shared, StageOf
<1>4. Shared(O, O, outliers, outliers', timestampMergedQueue, timestampMergedQueue',
             outliersFilteredQueue, outliersFilteredQueue', next)
  OBVIOUS
<1>5. /\ b \in Seq(O) /\ q \in Seq(O) /\ outliersFilteredQueue.items \in Seq(O)
      /\ outliers.outbox \in Seq(O) /\ outliers.hand \in Seq(O)
  BY <1>1 DEF StageOf, QueueOf
<1> HIDE DEF O, next, b, q
<1>6. /\ StepFits(O, O, outliers, outliers', timestampMergedQueue, timestampMergedQueue',
                  outliersFilteredQueue, outliersFilteredQueue')
      /\ outliers'.buffer = outliers.buffer /\ outliers'.ending = outliers.ending
  <2>1. /\ StepFits(O, O, outliers, outliers', timestampMergedQueue, timestampMergedQueue',
                    outliersFilteredQueue, outliersFilteredQueue')
        /\ KeepsBuffer(outliers, outliers')
    BY <1>1, <1>2, <1>4, SharedFits
  <2> QED BY <2>1 DEF KeepsBuffer
<1>7. Types' /\ Control'
  <2>1. /\ outliers'.pc \notin {"peek", "clean"}
        /\ outliers'.ending => outliers'.buffer = <<>>
        /\ dropped' \subseteq DOMAIN file
    BY <1>1, <1>2, <1>3, <1>6
  <2> QED BY <1>6, <2>1, OutliersNeighbours DEF PipelineInv, O
<1>8. UNCHANGED <<file, parser, merge, relSpread, daySpread, written, parsedQueue,
                  relSpreadQueue, dayRelSpreadQueue>>
  BY DEF OutliersThread
<1>9. OutliersRows' = OutliersRows
  <2>1. SameRows(outliers, outliers', timestampMergedQueue, timestampMergedQueue',
                 outliersFilteredQueue, outliersFilteredQueue', b)
    BY <1>1, <1>4, <1>5, SharedRows DEF q
  <2> QED BY <1>6, <2>1 DEF OutliersRows, SameRows, b
<1>10. Ordered' /\ HeapExact'
  <2>1. Moves(file, OutliersRows, OutliersRows', {}, {}, {}, {})
    <3>1. OutliersRows \in Seq(ObsOf(file))
      BY PartsOf DEF Parts, PipelineInv
    <3> QED BY <1>9, <3>1, StayingMoves
  <2>2. Access({}, {}, {}) /\ dropped' = dropped \cup {}
    BY DEF Access, PipelineInv, HeapExact
  <2> QED BY <1>7, <1>8, <2>1, <2>2, OutliersFrame DEF PipelineInv
<1>11. StampsApart'
  <2>1. Waiting' = Waiting
    <3>1. SharedAtEnds(outliers, outliers', timestampMergedQueue, timestampMergedQueue',
                       outliersFilteredQueue, outliersFilteredQueue')
      BY <1>1, <1>4, SharedEnds
    <3>2. \/ timestampMergedQueue'.items = q /\ outliers'.hand = outliers.hand
          \/ /\ q # <<>> /\ timestampMergedQueue'.items = Tail(q)
             /\ outliers.hand = <<>> /\ outliers'.hand = <<Head(q)>>
      BY <3>1 DEF SharedAtEnds, q
    <3>3. /\ Waiting = b \o outliers.hand \o q
          /\ Waiting' = b \o outliers'.hand \o timestampMergedQueue'.items
      BY <1>6 DEF Waiting, b, q
    <3>4. q # <<>> => b \o <<Head(q)>> \o Tail(q) = b \o <<>> \o q
      BY <1>5, WaitingTaken
    <3> QED BY <3>2, <3>3, <3>4
  <2>2. Waiting \in Seq(O)
    BY <1>5, CatFacts DEF Waiting, Cat, b, q
  <2>3. Waiting = <<>> \o Waiting /\ <<>> \in Seq(O)
    BY <2>2, ConcatEmptySeq
  <2> QED BY <1>7, <1>8, <2>1, <2>3, StampsTrimmed DEF O
<1> QED BY <1>7, <1>10, <1>11

\* The filter of outliers adds an observation to its day.
LEMMA OutliersCollects ==
  ASSUME PipelineInv, OutliersThread, Outliers!Collect
  PROVE  Types' /\ Control' /\ Ordered' /\ HeapExact' /\ StampsApart'
<1> DEFINE O == ObsOf(file)
           in == timestampMergedQueue.items
           out == outliersFilteredQueue.items
           b == outliers.buffer
           obs == Head(in)
           reads == IF b = <<>> THEN {} ELSE KeyOf(obs) \cup KeyOf(Last(b))
<1>1. /\ outliers \in StageOf(O, O) /\ timestampMergedQueue \in QueueOf(O)
      /\ outliersFilteredQueue \in QueueOf(O)
      /\ StageControl(outliers, timestampMergedQueue, outliersFilteredQueue)
      /\ dropped \subseteq DOMAIN file
  BY DEF PipelineInv, Types, Control, OutliersControl
<1>2. /\ outliers.pc = "take" /\ in # <<>>
      /\ timestampMergedQueue' = [timestampMergedQueue EXCEPT !.items = Tail(@), !.empty = FALSE]
      /\ outliers' = [outliers EXCEPT !.buffer = Append(@, obs)]
      /\ outliersFilteredQueue' = outliersFilteredQueue /\ dropped' = dropped
  BY DEF Outliers!Collect, Outliers!Takes, Outliers!In!Dequeue, Outliers!In!CanTake,
         Outliers!In!Front
<1>3. Access(reads, {}, {})
  BY OutliersNames DEF Outliers!Collect, Outliers!Reads, Outliers!In!Front
<1>4. UNCHANGED <<file, parser, merge, relSpread, daySpread, written, parsedQueue,
                  relSpreadQueue, dayRelSpreadQueue>>
  BY DEF OutliersThread
<1>5. /\ b \in Seq(O) /\ in \in Seq(O) /\ out \in Seq(O) /\ obs \in O
      /\ Append(b, obs) \in Seq(O)
      /\ outliers.outbox = <<>> /\ outliers.hand = <<>> /\ ~outliers.ending
  <2>1. /\ b \in Seq(O) /\ in \in Seq(O) /\ out \in Seq(O)
        /\ outliers.outbox = <<>> /\ outliers.hand = <<>> /\ ~outliers.ending
    BY <1>1, <1>2 DEF StageOf, QueueOf, StageControl
  <2> HIDE DEF O, b, in
  <2>2. obs \in O
    BY <1>2, <2>1, HeadAndTail
  <2> QED BY <2>1, <2>2, AppendProperties
<1>6. /\ outliers'.buffer = Append(b, obs) /\ outliers'.pc = "take" /\ outliers'.outbox = <<>>
      /\ outliers'.hand = <<>> /\ ~outliers'.ending /\ outliers' \in StageOf(O, O)
  BY <1>1, <1>2, <1>5 DEF StageOf
<1>7. Pops(O, timestampMergedQueue, timestampMergedQueue')
  BY <1>1, <1>2, QueueMoves, Zenon
<1>8. StepFits(O, O, outliers, outliers', timestampMergedQueue, timestampMergedQueue',
               outliersFilteredQueue, outliersFilteredQueue')
  BY <1>1, <1>2, <1>6, <1>7 DEF StepFits, Pops, StageControl, Over
<1>9. Types' /\ Control'
  BY <1>1, <1>2, <1>6, <1>8, OutliersNeighbours DEF PipelineInv
<1>10. OutliersRows = Between(out, <<>>, b, <<>>, in)
  BY <1>5 DEF OutliersRows
<1>11. OutliersRows' = Between(out, <<>>, Append(b, obs), <<>>, Tail(in))
  BY <1>2, <1>6, <1>7 DEF OutliersRows, Pops
<1>12. Waiting = b \o <<>> \o in /\ Waiting' = Append(b, obs) \o <<>> \o Tail(in)
  BY <1>5, <1>6, <1>7 DEF Waiting, Pops
<1>13. reads \subseteq CellsOfAll(b) \cup CellsOfAll(in)
  <2>1. /\ CellsOf(obs) \subseteq CellsOfAll(in)
        /\ b # <<>> => CellsOf(Last(b)) \subseteq CellsOfAll(b)
    BY <1>2, <1>5, CellsOfMembers
  <2> HIDE DEF b, in, obs
  <2> QED BY <2>1 DEF CellsOf
<1> HIDE DEF O, out, b, in, reads
<1>14. OutliersRows' = OutliersRows
  <2>1. Taking(out, <<>>, b, in)
    <3>1. <<>> \in Seq(O)
      OBVIOUS
    <3> QED BY <1>2, <1>5, <3>1, BetweenTake
  <2> QED BY <1>10, <1>11, <2>1 DEF Taking
<1>15. reads \subseteq CellsOfAll(OutliersRows)
  <2>1. OutliersRows = out \o b \o in
    <3>1. CoreBetween(out, b, in)
      BY <1>5, BetweenCore
    <3> QED BY <1>10, <3>1 DEF CoreBetween
  <2> QED BY <1>5, <1>13, <2>1, CellsBetween
<1>16. Ordered' /\ HeapExact'
  <2>1. Moves(file, OutliersRows, OutliersRows', {}, reads, {}, {})
    <3>1. OutliersRows \in Seq(ObsOf(file))
      BY PartsOf DEF Parts, PipelineInv
    <3> QED BY <1>14, <1>15, <3>1, StayingMoves
  <2>2. dropped' = dropped \cup {}
    BY <1>2
  <2> QED BY <1>3, <1>4, <1>9, <2>1, <2>2, OutliersFrame DEF PipelineInv
<1>17. StampsApart'
  <2>1. Waiting' = Waiting
    <3>1. Append(b, obs) \o <<>> \o Tail(in) = b \o <<>> \o in
      BY <1>2, <1>5, WaitingTaken
    <3> QED BY <1>12, <3>1
  <2>2. Waiting \in Seq(O)
    <3>1. <<>> \in Seq(O) /\ Waiting = Cat(Cat(b, <<>>), in)
      BY <1>12 DEF Cat
    <3>2. Cat(b, <<>>) \in Seq(O)
      BY <1>5, <3>1, CatFacts
    <3> QED BY <1>5, <3>1, <3>2, CatFacts
  <2>3. Waiting = <<>> \o Waiting /\ <<>> \in Seq(O)
    BY <2>2, ConcatEmptySeq
  <2> QED BY <1>4, <1>9, <2>1, <2>3, StampsTrimmed DEF O
<1> QED BY <1>9, <1>16, <1>17

\* Rows in order stand for different lines and point to different cells.
LEMMA RowsApart ==
  ASSUME NEW f \in Files, NEW s \in Seq(ObsOf(f)), Sorted(s),
         NEW o \in ToSet(s), NEW p \in ToSet(s), o # p
  PROVE  o.src \cap p.src = {} /\ CellsOf(o) \cap CellsOf(p) = {}
<1>a. PICK i \in 1 .. Len(s) : o = s[i]
  BY SrcOfSeq, Zenon
<1>b. PICK j \in 1 .. Len(s) : p = s[j]
  BY SrcOfSeq, Zenon
<1>1. /\ i \in 1 .. Len(s) /\ j \in 1 .. Len(s) /\ o = s[i] /\ p = s[j]
      /\ Len(s) \in Nat
  BY <1>a, <1>b, LenProperties
<1>2. o \in ObsOf(f) /\ p \in ObsOf(f)
  BY <1>1, ElementOfSeq
<1>3. i < j \/ j < i
  BY <1>1
<1>4. \A x \in o.src, y \in p.src : x # y
  <2>1. o.src \subseteq Nat /\ p.src \subseteq Nat
    BY <1>2 DEF ObsOf
  <2> QED BY <1>1, <1>3, <2>1 DEF Sorted
<1>5. o.id # p.id
  BY <1>2, <1>4 DEF ObsOf, Stands
<1>6. CellsOf(o) \cap CellsOf(p) = {}
  BY <1>5 DEF CellsOf, KeyOf, StampOf, QuoteOf, SpreadOf, Cell
<1> QED BY <1>4, <1>6

\* What the selection leaves of a day.
KeptOf(day, selection) == [k \in DOMAIN selection |-> day[selection[k]]]
GoneOf(day, selection) == ToSet(day) \ ToSet(KeptOf(day, selection))
GoneLines(day, selection) == UNION {o.src : o \in GoneOf(day, selection)}
GoneCells(day, selection) == UNION {CellsOf(o) : o \in GoneOf(day, selection)}
QuotesOf(day) == UNION {QuoteOf(o) : o \in ToSet(day)}

LEMMA SelectionMoves ==
  ASSUME NEW f \in Files, NEW b \in Seq(ObsOf(f)), NEW sel \in Outliers!Selections(Len(b))
  PROVE  /\ Moves(f, b, KeptOf(b, sel), GoneLines(b, sel), QuotesOf(b), GoneCells(b, sel), {})
         /\ GoneLines(b, sel) \subseteq DOMAIN f
<1> DEFINE kept == KeptOf(b, sel)
           gone == GoneOf(b, sel)
           lines == GoneLines(b, sel)
           cells == GoneCells(b, sel)
<1>1. PICK m \in 0 .. Len(b) : /\ sel \in [1 .. m -> 1 .. Len(b)]
                               /\ \A i, j \in 1 .. m : i < j => sel[i] < sel[j]
  BY DEF Outliers!Selections
<1>2. /\ kept \in Seq(ObsOf(f)) /\ Len(kept) = m
      /\ \A k \in 1 .. m : kept[k] = b[sel[k]] /\ sel[k] \in 1 .. Len(b)
  <2>1. m \in Nat /\ Len(b) \in Nat
    BY <1>1, LenProperties
  <2>2. kept = [k \in 1 .. m |-> b[sel[k]]]
    BY <1>1 DEF KeptOf
  <2>3. \A k \in 1 .. m : b[sel[k]] \in ObsOf(f)
    BY <1>1, ElementOfSeq
  <2> QED BY <1>1, <2>1, <2>2, <2>3
<1>3. ToSet(kept) \subseteq ToSet(b)
  <2> SUFFICES ASSUME NEW x \in ToSet(kept) PROVE x \in ToSet(b)
    OBVIOUS
  <2> HIDE DEF kept
  <2>a. kept \in Seq(ObsOf(f))
    BY <1>2
  <2>1. PICK k \in 1 .. Len(kept) : x = kept[k]
    BY <2>a, SrcOfSeq, Zenon
  <2>2. x = b[sel[k]] /\ sel[k] \in 1 .. Len(b)
    BY <1>2, <2>1
  <2> QED BY <2>2, SrcOfSeq, Zenon
<1>4. ToSet(kept) \cup gone = ToSet(b) /\ ToSet(kept) \cap gone = {}
  BY <1>3 DEF GoneOf
<1>5. /\ Src(kept) \cup lines = Src(b)
      /\ CellsOfAll(kept) \cup cells = CellsOfAll(b)
      /\ QuotesOf(b) \subseteq CellsOfAll(b)
  <2>1. Src(kept) \cup lines = Src(b)
    BY <1>4 DEF Src, GoneLines
  <2>2. CellsOfAll(kept) \cup cells = CellsOfAll(b)
    BY <1>4 DEF CellsOfAll, GoneCells
  <2>3. QuotesOf(b) \subseteq CellsOfAll(b)
    BY DEF QuotesOf, CellsOfAll, CellsOf
  <2> QED BY <2>1, <2>2, <2>3
<1>6. ASSUME Sorted(b) PROVE Sorted(kept)
  <2> SUFFICES ASSUME NEW i \in 1 .. m, NEW j \in 1 .. m, i < j,
                      NEW x \in kept[i].src, NEW y \in kept[j].src
               PROVE  x < y
    <3> HIDE DEF kept
    <3> QED BY <1>2 DEF Sorted
  <2>1. sel[i] \in 1 .. Len(b) /\ sel[j] \in 1 .. Len(b) /\ sel[i] < sel[j]
    BY <1>1, <1>2
  <2>2. kept[i] = b[sel[i]] /\ kept[j] = b[sel[j]]
    BY <1>2
  <2> QED BY <1>6, <2>1, <2>2 DEF Sorted
<1>7. ASSUME Sorted(b) PROVE Src(kept) \cap lines = {} /\ CellsOfAll(kept) \cap cells = {}
  <2>1. \A o \in ToSet(kept), p \in gone :
          o.src \cap p.src = {} /\ CellsOf(o) \cap CellsOf(p) = {}
    <3> SUFFICES ASSUME NEW o \in ToSet(kept), NEW p \in gone
                 PROVE  o.src \cap p.src = {} /\ CellsOf(o) \cap CellsOf(p) = {}
      OBVIOUS
    <3>1. o \in ToSet(b) /\ p \in ToSet(b) /\ o # p
      BY <1>4
    <3> QED BY <1>7, <3>1, RowsApart
  <2>2. Src(kept) \cap lines = {}
    BY <2>1 DEF Src, GoneLines
  <2>3. CellsOfAll(kept) \cap cells = {}
    BY <2>1 DEF CellsOfAll, GoneCells
  <2> QED BY <2>2, <2>3
<1> HIDE DEF kept, gone, lines, cells
<1>8. lines \subseteq DOMAIN f
  <2>1. b \in Seq(RowOf(f))
    BY RowsInFile
  <2>2. Src(b) \subseteq DOMAIN f
    BY <2>1, RowsInFile
  <2> QED BY <1>5, <2>2
<1>9. Moves(f, b, kept, lines, QuotesOf(b), cells, {})
  BY <1>2, <1>5, <1>6, <1>7 DEF Moves
<1> QED BY <1>8, <1>9 DEF kept, lines, cells

\* The outliers of the day collected are deleted and the others passed on: another day
\* follows (next has its first observation), or the input has ended.
LEMMA OutliersFlushes ==
  ASSUME PipelineInv, OutliersThread, outliers.pc = "take",
         NEW sel \in Outliers!Selections(Len(outliers.buffer)), NEW next,
         NEW ending \in BOOLEAN, NEW reads,
         Outliers!FlushDay(outliers.buffer, sel, reads, next, ending),
         \/ /\ ~ending
            /\ Pops(ObsOf(file), timestampMergedQueue, timestampMergedQueue')
            /\ next = <<Head(timestampMergedQueue.items)>>
         \/ /\ ending
            /\ Keeps(ObsOf(file), timestampMergedQueue, timestampMergedQueue')
            /\ timestampMergedQueue.atEnd /\ next = <<>>,
         outliersFilteredQueue' = outliersFilteredQueue,
         reads \subseteq CellsOfAll(outliers.buffer) \cup CellsOfAll(timestampMergedQueue.items)
  PROVE  Types' /\ Control' /\ Ordered' /\ HeapExact' /\ StampsApart'
<1> DEFINE O == ObsOf(file)
           in == timestampMergedQueue.items
           out == outliersFilteredQueue.items
           b == outliers.buffer
           kept == KeptOf(b, sel)
           gone == GoneLines(b, sel)
           cells == GoneCells(b, sel)
           pc == Outliers!After(kept, ending)
<1>1. /\ outliers \in StageOf(O, O) /\ timestampMergedQueue \in QueueOf(O)
      /\ outliersFilteredQueue \in QueueOf(O)
      /\ StageControl(outliers, timestampMergedQueue, outliersFilteredQueue)
      /\ dropped \subseteq DOMAIN file /\ file \in Files
  BY DEF PipelineInv, Types, Control, OutliersControl
<1>2. UNCHANGED <<file, parser, merge, relSpread, daySpread, written, parsedQueue,
                  relSpreadQueue, dayRelSpreadQueue>>
  BY DEF OutliersThread
<1>3. /\ outliers' = [outliers EXCEPT !.pc = pc, !.outbox = kept, !.buffer = next,
                                      !.ending = ending]
      /\ Access(reads \cup QuotesOf(b), cells, {})
      /\ dropped' = dropped \cup gone
  BY OutliersNames DEF Outliers!FlushDay, KeptOf, GoneOf, GoneLines, GoneCells, QuotesOf
<1>4. /\ b \in Seq(O) /\ in \in Seq(O) /\ out \in Seq(O)
      /\ outliers.outbox = <<>> /\ outliers.hand = <<>>
  BY <1>1 DEF StageOf, QueueOf, StageControl
<1>5. /\ pc = "emit" <=> kept # <<>>
      /\ pc \in {"take", "emit", "close"}
      /\ pc = "take" => ~ending
      /\ pc = "close" => ending
  BY DEF Outliers!After
<1> HIDE DEF kept, gone, cells, pc
<1>6. Moves(file, b, kept, gone, QuotesOf(b), cells, {}) /\ gone \subseteq DOMAIN file
  <2> HIDE DEF b
  <2>1. sel \in Outliers!Selections(Len(b))
    BY DEF b
  <2> QED BY <1>1, <1>4, <2>1, SelectionMoves DEF kept, gone, cells
<1>7. kept \in Seq(O)
  BY <1>6 DEF Moves
<1>8. next \in Seq(O) /\ (ending => next = <<>>)
  <2>1. in # <<>> => <<Head(in)>> \in Seq(O)
    BY <1>4, HeadAndTail
  <2>2. \/ ~ending /\ next = <<Head(in)>> /\ in # <<>>
        \/ ending /\ next = <<>>
    BY DEF Pops
  <2> HIDE DEF O, in
  <2>3. CASE ~ending /\ next = <<Head(in)>> /\ in # <<>>
    BY <2>1, <2>3
  <2>4. CASE ending /\ next = <<>>
    BY <2>4
  <2> QED BY <2>2, <2>3, <2>4
<1>9. /\ outliers'.buffer = next /\ outliers'.pc = pc /\ outliers'.outbox = kept
      /\ outliers'.hand = <<>> /\ outliers'.ending = ending /\ outliers' \in StageOf(O, O)
  BY <1>1, <1>3, <1>4, <1>5, <1>7, <1>8 DEF StageOf
<1>10. StepFits(O, O, outliers, outliers', timestampMergedQueue, timestampMergedQueue',
                outliersFilteredQueue, outliersFilteredQueue')
  <2>1. /\ timestampMergedQueue' \in QueueOf(O)
        /\ timestampMergedQueue'.atEnd = timestampMergedQueue.atEnd
        /\ ending => timestampMergedQueue.atEnd
    BY DEF Pops, Keeps
  <2>2. StageControl(outliers', timestampMergedQueue', outliersFilteredQueue')
    BY <1>1, <1>5, <1>8, <1>9, <2>1 DEF StageControl, Over
  <2> QED BY <1>1, <1>9, <2>1, <2>2 DEF StepFits, Over
<1>11. Types' /\ Control'
  <2>1. dropped' \subseteq DOMAIN file
    BY <1>1, <1>3, <1>6
  <2> QED BY <1>5, <1>8, <1>9, <1>10, <2>1, OutliersNeighbours DEF PipelineInv
<1>12. CoreBetween(out, b, in) /\ CoreBetween(out, kept, in)
  <2> HIDE DEF out, b, in, O
  <2> QED BY <1>4, <1>7, BetweenCore
<1>13. OutliersRows = out \o b \o in
  <2>1. OutliersRows = Between(out, <<>>, b, <<>>, in)
    BY <1>4 DEF OutliersRows
  <2> QED BY <1>12, <2>1 DEF CoreBetween
<1>14. \/ next = <<Head(in)>> /\ in # <<>> /\ timestampMergedQueue'.items = Tail(in)
       \/ next = <<>> /\ timestampMergedQueue'.items = in
  BY DEF Pops, Keeps
<1>15. OutliersRows' = out \o kept \o in
  <2>1. OutliersRows' = Between(out, kept, next, <<>>, timestampMergedQueue'.items)
    BY <1>9 DEF OutliersRows
  <2> QED BY <1>12, <1>14, <2>1 DEF CoreBetween
<1>16. Ordered' /\ HeapExact'
  <2> HIDE DEF out, b, in
  <2>1. Moves(file, OutliersRows, OutliersRows', gone, reads \cup QuotesOf(b), cells, {})
    <3>1. reads \subseteq CellsOfAll(out) \cup CellsOfAll(b) \cup CellsOfAll(in)
      BY DEF b, in
    <3> QED BY <1>1, <1>4, <1>6, <1>13, <1>15, <3>1, MovesInside
  <2> QED BY <1>2, <1>3, <1>11, <2>1, OutliersFrame DEF PipelineInv
<1>17. StampsApart'
  <2>1. Waiting = b \o <<>> \o in /\ Waiting' = next \o <<>> \o timestampMergedQueue'.items
    BY <1>4, <1>9 DEF Waiting
  <2> HIDE DEF b, in, O
  <2>2. b \o <<>> = b /\ next \o <<>> = next
    BY <1>4, <1>8, ConcatEmptySeq
  <2>3. next \o timestampMergedQueue'.items = in
    <3>1. in # <<>> => <<Head(in)>> \o Tail(in) = in
      BY <1>4, HeadAndTail
    <3>2. <<>> \o in = in
      BY <1>4, ConcatEmptySeq
    <3> QED BY <1>14, <3>1, <3>2
  <2>4. Waiting = b \o Waiting'
    BY <2>1, <2>2, <2>3
  <2> QED BY <1>2, <1>4, <1>11, <2>4, StampsTrimmed DEF O
<1> QED BY <1>11, <1>16, <1>17

\* What a step of the filter of outliers preserves.
LEMMA OutliersStep == PipelineInv /\ OutliersThread => PipelineInv'
<1> SUFFICES ASSUME PipelineInv, OutliersThread
             PROVE  Types' /\ Control' /\ Ordered' /\ HeapExact' /\ StampsApart'
  BY DaysUntouched DEF PipelineInv, OutliersThread
<1> DEFINE O == ObsOf(file)
           next == Outliers!After(Tail(outliers.outbox), outliers.ending)
           in == timestampMergedQueue.items
           b == outliers.buffer
<1>1. /\ outliers \in StageOf(O, O) /\ timestampMergedQueue \in QueueOf(O)
      /\ outliers.pc \notin {"peek", "clean"}
      /\ b \in Seq(O) /\ in \in Seq(O)
  BY DEF PipelineInv, Types, Control, OutliersControl, StageOf, QueueOf
<1>2. CASE /\ Shared(O, O, outliers, outliers', timestampMergedQueue, timestampMergedQueue',
                     outliersFilteredQueue, outliersFilteredQueue', next)
           /\ UNCHANGED <<heap, wild, dropped>>
  BY <1>2, OutliersIdles
<1>3. CASE Outliers!Collect
  BY <1>3, OutliersCollects
<1>4. CASE Outliers!FlushOnChange
  <2> DEFINE reads == KeyOf(Head(in)) \cup KeyOf(Last(b))
  <2>1. /\ outliers.pc = "take" /\ b # <<>> /\ in # <<>>
        /\ timestampMergedQueue' = [timestampMergedQueue EXCEPT !.items = Tail(@), !.empty = FALSE]
        /\ outliersFilteredQueue' = outliersFilteredQueue
    BY <1>4 DEF Outliers!FlushOnChange, Outliers!Takes, Outliers!In!Dequeue,
                Outliers!In!CanTake
  <2>2. PICK sel \in Outliers!Selections(Len(b)) :
          Outliers!FlushDay(b, sel, reads, <<Head(in)>>, FALSE)
    BY <1>4, OutliersNames, Zenon DEF Outliers!FlushOnChange, Outliers!In!Front
  <2>3. Pops(O, timestampMergedQueue, timestampMergedQueue')
    BY <1>1, <2>1, QueueMoves, Zenon
  <2>4. reads \subseteq CellsOfAll(b) \cup CellsOfAll(in)
    <3>1. CellsOf(Head(in)) \subseteq CellsOfAll(in) /\ CellsOf(Last(b)) \subseteq CellsOfAll(b)
      BY <1>1, <2>1, CellsOfMembers
    <3> QED BY <3>1 DEF CellsOf
  <2> HIDE DEF reads
  <2> QED BY <2>1, <2>2, <2>3, <2>4, OutliersFlushes
<1>5. CASE Outliers!FlushAtEnd
  <2>1. /\ outliers.pc = "take" /\ timestampMergedQueue.atEnd
        /\ timestampMergedQueue' = [timestampMergedQueue EXCEPT !.missed = FALSE]
        /\ outliersFilteredQueue' = outliersFilteredQueue
    BY <1>1, <1>5 DEF Outliers!FlushAtEnd, Outliers!EndsInput, Outliers!In!ThrowEnd,
                      Outliers!In!AtEnd
  <2>2. PICK sel \in Outliers!Selections(Len(b)) : Outliers!FlushDay(b, sel, {}, <<>>, TRUE)
    BY <1>5, Zenon DEF Outliers!FlushAtEnd
  <2>3. Keeps(O, timestampMergedQueue, timestampMergedQueue')
    BY <1>1, <2>1, QueueMoves, Zenon
  <2> QED BY <2>1, <2>2, <2>3, OutliersFlushes
<1> QED BY <1>2, <1>3, <1>4, <1>5, OutliersActs DEF PipelineInv, Control

-----------------------------------------------------------------------------
(* The processor of relative spreads. *)

\* The operators of the module are those of the pipeline.
LEMMA RelSpreadNames ==
  /\ \A o : RelSpread!QuoteOf(o) = QuoteOf(o) /\ RelSpread!CellsOf(o) = CellsOf(o)
  /\ \A id, part : RelSpread!Cell(id, part) = Cell(id, part)
  /\ \A r : RelSpread!SrcOfAll(<<r>>) = r.src
  /\ \A reads, deletes, news :
       RelSpread!Access(reads, deletes, news) <=> Access(reads, deletes, news)
<1>1. \A id, part : RelSpread!Cell(id, part) = Cell(id, part)
  BY DEF RelSpread!Cell, Cell
<1>2. \A o : RelSpread!QuoteOf(o) = QuoteOf(o) /\ RelSpread!CellsOf(o) = CellsOf(o)
  BY <1>1 DEF RelSpread!QuoteOf, QuoteOf, RelSpread!CellsOf, CellsOf, RelSpread!KeyOf, KeyOf,
              RelSpread!StampOf, StampOf, RelSpread!SpreadOf, SpreadOf
<1>3. \A r : RelSpread!SrcOfAll(<<r>>) = r.src
  <2> TAKE r
  <2>1. RelSpread!ToSet(<<r>>) = {r}
    BY SrcOfFew DEF RelSpread!ToSet, ToSet
  <2> QED BY <2>1 DEF RelSpread!SrcOfAll
<1>4. \A reads, deletes, news :
        RelSpread!Access(reads, deletes, news) <=> Access(reads, deletes, news)
  BY DEF RelSpread!Access, Access
<1> QED BY <1>1, <1>2, <1>3, <1>4

\* A step of the processor of relative spreads is one that all stages have or one of its handlers.
LEMMA RelSpreadActs ==
  ASSUME Types, RelSpreadControl, RelSpreadThread
  PROVE  \/ /\ Shared(ObsOf(file), ObsOf(file), relSpread, relSpread', outliersFilteredQueue,
                      outliersFilteredQueue', relSpreadQueue, relSpreadQueue',
                      RelSpread!After(Tail(relSpread.outbox), relSpread.ending))
            /\ UNCHANGED <<heap, wild, dropped>>
         \/ RelSpread!AddSpread \/ RelSpread!DropNegative \/ RelSpread!AtEnd
<1> DEFINE O == ObsOf(file)
           next == RelSpread!After(Tail(relSpread.outbox), relSpread.ending)
           Common == /\ Shared(O, O, relSpread, relSpread', outliersFilteredQueue,
                               outliersFilteredQueue', relSpreadQueue,
                               relSpreadQueue', next)
                     /\ UNCHANGED <<heap, wild, dropped>>
<1> SUFFICES Common \/ RelSpread!AddSpread \/ RelSpread!DropNegative \/ RelSpread!AtEnd
  OBVIOUS
<1>1. /\ relSpread \in StageOf(O, O) /\ outliersFilteredQueue \in QueueOf(O)
      /\ relSpreadQueue \in QueueOf(O)
      /\ relSpread.pc \notin {"peek", "clean"}
      /\ relSpread.pc = "emit" => relSpread.outbox # <<>>
  BY DEF Types, RelSpreadControl, StageControl
<1> HIDE DEF O, next
<1>2. \A q \in {outliersFilteredQueue, relSpreadQueue} :
        /\ Keeps(O, q, q)
        /\ Keeps(O, q, [q EXCEPT !.missed = TRUE])
        /\ Keeps(O, q, [q EXCEPT !.empty = TRUE, !.missed = FALSE])
        /\ Keeps(O, q, [q EXCEPT !.missed = FALSE])
        /\ Keeps(O, q, [q EXCEPT !.full = TRUE])
        /\ Ends(O, q, [q EXCEPT !.atEnd = TRUE])
        /\ q.items # <<>> => Pops(O, q, [q EXCEPT !.items = Tail(@), !.empty = FALSE])
        /\ \A e \in O : Len(q.items) < MaxCapacity =>
             Pushes(O, q, [q EXCEPT !.items = Append(@, e), !.full = FALSE], e)
  BY <1>1, QueueMoves
<1>3. CASE RelSpread!TryFails
  <2>1. /\ relSpread.pc \in {"take", "peek"} /\ relSpread' = relSpread
        /\ outliersFilteredQueue' = [outliersFilteredQueue EXCEPT !.missed = TRUE]
        /\ relSpreadQueue' = relSpreadQueue
        /\ UNCHANGED <<heap, wild, dropped>>
    BY <1>3 DEF RelSpread!TryFails, RelSpread!In!Miss, RelSpread!Quiet
  <2> QED BY <1>2, <2>1 DEF Shared
<1>4. CASE RelSpread!Sleeps
  <2>1. /\ relSpread.pc \in {"take", "peek"} /\ relSpread' = relSpread
        /\ outliersFilteredQueue' = [outliersFilteredQueue EXCEPT !.empty = TRUE, !.missed = FALSE]
        /\ relSpreadQueue' = relSpreadQueue
        /\ UNCHANGED <<heap, wild, dropped>>
    BY <1>4 DEF RelSpread!Sleeps, RelSpread!In!Wait, RelSpread!Quiet
  <2> QED BY <1>2, <2>1 DEF Shared
<1>5. CASE RelSpread!Emit
  <2>1. /\ relSpread.pc = "emit" /\ Len(relSpreadQueue.items) < MaxCapacity
        /\ relSpread' = [relSpread EXCEPT !.outbox = Tail(@), !.pc = next]
        /\ outliersFilteredQueue' = outliersFilteredQueue
        /\ relSpreadQueue' = [relSpreadQueue EXCEPT
                                       !.items = Append(@, Head(relSpread.outbox)), !.full = FALSE]
        /\ UNCHANGED <<heap, wild, dropped>>
    BY <1>5 DEF RelSpread!Emit, RelSpread!Emits, RelSpread!Out!Enqueue, RelSpread!Quiet, next
  <2>2. Head(relSpread.outbox) \in O
    BY <1>1, <2>1, HeadTailProperties DEF StageOf
  <2> QED BY <1>2, <2>1, <2>2 DEF Shared
<1>6. CASE RelSpread!EmitBlocks
  <2>1. /\ relSpread.pc = "emit" /\ relSpread' = relSpread
        /\ outliersFilteredQueue' = outliersFilteredQueue
        /\ relSpreadQueue' = [relSpreadQueue EXCEPT !.full = TRUE]
        /\ UNCHANGED <<heap, wild, dropped>>
    BY <1>6 DEF RelSpread!EmitBlocks, RelSpread!Out!EnqueueBlocked, RelSpread!Quiet
  <2> QED BY <1>2, <2>1 DEF Shared
<1>7. CASE RelSpread!Closes
  <2>1. /\ relSpread.pc = "close" /\ relSpread' = [relSpread EXCEPT !.pc = "done"]
        /\ outliersFilteredQueue' = outliersFilteredQueue
        /\ relSpreadQueue' = [relSpreadQueue EXCEPT !.atEnd = TRUE]
        /\ UNCHANGED <<heap, wild, dropped>>
    BY <1>7 DEF RelSpread!Closes, RelSpread!Out!SetQueueEnd, RelSpread!NoHeapUse
  <2> QED BY <1>2, <2>1 DEF Shared
<1>8. CASE RelSpread!Fail
  <2>1. /\ relSpreadQueue' = relSpreadQueue
        /\ UNCHANGED <<heap, wild, dropped>>
        /\ \/ /\ relSpread.pc = "take" /\ outliersFilteredQueue.items # <<>>
              /\ outliersFilteredQueue'
                   = [outliersFilteredQueue EXCEPT !.items = Tail(@), !.empty = FALSE]
              /\ relSpread' = [relSpread EXCEPT !.pc = "failed",
                                                !.hand = <<Head(outliersFilteredQueue.items)>>]
           \/ /\ relSpread.pc \in {"take", "peek"}
              /\ \/ outliersFilteredQueue' = outliersFilteredQueue
                 \/ outliersFilteredQueue' = [outliersFilteredQueue EXCEPT !.missed = FALSE]
              /\ relSpread' = [relSpread EXCEPT !.pc = "failed"]
    BY <1>8 DEF RelSpread!Fail, RelSpread!RaisesSilently, RelSpread!Raises,
                RelSpread!Quiet, RelSpread!In!Dequeue, RelSpread!In!CanTake,
                RelSpread!In!Front,
                RelSpread!EndsInput, RelSpread!In!ThrowEnd
  <2> QED BY <1>2, <2>1, Zenon DEF Shared
<1> QED BY <1>3, <1>4, <1>5, <1>6, <1>7, <1>8 DEF RelSpreadThread, RelSpread!Step

\* Control and types of the other threads, whatever the processor does.
LEMMA RelSpreadNeighbours ==
  ASSUME Types, Control, RelSpreadThread,
         StepFits(ObsOf(file), ObsOf(file), relSpread, relSpread', outliersFilteredQueue,
                  outliersFilteredQueue', relSpreadQueue, relSpreadQueue'),
         dropped' \subseteq DOMAIN file,
         relSpread'.pc \notin {"peek", "clean"},
         relSpread'.buffer = <<>>
  PROVE  Types' /\ Control'
<1>1. UNCHANGED <<file, parser, merge, outliers, daySpread, writer, written,
                  parsedQueue, timestampMergedQueue, dayRelSpreadQueue, main>>
  BY DEF RelSpreadThread
<1>2. Types'
  BY <1>1 DEF Types, StepFits
<1>3. RelSpreadControl'
  BY DEF RelSpreadControl, StepFits
<1>4. ParserControl' /\ MergeControl' /\ OutliersControl' /\ DaySpreadControl'
  BY <1>1 DEF Control, ParserControl, MergeControl, OutliersControl, DaySpreadControl,
              StageControl, StepFits
<1>5. WriterControl'
  <2>1. main # "returned"
    BY DEF Control, WriterControl, StepFits, Stages, PcOf
  <2> QED BY <1>1, <2>1 DEF Control, WriterControl
<1> QED BY <1>2, <1>3, <1>4, <1>5 DEF Control

\* What comes to the queue of the last stages comes behind what is there.
LEMMA DaysFed ==
  ASSUME PipelineInv, Types', UNCHANGED <<file, daySpread, written, dayRelSpreadQueue>>,
         \/ relSpreadQueue'.items = relSpreadQueue.items
         \/ \E r \in ObsOf(file) : relSpreadQueue'.items = Append(relSpreadQueue.items, r)
  PROVE  DaysApart' /\ DayAtHand'
<1> DEFINE q == relSpreadQueue.items
           q1 == relSpreadQueue'.items
<1>1. AllDays' = AllDays
  BY DEF AllDays
<1>2. DayAtHand'
  BY <1>1 DEF PipelineInv, DayAtHand
<1>3. q # <<>> => q1 # <<>> /\ q1[1] = q[1]
  <2>1. q \in Seq(ObsOf(file))
    BY DEF PipelineInv, Types, QueueOf
  <2> HIDE DEF q
  <2>2. CASE \E r \in ObsOf(file) : q1 = Append(q, r)
    <3>1. PICK r \in ObsOf(file) : q1 = Append(q, r)
      BY <2>2
    <3>2. /\ Len(Append(q, r)) = Len(q) + 1 /\ Len(q) \in Nat
          /\ q # <<>> => Len(q) > 0
          /\ \A i \in 1 .. Len(q) : Append(q, r)[i] = q[i]
      BY <2>1, AppendProperties, LenProperties, EmptySeq
    <3> QED BY <3>1, <3>2
  <2> QED BY <2>2 DEF q
<1>4. DaysApart'
  BY <1>1, <1>3 DEF PipelineInv, DaysApart
<1> QED BY <1>2, <1>4

\* The threads downstream of the filters leave the stamps alone.
LEMMA StampsUntouched ==
  ASSUME PipelineInv, UNCHANGED <<merge, outliers, timestampMergedQueue>>
  PROVE  StampsApart'
<1>1. Stamped' = Stamped
  BY DEF Stamped
<1> QED BY <1>1 DEF PipelineInv, StampsApart, StampsMerged

\* The processor of relative spreads waits, enqueues, closes its output or fails.
LEMMA RelSpreadIdles ==
  ASSUME PipelineInv, RelSpreadThread,
         Shared(ObsOf(file), ObsOf(file), relSpread, relSpread', outliersFilteredQueue,
                outliersFilteredQueue', relSpreadQueue, relSpreadQueue',
                RelSpread!After(Tail(relSpread.outbox), relSpread.ending)),
         UNCHANGED <<heap, wild, dropped>>
  PROVE  PipelineInv'
<1> DEFINE O == ObsOf(file)
           next == RelSpread!After(Tail(relSpread.outbox), relSpread.ending)
<1>1. /\ relSpread \in StageOf(O, O) /\ outliersFilteredQueue \in QueueOf(O)
      /\ relSpreadQueue \in QueueOf(O)
      /\ StageControl(relSpread, outliersFilteredQueue, relSpreadQueue)
      /\ relSpread.pc \notin {"peek", "clean"}
      /\ relSpread.buffer = <<>>
      /\ dropped \subseteq DOMAIN file
  BY DEF PipelineInv, Types, Control, RelSpreadControl
<1>2. /\ next \notin {"peek", "clean"}
      /\ relSpread.pc = "emit" =>
           /\ next \in {"take", "emit", "clean", "close"}
           /\ next = "emit" <=> Tail(relSpread.outbox) # <<>>
           /\ next = "take" => ~relSpread.ending
           /\ next = "close" => relSpread.buffer = <<>>
  BY <1>1 DEF RelSpread!After
<1>3. relSpread'.pc \in {relSpread.pc, next, "done", "failed"}
  BY <1>1 DEF Shared, StageOf
<1>4. Shared(O, O, relSpread, relSpread', outliersFilteredQueue, outliersFilteredQueue',
             relSpreadQueue, relSpreadQueue', next)
  OBVIOUS
<1>5. /\ <<>> \in Seq(O) /\ outliersFilteredQueue.items \in Seq(O) /\ relSpreadQueue.items \in Seq(O)
      /\ relSpread.outbox \in Seq(O) /\ relSpread.hand \in Seq(O)
  BY <1>1 DEF StageOf, QueueOf
<1> HIDE DEF O, next
<1>6. /\ StepFits(O, O, relSpread, relSpread', outliersFilteredQueue, outliersFilteredQueue',
                  relSpreadQueue, relSpreadQueue')
      /\ relSpread'.buffer = relSpread.buffer /\ relSpread'.ending = relSpread.ending
  <2>1. /\ StepFits(O, O, relSpread, relSpread', outliersFilteredQueue, outliersFilteredQueue',
                    relSpreadQueue, relSpreadQueue')
        /\ KeepsBuffer(relSpread, relSpread')
    BY <1>1, <1>2, <1>4, SharedFits
  <2> QED BY <2>1 DEF KeepsBuffer
<1>7. Types' /\ Control'
  <2>1. /\ relSpread'.pc \notin {"peek", "clean"}
        /\ relSpread'.buffer = <<>>
        /\ dropped' \subseteq DOMAIN file
    BY <1>1, <1>2, <1>3, <1>6
  <2> QED BY <1>6, <2>1, RelSpreadNeighbours DEF PipelineInv, O
<1>8. UNCHANGED <<file, parser, merge, outliers, daySpread, written, parsedQueue,
                  timestampMergedQueue, dayRelSpreadQueue>>
  BY DEF RelSpreadThread
<1>9. RelSpreadRows' = RelSpreadRows
  <2>1. SameRows(relSpread, relSpread', outliersFilteredQueue, outliersFilteredQueue',
                 relSpreadQueue, relSpreadQueue', <<>>)
    BY <1>1, <1>4, <1>5, SharedRows
  <2> QED BY <1>6, <2>1 DEF RelSpreadRows, SameRows
<1>10. Ordered' /\ HeapExact'
  <2>1. Moves(file, RelSpreadRows, RelSpreadRows', {}, {}, {}, {})
    <3>1. RelSpreadRows \in Seq(ObsOf(file))
      BY PartsOf DEF Parts, PipelineInv
    <3> QED BY <1>9, <3>1, StayingMoves
  <2>2. Access({}, {}, {}) /\ dropped' = dropped \cup {}
    BY DEF Access, PipelineInv, HeapExact
  <2> QED BY <1>7, <1>8, <2>1, <2>2, RelSpreadFrame DEF PipelineInv
<1>11. DaysApart' /\ DayAtHand'
  <2>1. SharedAtEnds(relSpread, relSpread', outliersFilteredQueue, outliersFilteredQueue',
                     relSpreadQueue, relSpreadQueue')
    BY <1>1, <1>4, SharedEnds
  <2>2. relSpread.outbox # <<>> => Head(relSpread.outbox) \in O
    BY <1>5, HeadAndTail
  <2>3. \/ relSpreadQueue'.items = relSpreadQueue.items
        \/ \E r \in O : relSpreadQueue'.items = Append(relSpreadQueue.items, r)
    BY <2>1, <2>2 DEF SharedAtEnds
  <2> QED BY <1>7, <1>8, <2>3, DaysFed DEF O
<1> QED BY <1>7, <1>8, <1>10, <1>11, StampsUntouched DEF PipelineInv

\* The processor handles the front observation: it becomes the rows new.
LEMMA RelSpreadHandles ==
  ASSUME PipelineInv, RelSpreadThread, relSpread.pc = "take",
         Pops(ObsOf(file), outliersFilteredQueue, outliersFilteredQueue'),
         relSpreadQueue' = relSpreadQueue,
         NEW new, NEW gone, NEW reads, NEW deletes, NEW news,
         Moves(file, <<Head(outliersFilteredQueue.items)>>, new, gone, reads, deletes, news),
         Access(reads, deletes, news), dropped' = dropped \cup gone, gone \subseteq DOMAIN file,
         \/ new # <<>> /\ relSpread' = [relSpread EXCEPT !.pc = "emit", !.outbox = new]
         \/ new = <<>> /\ relSpread' = relSpread
  PROVE  PipelineInv'
<1> DEFINE O == ObsOf(file)
           in == outliersFilteredQueue.items
           out == relSpreadQueue.items
           core == <<Head(in)>>
           rest == Tail(in)
<1>1. /\ relSpread \in StageOf(O, O) /\ outliersFilteredQueue \in QueueOf(O)
      /\ relSpreadQueue \in QueueOf(O)
      /\ StageControl(relSpread, outliersFilteredQueue, relSpreadQueue)
      /\ relSpread.buffer = <<>>
      /\ dropped \subseteq DOMAIN file /\ file \in Files
  BY DEF PipelineInv, Types, Control, RelSpreadControl
<1>2. UNCHANGED <<file, parser, merge, outliers, daySpread, written, parsedQueue,
                  timestampMergedQueue, dayRelSpreadQueue>>
  BY DEF RelSpreadThread
<1>3. /\ in \in Seq(O) /\ out \in Seq(O) /\ in # <<>>
      /\ relSpread.outbox = <<>> /\ relSpread.hand = <<>> /\ ~relSpread.ending
      /\ outliersFilteredQueue'.items = rest
      /\ outliersFilteredQueue' \in QueueOf(O)
      /\ outliersFilteredQueue'.atEnd = outliersFilteredQueue.atEnd
      /\ new \in Seq(O)
  BY <1>1 DEF StageOf, QueueOf, StageControl, Pops, Moves
<1>4. /\ relSpread' \in StageOf(O, O)
      /\ relSpread'.buffer = <<>> /\ relSpread'.outbox = new /\ relSpread'.hand = <<>>
      /\ relSpread'.ending = relSpread.ending
      /\ \/ relSpread'.pc = "take" /\ new = <<>>
         \/ relSpread'.pc = "emit" /\ new # <<>>
  <2>1. CASE new # <<>> /\ relSpread' = [relSpread EXCEPT !.pc = "emit", !.outbox = new]
    BY <1>1, <1>3, <2>1 DEF StageOf
  <2>2. CASE new = <<>> /\ relSpread' = relSpread
    BY <1>1, <1>3, <2>2
  <2> QED BY <2>1, <2>2
<1>5. StepFits(O, O, relSpread, relSpread', outliersFilteredQueue, outliersFilteredQueue',
               relSpreadQueue, relSpreadQueue')
  BY <1>1, <1>3, <1>4 DEF StepFits, StageControl, Over
<1>6. Types' /\ Control'
  <2>1. dropped' \subseteq DOMAIN file
    BY <1>1
  <2> QED BY <1>4, <1>5, <2>1, RelSpreadNeighbours DEF PipelineInv
<1>7. RelSpreadRows = Between(out, <<>>, <<>>, <<>>, in)
  BY <1>3 DEF RelSpreadRows
<1>8. RelSpreadRows' = Between(out, new, <<>>, <<>>, rest)
  BY <1>3, <1>4 DEF RelSpreadRows
<1>9. core \in Seq(O) /\ rest \in Seq(O)
  BY <1>3, HeadAndTail
<1> HIDE DEF O, in, out, rest
<1>10. RelSpreadRows = out \o core \o rest
  <2>1. Taking(out, <<>>, <<>>, in)
    <3>1. <<>> \in Seq(O)
      OBVIOUS
    <3> QED BY <1>3, <3>1, BetweenTake
  <2>2. Append(<<>>, Head(in)) = core
    OBVIOUS
  <2>3. Between(out, <<>>, core, <<>>, rest) = RelSpreadRows
    BY <1>7, <2>1, <2>2 DEF Taking, rest
  <2> HIDE DEF core
  <2>4. CoreBetween(out, core, rest)
    BY <1>3, <1>9, BetweenCore
  <2> QED BY <2>3, <2>4 DEF CoreBetween
<1>11. RelSpreadRows' = out \o new \o rest
  <2>1. CoreBetween(out, new, rest)
    BY <1>3, <1>9, BetweenCore
  <2> QED BY <1>8, <2>1 DEF CoreBetween
<1>12. Ordered' /\ HeapExact'
  <2>1. Moves(file, RelSpreadRows, RelSpreadRows', gone, reads, deletes, news)
    <3>1. Moves(file, core, new, gone, reads, deletes, news)
      BY DEF in
    <3> HIDE DEF core
    <3>2. Moves(file, out \o core \o rest, out \o new \o rest, gone, {} \cup reads, deletes, news)
      BY <1>1, <1>3, <1>9, <3>1, MovesInside DEF O
    <3> QED BY <1>10, <1>11, <3>2
  <2> QED BY <1>2, <1>6, <2>1, RelSpreadFrame DEF PipelineInv
<1>13. DaysApart' /\ DayAtHand'
  BY <1>2, <1>6, DaysFed
<1> QED BY <1>2, <1>6, <1>12, <1>13, StampsUntouched DEF PipelineInv

\* One observation, with its spread or deleted.
LEMMA SpreadMoves ==
  ASSUME NEW f \in Files, NEW o \in ObsOf(f)
  PROVE  /\ Moves(f, <<o>>, <<[o EXCEPT !.spread = TRUE]>>, {}, QuoteOf(o), {},
                  {Cell(o.id, "spread")})
         /\ Moves(f, <<o>>, <<>>, o.src, QuoteOf(o), CellsOf(o), {})
         /\ o.src \subseteq DOMAIN f
<1> DEFINE p == [o EXCEPT !.spread = TRUE]
<1>1. /\ p \in ObsOf(f) /\ p.src = o.src
      /\ CellsOf(p) = CellsOf(o) \cup {Cell(o.id, "spread")}
  <2>1. /\ p \in [id : Nat, date : Nat, time : Nat, neg : BOOLEAN, src : SUBSET Nat,
                  quote : {"own", "median"}, spread : BOOLEAN]
        /\ p.id = o.id /\ p.src = o.src /\ p.date = o.date /\ p.quote = o.quote /\ p.spread
    BY DEF ObsOf
  <2>2. p \in ObsOf(f)
    BY <2>1 DEF ObsOf, Stands
  <2>3. CellsOf(p) = CellsOf(o) \cup {Cell(o.id, "spread")}
    BY <2>1 DEF CellsOf, KeyOf, StampOf, QuoteOf, SpreadOf, Cell
  <2> QED BY <2>1, <2>2, <2>3
<1> HIDE DEF p
<1>2. /\ Src(<<o>>) = o.src /\ CellsOfAll(<<o>>) = CellsOf(o)
      /\ Src(<<p>>) = p.src /\ CellsOfAll(<<p>>) = CellsOf(p)
      /\ Src(<<>>) = {} /\ CellsOfAll(<<>>) = {}
      /\ Sorted(<<>>) /\ Sorted(<<p>>)
      /\ QuoteOf(o) \subseteq CellsOf(o)
  BY SrcOfFew, CellsOfFew, SortedFew DEF CellsOf
<1>3. Moves(f, <<o>>, <<p>>, {}, QuoteOf(o), {}, {Cell(o.id, "spread")})
  <2> DEFINE a == <<o>>
             b == <<p>>
             c == {Cell(o.id, "spread")}
  <2>1. b \in Seq(ObsOf(f))
    BY <1>1
  <2>2. /\ Src(b) = Src(a) /\ CellsOfAll(b) = CellsOfAll(a) \cup c
        /\ Sorted(b) /\ QuoteOf(o) \subseteq CellsOfAll(a)
    BY <1>1, <1>2
  <2> HIDE DEF a, b, c
  <2>3. Moves(f, a, b, {}, QuoteOf(o), {}, c)
    BY <2>1, <2>2 DEF Moves
  <2> QED BY <2>3 DEF a, b, c
<1>4. Moves(f, <<o>>, <<>>, o.src, QuoteOf(o), CellsOf(o), {})
  BY <1>2 DEF Moves
<1>5. o.src \subseteq DOMAIN f
  BY DEF ObsOf, Stands
<1> QED BY <1>3, <1>4, <1>5 DEF p

\* The processor ends its input.
LEMMA RelSpreadEnds ==
  ASSUME PipelineInv, RelSpreadThread, RelSpread!AtEnd
  PROVE  PipelineInv'
<1> DEFINE O == ObsOf(file)
<1>1. /\ relSpread \in StageOf(O, O) /\ outliersFilteredQueue \in QueueOf(O)
      /\ relSpreadQueue \in QueueOf(O)
      /\ StageControl(relSpread, outliersFilteredQueue, relSpreadQueue)
      /\ relSpread.pc \notin {"peek", "clean"} /\ relSpread.buffer = <<>>
      /\ dropped \subseteq DOMAIN file
  BY DEF PipelineInv, Types, Control, RelSpreadControl
<1>2. UNCHANGED <<file, parser, merge, outliers, daySpread, written, parsedQueue,
                  timestampMergedQueue, dayRelSpreadQueue>>
  BY DEF RelSpreadThread
<1>3. /\ relSpread.pc = "take" /\ outliersFilteredQueue.atEnd
      /\ outliersFilteredQueue' = [outliersFilteredQueue EXCEPT !.missed = FALSE]
      /\ relSpread' = [relSpread EXCEPT !.pc = "close", !.ending = TRUE]
      /\ UNCHANGED <<relSpreadQueue, heap, wild, dropped>>
  BY <1>1 DEF RelSpread!AtEnd, RelSpread!EndsInput, RelSpread!In!ThrowEnd, RelSpread!In!AtEnd,
              RelSpread!Quiet
<1>4. Keeps(O, outliersFilteredQueue, outliersFilteredQueue')
  BY <1>1, <1>3, QueueMoves, Zenon
<1>5. /\ relSpread'.buffer = <<>> /\ relSpread'.pc = "close"
      /\ relSpread'.outbox = relSpread.outbox
      /\ relSpread'.hand = relSpread.hand /\ relSpread'.ending /\ relSpread' \in StageOf(O, O)
  BY <1>1, <1>3 DEF StageOf
<1>6. StepFits(O, O, relSpread, relSpread', outliersFilteredQueue, outliersFilteredQueue',
               relSpreadQueue, relSpreadQueue')
  BY <1>1, <1>3, <1>4, <1>5 DEF StepFits, Keeps, StageControl, Over
<1>7. Types' /\ Control'
  BY <1>1, <1>3, <1>5, <1>6, RelSpreadNeighbours DEF PipelineInv
<1>8. RelSpreadRows' = RelSpreadRows
  BY <1>3, <1>4, <1>5 DEF RelSpreadRows, Keeps
<1>9. Ordered' /\ HeapExact'
  <2>1. Moves(file, RelSpreadRows, RelSpreadRows', {}, {}, {}, {})
    <3>1. RelSpreadRows \in Seq(ObsOf(file))
      BY PartsOf DEF Parts, PipelineInv
    <3> QED BY <1>8, <3>1, StayingMoves
  <2>2. Access({}, {}, {}) /\ dropped' = dropped \cup {}
    BY <1>3 DEF Access, PipelineInv, HeapExact
  <2> QED BY <1>2, <1>7, <2>1, <2>2, RelSpreadFrame DEF PipelineInv
<1>10. DaysApart' /\ DayAtHand'
  BY <1>2, <1>3, <1>7, DaysFed
<1> QED BY <1>2, <1>7, <1>9, <1>10, StampsUntouched DEF PipelineInv

\* What a step of the processor of relative spreads preserves.
LEMMA RelSpreadStep == PipelineInv /\ RelSpreadThread => PipelineInv'
<1> SUFFICES ASSUME PipelineInv, RelSpreadThread PROVE PipelineInv'
  OBVIOUS
<1> DEFINE O == ObsOf(file)
           next == RelSpread!After(Tail(relSpread.outbox), relSpread.ending)
           in == outliersFilteredQueue.items
           front == Head(in)
<1>1. outliersFilteredQueue \in QueueOf(O) /\ in \in Seq(O) /\ file \in Files
  BY DEF PipelineInv, Types, QueueOf
<1>2. in # <<>> => front \in O
  BY <1>1, HeadAndTail
<1>3. CASE /\ Shared(O, O, relSpread, relSpread', outliersFilteredQueue,
                     outliersFilteredQueue', relSpreadQueue, relSpreadQueue', next)
           /\ UNCHANGED <<heap, wild, dropped>>
  BY <1>3, RelSpreadIdles
<1>4. ASSUME in # <<>>
      PROVE  /\ Moves(file, <<front>>, <<[front EXCEPT !.spread = TRUE]>>, {}, QuoteOf(front), {},
                      {Cell(front.id, "spread")})
             /\ Moves(file, <<front>>, <<>>, front.src, QuoteOf(front), CellsOf(front), {})
             /\ front.src \subseteq DOMAIN file
  BY <1>1, <1>2, <1>4, SpreadMoves
<1>5. CASE RelSpread!AddSpread
  <2>1. /\ relSpread.pc = "take" /\ in # <<>>
        /\ outliersFilteredQueue'
             = [outliersFilteredQueue EXCEPT !.items = Tail(@), !.empty = FALSE]
        /\ relSpread' = [relSpread EXCEPT !.pc = "emit",
                                          !.outbox = <<[front EXCEPT !.spread = TRUE]>>]
        /\ UNCHANGED <<relSpreadQueue, dropped>>
    BY <1>5 DEF RelSpread!AddSpread, RelSpread!Takes, RelSpread!In!Dequeue, RelSpread!In!CanTake,
                RelSpread!In!Front
  <2> DEFINE new == <<[front EXCEPT !.spread = TRUE]>>
             cell == {Cell(front.id, "spread")}
             none == {}
             reads == QuoteOf(front)
  <2>2. Access(reads, none, cell)
    BY <1>5, RelSpreadNames DEF RelSpread!AddSpread, RelSpread!In!Front
  <2>3. Pops(O, outliersFilteredQueue, outliersFilteredQueue')
    BY <1>1, <2>1, QueueMoves, Zenon
  <2>4. Moves(file, <<front>>, new, none, reads, none, cell)
    BY <1>4, <2>1
  <2>5. new # <<>> /\ relSpread' = [relSpread EXCEPT !.pc = "emit", !.outbox = new]
    BY <2>1
  <2>6. dropped' = dropped \cup none /\ none \subseteq DOMAIN file
    BY <2>1
  <2> HIDE DEF new, cell, next, none, reads
  <2>7. relSpread.pc = "take" /\ relSpreadQueue' = relSpreadQueue
    BY <2>1
  <2> QED BY <2>2, <2>3, <2>4, <2>5, <2>6, <2>7, RelSpreadHandles, Zenon
<1>6. CASE RelSpread!DropNegative
  <2>1. /\ relSpread.pc = "take" /\ in # <<>>
        /\ outliersFilteredQueue'
             = [outliersFilteredQueue EXCEPT !.items = Tail(@), !.empty = FALSE]
        /\ UNCHANGED <<relSpread, relSpreadQueue>>
    BY <1>6 DEF RelSpread!DropNegative, RelSpread!Takes, RelSpread!In!Dequeue,
                RelSpread!In!CanTake
  <2>2. Access(QuoteOf(front), CellsOf(front), {}) /\ dropped' = dropped \cup front.src
    BY <1>6, RelSpreadNames DEF RelSpread!DropNegative, RelSpread!Drop, RelSpread!In!Front
  <2>3. Pops(O, outliersFilteredQueue, outliersFilteredQueue')
    BY <1>1, <2>1, QueueMoves, Zenon
  <2>4. /\ Moves(file, <<front>>, <<>>, front.src, QuoteOf(front), CellsOf(front), {})
        /\ front.src \subseteq DOMAIN file
    BY <1>4, <2>1
  <2> QED BY <2>1, <2>2, <2>3, <2>4, RelSpreadHandles, Zenon
<1>7. CASE RelSpread!AtEnd
  BY <1>7, RelSpreadEnds
<1> QED BY <1>3, <1>5, <1>6, <1>7, RelSpreadActs DEF PipelineInv, Control
=============================================================================
