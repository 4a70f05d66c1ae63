----------------------------- MODULE RingProofs -----------------------------
(***************************************************************************)
(* Theorems about ReaderWriterQueue, for every room that is asked of the   *)
(* constructor and every size of its blocks.                               *)
(*                                                                         *)
(* The first part is about sequences and the arithmetic of the ring: what  *)
(* a block holds, and what the blocks from one to another hold, when a     *)
(* slot is written, an element is put behind the last, or the first one is *)
(* taken.  The second has the inductive invariant RingIInv, one lemma for  *)
(* each action, and what follows from it.                                  *)
(***************************************************************************)
EXTENDS ReaderWriterQueue, SequenceTheorems, WellFoundedInduction, FiniteSetTheorems, TLAPS

-----------------------------------------------------------------------------
(* Counting up: what holds at the start and is passed on holds throughout. *)

LEMMA CountingUp ==
  ASSUME NEW S, 0 \in S, \A n \in Nat : n \in S => n + 1 \in S
  PROVE  Nat \subseteq S
<1> DEFINE less == {p \in Nat \X Nat : p[1] < p[2]}  Bad == Nat \ S
<1>1. less = OpToRel(<, Nat)
  BY Zenon DEF OpToRel
<1>2. IsWellFoundedOn(less, Nat)
  BY <1>1, NatLessThanWellFounded, Zenon
<1>3. \A x, y \in Nat : y < x => <<y, x>> \in less
  OBVIOUS
<1> HIDE DEF less
<1>4. SUFFICES ASSUME Bad # {} PROVE FALSE
  OBVIOUS
<1>5. PICK x \in Bad : \A y \in Bad : <<y, x>> \notin less
  BY <1>2, <1>4, WFMin
<1>6. x \in Nat /\ x # 0
  OBVIOUS
<1>7. x - 1 \in Nat /\ x - 1 < x /\ (x - 1) + 1 = x
  BY <1>6
<1>8. x - 1 \in Bad
  BY <1>6, <1>7
<1> QED BY <1>3, <1>5, <1>6, <1>7, <1>8

-----------------------------------------------------------------------------
(* FlattenSeq. *)

\* f puts together the first n of seqs, one after the other.
PutsTogether(f, seqs, n) ==
  f = [i \in 1 .. n |-> IF i = 1 THEN seqs[i] ELSE f[i - 1] \o seqs[i]]

\* The function FlattenSeq takes its last value of exists, for as many sequences as one
\* likes of those to be put together.
LEMMA FlattenFcn ==
  ASSUME NEW S, NEW seqs \in Seq(Seq(S))
  PROVE  \A n \in 0 .. Len(seqs) : \E f \in [1 .. n -> Seq(S)] : PutsTogether(f, seqs, n)
<1> DEFINE P(n) == \E f \in [1 .. n -> Seq(S)] :
             f = [i \in 1 .. n |-> IF i = 1 THEN seqs[i] ELSE f[i - 1] \o seqs[i]]
           T == {n \in Nat : n <= Len(seqs) => P(n)}
<1>1. P(0)
  <2> DEFINE e == [i \in 1 .. 0 |-> <<>>]
  <2>1. e \in [1 .. 0 -> Seq(S)]
    OBVIOUS
  <2>2. e = [i \in 1 .. 0 |-> IF i = 1 THEN seqs[i] ELSE e[i - 1] \o seqs[i]]
    OBVIOUS
  <2> QED BY <2>1, <2>2
<1>2. ASSUME NEW n \in Nat, n + 1 <= Len(seqs), P(n) PROVE P(n + 1)
  <2>1. n + 1 <= Len(seqs)
    BY <1>2
  <2>2. PICK f \in [1 .. n -> Seq(S)] :
          f = [i \in 1 .. n |-> IF i = 1 THEN seqs[i] ELSE f[i - 1] \o seqs[i]]
    BY <1>2
  <2> DEFINE g == [i \in 1 .. n + 1 |->
                     IF i <= n THEN f[i] ELSE IF n = 0 THEN seqs[1] ELSE f[n] \o seqs[n + 1]]
  <2>3. \A i \in 1 .. n + 1 : seqs[i] \in Seq(S)
    BY <2>1
  <2>4. \A i \in 1 .. n + 1 : g[i] \in Seq(S)
    <3>1. \A i \in 1 .. n : f[i] \in Seq(S)
      OBVIOUS
    <3>2. n # 0 => f[n] \o seqs[n + 1] \in Seq(S)
      BY <2>3, <3>1, ConcatProperties
    <3>3. 1 \in 1 .. n + 1
      OBVIOUS
    <3> QED BY <2>3, <3>1, <3>2, <3>3
  <2>5. g \in [1 .. n + 1 -> Seq(S)]
    BY <2>4
  <2>6. \A i \in 1 .. n + 1 : g[i] = IF i = 1 THEN seqs[i] ELSE g[i - 1] \o seqs[i]
    <3> TAKE i \in 1 .. n + 1
    <3>1. CASE i <= n
      <4>1. i \in 1 .. n /\ (i # 1 => i - 1 \in 1 .. n /\ g[i - 1] = f[i - 1])
        BY <3>1
      <4>2. g[i] = f[i]
        BY <3>1
      <4>3. f[i] = IF i = 1 THEN seqs[i] ELSE f[i - 1] \o seqs[i]
        BY <2>2, <4>1
      <4> HIDE DEF g
      <4> QED BY <4>1, <4>2, <4>3
    <3>2. CASE i = n + 1
      BY <3>2
    <3> QED BY <3>1, <3>2
  <2>7. g = [i \in 1 .. n + 1 |-> IF i = 1 THEN seqs[i] ELSE g[i - 1] \o seqs[i]]
    <3>1. g = [i \in 1 .. n + 1 |-> g[i]]
      OBVIOUS
    <3> HIDE DEF g
    <3> QED BY <2>6, <3>1
  <2> QED BY <2>5, <2>7
<1> HIDE DEF P
<1>3. Nat \subseteq T
  <2>1. 0 \in T
    BY <1>1
  <2>2. ASSUME NEW n \in Nat, n \in T PROVE n + 1 \in T
    BY <1>2, <2>2
  <2> QED BY <2>1, <2>2, CountingUp
<1>4. \A n \in 0 .. Len(seqs) : P(n)
  BY <1>3
<1> QED BY <1>4 DEF P, PutsTogether

\* FlattenSeq is the last value of such a function.
LEMMA FlattenIs ==
  ASSUME NEW S, NEW seqs \in Seq(Seq(S)), Len(seqs) # 0
  PROVE  \E f \in [1 .. Len(seqs) -> Seq(S)] :
           /\ FlattenSeq(seqs) = f[Len(seqs)]
           /\ \A i \in 1 .. Len(seqs) :
                f[i] = IF i = 1 THEN seqs[i] ELSE f[i - 1] \o seqs[i]
<1> DEFINE n == Len(seqs)
           Is(f) == f = [i \in 1 .. n |-> IF i = 1 THEN seqs[i] ELSE f[i - 1] \o seqs[i]]
           c == CHOOSE f : Is(f)
<1>0. n \in Nat /\ n \in 0 .. n
  OBVIOUS
<1>1. FlattenSeq(seqs) = c[n]
  BY DEF FlattenSeq
<1>2. PICK f \in [1 .. n -> Seq(S)] : Is(f)
  <2>1. \E f \in [1 .. n -> Seq(S)] : PutsTogether(f, seqs, n)
    BY <1>0, FlattenFcn
  <2> QED BY <2>1 DEF PutsTogether
<1>3. Is(c)
  BY <1>2
<1>4. \A i \in 1 .. n : c[i] = IF i = 1 THEN seqs[i] ELSE c[i - 1] \o seqs[i]
  BY <1>3
<1> HIDE DEF c
<1> DEFINE T == {i \in Nat : i + 1 \in 1 .. n => c[i + 1] = f[i + 1]}
<1>5. 0 \in T
  BY <1>2, <1>4
<1>6. ASSUME NEW i \in Nat, i \in T PROVE i + 1 \in T
  <2>1. SUFFICES ASSUME (i + 1) + 1 \in 1 .. n PROVE c[(i + 1) + 1] = f[(i + 1) + 1]
    OBVIOUS
  <2> DEFINE j == (i + 1) + 1
  <2>2. j # 1 /\ j - 1 = i + 1 /\ i + 1 \in 1 .. n
    BY <2>1
  <2>3. c[j - 1] = f[j - 1]
    BY <1>6, <2>2
  <2>4. c[j] = c[j - 1] \o seqs[j]
    BY <1>4, <2>1, <2>2
  <2>5. f[j] = f[j - 1] \o seqs[j]
    BY <1>2, <2>1, <2>2
  <2> QED BY <2>3, <2>4, <2>5
<1>7. Nat \subseteq T
  BY <1>5, <1>6, CountingUp
<1>8. \A i \in 1 .. n : c[i] = f[i]
  <2> TAKE i \in 1 .. n
  <2>1. i - 1 \in Nat /\ (i - 1) + 1 = i
    BY <1>0
  <2>2. i - 1 \in T
    BY <1>7, <2>1
  <2> QED BY <2>1, <2>2
<1>9. n \in 1 .. n
  BY <1>0
<1>10. FlattenSeq(seqs) = f[n]
  BY <1>1, <1>8, <1>9
<1>11. \A i \in 1 .. n : f[i] = IF i = 1 THEN seqs[i] ELSE f[i - 1] \o seqs[i]
  BY <1>2
<1> QED BY <1>10, <1>11

\* What it does sequence by sequence.
LEMMA FlattenAppend ==
  ASSUME NEW S, NEW seqs \in Seq(Seq(S)), NEW s \in Seq(S)
  PROVE  /\ FlattenSeq(seqs) \in Seq(S)
         /\ FlattenSeq(Append(seqs, s)) = FlattenSeq(seqs) \o s
<1> DEFINE n == Len(seqs)  more == Append(seqs, s)
<1>0. /\ n \in Nat /\ more \in Seq(Seq(S)) /\ Len(more) = n + 1
      /\ more[n + 1] = s /\ \A i \in 1 .. n : more[i] = seqs[i]
  OBVIOUS
<1> HIDE DEF more
<1>1. PICK g \in [1 .. n + 1 -> Seq(S)] :
        /\ FlattenSeq(more) = g[n + 1]
        /\ \A i \in 1 .. n + 1 : g[i] = IF i = 1 THEN more[i] ELSE g[i - 1] \o more[i]
  <2>1. Len(more) # 0
    BY <1>0
  <2>2. \E g \in [1 .. Len(more) -> Seq(S)] :
          /\ FlattenSeq(more) = g[Len(more)]
          /\ \A i \in 1 .. Len(more) :
               g[i] = IF i = 1 THEN more[i] ELSE g[i - 1] \o more[i]
    BY <1>0, <2>1, FlattenIs
  <2> QED BY <1>0, <2>2
<1>2. CASE n = 0
  <2>1. FlattenSeq(seqs) = <<>> /\ seqs = <<>>
    BY <1>2 DEF FlattenSeq
  <2>2. g[1] = s
    <3>1. n + 1 = 1 /\ 1 \in 1 .. n + 1
      BY <1>2
    <3>2. g[1] = more[1]
      BY <1>1, <3>1
    <3> QED BY <1>0, <3>1, <3>2
  <2>3. FlattenSeq(more) = s
    BY <1>1, <1>2, <2>2
  <2>4. <<>> \o s = s /\ <<>> \in Seq(S)
    OBVIOUS
  <2> QED BY <2>1, <2>3, <2>4 DEF more
<1>3. CASE n # 0
  <2>1. PICK f \in [1 .. n -> Seq(S)] :
          /\ FlattenSeq(seqs) = f[n]
          /\ \A i \in 1 .. n : f[i] = IF i = 1 THEN seqs[i] ELSE f[i - 1] \o seqs[i]
    BY <1>3, FlattenIs
  <2> DEFINE T == {i \in Nat : i + 1 \in 1 .. n => g[i + 1] = f[i + 1]}
  <2>2. 0 \in T
    <3>1. SUFFICES ASSUME 1 \in 1 .. n PROVE g[1] = f[1]
      OBVIOUS
    <3>2. 1 \in 1 .. n + 1
      BY <1>0
    <3> QED BY <1>0, <1>1, <2>1, <3>1, <3>2
  <2>3. ASSUME NEW i \in Nat, i \in T PROVE i + 1 \in T
    <3>1. SUFFICES ASSUME (i + 1) + 1 \in 1 .. n PROVE g[(i + 1) + 1] = f[(i + 1) + 1]
      OBVIOUS
    <3> DEFINE j == (i + 1) + 1
    <3>2. j # 1 /\ j - 1 = i + 1 /\ i + 1 \in 1 .. n /\ j \in 1 .. n + 1
      BY <1>0, <3>1
    <3>3. g[j - 1] = f[j - 1]
      BY <2>3, <3>2
    <3>4. g[j] = g[j - 1] \o seqs[j]
      BY <1>0, <1>1, <3>1, <3>2
    <3>5. f[j] = f[j - 1] \o seqs[j]
      BY <2>1, <3>1, <3>2
    <3> QED BY <3>3, <3>4, <3>5
  <2>4. Nat \subseteq T
    BY <2>2, <2>3, CountingUp
  <2>5. g[n] = f[n]
    <3>1. n - 1 \in Nat /\ (n - 1) + 1 = n /\ n \in 1 .. n
      BY <1>0, <1>3
    <3>2. n - 1 \in T
      BY <2>4, <3>1
    <3> QED BY <3>1, <3>2
  <2>6. g[n + 1] = g[n] \o s
    <3>1. n + 1 \in 1 .. n + 1 /\ n + 1 # 1 /\ (n + 1) - 1 = n
      BY <1>0, <1>3
    <3> QED BY <1>0, <1>1, <3>1
  <2>7. f[n] \in Seq(S)
    <3>1. n \in 1 .. n
      BY <1>0, <1>3
    <3> QED BY <3>1
  <2> QED BY <1>1, <2>1, <2>5, <2>6, <2>7 DEF more
<1> QED BY <1>2, <1>3

\* A sequence of sequences without its last one.
LEMMA AllButLast ==
  ASSUME NEW S, NEW n \in Nat, NEW seqs \in Seq(Seq(S)), Len(seqs) = n + 1
  PROVE  \E first \in Seq(Seq(S)), s \in Seq(S) :
           /\ Len(first) = n /\ seqs = Append(first, s)
           /\ \A i \in 1 .. n : first[i] = seqs[i]
           /\ s = seqs[n + 1]
<1> DEFINE first == [i \in 1 .. n |-> seqs[i]]
<1>1. \A i \in 1 .. n + 1 : seqs[i] \in Seq(S)
  OBVIOUS
<1>2. first \in Seq(Seq(S)) /\ Len(first) = n
  <2>1. \A i \in 1 .. n : first[i] \in Seq(S)
    BY <1>1
  <2> QED BY <2>1
<1>3. n + 1 \in 1 .. n + 1
  OBVIOUS
<1>4. seqs = Append(first, seqs[n + 1])
  <2>1. Append(first, seqs[n + 1]) \in Seq(Seq(S))
    BY <1>1, <1>2, <1>3
  <2>2. Len(Append(first, seqs[n + 1])) = n + 1
    BY <1>2
  <2>3. \A i \in 1 .. n + 1 : Append(first, seqs[n + 1])[i] = seqs[i]
    BY <1>2
  <2> HIDE DEF first
  <2> QED BY <2>1, <2>2, <2>3, SeqEqual
<1> QED BY <1>1, <1>2, <1>3, <1>4

\* Concatenation, of which only this is used.
Cat(s, t) == s \o t

LEMMA CatFacts == \A S : \A s, t, u \in Seq(S) : Cat(Cat(s, t), u) = Cat(s, Cat(t, u))
BY ConcatAssociative DEF Cat

LEMMA FlattenConcat ==
  ASSUME NEW S, NEW seqs \in Seq(Seq(S)), NEW more \in Seq(Seq(S))
  PROVE  /\ FlattenSeq(seqs) \in Seq(S) /\ FlattenSeq(more) \in Seq(S)
         /\ FlattenSeq(seqs \o more) = FlattenSeq(seqs) \o FlattenSeq(more)
<1> DEFINE P(n) == \A t \in Seq(Seq(S)) :
                     Len(t) = n => FlattenSeq(seqs \o t) = FlattenSeq(seqs) \o FlattenSeq(t)
           T == {n \in Nat : P(n)}
<1>0. \A t \in Seq(Seq(S)) : FlattenSeq(t) \in Seq(S)
  BY FlattenAppend, <<>> \in Seq(S)
<1>1. P(0)
  <2> SUFFICES ASSUME NEW t \in Seq(Seq(S)), Len(t) = 0
               PROVE  FlattenSeq(seqs \o t) = FlattenSeq(seqs) \o FlattenSeq(t)
    OBVIOUS
  <2>1. t = <<>> /\ FlattenSeq(t) = <<>>
    BY DEF FlattenSeq
  <2>2. seqs \o t = seqs
    BY <2>1
  <2>3. FlattenSeq(seqs) \o <<>> = FlattenSeq(seqs)
    BY <1>0
  <2> QED BY <2>1, <2>2, <2>3
<1>2. ASSUME NEW n \in Nat, P(n) PROVE P(n + 1)
  <2> SUFFICES ASSUME NEW t \in Seq(Seq(S)), Len(t) = n + 1
               PROVE  FlattenSeq(seqs \o t) = FlattenSeq(seqs) \o FlattenSeq(t)
    OBVIOUS
  <2>1. PICK first \in Seq(Seq(S)), s \in Seq(S) :
          /\ Len(first) = n /\ t = Append(first, s)
          /\ \A i \in 1 .. n : first[i] = t[i]
          /\ s = t[n + 1]
    BY AllButLast
  <2>2. FlattenSeq(seqs \o first) = FlattenSeq(seqs) \o FlattenSeq(first)
    BY <1>2, <2>1
  <2>3. seqs \o first \in Seq(Seq(S))
    BY ConcatProperties
  <2>7. seqs \o t = Append(seqs \o first, s)
    <3>1. seqs \o Append(first, s) \in Seq(Seq(S)) /\ Append(seqs \o first, s) \in Seq(Seq(S))
      BY <2>3, ConcatProperties
    <3>2. /\ Len(seqs \o Append(first, s)) = Len(seqs) + (Len(first) + 1)
          /\ Len(Append(seqs \o first, s)) = Len(seqs) + (Len(first) + 1)
      BY <2>3
    <3>3. \A i \in 1 .. Len(seqs) + (Len(first) + 1) :
            (seqs \o Append(first, s))[i] = Append(seqs \o first, s)[i]
      BY <2>3
    <3>4. seqs \o Append(first, s) = Append(seqs \o first, s)
      BY <3>1, <3>2, <3>3, SeqEqual
    <3> QED BY <2>1, <3>4
  <2>4. FlattenSeq(seqs \o t) = (FlattenSeq(seqs) \o FlattenSeq(first)) \o s
    BY <2>2, <2>3, <2>7, FlattenAppend
  <2>5. FlattenSeq(t) = FlattenSeq(first) \o s
    BY <2>1, FlattenAppend
  <2>6. (FlattenSeq(seqs) \o FlattenSeq(first)) \o s = FlattenSeq(seqs) \o (FlattenSeq(first) \o s)
    <3>1. FlattenSeq(seqs) \in Seq(S) /\ FlattenSeq(first) \in Seq(S)
      BY <1>0
    <3>2. \A a, b, c \in Seq(S) : Cat(Cat(a, b), c) = Cat(a, Cat(b, c))
      BY CatFacts
    <3>3. Cat(Cat(FlattenSeq(seqs), FlattenSeq(first)), s) =
            Cat(FlattenSeq(seqs), Cat(FlattenSeq(first), s))
      BY <3>1, <3>2, Zenon
    <3> QED BY <3>3, Zenon DEF Cat
  <2> QED BY <2>4, <2>5, <2>6
<1> HIDE DEF P
<1>3. Nat \subseteq T
  <2>1. 0 \in T
    BY <1>1
  <2>2. ASSUME NEW n \in Nat, n \in T PROVE n + 1 \in T
    BY <1>2, <2>2
  <2> QED BY <2>1, <2>2, CountingUp
<1>4. Len(more) \in Nat
  OBVIOUS
<1>5. P(Len(more))
  BY <1>3, <1>4
<1> QED BY <1>0, <1>5 DEF P

\* Sequences that are all as long, or at most as long.
LEMMA FlattenLen ==
  ASSUME NEW S, NEW c \in Nat, NEW seqs \in Seq(Seq(S)),
         \A i \in 1 .. Len(seqs) : Len(seqs[i]) <= c
  PROVE  /\ Len(FlattenSeq(seqs)) <= Len(seqs) * c
         /\ (\A i \in 1 .. Len(seqs) : Len(seqs[i]) = c) =>
              Len(FlattenSeq(seqs)) = Len(seqs) * c
<1> DEFINE P(n) == \A t \in Seq(Seq(S)) :
                     /\ Len(t) = n
                     /\ \A i \in 1 .. n : Len(t[i]) <= c
                     => /\ Len(FlattenSeq(t)) <= n * c
                        /\ (\A i \in 1 .. n : Len(t[i]) = c) => Len(FlattenSeq(t)) = n * c
           T == {n \in Nat : P(n)}
<1>1. P(0)
  BY DEF FlattenSeq
<1>2. ASSUME NEW n \in Nat, P(n) PROVE P(n + 1)
  <2> SUFFICES ASSUME NEW t \in Seq(Seq(S)), Len(t) = n + 1,
                      \A i \in 1 .. n + 1 : Len(t[i]) <= c
               PROVE  /\ Len(FlattenSeq(t)) <= (n + 1) * c
                      /\ (\A i \in 1 .. n + 1 : Len(t[i]) = c) =>
                           Len(FlattenSeq(t)) = (n + 1) * c
    OBVIOUS
  <2>1. PICK first \in Seq(Seq(S)), s \in Seq(S) :
          /\ Len(first) = n /\ t = Append(first, s)
          /\ \A i \in 1 .. n : first[i] = t[i]
          /\ s = t[n + 1]
    BY AllButLast
  <2>2. FlattenSeq(first) \in Seq(S) /\ FlattenSeq(t) = FlattenSeq(first) \o s
    BY <2>1, FlattenAppend
  <2>3. Len(FlattenSeq(t)) = Len(FlattenSeq(first)) + Len(s)
    BY <2>2
  <2>4. \A i \in 1 .. n : Len(first[i]) <= c
    BY <2>1
  <2>5. Len(s) <= c /\ ((\A i \in 1 .. n + 1 : Len(t[i]) = c) => Len(s) = c)
    <3>1. n + 1 \in 1 .. n + 1
      OBVIOUS
    <3> QED BY <2>1, <3>1
  <2>6. /\ Len(FlattenSeq(first)) <= n * c
        /\ (\A i \in 1 .. n : Len(first[i]) = c) => Len(FlattenSeq(first)) = n * c
    BY <1>2, <2>1, <2>4
  <2>7. (\A i \in 1 .. n + 1 : Len(t[i]) = c) => \A i \in 1 .. n : Len(first[i]) = c
    BY <2>1
  <2>8. (n + 1) * c = n * c + c /\ n * c \in Nat
    OBVIOUS
  <2>9. Len(FlattenSeq(first)) \in Nat /\ Len(s) \in Nat
    BY <2>2
  <2> HIDE <1>2
  <2>10. Len(FlattenSeq(t)) <= (n + 1) * c
    BY <2>3, <2>5, <2>6, <2>8, <2>9
  <2>11. ASSUME \A i \in 1 .. n + 1 : Len(t[i]) = c
         PROVE  Len(FlattenSeq(t)) = (n + 1) * c
    <3>1. Len(FlattenSeq(first)) = n * c /\ Len(s) = c
      BY <2>5, <2>6, <2>7, <2>11
    <3> QED BY <2>3, <2>8, <3>1
  <2> QED BY <2>10, <2>11
<1> HIDE DEF P
<1>3. Nat \subseteq T
  <2>1. 0 \in T
    BY <1>1
  <2>2. ASSUME NEW n \in Nat, n \in T PROVE n + 1 \in T
    BY <1>2, <2>2
  <2> QED BY <2>1, <2>2, CountingUp
<1>4. Len(seqs) \in Nat
  OBVIOUS
<1>5. P(Len(seqs))
  BY <1>3, <1>4
<1> QED BY <1>5 DEF P

-----------------------------------------------------------------------------
(* The size of the ring. *)

\* ceilToPow2() is not below its argument.
LEMMA CeilNotBelow ==
  ASSUME NEW x \in Nat \ {0}
  PROVE  CeilToPow2(x) \in Nat /\ CeilToPow2(x) >= x
<1> DEFINE Is(f) == f = [k \in 0 .. x |-> IF k = 0 THEN 1 ELSE 2 * f[k - 1]]
           power == CHOOSE f : Is(f)
           Reach == {power[k] : k \in {j \in 0 .. x : power[j] >= x}}
<1>1. CeilToPow2(x) = Min(Reach)
  BY DEF CeilToPow2
<1>2. \E f : Is(f)
  <2> DEFINE P(n) == \E f \in [0 .. n -> Nat] :
                       f = [k \in 0 .. n |-> IF k = 0 THEN 1 ELSE 2 * f[k - 1]]
             T == {n \in Nat : P(n)}
  <2>1. P(0)
    <3> DEFINE f == [k \in 0 .. 0 |-> 1]
    <3>1. f = [k \in 0 .. 0 |-> IF k = 0 THEN 1 ELSE 2 * f[k - 1]]
      OBVIOUS
    <3>2. f \in [0 .. 0 -> Nat]
      OBVIOUS
    <3> QED BY <3>1, <3>2
  <2>2. ASSUME NEW n \in Nat, P(n) PROVE P(n + 1)
    <3>1. PICK f \in [0 .. n -> Nat] :
            f = [k \in 0 .. n |-> IF k = 0 THEN 1 ELSE 2 * f[k - 1]]
      BY <2>2
    <3> DEFINE g == [k \in 0 .. n + 1 |-> IF k <= n THEN f[k] ELSE 2 * f[n]]
    <3>2. g \in [0 .. n + 1 -> Nat]
      OBVIOUS
    <3>3. \A k \in 0 .. n + 1 : g[k] = IF k = 0 THEN 1 ELSE 2 * g[k - 1]
      <4> TAKE k \in 0 .. n + 1
      <4>1. CASE k <= n
        <5>1. k \in 0 .. n /\ g[k] = f[k] /\ (k # 0 => k - 1 \in 0 .. n /\ g[k - 1] = f[k - 1])
          BY <4>1
        <5>2. f[k] = IF k = 0 THEN 1 ELSE 2 * f[k - 1]
          BY <3>1, <5>1
        <5> HIDE DEF g
        <5> QED BY <5>1, <5>2
      <4>2. CASE k = n + 1
        BY <4>2
      <4> QED BY <4>1, <4>2
    <3>4. g = [k \in 0 .. n + 1 |-> IF k = 0 THEN 1 ELSE 2 * g[k - 1]]
      <4>1. g = [k \in 0 .. n + 1 |-> g[k]]
        OBVIOUS
      <4> HIDE DEF g
      <4> QED BY <3>3, <4>1
    <3> QED BY <3>2, <3>4
  <2> HIDE DEF P
  <2>3. Nat \subseteq T
    <3>1. 0 \in T
      BY <2>1
    <3>2. ASSUME NEW n \in Nat, n \in T PROVE n + 1 \in T
      BY <2>2, <3>2
    <3> QED BY <3>1, <3>2, CountingUp
  <2>4. P(x)
    BY <2>3
  <2> QED BY <2>4 DEF P
<1>3. Is(power)
  BY <1>2
<1>4. \A k \in 0 .. x : power[k] = IF k = 0 THEN 1 ELSE 2 * power[k - 1]
  BY <1>3
<1> HIDE DEF power
<1>5. \A k \in 0 .. x : power[k] \in Nat /\ power[k] > k
  <2> DEFINE T == {k \in Nat : k <= x => power[k] \in Nat /\ power[k] > k}
  <2>1. 0 \in T
    BY <1>4
  <2>2. ASSUME NEW k \in Nat, k \in T PROVE k + 1 \in T
    <3>1. SUFFICES ASSUME k + 1 <= x PROVE power[k + 1] \in Nat /\ power[k + 1] > k + 1
      OBVIOUS
    <3>2. power[k] \in Nat /\ power[k] > k
      BY <2>2, <3>1
    <3>3. power[k + 1] = 2 * power[k]
      BY <1>4, <3>1
    <3> QED BY <3>2, <3>3
  <2>3. Nat \subseteq T
    BY <2>1, <2>2, CountingUp
  <2> QED BY <2>3
<1>6. Reach \subseteq Nat /\ power[x] \in Reach /\ \A p \in Reach : p >= x
  BY <1>5
<1> HIDE DEF Reach
<1>7. \E p \in Reach : \A q \in Reach : p <= q
  <2> DEFINE T == {n \in Nat : \A p \in Reach : p >= n}
  <2>1. SUFFICES ASSUME \A p \in Reach : \E q \in Reach : ~(p <= q) PROVE FALSE
    OBVIOUS
  <2>2. 0 \in T
    BY <1>6
  <2>3. ASSUME NEW n \in Nat, n \in T PROVE n + 1 \in T
    <3>1. n \notin Reach
      <4>1. ASSUME n \in Reach PROVE FALSE
        <5>1. PICK q \in Reach : ~(n <= q)
          BY <2>1, <4>1
        <5> QED BY <2>3, <5>1, <1>6
      <4> QED BY <4>1
    <3>2. ASSUME NEW p \in Reach PROVE p >= n + 1
      <4>1. p \in Nat /\ p >= n /\ p # n
        BY <1>6, <2>3, <3>1
      <4> QED BY <4>1
    <3> QED BY <3>2
  <2>4. Nat \subseteq T
    BY <2>2, <2>3, CountingUp
  <2>5. power[x] \in Nat
    BY <1>6
  <2>6. power[x] + 1 \in T
    BY <2>4, <2>5
  <2>7. power[x] >= power[x] + 1
    BY <1>6, <2>6
  <2> QED BY <2>5, <2>7
<1>8. Min(Reach) \in Reach
  BY <1>7 DEF Min
<1> QED BY <1>1, <1>6, <1>8

\* The constructor makes blocks of two slots or more, and more room than it is asked for
\* even if one block is kept for the consumer.
LEMMA RingSize ==
  /\ BlockSize \in Nat /\ BlockSize >= 2 /\ BlockCount \in Nat /\ BlockCount >= 1
  /\ maxSize \in Nat /\ maxSize >= 1
  /\ BlockCount = 1 => BlockSize - 1 >= maxSize
  /\ BlockCount > 1 => (BlockCount - 1) * (BlockSize - 1) >= maxSize
<1>1. maxSize \in Nat \ {0}
  BY QueueAssumption
<1>2. MAX_BLOCK_SIZE \in Nat /\ MAX_BLOCK_SIZE >= 2
  <2>1. PICK k \in 1 .. 10 : MAX_BLOCK_SIZE = 2 ^ k
    BY QueueAssumption
  <2>2. k \in {1, 2, 3, 4, 5, 6, 7, 8, 9, 10}
    OBVIOUS
  <2>3. CASE k = 1   BY <2>1, <2>3
  <2>4. CASE k = 2   BY <2>1, <2>4
  <2>5. CASE k = 3   BY <2>1, <2>5
  <2>6. CASE k = 4   BY <2>1, <2>6
  <2>7. CASE k = 5   BY <2>1, <2>7
  <2>8. CASE k = 6   BY <2>1, <2>8
  <2>9. CASE k = 7   BY <2>1, <2>9
  <2>10. CASE k = 8  BY <2>1, <2>10
  <2>11. CASE k = 9  BY <2>1, <2>11
  <2>12. CASE k = 10 BY <2>1, <2>12
  <2> QED BY <2>2, <2>3, <2>4, <2>5, <2>6, <2>7, <2>8, <2>9, <2>10, <2>11, <2>12
<1>3. Largest \in Nat /\ Largest >= maxSize + 1
  BY <1>1, CeilNotBelow, maxSize + 1 \in Nat \ {0} DEF Largest
<1>4. CASE Several
  <2> DEFINE d == MAX_BLOCK_SIZE - 1  q == (maxSize + MAX_BLOCK_SIZE * 2 - 3) \div d
  <2>1. d \in Nat /\ d >= 1 /\ BlockSize = MAX_BLOCK_SIZE /\ BlockCount = q
    BY <1>2, <1>4 DEF BlockSize, BlockCount
  <2>2. maxSize + MAX_BLOCK_SIZE * 2 - 3 \in Nat
    BY <1>1, <1>2
  <2>3. q \in Nat /\ q * d + d > maxSize + MAX_BLOCK_SIZE * 2 - 3
    <3>1. ASSUME NEW m \in Nat, NEW k \in Nat, k >= 1
          PROVE  m \div k \in Nat /\ (m \div k) * k + k > m
      BY <3>1
    <3> HIDE DEF d
    <3> QED BY <2>1, <2>2, <3>1
  <2>4. (q - 1) * d = q * d - d
    BY <2>1, <2>3
  <2>5. (q - 1) * d >= maxSize
    <3>1. q * d \in Nat
      BY <2>1, <2>3
    <3>2. d = MAX_BLOCK_SIZE - 1
      OBVIOUS
    <3> HIDE DEF d, q
    <3> QED BY <1>1, <1>2, <2>3, <2>4, <3>1, <3>2
  <2>6. q > 1
    <3>1. q = 0 => (q - 1) * d = -d
      BY <2>1
    <3>2. q = 1 => (q - 1) * d = 0
      BY <2>1
    <3> QED BY <1>1, <2>1, <2>3, <2>5, <3>1, <3>2
  <2> HIDE DEF q, d
  <2> QED BY <1>1, <1>2, <2>1, <2>3, <2>5, <2>6 DEF d
<1>5. CASE ~Several
  BY <1>1, <1>3, <1>5 DEF BlockSize, BlockCount
<1> QED BY <1>4, <1>5

-----------------------------------------------------------------------------
(* Going round the ring and round a block. *)

\* How far slot i is past slot j, and block b past block a.
PastSlot(i, j) == ((i + BlockSize) - j) % BlockSize
PastBlock(b, a) == ((b + BlockCount) - a) % BlockCount

LEMMA SlotArithmetic ==
  /\ \A i \in Slots : NextSlot(i) = IF i = BlockSize - 1 THEN 0 ELSE i + 1
  /\ \A i \in Slots : NextSlot(i) \in Slots
  /\ \A i, j \in Slots : PastSlot(i, j) = IF i >= j THEN i - j ELSE i - j + BlockSize
  /\ \A i, j \in Slots : PastSlot(i, j) \in Slots
<1> DEFINE n == BlockSize
<1>1. n \in Nat /\ n >= 2
  BY RingSize
<1>2. Slots = 0 .. n - 1
  BY DEF Slots
<1>3. \A i : NextSlot(i) = (i + 1) % n
  BY DEF NextSlot
<1>4. \A i, j : PastSlot(i, j) = ((i + n) - j) % n
  BY DEF PastSlot
<1> HIDE DEF n
<1>5. ASSUME NEW i \in 0 .. n - 1 PROVE (i + 1) % n = IF i = n - 1 THEN 0 ELSE i + 1
  BY <1>1, <1>5
<1>6. ASSUME NEW i \in 0 .. n - 1, NEW j \in 0 .. n - 1
      PROVE  ((i + n) - j) % n = IF i >= j THEN i - j ELSE i - j + n
  BY <1>1, <1>6
<1>7. \A i \in Slots : NextSlot(i) = IF i = n - 1 THEN 0 ELSE i + 1
  BY <1>2, <1>3, <1>5
<1>8. \A i, j \in Slots : PastSlot(i, j) = IF i >= j THEN i - j ELSE i - j + n
  BY <1>2, <1>4, <1>6
<1>9. \A i \in Slots : NextSlot(i) \in Slots
  BY <1>1, <1>2, <1>7
<1>10. \A i, j \in Slots : PastSlot(i, j) \in Slots
  <2> TAKE i, j \in Slots
  <2>1. PastSlot(i, j) = IF i >= j THEN i - j ELSE i - j + n
    BY <1>8
  <2> QED BY <1>1, <1>2, <2>1
<1> QED BY <1>7, <1>8, <1>9, <1>10 DEF n

LEMMA BlockArithmetic ==
  /\ \A b \in Blocks : NextBlock(b) = IF b = BlockCount - 1 THEN 0 ELSE b + 1
  /\ \A b \in Blocks : NextBlock(b) \in Blocks
  /\ \A b, a \in Blocks : PastBlock(b, a) = IF b >= a THEN b - a ELSE b - a + BlockCount
  /\ \A b, a \in Blocks : PastBlock(b, a) \in Blocks
<1> DEFINE n == BlockCount
<1>1. n \in Nat /\ n >= 1
  BY RingSize
<1>2. Blocks = 0 .. n - 1
  BY DEF Blocks
<1>3. \A b : NextBlock(b) = (b + 1) % n
  BY DEF NextBlock
<1>4. \A b, a : PastBlock(b, a) = ((b + n) - a) % n
  BY DEF PastBlock
<1> HIDE DEF n
<1>5. ASSUME NEW b \in 0 .. n - 1 PROVE (b + 1) % n = IF b = n - 1 THEN 0 ELSE b + 1
  BY <1>1, <1>5
<1>6. ASSUME NEW b \in 0 .. n - 1, NEW a \in 0 .. n - 1
      PROVE  ((b + n) - a) % n = IF b >= a THEN b - a ELSE b - a + n
  BY <1>1, <1>6
<1>7. \A b \in Blocks : NextBlock(b) = IF b = n - 1 THEN 0 ELSE b + 1
  BY <1>2, <1>3, <1>5
<1>8. \A b, a \in Blocks : PastBlock(b, a) = IF b >= a THEN b - a ELSE b - a + n
  BY <1>2, <1>4, <1>6
<1>9. \A b \in Blocks : NextBlock(b) \in Blocks
  BY <1>1, <1>2, <1>7
<1>10. \A b, a \in Blocks : PastBlock(b, a) \in Blocks
  <2> TAKE b, a \in Blocks
  <2>1. PastBlock(b, a) = IF b >= a THEN b - a ELSE b - a + n
    BY <1>8
  <2> QED BY <1>1, <1>2, <2>1
<1> QED BY <1>7, <1>8, <1>9, <1>10 DEF n

-----------------------------------------------------------------------------
(* What a block holds, as a function of its slots and its two indices. *)

ItemsIn(row, f, t) == [k \in 1 .. PastSlot(t, f) |-> row[(f + k - 1) % BlockSize]]

LEMMA SlotAt ==
  /\ \A f \in Slots : \A k \in 1 .. BlockSize :
       (f + k - 1) % BlockSize = IF f + k - 1 < BlockSize THEN f + k - 1 ELSE f + k - 1 - BlockSize
  /\ \A f \in Slots : \A k \in 1 .. BlockSize : (f + k - 1) % BlockSize \in Slots
<1> DEFINE n == BlockSize
<1>1. n \in Nat /\ n >= 2
  BY RingSize
<1>2. Slots = 0 .. n - 1
  BY DEF Slots
<1> HIDE DEF n
<1>3. ASSUME NEW f \in 0 .. n - 1, NEW k \in 1 .. n
      PROVE  (f + k - 1) % n = IF f + k - 1 < n THEN f + k - 1 ELSE f + k - 1 - n
  BY <1>1, <1>3
<1>4. ASSUME NEW f \in 0 .. n - 1, NEW k \in 1 .. n
      PROVE  (f + k - 1) % n \in 0 .. n - 1
  BY <1>1, <1>3
<1> QED BY <1>2, <1>3, <1>4 DEF n

LEMMA ItemsInType ==
  ASSUME NEW V, NEW row \in [Slots -> V], NEW f \in Slots, NEW t \in Slots
  PROVE  /\ ItemsIn(row, f, t) \in Seq(V)
         /\ Len(ItemsIn(row, f, t)) = PastSlot(t, f)
         /\ PastSlot(t, f) \in 0 .. BlockSize - 1
<1>1. PastSlot(t, f) \in Nat /\ PastSlot(t, f) \in 0 .. BlockSize - 1
  BY SlotArithmetic DEF Slots
<1>2. \A k \in 1 .. PastSlot(t, f) : row[(f + k - 1) % BlockSize] \in V
  <2> TAKE k \in 1 .. PastSlot(t, f)
  <2>1. k \in 1 .. BlockSize
    BY <1>1, RingSize
  <2>2. (f + k - 1) % BlockSize \in Slots
    BY <2>1, SlotAt
  <2> QED BY <2>2
<1> QED BY <1>1, <1>2 DEF ItemsIn

\* A write outside what the block holds.
WrittenAt(row, other, i) == \A j \in Slots \ {i} : other[j] = row[j]

LEMMA ItemsInWrite ==
  ASSUME NEW row, NEW other, NEW f \in Slots, NEW t \in Slots, NEW i \in Slots,
         WrittenAt(row, other, i), PastSlot(i, f) >= PastSlot(t, f)
  PROVE  ItemsIn(other, f, t) = ItemsIn(row, f, t)
<1>1. PastSlot(t, f) \in 0 .. BlockSize - 1
  BY SlotArithmetic DEF Slots
<1>2. ASSUME NEW k \in 1 .. PastSlot(t, f) PROVE (f + k - 1) % BlockSize # i
  <2>1. k \in 1 .. BlockSize
    BY <1>1, RingSize
  <2>2. (f + k - 1) % BlockSize = IF f + k - 1 < BlockSize THEN f + k - 1 ELSE f + k - 1 - BlockSize
    BY <2>1, SlotAt
  <2>3. PastSlot(i, f) = IF i >= f THEN i - f ELSE i - f + BlockSize
    BY SlotArithmetic
  <2>4. k <= PastSlot(i, f)
    BY <1>1, <2>3, RingSize DEF Slots
  <2> QED BY <2>2, <2>3, <2>4, RingSize DEF Slots
<1>3. \A k \in 1 .. PastSlot(t, f) :
        other[(f + k - 1) % BlockSize] = row[(f + k - 1) % BlockSize]
  <2> TAKE k \in 1 .. PastSlot(t, f)
  <2>1. k \in 1 .. BlockSize
    BY <1>1, RingSize
  <2>2. (f + k - 1) % BlockSize \in Slots
    BY <2>1, SlotAt
  <2> QED BY <1>2, <2>2 DEF WrittenAt
<1> QED BY <1>3 DEF ItemsIn

\* The index after the last slot moves on: the element in it is the last one.
LEMMA ItemsInPut ==
  ASSUME NEW V, NEW row \in [Slots -> V], NEW f \in Slots, NEW t \in Slots,
         NextSlot(t) # f
  PROVE  /\ ItemsIn(row, f, NextSlot(t)) = Append(ItemsIn(row, f, t), row[t])
         /\ PastSlot(NextSlot(t), f) = PastSlot(t, f) + 1
         /\ PastSlot(t, f) < BlockSize - 1
<1> DEFINE n == PastSlot(t, f)  s == ItemsIn(row, f, t)  r == ItemsIn(row, f, NextSlot(t))
<1>1. /\ n = IF t >= f THEN t - f ELSE t - f + BlockSize
      /\ NextSlot(t) = IF t = BlockSize - 1 THEN 0 ELSE t + 1
      /\ NextSlot(t) \in Slots
      /\ PastSlot(NextSlot(t), f) = IF NextSlot(t) >= f THEN NextSlot(t) - f
                                    ELSE NextSlot(t) - f + BlockSize
  BY SlotArithmetic
<1>2. PastSlot(NextSlot(t), f) = n + 1 /\ n < BlockSize - 1 /\ n \in Nat
  BY <1>1, RingSize DEF Slots
<1>3. s \in Seq(V) /\ Len(s) = n /\ r \in Seq(V) /\ Len(r) = n + 1
  BY <1>1, <1>2, ItemsInType
<1>4. \A k \in 1 .. n : r[k] = s[k]
  BY <1>2 DEF ItemsIn
<1>5. r[n + 1] = row[t]
  <2>1. n + 1 \in 1 .. BlockSize /\ n + 1 \in 1 .. PastSlot(NextSlot(t), f)
    BY <1>2, RingSize
  <2>2. (f + (n + 1) - 1) % BlockSize = IF f + (n + 1) - 1 < BlockSize THEN f + (n + 1) - 1
                                         ELSE f + (n + 1) - 1 - BlockSize
    BY <2>1, SlotAt
  <2>3. (f + (n + 1) - 1) % BlockSize = t
    BY <1>1, <2>2, RingSize DEF Slots
  <2> QED BY <2>1, <2>3 DEF ItemsIn
<1>6. row[t] \in V
  OBVIOUS
<1> HIDE DEF s, r, n
<1>7. r = Append(s, row[t])
  <2>1. Append(s, row[t]) \in Seq(V) /\ Len(Append(s, row[t])) = n + 1
    BY <1>3, <1>6
  <2>2. \A k \in 1 .. n + 1 : r[k] = Append(s, row[t])[k]
    BY <1>2, <1>3, <1>4, <1>5, <1>6
  <2> QED BY <1>3, <2>1, <2>2, SeqEqual
<1> QED BY <1>2, <1>7 DEF s, r, n

\* The front of a block that is not empty, and the rest.
LEMMA ItemsInTake ==
  ASSUME NEW V, NEW row \in [Slots -> V], NEW f \in Slots, NEW t \in Slots, f # t
  PROVE  /\ ItemsIn(row, f, t) = <<row[f]>> \o ItemsIn(row, NextSlot(f), t)
         /\ PastSlot(t, NextSlot(f)) = PastSlot(t, f) - 1
         /\ PastSlot(t, f) > 0
<1> DEFINE n == PastSlot(t, f)  s == ItemsIn(row, f, t)  r == ItemsIn(row, NextSlot(f), t)
<1>1. /\ n = IF t >= f THEN t - f ELSE t - f + BlockSize
      /\ NextSlot(f) = IF f = BlockSize - 1 THEN 0 ELSE f + 1
      /\ NextSlot(f) \in Slots
      /\ PastSlot(t, NextSlot(f)) = IF t >= NextSlot(f) THEN t - NextSlot(f)
                                    ELSE t - NextSlot(f) + BlockSize
  BY SlotArithmetic
<1>2. PastSlot(t, NextSlot(f)) = n - 1 /\ n > 0 /\ n \in Nat /\ n <= BlockSize - 1
  BY <1>1, RingSize DEF Slots
<1>3. s \in Seq(V) /\ Len(s) = n /\ r \in Seq(V) /\ Len(r) = n - 1
  <2>1. s \in Seq(V) /\ Len(s) = n
    BY ItemsInType
  <2>2. r \in Seq(V) /\ Len(r) = PastSlot(t, NextSlot(f))
    BY <1>1, ItemsInType
  <2> QED BY <1>2, <2>1, <2>2
<1>4. ASSUME NEW k \in 1 .. n - 1 PROVE r[k] = s[k + 1]
  <2>1. /\ k \in 1 .. BlockSize /\ k + 1 \in 1 .. BlockSize /\ k + 1 \in 1 .. n
        /\ k \in 1 .. PastSlot(t, NextSlot(f))
    BY <1>2, RingSize
  <2>2. (NextSlot(f) + k - 1) % BlockSize = IF NextSlot(f) + k - 1 < BlockSize
          THEN NextSlot(f) + k - 1 ELSE NextSlot(f) + k - 1 - BlockSize
    BY <1>1, <2>1, SlotAt
  <2>3. (f + (k + 1) - 1) % BlockSize = IF f + (k + 1) - 1 < BlockSize
          THEN f + (k + 1) - 1 ELSE f + (k + 1) - 1 - BlockSize
    BY <2>1, SlotAt
  <2>4. (NextSlot(f) + k - 1) % BlockSize = (f + (k + 1) - 1) % BlockSize
    BY <1>1, <2>1, <2>2, <2>3, RingSize DEF Slots
  <2> QED BY <2>1, <2>4 DEF ItemsIn
<1>5. s[1] = row[f]
  <2>1. 1 \in 1 .. BlockSize /\ 1 \in 1 .. n
    BY <1>2, RingSize
  <2>2. (f + 1 - 1) % BlockSize = f
    BY <2>1, SlotAt, RingSize DEF Slots
  <2> QED BY <2>1, <2>2 DEF ItemsIn
<1>6. row[f] \in V
  OBVIOUS
<1> HIDE DEF s, r, n
<1>7. s = <<row[f]>> \o r
  <2>1. <<row[f]>> \in Seq(V) /\ Len(<<row[f]>>) = 1
    BY <1>6
  <2>2. /\ <<row[f]>> \o r \in Seq(V) /\ Len(<<row[f]>> \o r) = n
        /\ \A k \in 1 .. n : (<<row[f]>> \o r)[k] = IF k <= 1 THEN <<row[f]>>[k] ELSE r[k - 1]
    BY <1>2, <1>3, <2>1, ConcatProperties
  <2>3. \A k \in 1 .. n : s[k] = (<<row[f]>> \o r)[k]
    <3> TAKE k \in 1 .. n
    <3>1. CASE k = 1
      BY <1>5, <2>2, <3>1
    <3>2. CASE k # 1
      <4>1. k - 1 \in 1 .. n - 1 /\ (k - 1) + 1 = k
        BY <1>2, <3>2
      <4> QED BY <1>4, <2>2, <3>2, <4>1
    <3> QED BY <3>1, <3>2
  <2> QED BY <1>3, <2>2, <2>3, SeqEqual
<1> QED BY <1>2, <1>7 DEF s, r, n

-----------------------------------------------------------------------------
(* What the ring holds, as a function of what its blocks hold. *)

StoredIn(rows, a, b) ==
  FlattenSeq([k \in 1 .. 1 + PastBlock(b, a) |-> rows[(a + k - 1) % BlockCount]])

LEMMA BlockAt ==
  /\ \A a \in Blocks : \A k \in 1 .. BlockCount :
       (a + k - 1) % BlockCount = IF a + k - 1 < BlockCount THEN a + k - 1
                                  ELSE a + k - 1 - BlockCount
  /\ \A a \in Blocks : \A k \in 1 .. BlockCount : (a + k - 1) % BlockCount \in Blocks
  /\ \A a \in Blocks : \A k \in 1 .. BlockCount :
       PastBlock((a + k - 1) % BlockCount, a) = k - 1
<1> DEFINE n == BlockCount
<1>1. n \in Nat /\ n >= 1
  BY RingSize
<1>2. Blocks = 0 .. n - 1
  BY DEF Blocks
<1> HIDE DEF n
<1>3. ASSUME NEW f \in 0 .. n - 1, NEW k \in 1 .. n
      PROVE  (f + k - 1) % n = IF f + k - 1 < n THEN f + k - 1 ELSE f + k - 1 - n
  BY <1>1, <1>3
<1>4. ASSUME NEW f \in 0 .. n - 1, NEW k \in 1 .. n
      PROVE  (f + k - 1) % n \in 0 .. n - 1
  BY <1>1, <1>3
<1>5. ASSUME NEW f \in 0 .. n - 1, NEW k \in 1 .. n
      PROVE  PastBlock((f + k - 1) % n, f) = k - 1
  <2>1. (f + k - 1) % n \in Blocks /\ f \in Blocks
    BY <1>2, <1>4
  <2> DEFINE g == (f + k - 1) % n
  <2>2. g = IF f + k - 1 < n THEN f + k - 1 ELSE f + k - 1 - n
    BY <1>3
  <2>3. PastBlock(g, f) = IF g >= f THEN g - f ELSE g - f + n
    BY <2>1, BlockArithmetic DEF n
  <2> HIDE DEF g
  <2>4. PastBlock(g, f) = k - 1
    BY <1>1, <2>2, <2>3
  <2> QED BY <2>4 DEF g
<1> QED BY <1>2, <1>3, <1>4, <1>5 DEF n

\* The blocks in their order, as many as there are from a to b or fewer or more.
LEMMA BlocksType ==
  ASSUME NEW V, NEW rows \in [Blocks -> Seq(V)], NEW a \in Blocks, NEW n \in 0 .. BlockCount
  PROVE  /\ [k \in 1 .. n |-> rows[(a + k - 1) % BlockCount]] \in Seq(Seq(V))
         /\ Len([k \in 1 .. n |-> rows[(a + k - 1) % BlockCount]]) = n
<1>1. \A k \in 1 .. n : rows[(a + k - 1) % BlockCount] \in Seq(V)
  <2> TAKE k \in 1 .. n
  <2>1. k \in 1 .. BlockCount
    BY RingSize
  <2>2. (a + k - 1) % BlockCount \in Blocks
    BY <2>1, BlockAt
  <2> QED BY <2>2
<1>2. n \in Nat
  BY RingSize
<1> QED BY <1>1, <1>2

LEMMA StoredInType ==
  ASSUME NEW V, NEW rows \in [Blocks -> Seq(V)], NEW a \in Blocks, NEW b \in Blocks
  PROVE  /\ StoredIn(rows, a, b) \in Seq(V)
         /\ 1 + PastBlock(b, a) \in 1 .. BlockCount
<1>1. PastBlock(b, a) \in 0 .. BlockCount - 1
  BY BlockArithmetic DEF Blocks
<1>2. 1 + PastBlock(b, a) \in 0 .. BlockCount /\ 1 + PastBlock(b, a) \in 1 .. BlockCount
  BY <1>1, RingSize
<1>3. [k \in 1 .. 1 + PastBlock(b, a) |-> rows[(a + k - 1) % BlockCount]] \in Seq(Seq(V))
  BY <1>2, BlocksType
<1>4. <<>> \in Seq(V)
  OBVIOUS
<1> QED BY <1>2, <1>3, <1>4, FlattenAppend DEF StoredIn

\* Of one block.
LEMMA StoredInOne ==
  ASSUME NEW V, NEW rows \in [Blocks -> Seq(V)], NEW a \in Blocks
  PROVE  StoredIn(rows, a, a) = rows[a]
<1>1. PastBlock(a, a) = 0
  BY BlockArithmetic, RingSize DEF Blocks
<1> DEFINE s == [k \in 1 .. 1 |-> rows[(a + k - 1) % BlockCount]]
<1>2. StoredIn(rows, a, a) = FlattenSeq(s)
  BY <1>1 DEF StoredIn
<1>3. (a + 1 - 1) % BlockCount = a
  <2>1. 1 \in 1 .. BlockCount
    BY RingSize
  <2>2. (a + 1 - 1) % BlockCount = IF a + 1 - 1 < BlockCount THEN a + 1 - 1
                                   ELSE a + 1 - 1 - BlockCount
    BY <2>1, BlockAt
  <2>3. a \in Nat /\ a < BlockCount
    BY RingSize DEF Blocks
  <2> QED BY <2>2, <2>3
<1>4. s = Append(<<>>, rows[a])
  BY <1>3
<1>5. <<>> \in Seq(Seq(V)) /\ <<>> \in Seq(V) /\ rows[a] \in Seq(V)
  OBVIOUS
<1>6. FlattenSeq(Append(<<>>, rows[a])) = FlattenSeq(<<>>) \o rows[a]
  BY <1>5, FlattenAppend
<1>7. FlattenSeq(<<>>) = <<>>
  BY DEF FlattenSeq
<1>8. <<>> \o rows[a] = rows[a]
  BY <1>5
<1> QED BY <1>2, <1>4, <1>6, <1>7, <1>8

\* Of the first block and the others.
LEMMA StoredInFirst ==
  ASSUME NEW V, NEW rows \in [Blocks -> Seq(V)], NEW a \in Blocks, NEW b \in Blocks, a # b
  PROVE  /\ StoredIn(rows, a, b) = rows[a] \o StoredIn(rows, NextBlock(a), b)
         /\ PastBlock(b, NextBlock(a)) = PastBlock(b, a) - 1
         /\ PastBlock(b, a) > 0
<1> DEFINE n == PastBlock(b, a)
           s == [k \in 1 .. 1 + n |-> rows[(a + k - 1) % BlockCount]]
           t == [k \in 1 .. n |-> rows[(NextBlock(a) + k - 1) % BlockCount]]
<1>1. /\ n = IF b >= a THEN b - a ELSE b - a + BlockCount
      /\ NextBlock(a) = IF a = BlockCount - 1 THEN 0 ELSE a + 1
      /\ NextBlock(a) \in Blocks
      /\ PastBlock(b, NextBlock(a)) = IF b >= NextBlock(a) THEN b - NextBlock(a)
                                      ELSE b - NextBlock(a) + BlockCount
  BY BlockArithmetic
<1>a. /\ BlockCount \in Nat /\ a \in Nat /\ b \in Nat
      /\ a < BlockCount /\ b < BlockCount
  BY RingSize DEF Blocks
<1>2. PastBlock(b, NextBlock(a)) = n - 1 /\ n > 0 /\ n \in Nat /\ n <= BlockCount - 1
  <2> HIDE DEF n
  <2> DEFINE c == NextBlock(a)  m == PastBlock(b, c)
  <2>1. /\ n = IF b >= a THEN b - a ELSE b - a + BlockCount
        /\ c = IF a = BlockCount - 1 THEN 0 ELSE a + 1
        /\ m = IF b >= c THEN b - c ELSE b - c + BlockCount
        /\ a # b
    BY <1>1
  <2> HIDE DEF c, m
  <2>2. n > 0 /\ n \in Nat /\ n <= BlockCount - 1
    BY <1>a, <2>1
  <2>3. m = n - 1
    BY <1>a, <2>1
  <2> QED BY <2>2, <2>3 DEF c, m
<1>3. StoredIn(rows, a, b) = FlattenSeq(s) /\ StoredIn(rows, NextBlock(a), b) = FlattenSeq(t)
  <2>1. 1 + PastBlock(b, NextBlock(a)) = n
    BY <1>2
  <2> QED BY <2>1 DEF StoredIn
<1>4. s \in Seq(Seq(V)) /\ Len(s) = 1 + n
  <2>1. 1 + n \in 0 .. BlockCount
    BY <1>2, RingSize
  <2> HIDE DEF n
  <2> QED BY <2>1, BlocksType
<1>5. t \in Seq(Seq(V)) /\ Len(t) = n
  <2>1. n \in 0 .. BlockCount
    BY <1>2, RingSize
  <2>2. NextBlock(a) \in Blocks
    BY <1>1
  <2> HIDE DEF n
  <2> QED BY <2>1, <2>2, BlocksType
<1>6. ASSUME NEW k \in 1 .. n PROVE t[k] = s[k + 1]
  <2>1. k \in 1 .. BlockCount /\ k + 1 \in 1 .. BlockCount /\ k + 1 \in 1 .. 1 + n
    BY <1>2, RingSize
  <2>2. (NextBlock(a) + k - 1) % BlockCount = IF NextBlock(a) + k - 1 < BlockCount
          THEN NextBlock(a) + k - 1 ELSE NextBlock(a) + k - 1 - BlockCount
    BY <1>1, <2>1, BlockAt
  <2>3. (a + (k + 1) - 1) % BlockCount = IF a + (k + 1) - 1 < BlockCount
          THEN a + (k + 1) - 1 ELSE a + (k + 1) - 1 - BlockCount
    BY <2>1, BlockAt
  <2>4. (NextBlock(a) + k - 1) % BlockCount = (a + (k + 1) - 1) % BlockCount
    BY <1>1, <1>a, <2>1, <2>2, <2>3
  <2> QED BY <2>1, <2>4
<1>7. s[1] = rows[a]
  <2>1. 1 \in 1 .. BlockCount /\ 1 \in 1 .. 1 + n
    BY <1>2, RingSize
  <2>2. (a + 1 - 1) % BlockCount = a
    <3>1. (a + 1 - 1) % BlockCount = IF a + 1 - 1 < BlockCount THEN a + 1 - 1
                                     ELSE a + 1 - 1 - BlockCount
      BY <2>1, BlockAt
    <3> QED BY <1>a, <3>1
  <2> QED BY <2>1, <2>2
<1>8. rows[a] \in Seq(V)
  OBVIOUS
<1> HIDE DEF s, t, n
<1>9. s = <<rows[a]>> \o t
  <2>1. <<rows[a]>> \in Seq(Seq(V)) /\ Len(<<rows[a]>>) = 1
    BY <1>8
  <2>2. /\ <<rows[a]>> \o t \in Seq(Seq(V)) /\ Len(<<rows[a]>> \o t) = 1 + n
        /\ \A k \in 1 .. 1 + n :
             (<<rows[a]>> \o t)[k] = IF k <= 1 THEN <<rows[a]>>[k] ELSE t[k - 1]
    BY <1>2, <1>5, <2>1, ConcatProperties
  <2>3. \A k \in 1 .. 1 + n : s[k] = (<<rows[a]>> \o t)[k]
    <3> TAKE k \in 1 .. 1 + n
    <3>1. CASE k = 1
      BY <1>7, <2>2, <3>1
    <3>2. CASE k # 1
      <4>1. k - 1 \in 1 .. n /\ (k - 1) + 1 = k
        BY <1>2, <3>2
      <4> QED BY <1>6, <2>2, <3>2, <4>1
    <3> QED BY <3>1, <3>2
  <2> QED BY <1>4, <2>2, <2>3, SeqEqual
<1>10. FlattenSeq(<<rows[a]>>) = rows[a]
  <2>1. <<>> \in Seq(Seq(V)) /\ FlattenSeq(<<>>) = <<>> /\ Append(<<>>, rows[a]) = <<rows[a]>>
    BY DEF FlattenSeq
  <2>2. FlattenSeq(Append(<<>>, rows[a])) = FlattenSeq(<<>>) \o rows[a]
    BY <1>8, <2>1, FlattenAppend
  <2>3. <<>> \o rows[a] = rows[a]
    BY <1>8
  <2> QED BY <2>1, <2>2, <2>3
<1>11. <<rows[a]>> \in Seq(Seq(V))
  BY <1>8
<1>12. FlattenSeq(s) = rows[a] \o FlattenSeq(t)
  BY <1>5, <1>9, <1>10, <1>11, FlattenConcat
<1> QED BY <1>2, <1>3, <1>12 DEF n

\* Of the blocks up to b, and the one after it.
LEMMA StoredInNext ==
  ASSUME NEW V, NEW rows \in [Blocks -> Seq(V)], NEW a \in Blocks, NEW b \in Blocks,
         NextBlock(b) # a
  PROVE  /\ StoredIn(rows, a, NextBlock(b)) = StoredIn(rows, a, b) \o rows[NextBlock(b)]
         /\ PastBlock(NextBlock(b), a) = PastBlock(b, a) + 1
         /\ PastBlock(b, a) < BlockCount - 1
<1> DEFINE n == PastBlock(b, a)
           s == [k \in 1 .. 1 + n |-> rows[(a + k - 1) % BlockCount]]
           t == [k \in 1 .. 1 + (n + 1) |-> rows[(a + k - 1) % BlockCount]]
<1>a. /\ BlockCount \in Nat /\ a \in Nat /\ b \in Nat
      /\ a < BlockCount /\ b < BlockCount
  BY RingSize DEF Blocks
<1>1. NextBlock(b) \in Blocks
  BY BlockArithmetic
<1>2. PastBlock(NextBlock(b), a) = n + 1 /\ n \in Nat /\ n < BlockCount - 1
  <2> DEFINE c == NextBlock(b)  m == PastBlock(c, a)
  <2>1. /\ n = IF b >= a THEN b - a ELSE b - a + BlockCount
        /\ c = IF b = BlockCount - 1 THEN 0 ELSE b + 1
        /\ m = IF c >= a THEN c - a ELSE c - a + BlockCount
        /\ c # a
    BY <1>1, BlockArithmetic
  <2> HIDE DEF c, m, n
  <2>2. n < BlockCount - 1 /\ n \in Nat
    BY <1>a, <2>1
  <2>3. m = n + 1
    BY <1>a, <2>1
  <2> QED BY <2>2, <2>3 DEF c, m
<1>3. StoredIn(rows, a, b) = FlattenSeq(s) /\ StoredIn(rows, a, NextBlock(b)) = FlattenSeq(t)
  BY <1>2 DEF StoredIn
<1>4. s \in Seq(Seq(V)) /\ Len(s) = 1 + n
  <2>1. 1 + n \in 0 .. BlockCount
    BY <1>a, <1>2
  <2> HIDE DEF n
  <2> QED BY <2>1, BlocksType
<1>5. t \in Seq(Seq(V)) /\ Len(t) = 1 + (n + 1)
  <2>1. 1 + (n + 1) \in 0 .. BlockCount
    BY <1>a, <1>2
  <2> HIDE DEF n
  <2> QED BY <2>1, BlocksType
<1>6. \A k \in 1 .. 1 + n : t[k] = s[k]
  BY <1>2
<1>7. t[1 + (n + 1)] = rows[NextBlock(b)]
  <2> DEFINE k == 1 + (n + 1)  c == NextBlock(b)
  <2>1. k \in 1 .. BlockCount
    BY <1>a, <1>2
  <2>2. (a + k - 1) % BlockCount = IF a + k - 1 < BlockCount THEN a + k - 1
                                   ELSE a + k - 1 - BlockCount
    BY <2>1, BlockAt
  <2>3. /\ n = IF b >= a THEN b - a ELSE b - a + BlockCount
        /\ c = IF b = BlockCount - 1 THEN 0 ELSE b + 1
        /\ c # a
    BY <1>1, BlockArithmetic
  <2>4. t[k] = rows[(a + k - 1) % BlockCount]
    BY <1>2
  <2>5. (a + k - 1) % BlockCount = c
    <3> HIDE DEF c, n
    <3> QED BY <1>a, <2>2, <2>3
  <2> QED BY <2>4, <2>5
<1>8. rows[NextBlock(b)] \in Seq(V)
  BY <1>1
<1> HIDE DEF s, t, n
<1>9. t = Append(s, rows[NextBlock(b)])
  <2> DEFINE u == Append(s, rows[NextBlock(b)])
  <2>1. /\ u \in Seq(Seq(V)) /\ Len(u) = 1 + (n + 1)
        /\ \A k \in 1 .. 1 + n : u[k] = s[k]
        /\ u[1 + (n + 1)] = rows[NextBlock(b)]
    BY <1>2, <1>4, <1>8
  <2> HIDE DEF u
  <2>2. \A k \in 1 .. 1 + (n + 1) : t[k] = u[k]
    BY <1>2, <1>6, <1>7, <2>1
  <2>3. t = u
    BY <1>5, <2>1, <2>2, SeqEqual
  <2> QED BY <2>3 DEF u
<1>10. FlattenSeq(t) = FlattenSeq(s) \o rows[NextBlock(b)]
  BY <1>4, <1>8, <1>9, FlattenAppend
<1> QED BY <1>2, <1>3, <1>10 DEF n

\* Only the blocks from a to b count.
Agree(rows, others, a, b) ==
  \A c \in Blocks : PastBlock(c, a) <= PastBlock(b, a) => others[c] = rows[c]

LEMMA StoredInSame ==
  ASSUME NEW rows, NEW others, NEW a \in Blocks, NEW b \in Blocks,
         Agree(rows, others, a, b)
  PROVE  StoredIn(others, a, b) = StoredIn(rows, a, b)
<1>1. ASSUME NEW k \in 1 .. 1 + PastBlock(b, a)
      PROVE  others[(a + k - 1) % BlockCount] = rows[(a + k - 1) % BlockCount]
  <2>1. PastBlock(b, a) \in 0 .. BlockCount - 1
    BY BlockArithmetic DEF Blocks
  <2>2. k \in 1 .. BlockCount /\ k - 1 <= PastBlock(b, a)
    BY <2>1, RingSize
  <2>3. (a + k - 1) % BlockCount \in Blocks /\ PastBlock((a + k - 1) % BlockCount, a) = k - 1
    BY <2>2, BlockAt
  <2> QED BY <2>2, <2>3 DEF Agree
<1>2. [k \in 1 .. 1 + PastBlock(b, a) |-> others[(a + k - 1) % BlockCount]] =
        [k \in 1 .. 1 + PastBlock(b, a) |-> rows[(a + k - 1) % BlockCount]]
  BY <1>1
<1> QED BY <1>2 DEF StoredIn

\* How much there is at most, and just as much if the blocks hold as much each.
LEMMA StoredInLen ==
  ASSUME NEW V, NEW rows \in [Blocks -> Seq(V)], NEW a \in Blocks, NEW b \in Blocks,
         NEW c \in Nat,
         \A d \in Blocks : PastBlock(d, a) <= PastBlock(b, a) => Len(rows[d]) <= c
  PROVE  /\ Len(StoredIn(rows, a, b)) <= (1 + PastBlock(b, a)) * c
         /\ (\A d \in Blocks : PastBlock(d, a) <= PastBlock(b, a) => Len(rows[d]) = c) =>
              Len(StoredIn(rows, a, b)) = (1 + PastBlock(b, a)) * c
<1> DEFINE n == PastBlock(b, a)
           s == [k \in 1 .. 1 + n |-> rows[(a + k - 1) % BlockCount]]
<1>1. n \in Nat /\ n <= BlockCount - 1 /\ BlockCount \in Nat
  <2>1. n \in Blocks
    BY BlockArithmetic
  <2> HIDE DEF n
  <2> QED BY <2>1, RingSize DEF Blocks
<1>2. s \in Seq(Seq(V)) /\ Len(s) = 1 + n
  <2>1. 1 + n \in 0 .. BlockCount
    BY <1>1
  <2> HIDE DEF n
  <2> QED BY <2>1, BlocksType
<1>3. ASSUME NEW k \in 1 .. 1 + n
      PROVE  \E d \in Blocks : PastBlock(d, a) <= n /\ s[k] = rows[d]
  <2>1. k \in 1 .. BlockCount /\ k - 1 <= n
    BY <1>1
  <2>2. (a + k - 1) % BlockCount \in Blocks /\ PastBlock((a + k - 1) % BlockCount, a) = k - 1
    BY <2>1, BlockAt
  <2>3. s[k] = rows[(a + k - 1) % BlockCount]
    OBVIOUS
  <2> HIDE DEF n, s
  <2> QED BY <2>1, <2>2, <2>3
<1>4. StoredIn(rows, a, b) = FlattenSeq(s)
  BY DEF StoredIn
<1> HIDE DEF s
<1>5. \A k \in 1 .. Len(s) : Len(s[k]) <= c
  BY <1>2, <1>3
<1>6. ASSUME \A d \in Blocks : PastBlock(d, a) <= n => Len(rows[d]) = c
      PROVE  \A k \in 1 .. Len(s) : Len(s[k]) = c
  BY <1>2, <1>3, <1>6
<1>7. /\ Len(FlattenSeq(s)) <= Len(s) * c
      /\ (\A i \in 1 .. Len(s) : Len(s[i]) = c) => Len(FlattenSeq(s)) = Len(s) * c
  BY <1>2, <1>5, FlattenLen
<1> QED BY <1>2, <1>4, <1>6, <1>7

\* What the destructor goes over: all the blocks, from the first.
AllIn(rows, a) == FlattenSeq([k \in 1 .. BlockCount |-> rows[(a + k - 1) % BlockCount]])

LEMMA RestEmpty ==
  ASSUME NEW V, NEW rows \in [Blocks -> Seq(V)], NEW a \in Blocks, NEW b \in Blocks,
         \A c \in Blocks : PastBlock(c, a) > PastBlock(b, a) => rows[c] = <<>>
  PROVE  AllIn(rows, a) = StoredIn(rows, a, b)
<1> DEFINE n == PastBlock(b, a)
           s == [k \in 1 .. 1 + n |-> rows[(a + k - 1) % BlockCount]]
           all == [k \in 1 .. BlockCount |-> rows[(a + k - 1) % BlockCount]]
           rest == [k \in 1 .. BlockCount - (1 + n) |-> <<>>]
<1>1. n \in Nat /\ n <= BlockCount - 1 /\ BlockCount \in Nat
  <2>1. n \in Blocks
    BY BlockArithmetic
  <2> HIDE DEF n
  <2> QED BY <2>1, RingSize DEF Blocks
<1>2. s \in Seq(Seq(V)) /\ Len(s) = 1 + n
  <2>1. 1 + n \in 0 .. BlockCount
    BY <1>1
  <2> HIDE DEF n
  <2> QED BY <2>1, BlocksType
<1>3. all \in Seq(Seq(V)) /\ Len(all) = BlockCount
  <2>1. \A m \in 0 .. BlockCount :
          /\ [k \in 1 .. m |-> rows[(a + k - 1) % BlockCount]] \in Seq(Seq(V))
          /\ Len([k \in 1 .. m |-> rows[(a + k - 1) % BlockCount]]) = m
    BY BlocksType
  <2>2. BlockCount \in 0 .. BlockCount
    BY <1>1
  <2> QED BY <2>1, <2>2
<1>4. /\ rest \in Seq(Seq(V)) /\ Len(rest) = BlockCount - (1 + n)
      /\ \A k \in 1 .. BlockCount - (1 + n) : rest[k] = <<>>
  <2>1. ASSUME NEW W, NEW w \in W, NEW m \in Nat
        PROVE  /\ [k \in 1 .. m |-> w] \in Seq(W) /\ Len([k \in 1 .. m |-> w]) = m
               /\ \A k \in 1 .. m : [j \in 1 .. m |-> w][k] = w
    OBVIOUS
  <2>2. <<>> \in Seq(V) /\ BlockCount - (1 + n) \in Nat
    BY <1>1
  <2> HIDE DEF n
  <2> QED BY <2>1, <2>2
<1>5. ASSUME NEW k \in 1 .. BlockCount, k > 1 + n PROVE all[k] = <<>>
  <2>1. (a + k - 1) % BlockCount \in Blocks /\ PastBlock((a + k - 1) % BlockCount, a) = k - 1
    BY BlockAt
  <2>2. k - 1 > n
    BY <1>1, <1>5
  <2>3. all[k] = rows[(a + k - 1) % BlockCount]
    OBVIOUS
  <2> HIDE DEF all
  <2> QED BY <2>1, <2>2, <2>3
<1>6. \A k \in 1 .. 1 + n : all[k] = s[k]
  BY <1>1
<1>7. AllIn(rows, a) = FlattenSeq(all) /\ StoredIn(rows, a, b) = FlattenSeq(s)
  BY DEF AllIn, StoredIn
<1> HIDE DEF n, s, all, rest
<1>8. all = s \o rest
  <2>1. /\ s \o rest \in Seq(Seq(V)) /\ Len(s \o rest) = BlockCount
        /\ \A k \in 1 .. BlockCount :
             (s \o rest)[k] = IF k <= 1 + n THEN s[k] ELSE rest[k - (1 + n)]
    <3>1. Len(s) + Len(rest) = BlockCount
      BY <1>1, <1>2, <1>4
    <3> QED BY <1>2, <1>4, <3>1, ConcatProperties
  <2>2. ASSUME NEW k \in 1 .. BlockCount PROVE all[k] = (s \o rest)[k]
    <3>0. k \in Nat /\ 1 <= k /\ k <= BlockCount /\ n \in Nat
      BY <1>1
    <3>a. (s \o rest)[k] = IF k <= 1 + n THEN s[k] ELSE rest[k - (1 + n)]
      BY <2>1
    <3> DEFINE at == (s \o rest)[k]
    <3>b. at = IF k <= 1 + n THEN s[k] ELSE rest[k - (1 + n)]
      BY <3>a
    <3> HIDE DEF at
    <3>1. CASE k <= 1 + n
      <4>1. k \in 1 .. 1 + n
        BY <3>0, <3>1
      <4> QED BY <1>6, <3>b, <3>1, <4>1 DEF at
    <3>2. CASE k > 1 + n
      <4>1. k - (1 + n) \in 1 .. BlockCount - (1 + n) /\ ~(k <= 1 + n)
        BY <1>1, <3>0, <3>2
      <4>2. rest[k - (1 + n)] = <<>>
        BY <1>4, <4>1
      <4>3. all[k] = <<>>
        BY <1>5, <3>2
      <4> QED BY <3>b, <4>1, <4>2, <4>3 DEF at
    <3>3. k <= 1 + n \/ k > 1 + n
      BY <3>0
    <3> QED BY <3>1, <3>2, <3>3
  <2> QED BY <1>3, <2>1, <2>2, SeqEqual
<1>9. FlattenSeq(rest) = <<>>
  <2>1. \A k \in 1 .. Len(rest) : Len(rest[k]) <= 0
    BY <1>4
  <2>2. Len(FlattenSeq(rest)) <= Len(rest) * 0
    BY <1>4, <2>1, FlattenLen
  <2>3. FlattenSeq(rest) \in Seq(V)
    BY <1>4, FlattenConcat
  <2>4. Len(rest) * 0 = 0
    BY <1>1, <1>4
  <2>5. Len(FlattenSeq(rest)) = 0
    BY <2>2, <2>3, <2>4
  <2> QED BY <2>3, <2>5, EmptySeq
<1>10. FlattenSeq(s) \in Seq(V) /\ FlattenSeq(all) = FlattenSeq(s) \o FlattenSeq(rest)
  BY <1>2, <1>4, <1>8, FlattenConcat
<1>11. FlattenSeq(s) \o <<>> = FlattenSeq(s)
  BY <1>10, ConcatEmptySeq
<1> QED BY <1>7, <1>9, <1>10, <1>11

\* One more element at the end of block b.
RowAppended(rows, more, b, e) == more = [rows EXCEPT ![b] = Append(rows[b], e)]

LEMMA StoredPut ==
  ASSUME NEW V, NEW rows \in [Blocks -> Seq(V)], NEW a \in Blocks, NEW b \in Blocks,
         NEW e \in V, NEW more, RowAppended(rows, more, b, e)
  PROVE  StoredIn(more, a, b) = Append(StoredIn(rows, a, b), e)
<1>1. /\ more \in [Blocks -> Seq(V)] /\ more[b] = Append(rows[b], e)
      /\ \A c \in Blocks \ {b} : more[c] = rows[c]
  BY DEF RowAppended
<1>2. CASE a = b
  BY <1>1, <1>2, StoredInOne
<1>3. CASE a # b
  <2>1. PICK p \in Blocks : NextBlock(p) = b
    <3>1. BlockCount \in Nat /\ b \in Nat /\ b < BlockCount
      BY RingSize DEF Blocks
    <3> DEFINE p == IF b = 0 THEN BlockCount - 1 ELSE b - 1
    <3>2. p \in Blocks
      BY <3>1 DEF Blocks
    <3>3. NextBlock(p) = IF p = BlockCount - 1 THEN 0 ELSE p + 1
      BY <3>2, BlockArithmetic
    <3>4. NextBlock(p) = b
      BY <3>1, <3>3
    <3> QED BY <3>2, <3>4
  <2>2. /\ StoredIn(rows, a, b) = StoredIn(rows, a, p) \o rows[b]
        /\ StoredIn(more, a, b) = StoredIn(more, a, p) \o more[b]
        /\ PastBlock(b, a) = PastBlock(p, a) + 1
    BY <1>1, <1>3, <2>1, StoredInNext
  <2>3. StoredIn(more, a, p) = StoredIn(rows, a, p)
    <3>1. PastBlock(p, a) \in Nat
      <4>1. PastBlock(p, a) \in Blocks
        BY BlockArithmetic
      <4> QED BY <4>1, RingSize DEF Blocks
    <3>2. ASSUME NEW c \in Blocks, PastBlock(c, a) <= PastBlock(p, a) PROVE more[c] = rows[c]
      <4>1. c # b
        BY <2>2, <3>1, <3>2
      <4> QED BY <1>1, <4>1
    <3>3. Agree(rows, more, a, p)
      BY <3>2 DEF Agree
    <3> QED BY <3>3, StoredInSame
  <2>4. StoredIn(rows, a, p) \in Seq(V) /\ rows[b] \in Seq(V)
    BY StoredInType
  <2>5. ASSUME NEW s \in Seq(V), NEW t \in Seq(V) PROVE s \o Append(t, e) = Append(s \o t, e)
    <3>1. /\ s \o t \in Seq(V) /\ Len(s \o t) = Len(s) + Len(t)
          /\ Append(t, e) \in Seq(V) /\ Len(Append(t, e)) = Len(t) + 1
      BY ConcatProperties
    <3>2. /\ s \o Append(t, e) \in Seq(V) /\ Len(s \o Append(t, e)) = Len(s) + Len(t) + 1
          /\ Append(s \o t, e) \in Seq(V) /\ Len(Append(s \o t, e)) = Len(s) + Len(t) + 1
      BY <3>1, ConcatProperties
    <3>3. \A i \in 1 .. Len(s) + Len(t) + 1 : (s \o Append(t, e))[i] = Append(s \o t, e)[i]
      OBVIOUS
    <3> QED BY <3>2, <3>3, SeqEqual
  <2>6. StoredIn(rows, a, p) \o Append(rows[b], e) = Append(StoredIn(rows, a, p) \o rows[b], e)
    BY <2>4, <2>5
  <2> QED BY <1>1, <2>2, <2>3, <2>6
<1> QED BY <1>2, <1>3

\* What the first block holds comes first, and before rest.
FrontBefore(V, rows, a, b, rest) ==
  \A row \in Seq(V) : StoredIn([rows EXCEPT ![a] = row], a, b) = row \o rest

LEMMA StoredFront ==
  ASSUME NEW V, NEW rows \in [Blocks -> Seq(V)], NEW a \in Blocks, NEW b \in Blocks
  PROVE  \E rest \in Seq(V) : FrontBefore(V, rows, a, b, rest)
<1>0. \A row \in Seq(V) : [rows EXCEPT ![a] = row] \in [Blocks -> Seq(V)]
  OBVIOUS
<1>1. CASE a = b
  <2>1. ASSUME NEW row \in Seq(V)
        PROVE  StoredIn([rows EXCEPT ![a] = row], a, b) = row \o <<>>
    <3>1. StoredIn([rows EXCEPT ![a] = row], a, a) = [rows EXCEPT ![a] = row][a]
      BY <1>0, StoredInOne
    <3>2. row \o <<>> = row
      OBVIOUS
    <3> QED BY <1>1, <3>1, <3>2
  <2>2. <<>> \in Seq(V)
    OBVIOUS
  <2> QED BY <2>1, <2>2 DEF FrontBefore
<1>2. CASE a # b
  <2> DEFINE rest == StoredIn(rows, NextBlock(a), b)
  <2>1. NextBlock(a) \in Blocks
    BY BlockArithmetic
  <2>2. rest \in Seq(V)
    BY <2>1, StoredInType
  <2>3. /\ PastBlock(b, NextBlock(a)) = PastBlock(b, a) - 1
        /\ PastBlock(b, a) \in Nat /\ PastBlock(b, a) <= BlockCount - 1
        /\ PastBlock(a, NextBlock(a)) = BlockCount - 1
    <3>1. PastBlock(b, NextBlock(a)) = PastBlock(b, a) - 1
      BY <1>2, StoredInFirst
    <3>2. PastBlock(b, a) \in Blocks
      BY BlockArithmetic
    <3>3. /\ NextBlock(a) = IF a = BlockCount - 1 THEN 0 ELSE a + 1
          /\ PastBlock(a, NextBlock(a)) = IF a >= NextBlock(a) THEN a - NextBlock(a)
                                           ELSE a - NextBlock(a) + BlockCount
      BY <2>1, BlockArithmetic
    <3>4. BlockCount \in Nat /\ a \in Nat /\ a < BlockCount
      BY RingSize DEF Blocks
    <3>5. PastBlock(a, NextBlock(a)) = BlockCount - 1
      BY <3>3, <3>4
    <3>6. PastBlock(b, a) \in Nat /\ PastBlock(b, a) <= BlockCount - 1
      BY <3>2, <3>4 DEF Blocks
    <3> QED BY <3>1, <3>5, <3>6
  <2>4. ASSUME NEW row \in Seq(V)
        PROVE  StoredIn([rows EXCEPT ![a] = row], a, b) = row \o rest
    <3> DEFINE others == [rows EXCEPT ![a] = row]
    <3>1. others \in [Blocks -> Seq(V)] /\ others[a] = row
      OBVIOUS
    <3>2. \A c \in Blocks \ {a} : others[c] = rows[c]
      OBVIOUS
    <3> HIDE DEF others
    <3>3. StoredIn(others, a, b) = row \o StoredIn(others, NextBlock(a), b)
      BY <1>2, <3>1, StoredInFirst
    <3>4. ASSUME NEW c \in Blocks, PastBlock(c, NextBlock(a)) <= PastBlock(b, NextBlock(a))
          PROVE  others[c] = rows[c]
      <4>1. BlockCount \in Nat
        BY RingSize
      <4> QED BY <2>3, <3>2, <3>4, <4>1
    <3>5. Agree(rows, others, NextBlock(a), b)
      BY <3>4 DEF Agree
    <3>6. StoredIn(others, NextBlock(a), b) = rest
      BY <2>1, <3>5, StoredInSame
    <3>7. StoredIn(others, a, b) = row \o rest
      BY <3>3, <3>6, <3>1
    <3> QED BY <3>7 DEF others
  <2> QED BY <2>2, <2>4 DEF FrontBefore
<1> QED BY <1>1, <1>2

-----------------------------------------------------------------------------
(* What the proofs below use of the arithmetic of the ring. *)

LEMMA SlotFacts ==
  /\ \A i, j \in Slots : PastSlot(i, j) \in Nat /\ PastSlot(i, j) <= BlockSize - 1
  /\ \A i, j \in Slots : PastSlot(i, j) = 0 <=> i = j
  /\ \A i, j \in Slots : PastSlot(i, j) = BlockSize - 1 <=> NextSlot(i) = j
  /\ \A i, j, k \in Slots : PastSlot(i, j) = PastSlot(k, j) => i = k
  /\ \A i, j \in Slots : NextSlot(i) # j => PastSlot(NextSlot(i), j) = PastSlot(i, j) + 1
  /\ \A i, j \in Slots : i # j => PastSlot(i, NextSlot(j)) = PastSlot(i, j) - 1
  /\ \A i \in Slots : NextSlot(i) \in Slots /\ PastSlot(i, NextSlot(i)) = BlockSize - 1
<1> DEFINE n == BlockSize
<1>1. n \in Nat /\ n >= 2 /\ Slots = 0 .. n - 1
  BY RingSize DEF Slots
<1>2. /\ \A i \in Slots : NextSlot(i) = IF i = n - 1 THEN 0 ELSE i + 1
      /\ \A i \in Slots : NextSlot(i) \in Slots
      /\ \A i, j \in Slots : PastSlot(i, j) = IF i >= j THEN i - j ELSE i - j + n
  BY SlotArithmetic
<1> HIDE DEF n
<1>3. \A i \in Slots : i \in Nat /\ i < n
  BY <1>1
<1>4. ASSUME NEW i \in Slots, NEW j \in Slots
      PROVE  /\ PastSlot(i, j) \in Nat /\ PastSlot(i, j) <= n - 1
             /\ PastSlot(i, j) = 0 <=> i = j
             /\ PastSlot(i, j) = n - 1 <=> NextSlot(i) = j
             /\ NextSlot(i) # j => PastSlot(NextSlot(i), j) = PastSlot(i, j) + 1
             /\ i # j => PastSlot(i, NextSlot(j)) = PastSlot(i, j) - 1
             /\ NextSlot(i) = NextSlot(j) => i = j
  <2> DEFINE p == PastSlot(i, j)  ni == NextSlot(i)  nj == NextSlot(j)
             q == PastSlot(ni, j)  r == PastSlot(i, nj)
  <2>1. ni \in Slots /\ nj \in Slots
    BY <1>2
  <2>2. /\ p = IF i >= j THEN i - j ELSE i - j + n
        /\ ni = IF i = n - 1 THEN 0 ELSE i + 1
        /\ nj = IF j = n - 1 THEN 0 ELSE j + 1
        /\ q = IF ni >= j THEN ni - j ELSE ni - j + n
        /\ r = IF i >= nj THEN i - nj ELSE i - nj + n
    BY <1>2, <2>1
  <2>3. i \in Nat /\ j \in Nat /\ i < n /\ j < n /\ n \in Nat
    BY <1>1, <1>3
  <2> HIDE DEF p, ni, nj, q, r
  <2>4. p \in Nat /\ p <= n - 1 /\ (p = 0 <=> i = j)
    BY <2>2, <2>3
  <2>5. (p = n - 1 <=> ni = j) /\ (ni = nj => i = j)
    BY <2>2, <2>3
  <2>6. ni # j => q = p + 1
    BY <2>2, <2>3
  <2>7. i # j => r = p - 1
    BY <2>2, <2>3
  <2> QED BY <2>4, <2>5, <2>6, <2>7 DEF p, ni, nj, q, r
<1>5. ASSUME NEW i \in Slots, NEW j \in Slots, NEW k \in Slots, PastSlot(i, j) = PastSlot(k, j)
      PROVE  i = k
  <2> DEFINE p == PastSlot(i, j)  q == PastSlot(k, j)
  <2>1. /\ p = IF i >= j THEN i - j ELSE i - j + n
        /\ q = IF k >= j THEN k - j ELSE k - j + n
        /\ p = q
    BY <1>2, <1>5
  <2> HIDE DEF p, q
  <2>2. i \in Nat /\ j \in Nat /\ k \in Nat /\ i < n /\ j < n /\ k < n /\ n \in Nat
    BY <1>1, <1>3
  <2> QED BY <2>1, <2>2
<1>6. ASSUME NEW i \in Slots
      PROVE  /\ NextSlot(i) \in Slots /\ PastSlot(i, NextSlot(i)) = n - 1
             /\ NextSlot(i) = i <=> n = 1
  <2>1. NextSlot(i) \in Slots
    BY <1>2
  <2>2. /\ NextSlot(i) = IF i = n - 1 THEN 0 ELSE i + 1
        /\ PastSlot(i, NextSlot(i)) = IF i >= NextSlot(i) THEN i - NextSlot(i) ELSE i - NextSlot(i) + n
    BY <1>2, <2>1
  <2>3. i \in Nat /\ i < n /\ n \in Nat
    BY <1>1, <1>3
  <2> DEFINE m == NextSlot(i)  d == PastSlot(i, m)
  <2>4. /\ m = IF i = n - 1 THEN 0 ELSE i + 1
        /\ d = IF i >= m THEN i - m ELSE i - m + n
    BY <2>2
  <2> HIDE DEF m, d
  <2>5. d = n - 1 /\ (m = i <=> n = 1)
    BY <2>3, <2>4
  <2> QED BY <2>1, <2>5 DEF m, d
<1> QED BY <1>4, <1>5, <1>6 DEF n

LEMMA BlockFacts ==
  /\ \A b, a \in Blocks : PastBlock(b, a) \in Nat /\ PastBlock(b, a) <= BlockCount - 1
  /\ \A b, a \in Blocks : PastBlock(b, a) = 0 <=> a = b
  /\ \A b, a \in Blocks : PastBlock(b, a) = BlockCount - 1 <=> NextBlock(b) = a
  /\ \A b, c, a \in Blocks : PastBlock(b, a) = PastBlock(c, a) => b = c
  /\ \A b, a \in Blocks : NextBlock(b) # a => PastBlock(NextBlock(b), a) = PastBlock(b, a) + 1
  /\ \A b, a \in Blocks : b # a => PastBlock(b, NextBlock(a)) = PastBlock(b, a) - 1
  /\ \A a \in Blocks : NextBlock(a) \in Blocks /\ PastBlock(a, NextBlock(a)) = BlockCount - 1
  /\ \A a, b \in Blocks : NextBlock(a) = NextBlock(b) => a = b
  /\ \A a \in Blocks : NextBlock(a) = a <=> BlockCount = 1
<1> DEFINE n == BlockCount
<1>1. n \in Nat /\ n >= 1 /\ Blocks = 0 .. n - 1
  BY RingSize DEF Blocks
<1>2. /\ \A i \in Blocks : NextBlock(i) = IF i = n - 1 THEN 0 ELSE i + 1
      /\ \A i \in Blocks : NextBlock(i) \in Blocks
      /\ \A i, j \in Blocks : PastBlock(i, j) = IF i >= j THEN i - j ELSE i - j + n
  BY BlockArithmetic
<1> HIDE DEF n
<1>3. \A i \in Blocks : i \in Nat /\ i < n
  BY <1>1
<1>4. ASSUME NEW i \in Blocks, NEW j \in Blocks
      PROVE  /\ PastBlock(i, j) \in Nat /\ PastBlock(i, j) <= n - 1
             /\ PastBlock(i, j) = 0 <=> i = j
             /\ PastBlock(i, j) = n - 1 <=> NextBlock(i) = j
             /\ NextBlock(i) # j => PastBlock(NextBlock(i), j) = PastBlock(i, j) + 1
             /\ i # j => PastBlock(i, NextBlock(j)) = PastBlock(i, j) - 1
             /\ NextBlock(i) = NextBlock(j) => i = j
  <2> DEFINE p == PastBlock(i, j)  ni == NextBlock(i)  nj == NextBlock(j)
             q == PastBlock(ni, j)  r == PastBlock(i, nj)
  <2>1. ni \in Blocks /\ nj \in Blocks
    BY <1>2
  <2>2. /\ p = IF i >= j THEN i - j ELSE i - j + n
        /\ ni = IF i = n - 1 THEN 0 ELSE i + 1
        /\ nj = IF j = n - 1 THEN 0 ELSE j + 1
        /\ q = IF ni >= j THEN ni - j ELSE ni - j + n
        /\ r = IF i >= nj THEN i - nj ELSE i - nj + n
    BY <1>2, <2>1
  <2>3. i \in Nat /\ j \in Nat /\ i < n /\ j < n /\ n \in Nat
    BY <1>1, <1>3
  <2> HIDE DEF p, ni, nj, q, r
  <2>4. p \in Nat /\ p <= n - 1 /\ (p = 0 <=> i = j)
    BY <2>2, <2>3
  <2>5. (p = n - 1 <=> ni = j) /\ (ni = nj => i = j)
    BY <2>2, <2>3
  <2>6. ni # j => q = p + 1
    BY <2>2, <2>3
  <2>7. i # j => r = p - 1
    BY <2>2, <2>3
  <2> QED BY <2>4, <2>5, <2>6, <2>7 DEF p, ni, nj, q, r
<1>5. ASSUME NEW i \in Blocks, NEW j \in Blocks, NEW k \in Blocks, PastBlock(i, j) = PastBlock(k, j)
      PROVE  i = k
  <2> DEFINE p == PastBlock(i, j)  q == PastBlock(k, j)
  <2>1. /\ p = IF i >= j THEN i - j ELSE i - j + n
        /\ q = IF k >= j THEN k - j ELSE k - j + n
        /\ p = q
    BY <1>2, <1>5
  <2> HIDE DEF p, q
  <2>2. i \in Nat /\ j \in Nat /\ k \in Nat /\ i < n /\ j < n /\ k < n /\ n \in Nat
    BY <1>1, <1>3
  <2> QED BY <2>1, <2>2
<1>6. ASSUME NEW i \in Blocks
      PROVE  /\ NextBlock(i) \in Blocks /\ PastBlock(i, NextBlock(i)) = n - 1
             /\ NextBlock(i) = i <=> n = 1
  <2>1. NextBlock(i) \in Blocks
    BY <1>2
  <2>2. /\ NextBlock(i) = IF i = n - 1 THEN 0 ELSE i + 1
        /\ PastBlock(i, NextBlock(i)) = IF i >= NextBlock(i) THEN i - NextBlock(i) ELSE i - NextBlock(i) + n
    BY <1>2, <2>1
  <2>3. i \in Nat /\ i < n /\ n \in Nat
    BY <1>1, <1>3
  <2> DEFINE m == NextBlock(i)  d == PastBlock(i, m)
  <2>4. /\ m = IF i = n - 1 THEN 0 ELSE i + 1
        /\ d = IF i >= m THEN i - m ELSE i - m + n
    BY <2>2
  <2> HIDE DEF m, d
  <2>5. d = n - 1 /\ (m = i <=> n = 1)
    BY <2>3, <2>4
  <2> QED BY <2>1, <2>5 DEF m, d
<1> QED BY <1>4, <1>5, <1>6 DEF n

-----------------------------------------------------------------------------
(* What the blocks hold, as a function of the arrays of the ring. *)

Value == Elem \cup {NoElem}
Indices == [Blocks -> Slots]
Contents == [Blocks -> [Slots -> Value]]

RowsOf(fr, tl, dt) == [b \in Blocks |-> ItemsIn(dt[b], fr[b], tl[b])]

LEMMA RowsType ==
  ASSUME NEW fr \in Indices, NEW tl \in Indices, NEW dt \in Contents
  PROVE  /\ RowsOf(fr, tl, dt) \in [Blocks -> Seq(Value)]
         /\ \A b \in Blocks : Len(RowsOf(fr, tl, dt)[b]) = PastSlot(tl[b], fr[b])
<1>1. ASSUME NEW b \in Blocks
      PROVE  /\ ItemsIn(dt[b], fr[b], tl[b]) \in Seq(Value)
             /\ Len(ItemsIn(dt[b], fr[b], tl[b])) = PastSlot(tl[b], fr[b])
  <2>1. dt[b] \in [Slots -> Value] /\ fr[b] \in Slots /\ tl[b] \in Slots
    BY DEF Indices, Contents
  <2> QED BY <2>1, ItemsInType
<1> QED BY <1>1 DEF RowsOf

\* A write outside what a block holds.
SlotWritten(dt, other, b, i, e) == other = [dt EXCEPT ![b][i] = e]

LEMMA RowsWrite ==
  ASSUME NEW fr \in Indices, NEW tl \in Indices, NEW dt \in Contents, NEW other,
         NEW b \in Blocks, NEW i \in Slots, NEW e, SlotWritten(dt, other, b, i, e),
         PastSlot(i, fr[b]) >= PastSlot(tl[b], fr[b])
  PROVE  RowsOf(fr, tl, other) = RowsOf(fr, tl, dt)
<1>1. dt[b] \in [Slots -> Value] /\ fr[b] \in Slots /\ tl[b] \in Slots
  BY DEF Indices, Contents
<1>2. ItemsIn([dt[b] EXCEPT ![i] = e], fr[b], tl[b]) = ItemsIn(dt[b], fr[b], tl[b])
  <2> DEFINE row == [dt[b] EXCEPT ![i] = e]
  <2>1. WrittenAt(dt[b], row, i)
    BY <1>1 DEF WrittenAt
  <2> HIDE DEF row
  <2>2. ItemsIn(row, fr[b], tl[b]) = ItemsIn(dt[b], fr[b], tl[b])
    BY <1>1, <2>1, ItemsInWrite
  <2> QED BY <2>2 DEF row
<1>3. ASSUME NEW c \in Blocks
      PROVE  ItemsIn(other[c], fr[c], tl[c]) = ItemsIn(dt[c], fr[c], tl[c])
  <2>1. CASE c = b
    BY <1>2, <2>1 DEF Contents, SlotWritten
  <2>2. CASE c # b
    BY <2>2 DEF Contents, SlotWritten
  <2> QED BY <2>1, <2>2
<1> QED BY <1>3 DEF RowsOf

\* The tail of a block moves on.
LEMMA RowsPut ==
  ASSUME NEW fr \in Indices, NEW tl \in Indices, NEW dt \in Contents,
         NEW b \in Blocks, NextSlot(tl[b]) # fr[b]
  PROVE  /\ RowAppended(RowsOf(fr, tl, dt), RowsOf(fr, [tl EXCEPT ![b] = NextSlot(tl[b])], dt),
                        b, dt[b][tl[b]])
         /\ dt[b][tl[b]] \in Value
<1>1. dt[b] \in [Slots -> Value] /\ fr[b] \in Slots /\ tl[b] \in Slots
  BY DEF Indices, Contents
<1>2. ItemsIn(dt[b], fr[b], NextSlot(tl[b])) = Append(ItemsIn(dt[b], fr[b], tl[b]), dt[b][tl[b]])
  BY <1>1, ItemsInPut
<1>3. dt[b][tl[b]] \in Value
  BY <1>1
<1> DEFINE rows == RowsOf(fr, tl, dt)
           tl2 == [tl EXCEPT ![b] = NextSlot(tl[b])]
<1>4. \A c \in Blocks : rows[c] = ItemsIn(dt[c], fr[c], tl[c])
  BY DEF RowsOf
<1>5. \A c \in Blocks : tl2[c] = IF c = b THEN NextSlot(tl[b]) ELSE tl[c]
  BY DEF Indices
<1>6. ASSUME NEW c \in Blocks
      PROVE  ItemsIn(dt[c], fr[c], tl2[c]) = [rows EXCEPT ![b] = Append(rows[b], dt[b][tl[b]])][c]
  <2>1. [rows EXCEPT ![b] = Append(rows[b], dt[b][tl[b]])][c] =
          IF c = b THEN Append(rows[b], dt[b][tl[b]]) ELSE rows[c]
    BY DEF RowsOf
  <2> HIDE DEF rows, tl2
  <2> QED BY <1>2, <1>4, <1>5, <2>1
<1>7. [rows EXCEPT ![b] = Append(rows[b], dt[b][tl[b]])] =
        [c \in Blocks |-> [rows EXCEPT ![b] = Append(rows[b], dt[b][tl[b]])][c]]
  BY DEF RowsOf
<1>8. RowsOf(fr, tl2, dt) = [c \in Blocks |-> ItemsIn(dt[c], fr[c], tl2[c])]
  BY DEF RowsOf
<1> HIDE DEF rows, tl2
<1>9. RowsOf(fr, tl2, dt) = [rows EXCEPT ![b] = Append(rows[b], dt[b][tl[b]])]
  BY <1>6, <1>7, <1>8
<1> QED BY <1>3, <1>9 DEF rows, tl2, RowAppended

\* The first element of a block, what the block holds once its slot is overwritten, and
\* once its front has moved on.
FrontMoves(fr, tl, dt, b, e, row) ==
  /\ RowsOf(fr, tl, dt)[b] = <<dt[b][fr[b]]>> \o row
  /\ RowsOf(fr, tl, [dt EXCEPT ![b][fr[b]] = e]) = [RowsOf(fr, tl, dt) EXCEPT ![b] = <<e>> \o row]
  /\ RowsOf([fr EXCEPT ![b] = NextSlot(fr[b])], tl, dt) = [RowsOf(fr, tl, dt) EXCEPT ![b] = row]

LEMMA RowsFront ==
  ASSUME NEW fr \in Indices, NEW tl \in Indices, NEW dt \in Contents,
         NEW b \in Blocks, fr[b] # tl[b], NEW e \in Value
  PROVE  \E row \in Seq(Value) : FrontMoves(fr, tl, dt, b, e, row)
<1>1. dt[b] \in [Slots -> Value] /\ fr[b] \in Slots /\ tl[b] \in Slots
      /\ NextSlot(fr[b]) \in Slots
  BY SlotFacts DEF Indices, Contents
<1> DEFINE row == ItemsIn(dt[b], NextSlot(fr[b]), tl[b])
           dt2 == [dt EXCEPT ![b][fr[b]] = e]
           fr2 == [fr EXCEPT ![b] = NextSlot(fr[b])]
           rows == RowsOf(fr, tl, dt)
<1>2. row \in Seq(Value)
  BY <1>1, ItemsInType
<1>3. rows[b] = <<dt[b][fr[b]]>> \o row
  BY <1>1, ItemsInTake DEF RowsOf
<1>4. ItemsIn([dt[b] EXCEPT ![fr[b]] = e], fr[b], tl[b]) = <<e>> \o row
  <2> DEFINE other == [dt[b] EXCEPT ![fr[b]] = e]
  <2>1. other \in [Slots -> Value] /\ other[fr[b]] = e /\ WrittenAt(dt[b], other, fr[b])
    BY <1>1 DEF WrittenAt
  <2> HIDE DEF other
  <2>2. ItemsIn(other, fr[b], tl[b]) = <<other[fr[b]]>> \o ItemsIn(other, NextSlot(fr[b]), tl[b])
    BY <1>1, <2>1, ItemsInTake
  <2>3. PastSlot(fr[b], NextSlot(fr[b])) >= PastSlot(tl[b], NextSlot(fr[b]))
    <3>1. /\ PastSlot(fr[b], NextSlot(fr[b])) = BlockSize - 1
          /\ PastSlot(tl[b], NextSlot(fr[b])) \in Nat
          /\ PastSlot(tl[b], NextSlot(fr[b])) <= BlockSize - 1
      BY <1>1, SlotFacts
    <3>2. BlockSize \in Nat
      BY RingSize
    <3> QED BY <3>1, <3>2
  <2>4. ItemsIn(other, NextSlot(fr[b]), tl[b]) = row
    BY <1>1, <2>1, <2>3, ItemsInWrite
  <2> QED BY <2>1, <2>2, <2>4 DEF other
<1>5. /\ \A c \in Blocks : dt2[c] = IF c = b THEN [dt[b] EXCEPT ![fr[b]] = e] ELSE dt[c]
      /\ \A c \in Blocks : fr2[c] = IF c = b THEN NextSlot(fr[b]) ELSE fr[c]
  BY DEF Indices, Contents
<1>6. /\ RowsOf(fr, tl, dt2) = [c \in Blocks |-> ItemsIn(dt2[c], fr[c], tl[c])]
      /\ RowsOf(fr2, tl, dt) = [c \in Blocks |-> ItemsIn(dt[c], fr2[c], tl[c])]
      /\ rows = [c \in Blocks |-> ItemsIn(dt[c], fr[c], tl[c])]
  BY DEF RowsOf
<1> HIDE DEF row, dt2, fr2, rows
<1>7. ASSUME NEW w
      PROVE  [rows EXCEPT ![b] = w] =
               [c \in Blocks |-> IF c = b THEN w ELSE ItemsIn(dt[c], fr[c], tl[c])]
  BY <1>6
<1>8. RowsOf(fr, tl, dt2) = [rows EXCEPT ![b] = <<e>> \o row]
  <2>1. \A c \in Blocks : ItemsIn(dt2[c], fr[c], tl[c]) =
          IF c = b THEN <<e>> \o row ELSE ItemsIn(dt[c], fr[c], tl[c])
    BY <1>4, <1>5
  <2>2. [rows EXCEPT ![b] = <<e>> \o row] =
          [c \in Blocks |-> IF c = b THEN <<e>> \o row ELSE ItemsIn(dt[c], fr[c], tl[c])]
    BY <1>7
  <2> QED BY <1>6, <2>1, <2>2
<1>9. RowsOf(fr2, tl, dt) = [rows EXCEPT ![b] = row]
  <2>1. \A c \in Blocks : ItemsIn(dt[c], fr2[c], tl[c]) =
          IF c = b THEN row ELSE ItemsIn(dt[c], fr[c], tl[c])
    BY <1>5 DEF row
  <2>2. [rows EXCEPT ![b] = row] =
          [c \in Blocks |-> IF c = b THEN row ELSE ItemsIn(dt[c], fr[c], tl[c])]
    BY <1>7
  <2> QED BY <1>6, <2>1, <2>2
<1> QED BY <1>2, <1>3, <1>8, <1>9 DEF rows, dt2, fr2, FrontMoves

-----------------------------------------------------------------------------
(* The inductive invariant. *)

Room == BlockSize - 1                      \* what a block can hold
Ahead(b) == PastBlock(b, frontBlock)       \* of the consumer
TailAhead == Ahead(tailBlock)

Enqueuing == prod \notin {"idle", "ok", "full"}

\* The producer has left its block for the one ahead, and has or has not looked whether
\* the consumer is there.
LeftTail == {"loadFrontBlock", "loadFrontAhead", "writeAhead", "publishAhead", "advance"}
Entering == LeftTail \ {"loadFrontBlock"}

\* Each thread's copy of the other one's index is behind it.
CopiesBehind ==
  \A b \in Blocks :
    /\ PastSlot(tail[b], front[b]) <= PastSlot(tail[b], localFront[b])
    /\ PastSlot(localTail[b], front[b]) <= PastSlot(tail[b], front[b])

\* The blocks behind the producer are full but for the consumer's, those ahead of it
\* empty but for the element that is about to be in the queue.
BlocksInOrder ==
  /\ \A b \in Blocks : 0 < Ahead(b) /\ Ahead(b) < TailAhead => Used(b) = Room
  /\ tailBlock # frontBlock => Used(tailBlock) > 0
  /\ \A b \in Blocks : Ahead(b) > TailAhead =>
       Used(b) = IF prod = "advance" /\ b = AheadOfTail THEN 1 ELSE 0

ProducerKnows ==
  /\ element \in IF Enqueuing THEN Elem ELSE {NoElem}
  /\ prod \in {"write", "publish"} => After # localFront[tailBlock]
  /\ prod \in LeftTail /\ tailBlock # frontBlock => Used(tailBlock) = Room
  /\ prod \in Entering => AheadOfTail # frontBlock
  /\ prod \in {"writeAhead", "publishAhead"} => localFront[AheadOfTail] = front[AheadOfTail]
  /\ prod = "publish" => data[tailBlock][tail[tailBlock]] = element
  /\ prod = "publishAhead" => data[AheadOfTail][tail[AheadOfTail]] = element
  /\ prod = "advance" => data[AheadOfTail][front[AheadOfTail]] = element

ConsumerKnows ==
  /\ cons \in {"read", "free"} => front[frontBlock] # localTail[frontBlock]
  /\ cons \in {"reloadTail", "loadTailAhead", "advance"} => frontBlock # tailBlock
  /\ cons \in {"loadTailAhead", "advance"} => Used(frontBlock) = 0
  /\ cons = "advance" => localTail[AheadOfFront] # front[AheadOfFront]
  /\ result \in CASE cons = "free" -> Elem
                  [] cons \in {"taken", "peeked"} -> Elem
                  [] OTHER -> {NoElem}
  /\ cons \in {"advance", "read", "free", "taken"} => op # "peeking"
  /\ cons = "peeked" => op = "peeking"

\* What peek() returned is in the consumer's block, or in the next one if the consumer's
\* is empty and has been left.
PointsToFront ==
  cons = "peeked" =>
    /\ \/ pointer = <<frontBlock, front[frontBlock]>> /\ Used(frontBlock) > 0
       \/ /\ pointer = <<AheadOfFront, front[AheadOfFront]>>
          /\ Used(frontBlock) = 0 /\ frontBlock # tailBlock
    /\ result = data[pointer[1]][pointer[2]]

\* The slots that hold an element.
IsFilled(b, i) ==
  \/ PastSlot(i, front[b]) < Used(b) /\ ~(cons = "free" /\ b = frontBlock /\ i = front[b])
  \/ prod = "publish" /\ b = tailBlock /\ i = tail[b]
  \/ prod = "publishAhead" /\ b = AheadOfTail /\ i = tail[b]

SlotsFilled ==
  \A b \in Blocks : \A i \in Slots : data[b][i] # NoElem <=> IsFilled(b, i)

Filled == {p \in Blocks \X Slots : data[p[1]][p[2]] # NoElem}

SlotsCounted ==
  Cardinality(Filled) + (IF cons = "free" THEN 1 ELSE 0) =
    Len(Stored) + (IF prod \in {"publish", "publishAhead", "advance"} THEN 1 ELSE 0)

\* A try that fails found the queue full, or empty, when it began.
FailuresDue ==
  /\ prod \in {"loadFront", "loadFrontBlock"} /\ Len(Items) >= maxSize => wasFull
  /\ prod = "loadFrontBlock" /\ BlockCount = 1 => wasFull
  /\ cons \in {"begin", "loadTail"} /\ Items = <<>> => wasEmpty
  /\ cons = "loadTailBlock" /\ frontBlock = tailBlock => wasEmpty

RingIInv ==
  /\ TypeOK /\ CopiesBehind /\ BlocksInOrder
  /\ ProducerKnows /\ ConsumerKnows /\ PointsToFront
  /\ SlotsFilled /\ SlotsCounted /\ FailuresDue

-----------------------------------------------------------------------------
(* The state, by its parts. *)

TypeFacts ==
  /\ front \in Indices /\ tail \in Indices /\ localFront \in Indices /\ localTail \in Indices
  /\ data \in Contents /\ frontBlock \in Blocks /\ tailBlock \in Blocks
  /\ AheadOfTail \in Blocks /\ AheadOfFront \in Blocks
  /\ \A b \in Blocks : /\ front[b] \in Slots /\ tail[b] \in Slots
                        /\ localFront[b] \in Slots /\ localTail[b] \in Slots
                        /\ \A i \in Slots : data[b][i] \in Value
  /\ element \in Value /\ result \in Value

LEMMA Types == TypeOK => TypeFacts
<1> SUFFICES ASSUME TypeOK PROVE TypeFacts
  OBVIOUS
<1>1. \A index \in {front, tail, localFront, localTail} : index \in [Blocks -> Slots]
  BY DEF TypeOK
<1>2. /\ front \in [Blocks -> Slots] /\ tail \in [Blocks -> Slots]
      /\ localFront \in [Blocks -> Slots] /\ localTail \in [Blocks -> Slots]
  BY <1>1
<1>3. data \in [Blocks -> [Slots -> Value]] /\ frontBlock \in Blocks /\ tailBlock \in Blocks
      /\ element \in Value /\ result \in Value
  BY DEF TypeOK, Value
<1>4. AheadOfTail \in Blocks /\ AheadOfFront \in Blocks
  BY <1>3, BlockFacts DEF AheadOfTail, AheadOfFront
<1> QED BY <1>2, <1>3, <1>4 DEF TypeFacts, Indices, Contents

Rows == RowsOf(front, tail, data)

StoredFacts ==
  /\ Rows \in [Blocks -> Seq(Value)]
  /\ \A b \in Blocks : Used(b) = PastSlot(tail[b], front[b]) /\ Len(Rows[b]) = Used(b)
  /\ Stored = StoredIn(Rows, frontBlock, tailBlock) /\ Stored \in Seq(Value)
  /\ Destroyed = AllIn(Rows, frontBlock)

LEMMA StoredIs == TypeOK => StoredFacts
<1> SUFFICES ASSUME TypeOK PROVE StoredFacts
  OBVIOUS
<1>1. /\ front \in Indices /\ tail \in Indices /\ data \in Contents
      /\ frontBlock \in Blocks /\ tailBlock \in Blocks
  BY Types DEF TypeFacts
<1>2. \A b : Used(b) = PastSlot(tail[b], front[b])
  BY DEF Used, PastSlot
<1>3. /\ Rows \in [Blocks -> Seq(Value)]
      /\ \A b \in Blocks : Len(Rows[b]) = PastSlot(tail[b], front[b])
  BY <1>1, RowsType DEF Rows
<1>4. \A b \in Blocks : BlockItems(b) = Rows[b]
  BY <1>2 DEF Rows, RowsOf, BlockItems, ItemsIn
<1>5. \A k \in 1 .. BlockCount : BlockItems((frontBlock + k - 1) % BlockCount) =
                                  Rows[(frontBlock + k - 1) % BlockCount]
  BY <1>1, <1>4, BlockAt
<1>6. Destroyed = AllIn(Rows, frontBlock)
  BY <1>5 DEF Destroyed, AllIn
<1>7. Span = 1 + PastBlock(tailBlock, frontBlock) /\ Span \in 1 .. BlockCount
  BY <1>1, <1>3, StoredInType DEF Span, PastBlock
<1>8. \A k \in 1 .. Span : BlockItems((frontBlock + k - 1) % BlockCount) =
                            Rows[(frontBlock + k - 1) % BlockCount]
  <2>1. \A k \in 1 .. Span : k \in 1 .. BlockCount
    BY <1>7, RingSize
  <2> QED BY <1>5, <2>1
<1>9. Stored = StoredIn(Rows, frontBlock, tailBlock)
  <2> HIDE DEF Rows
  <2>1. Stored = FlattenSeq([k \in 1 .. Span |-> Rows[(frontBlock + k - 1) % BlockCount]])
    BY <1>8 DEF Stored
  <2> QED BY <1>7, <2>1 DEF StoredIn
<1>10. Stored \in Seq(Value)
  BY <1>1, <1>3, <1>9, StoredInType
<1> QED BY <1>2, <1>3, <1>6, <1>9, <1>10 DEF StoredFacts

LEMMA FactsNext == TypeOK' => TypeFacts' /\ StoredFacts'
BY Types, StoredIs, PTL

-----------------------------------------------------------------------------
(* Types. *)

LEMMA TypesBack ==
  ASSUME front' \in Indices, tail' \in Indices, localFront' \in Indices, localTail' \in Indices,
         data' \in Contents, frontBlock' \in Blocks, tailBlock' \in Blocks,
         prod' \in {"idle", "loadFront", "loadFrontBlock", "loadFrontAhead", "write",
                    "writeAhead", "publish", "publishAhead", "advance", "ok", "full"},
         element' \in Value, result' \in Value,
         cons' \in {"idle", "begin", "loadTail", "loadTailBlock", "reloadTail",
                    "loadTailAhead", "advance", "read", "free", "taken", "peeked", "none"},
         op' \in {"taking", "popping", "peeking"},
         pointer' \in {<<>>} \cup (Blocks \X Slots)
  PROVE  TypeOK'
<1>1. \A index \in {front', tail', localFront', localTail'} : index \in [Blocks -> Slots]
  BY DEF Indices
<1>2. data' \in [Blocks -> [Slots -> Elem \cup {NoElem}]]
  BY DEF Contents, Value
<1> QED BY <1>1, <1>2 DEF TypeOK, Value

LEMMA TypeStep == TypeOK /\ [Next]_vars => TypeOK'
<1> SUFFICES ASSUME TypeOK, [Next]_vars PROVE TypeOK'
  OBVIOUS
<1>0. TypeFacts
  BY Types
<1>1. /\ prod \in {"idle", "loadFront", "loadFrontBlock", "loadFrontAhead", "write",
                    "writeAhead", "publish", "publishAhead", "advance", "ok", "full"}
      /\ cons \in {"idle", "begin", "loadTail", "loadTailBlock", "reloadTail",
                    "loadTailAhead", "advance", "read", "free", "taken", "peeked", "none"}
      /\ op \in {"taking", "popping", "peeking"}
      /\ pointer \in {<<>>} \cup (Blocks \X Slots)
      /\ NoElem \in Value /\ Elem \subseteq Value
  BY DEF TypeOK, Value
<1>2. ASSUME NEW index \in Indices, NEW b \in Blocks, NEW i \in Slots
      PROVE  [index EXCEPT ![b] = i] \in Indices
  BY DEF Indices
<1>3. ASSUME NEW b \in Blocks, NEW i \in Slots, NEW e \in Value
      PROVE  [data EXCEPT ![b][i] = e] \in Contents
  BY <1>0 DEF Contents, TypeFacts
<1>4. /\ After \in Slots
      /\ tail[AheadOfTail] \in Slots /\ NextSlot(tail[AheadOfTail]) \in Slots
      /\ NextSlot(front[frontBlock]) \in Slots
  BY <1>0, SlotFacts DEF TypeFacts, After
<1>5. ASSUME NEW e \in Elem, CallEnqueue(e) PROVE TypeOK'
  <2>1. element' \in Value /\ prod' \in {"write", "loadFront"}
    BY <1>1, <1>5 DEF CallEnqueue
  <2> QED BY <1>0, <1>1, <1>5, <2>1, TypesBack DEF CallEnqueue, TypeFacts, consVars
<1>6. CASE LoadFront
  <2>1. localFront' \in Indices /\ prod' \in {"write", "loadFrontBlock"}
    BY <1>0, <1>2, <1>6 DEF LoadFront, TypeFacts
  <2> QED BY <1>0, <1>1, <1>6, <2>1, TypesBack DEF LoadFront, TypeFacts, consVars
<1>7. CASE LoadFrontBlock
  <2>1. element' \in Value /\ prod' \in {"loadFrontAhead", "full"}
    BY <1>0, <1>1, <1>7 DEF LoadFrontBlock, TypeFacts, Return
  <2> QED BY <1>0, <1>1, <1>7, <2>1, TypesBack DEF LoadFrontBlock, TypeFacts, consVars
<1>8. CASE LoadFrontAhead
  <2>1. localFront' \in Indices
    BY <1>0, <1>2, <1>8 DEF LoadFrontAhead, TypeFacts
  <2> QED BY <1>0, <1>1, <1>8, <2>1, TypesBack DEF LoadFrontAhead, TypeFacts, consVars
<1>9. CASE WriteHere
  <2>1. data' \in Contents
    BY <1>0, <1>3, <1>9 DEF WriteHere, Write, TypeFacts
  <2> QED BY <1>0, <1>1, <1>9, <2>1, TypesBack DEF WriteHere, TypeFacts, consVars
<1>10. CASE WriteAhead
  <2>1. data' \in Contents
    BY <1>0, <1>3, <1>10 DEF WriteAhead, Write, TypeFacts
  <2> QED BY <1>0, <1>1, <1>10, <2>1, TypesBack DEF WriteAhead, TypeFacts, consVars
<1>11. CASE Publish
  <2>1. tail' \in Indices /\ element' \in Value /\ prod' = "ok"
    BY <1>0, <1>1, <1>2, <1>4, <1>11 DEF Publish, Return, TypeFacts
  <2> QED BY <1>0, <1>1, <1>11, <2>1, TypesBack DEF Publish, TypeFacts, consVars
<1>12. CASE PublishAhead
  <2>1. tail' = [tail EXCEPT ![AheadOfTail] = NextSlot(tail[AheadOfTail])]
    BY <1>12 DEF PublishAhead
  <2>2. tail' \in Indices
    BY <1>0, <1>2, <1>4, <2>1 DEF TypeFacts
  <2> QED BY <1>0, <1>1, <1>12, <2>2, TypesBack DEF PublishAhead, TypeFacts, consVars
<1>13. CASE AdvanceTail
  <2>1. tailBlock' \in Blocks /\ element' \in Value /\ prod' = "ok"
    BY <1>0, <1>1, <1>13 DEF AdvanceTail, Return, TypeFacts
  <2> QED BY <1>0, <1>1, <1>13, <2>1, TypesBack DEF AdvanceTail, TypeFacts, consVars
<1>14. ASSUME NEW b \in Blocks, Found(b)
       PROVE  /\ cons' \in {"read", "peeked"} /\ result' \in Value
              /\ pointer' \in {<<>>} \cup (Blocks \X Slots)
  BY <1>0, <1>1, <1>14 DEF Found, TypeFacts
<1>15. ASSUME NEW at, Continue(at)
       PROVE  cons' = at /\ result' \in Value /\ pointer' \in {<<>>} \cup (Blocks \X Slots)
  BY <1>1, <1>15 DEF Continue
<1>16. ASSUME NEW how \in {"taking", "popping", "peeking"}, CallDequeue(how) PROVE TypeOK'
  <2>1. Continue("begin")
    BY <1>16 DEF CallDequeue
  <2> QED BY <1>0, <1>1, <1>15, <1>16, <2>1, TypesBack DEF CallDequeue, TypeFacts, prodVars
<1>17. CASE TestLocalTail
  <2>1. Found(frontBlock) \/ Continue("loadTail")
    BY <1>17 DEF TestLocalTail
  <2>2. /\ cons' \in {"read", "peeked", "loadTail"} /\ result' \in Value
        /\ pointer' \in {<<>>} \cup (Blocks \X Slots)
    BY <1>0, <1>14, <1>15, <2>1 DEF TypeFacts
  <2> QED BY <1>0, <1>1, <1>17, <2>2, TypesBack DEF TestLocalTail, TypeFacts, prodVars
<1>18. CASE LoadTail
  <2>1. Found(frontBlock) \/ Continue("loadTailBlock")
    BY <1>18 DEF LoadTail
  <2>2. /\ cons' \in {"read", "peeked", "loadTailBlock"} /\ result' \in Value
        /\ pointer' \in {<<>>} \cup (Blocks \X Slots)
    BY <1>0, <1>14, <1>15, <2>1 DEF TypeFacts
  <2>3. localTail' \in Indices
    BY <1>0, <1>2, <1>18 DEF LoadTail, TypeFacts
  <2> QED BY <1>0, <1>1, <1>18, <2>2, <2>3, TypesBack DEF LoadTail, TypeFacts, prodVars
<1>19. CASE LoadTailBlock
  <2>1. Continue("reloadTail") \/ Continue("none")
    BY <1>19 DEF LoadTailBlock
  <2>2. /\ cons' \in {"reloadTail", "none"} /\ result' \in Value
        /\ pointer' \in {<<>>} \cup (Blocks \X Slots)
    BY <1>15, <2>1
  <2> QED BY <1>0, <1>1, <1>19, <2>2, TypesBack DEF LoadTailBlock, TypeFacts, prodVars
<1>20. CASE ReloadTail
  <2>1. Found(frontBlock) \/ Continue("loadTailAhead")
    BY <1>20 DEF ReloadTail
  <2>2. /\ cons' \in {"read", "peeked", "loadTailAhead"} /\ result' \in Value
        /\ pointer' \in {<<>>} \cup (Blocks \X Slots)
    BY <1>0, <1>14, <1>15, <2>1 DEF TypeFacts
  <2>3. localTail' \in Indices
    BY <1>0, <1>2, <1>20 DEF ReloadTail, TypeFacts
  <2> QED BY <1>0, <1>1, <1>20, <2>2, <2>3, TypesBack DEF ReloadTail, TypeFacts, prodVars
<1>21. CASE LoadTailAhead
  <2>1. localTail' \in Indices
    BY <1>0, <1>2, <1>21 DEF LoadTailAhead, TypeFacts
  <2> QED BY <1>0, <1>1, <1>21, <2>1, TypesBack DEF LoadTailAhead, TypeFacts, prodVars
<1>22. CASE AdvanceFront
  BY <1>0, <1>1, <1>22, TypesBack DEF AdvanceFront, TypeFacts, prodVars
<1>23. CASE PeekAhead
  <2>1. Found(AheadOfFront)
    BY <1>23 DEF PeekAhead
  <2>2. /\ cons' \in {"read", "peeked"} /\ result' \in Value
        /\ pointer' \in {<<>>} \cup (Blocks \X Slots)
    BY <1>0, <1>14, <2>1 DEF TypeFacts
  <2> QED BY <1>0, <1>1, <1>23, <2>2, TypesBack DEF PeekAhead, TypeFacts, prodVars
<1>24. CASE Read
  <2>1. data' \in Contents /\ result' \in Value
    BY <1>0, <1>1, <1>3, <1>24 DEF Read, TypeFacts
  <2> QED BY <1>0, <1>1, <1>24, <2>1, TypesBack DEF Read, TypeFacts, prodVars
<1>25. CASE Free
  <2>1. front' = [front EXCEPT ![frontBlock] = NextSlot(front[frontBlock])]
    BY <1>25 DEF Free
  <2>2. front' \in Indices
    BY <1>0, <1>2, <1>4, <2>1 DEF TypeFacts
  <2> QED BY <1>0, <1>1, <1>25, <2>2, TypesBack DEF Free, TypeFacts, prodVars
<1>26. CASE UNCHANGED vars
  BY <1>0, <1>1, <1>26, TypesBack DEF TypeFacts, vars, prodVars, consVars
<1>27. CASE Producer
  BY <1>5, <1>6, <1>7, <1>8, <1>9, <1>10, <1>11, <1>12, <1>13, <1>27 DEF Producer
<1>28. CASE Consumer
  BY <1>16, <1>17, <1>18, <1>19, <1>20, <1>21, <1>22, <1>23, <1>24, <1>25, <1>28 DEF Consumer
<1> QED BY <1>26, <1>27, <1>28 DEF Next

-----------------------------------------------------------------------------
(* Steps that leave the ring as it is. *)

Ring == <<data, front, tail, frontBlock, tailBlock>>

\* Neither thread enters or leaves the steps that count in BlocksInOrder, SlotsFilled
\* and SlotsCounted.
SameStage ==
  /\ prod = "publish" <=> prod' = "publish"
  /\ prod = "publishAhead" <=> prod' = "publishAhead"
  /\ prod = "advance" <=> prod' = "advance"
  /\ cons = "free" <=> cons' = "free"
  /\ cons = "free" => result' = result

LEMMA Quiet ==
  ASSUME BlocksInOrder, SlotsFilled, SlotsCounted, UNCHANGED Ring, SameStage
  PROVE  /\ BlocksInOrder' /\ SlotsFilled' /\ SlotsCounted'
         /\ Stored' = Stored /\ Items' = Items
         /\ \A b : Used(b)' = Used(b)
         /\ AheadOfTail' = AheadOfTail /\ AheadOfFront' = AheadOfFront /\ After' = After
<1>1. /\ data' = data /\ front' = front /\ tail' = tail
      /\ frontBlock' = frontBlock /\ tailBlock' = tailBlock
  BY DEF Ring
<1>2. \A b : Used(b)' = Used(b) /\ BlockItems(b)' = BlockItems(b) /\ Ahead(b)' = Ahead(b)
  BY <1>1 DEF Used, BlockItems, Ahead
<1>3. /\ AheadOfTail' = AheadOfTail /\ AheadOfFront' = AheadOfFront /\ After' = After
      /\ TailAhead' = TailAhead
  BY <1>1 DEF AheadOfTail, AheadOfFront, After, TailAhead, Ahead
<1>4. Stored' = Stored
  BY <1>1, <1>2 DEF Stored, Span
<1>5. Items' = Items
  BY <1>4 DEF Items, SameStage
<1>6. BlocksInOrder'
  BY <1>1, <1>2, <1>3 DEF BlocksInOrder, SameStage
<1>7. ASSUME NEW b, NEW i PROVE IsFilled(b, i)' = IsFilled(b, i)
  BY <1>1, <1>2, <1>3 DEF IsFilled, SameStage
<1>8. SlotsFilled'
  BY <1>1, <1>7 DEF SlotsFilled
<1>9. SlotsCounted'
  <2>1. Filled' = Filled
    BY <1>1 DEF Filled
  <2> QED BY <1>4, <2>1 DEF SlotsCounted, SameStage
<1> QED BY <1>2, <1>3, <1>4, <1>5, <1>6, <1>8, <1>9

-----------------------------------------------------------------------------
(* The producer's. *)

\* What the producer's steps leave alone of what the consumer knows.
LEMMA ConsumerKept ==
  ASSUME ConsumerKnows, PointsToFront, UNCHANGED Ring, UNCHANGED consVars,
         \A b : Used(b)' = Used(b), AheadOfFront' = AheadOfFront
  PROVE  ConsumerKnows' /\ PointsToFront'
<1>1. /\ data' = data /\ front' = front /\ tail' = tail
      /\ frontBlock' = frontBlock /\ tailBlock' = tailBlock
  BY DEF Ring
<1>2. /\ localTail' = localTail /\ cons' = cons /\ op' = op /\ result' = result
      /\ pointer' = pointer /\ wasEmpty' = wasEmpty
  BY DEF consVars
<1>3. Used(frontBlock)' = Used(frontBlock)
  BY <1>1 DEF Used
<1>4. ConsumerKnows'
  BY <1>1, <1>2, <1>3 DEF ConsumerKnows
<1>5. PointsToFront'
  BY <1>1, <1>2, <1>3 DEF PointsToFront
<1> QED BY <1>4, <1>5

LEMMA CallEnqueueStep ==
  ASSUME RingIInv, TypeOK', NEW e \in Elem, CallEnqueue(e)
  PROVE  RingIInv'
<1> USE DEF RingIInv
<1>1. UNCHANGED Ring /\ UNCHANGED consVars /\ UNCHANGED <<localFront, localTail>>
      /\ prod \in {"idle", "ok", "full"} /\ element' = e
      /\ prod' = IF After # localFront[tailBlock] THEN "write" ELSE "loadFront"
  BY DEF CallEnqueue, Ring, consVars
<1>w. wasFull' = (Len(Items) >= maxSize)
  BY Zenon DEF CallEnqueue
<1>2. SameStage
  BY <1>1 DEF SameStage, consVars
<1>3. /\ BlocksInOrder' /\ SlotsFilled' /\ SlotsCounted'
      /\ Stored' = Stored /\ Items' = Items
      /\ \A b : Used(b)' = Used(b)
      /\ AheadOfTail' = AheadOfTail /\ AheadOfFront' = AheadOfFront /\ After' = After
  BY <1>1, <1>2, Quiet
<1>4. ConsumerKnows' /\ PointsToFront'
  BY <1>1, <1>3, ConsumerKept
<1>5. CopiesBehind'
  BY <1>1 DEF CopiesBehind, Ring
<1>6. ProducerKnows'
  BY <1>1, <1>3 DEF ProducerKnows, Enqueuing, LeftTail, Entering, Ring
<1>7. FailuresDue'
  <2>1. Len(Items) >= maxSize => wasFull'
    BY <1>w
  <2>2. prod' # "loadFrontBlock"
    BY <1>1
  <2> QED BY <1>1, <1>3, <2>1, <2>2 DEF FailuresDue, consVars, Ring
<1> QED BY <1>3, <1>4, <1>5, <1>6, <1>7

\* A block is full if the slot after its tail is its front.
LEMMA FullBlock ==
  TypeOK => \A b \in Blocks : /\ Used(b) = Room <=> NextSlot(tail[b]) = front[b]
                              /\ Used(b) = 0 <=> front[b] = tail[b]
                              /\ Used(b) \in Nat /\ Used(b) <= Room
BY Types, StoredIs, SlotFacts DEF TypeFacts, StoredFacts, Room

LEMMA LenItems ==
  TypeOK /\ ConsumerKnows /\ CopiesBehind =>
    /\ Len(Items) = Len(Stored) /\ Len(Stored) \in Nat
    /\ cons # "free" => Items = Stored
<1> SUFFICES ASSUME TypeOK, ConsumerKnows, CopiesBehind
             PROVE  /\ Len(Items) = Len(Stored) /\ Len(Stored) \in Nat
                    /\ cons # "free" => Items = Stored
  OBVIOUS
<1>1. TypeFacts /\ StoredFacts
  BY Types, StoredIs
<1>2. CASE cons # "free"
  BY <1>1, <1>2 DEF Items, StoredFacts
<1>3. CASE cons = "free"
  <2>1. front[frontBlock] # tail[frontBlock]
    <3>1. front[frontBlock] # localTail[frontBlock]
      BY <1>3 DEF ConsumerKnows
    <3> QED BY <1>1, <3>1, SlotFacts DEF CopiesBehind, TypeFacts
  <2>2. Rows[frontBlock] # <<>>
    BY <1>1, <2>1, SlotFacts DEF StoredFacts, TypeFacts
  <2>3. PICK rest \in Seq(Value) : FrontBefore(Value, Rows, frontBlock, tailBlock, rest)
    <3>1. Rows \in [Blocks -> Seq(Value)] /\ frontBlock \in Blocks /\ tailBlock \in Blocks
      BY <1>1 DEF StoredFacts, TypeFacts
    <3> QED BY <3>1, StoredFront
  <2>4. [Rows EXCEPT ![frontBlock] = Rows[frontBlock]] = Rows /\ Rows[frontBlock] \in Seq(Value)
    BY <1>1 DEF StoredFacts, TypeFacts
  <2>5. Stored = Rows[frontBlock] \o rest
    BY <1>1, <2>3, <2>4 DEF StoredFacts, FrontBefore
  <2>6. Len(Stored) >= 1 /\ Stored \in Seq(Value)
    BY <1>1, <2>2, <2>4, <2>5 DEF StoredFacts
  <2>7. Tail(Stored) \in Seq(Value) /\ Len(Tail(Stored)) = Len(Stored) - 1
    BY <2>6
  <2>8. result \in Value
    BY <1>1 DEF TypeFacts
  <2>9. Len(<<result>> \o Tail(Stored)) = Len(Stored)
    BY <2>6, <2>7, <2>8
  <2> QED BY <1>3, <2>6, <2>9 DEF Items
<1> QED BY <1>2, <1>3

LEMMA LoadFrontStep ==
  ASSUME RingIInv, TypeOK', LoadFront
  PROVE  RingIInv'
<1> USE DEF RingIInv
<1>1. UNCHANGED Ring /\ UNCHANGED consVars /\ UNCHANGED <<element, wasFull>>
      /\ prod = "loadFront"
      /\ localFront' = [localFront EXCEPT ![tailBlock] = front[tailBlock]]
      /\ prod' = IF After # front[tailBlock] THEN "write" ELSE "loadFrontBlock"
  BY DEF LoadFront, Ring, consVars
<1>2. SameStage
  BY <1>1 DEF SameStage, consVars
<1>3. /\ BlocksInOrder' /\ SlotsFilled' /\ SlotsCounted'
      /\ Stored' = Stored /\ Items' = Items
      /\ \A b : Used(b)' = Used(b)
      /\ AheadOfTail' = AheadOfTail /\ AheadOfFront' = AheadOfFront /\ After' = After
  BY <1>1, <1>2, Quiet
<1>4. ConsumerKnows' /\ PointsToFront'
  BY <1>1, <1>3, ConsumerKept
<1>t. TypeFacts /\ StoredFacts
  BY Types, StoredIs
<1>5. CopiesBehind'
  <2> SUFFICES ASSUME NEW b \in Blocks
               PROVE  /\ PastSlot(tail[b], front[b]) <= PastSlot(tail[b], localFront'[b])
                      /\ PastSlot(localTail[b], front[b]) <= PastSlot(tail[b], front[b])
    BY <1>1 DEF CopiesBehind, Ring, consVars
  <2>1. localFront'[b] = IF b = tailBlock THEN front[b] ELSE localFront[b]
    BY <1>1, <1>t DEF TypeFacts, Indices
  <2>2. PastSlot(tail[b], front[b]) \in Nat
    BY <1>t, SlotFacts DEF TypeFacts
  <2> QED BY <2>1, <2>2 DEF CopiesBehind
<1>6. ProducerKnows'
  <2>1. localFront'[tailBlock] = front[tailBlock]
    BY <1>1, <1>t DEF TypeFacts, Indices
  <2>2. prod' = "loadFrontBlock" => Used(tailBlock) = Room
    BY <1>1, <1>t, FullBlock DEF After, TypeFacts
  <2> QED BY <1>1, <1>3, <2>1, <2>2 DEF ProducerKnows, Enqueuing, LeftTail, Entering, Ring
<1>7. FailuresDue'
  <2>1. Len(Items) = Len(Stored)
    BY LenItems
  <2>2. ASSUME BlockCount = 1, prod' = "loadFrontBlock" PROVE wasFull
    <3>1. Used(tailBlock) = Room
      BY <1>1, <1>t, <2>2, FullBlock DEF After, TypeFacts
    <3>2. frontBlock = tailBlock
      BY <1>t, <2>2 DEF TypeFacts, Blocks
    <3>3. Stored = Rows[tailBlock]
      BY <1>t, <3>2, StoredInOne DEF TypeFacts, StoredFacts
    <3>4. Len(Stored) = Room
      BY <1>t, <3>1, <3>3 DEF TypeFacts, StoredFacts
    <3>5. Len(Items) >= maxSize
      BY <2>1, <2>2, <3>4, RingSize DEF Room
    <3> QED BY <1>1, <3>5 DEF FailuresDue
  <2> QED BY <1>1, <1>3, <2>2 DEF FailuresDue, consVars, Ring
<1> QED BY <1>3, <1>4, <1>5, <1>6, <1>7

LEMMA LoadFrontBlockStep ==
  ASSUME RingIInv, TypeOK', LoadFrontBlock
  PROVE  RingIInv'
<1> USE DEF RingIInv
<1>1. UNCHANGED Ring /\ UNCHANGED consVars /\ UNCHANGED <<localFront, localTail>>
      /\ prod = "loadFrontBlock"
      /\ \/ AheadOfTail # frontBlock /\ prod' = "loadFrontAhead" /\ UNCHANGED <<element, wasFull>>
         \/ prod' = "full" /\ element' = NoElem
  BY DEF LoadFrontBlock, Return, Ring, consVars
<1>2. SameStage
  BY <1>1 DEF SameStage, consVars
<1>3. /\ BlocksInOrder' /\ SlotsFilled' /\ SlotsCounted'
      /\ Stored' = Stored /\ Items' = Items
      /\ \A b : Used(b)' = Used(b)
      /\ AheadOfTail' = AheadOfTail /\ AheadOfFront' = AheadOfFront /\ After' = After
  BY <1>1, <1>2, Quiet
<1>4. ConsumerKnows' /\ PointsToFront'
  BY <1>1, <1>3, ConsumerKept
<1>5. CopiesBehind'
  BY <1>1 DEF CopiesBehind, Ring
<1>6. ProducerKnows'
  BY <1>1, <1>3 DEF ProducerKnows, Enqueuing, LeftTail, Entering, Ring
<1>7. FailuresDue'
  BY <1>1, <1>3 DEF FailuresDue, consVars, Ring
<1> QED BY <1>3, <1>4, <1>5, <1>6, <1>7

LEMMA LoadFrontAheadStep ==
  ASSUME RingIInv, TypeOK', LoadFrontAhead
  PROVE  RingIInv'
<1> USE DEF RingIInv
<1>1. UNCHANGED Ring /\ UNCHANGED consVars /\ UNCHANGED <<element, wasFull>>
      /\ prod = "loadFrontAhead" /\ prod' = "writeAhead"
      /\ localFront' = [localFront EXCEPT ![AheadOfTail] = front[AheadOfTail]]
  BY DEF LoadFrontAhead, Ring, consVars
<1>2. SameStage
  BY <1>1 DEF SameStage, consVars
<1>3. /\ BlocksInOrder' /\ SlotsFilled' /\ SlotsCounted'
      /\ Stored' = Stored /\ Items' = Items
      /\ \A b : Used(b)' = Used(b)
      /\ AheadOfTail' = AheadOfTail /\ AheadOfFront' = AheadOfFront /\ After' = After
  BY <1>1, <1>2, Quiet
<1>4. ConsumerKnows' /\ PointsToFront'
  BY <1>1, <1>3, ConsumerKept
<1>t. TypeFacts
  BY Types
<1>5. CopiesBehind'
  <2> SUFFICES ASSUME NEW b \in Blocks
               PROVE  /\ PastSlot(tail[b], front[b]) <= PastSlot(tail[b], localFront'[b])
                      /\ PastSlot(localTail[b], front[b]) <= PastSlot(tail[b], front[b])
    BY <1>1 DEF CopiesBehind, Ring, consVars
  <2>1. localFront'[b] = IF b = AheadOfTail THEN front[b] ELSE localFront[b]
    BY <1>1, <1>t DEF TypeFacts, Indices
  <2>2. PastSlot(tail[b], front[b]) \in Nat
    BY <1>t, SlotFacts DEF TypeFacts
  <2> QED BY <2>1, <2>2 DEF CopiesBehind
<1>6. ProducerKnows'
  <2>1. localFront'[AheadOfTail] = front[AheadOfTail]
    BY <1>1, <1>t DEF TypeFacts, Indices
  <2> QED BY <1>1, <1>3, <2>1 DEF ProducerKnows, Enqueuing, LeftTail, Entering, Ring
<1>7. FailuresDue'
  BY <1>1, <1>3 DEF FailuresDue, consVars, Ring
<1> QED BY <1>3, <1>4, <1>5, <1>6, <1>7

-----------------------------------------------------------------------------
(* The consumer's. *)

\* What the consumer's steps leave alone of what the producer knows.
LEMMA ProducerKept ==
  ASSUME ProducerKnows, UNCHANGED Ring, UNCHANGED prodVars,
         \A b : Used(b)' = Used(b), AheadOfTail' = AheadOfTail, After' = After
  PROVE  ProducerKnows'
<1>1. /\ data' = data /\ front' = front /\ tail' = tail
      /\ frontBlock' = frontBlock /\ tailBlock' = tailBlock
  BY DEF Ring
<1>2. /\ localFront' = localFront /\ prod' = prod /\ element' = element /\ wasFull' = wasFull
  BY DEF prodVars
<1>3. Used(tailBlock)' = Used(tailBlock)
  BY <1>1 DEF Used
<1> QED BY <1>1, <1>2, <1>3 DEF ProducerKnows, Enqueuing

\* The front of a block that is not empty is filled.
LEMMA FrontFilled ==
  TypeOK /\ SlotsFilled /\ cons # "free" =>
    \A b \in Blocks : Used(b) > 0 => data[b][front[b]] \in Elem
<1> SUFFICES ASSUME TypeOK, SlotsFilled, cons # "free", NEW b \in Blocks, Used(b) > 0
             PROVE  data[b][front[b]] \in Elem
  OBVIOUS
<1>1. front[b] \in Slots /\ data[b][front[b]] \in Value
  BY Types DEF TypeFacts
<1>2. PastSlot(front[b], front[b]) = 0
  BY <1>1, SlotFacts
<1>3. IsFilled(b, front[b])
  BY <1>2 DEF IsFilled
<1>4. data[b][front[b]] # NoElem
  BY <1>1, <1>3 DEF SlotsFilled
<1> QED BY <1>1, <1>4 DEF Value

\* The consumer's own index is behind.
LEMMA LocalTailBehind ==
  TypeOK /\ CopiesBehind => \A b \in Blocks : front[b] # localTail[b] => Used(b) > 0
<1> SUFFICES ASSUME TypeOK, CopiesBehind, NEW b \in Blocks, front[b] # localTail[b]
             PROVE  Used(b) > 0
  OBVIOUS
<1>1. front[b] \in Slots /\ tail[b] \in Slots /\ localTail[b] \in Slots
  BY Types DEF TypeFacts
<1>2. PastSlot(localTail[b], front[b]) \in Nat /\ PastSlot(localTail[b], front[b]) # 0
  BY <1>1, SlotFacts
<1>3. PastSlot(localTail[b], front[b]) <= PastSlot(tail[b], front[b])
  BY DEF CopiesBehind
<1>4. Used(b) = PastSlot(tail[b], front[b]) /\ PastSlot(tail[b], front[b]) \in Nat
  BY <1>1, StoredIs, SlotFacts DEF StoredFacts
<1> QED BY <1>2, <1>3, <1>4

LEMMA CallDequeueStep ==
  ASSUME RingIInv, TypeOK', NEW how \in {"taking", "popping", "peeking"}, CallDequeue(how)
  PROVE  RingIInv'
<1> USE DEF RingIInv
<1>1. UNCHANGED Ring /\ UNCHANGED prodVars /\ UNCHANGED localTail
      /\ cons \in {"idle", "taken", "peeked", "none"}
      /\ cons' = "begin" /\ result' = NoElem
  BY DEF CallDequeue, Continue, Ring, prodVars
<1>w. wasEmpty' = (Items = <<>>)
  BY Zenon DEF CallDequeue
<1>2. SameStage
  BY <1>1 DEF SameStage, prodVars
<1>3. /\ BlocksInOrder' /\ SlotsFilled' /\ SlotsCounted'
      /\ Stored' = Stored /\ Items' = Items
      /\ \A b : Used(b)' = Used(b)
      /\ AheadOfTail' = AheadOfTail /\ AheadOfFront' = AheadOfFront /\ After' = After
  BY <1>1, <1>2, Quiet
<1>4. ProducerKnows'
  BY <1>1, <1>3, ProducerKept
<1>t. TypeFacts /\ StoredFacts
  BY Types, StoredIs
<1>5. CopiesBehind'
  BY <1>1 DEF CopiesBehind, Ring, prodVars
<1>6. ConsumerKnows'
  BY <1>1, <1>3 DEF ConsumerKnows, Ring
<1>7. PointsToFront'
  BY <1>1 DEF PointsToFront
<1>8. FailuresDue'
  <2>1. Items = <<>> => wasEmpty'
    BY <1>w
  <2>2. cons' # "loadTailBlock"
    BY <1>1
  <2> QED BY <1>1, <1>3, <2>1, <2>2 DEF FailuresDue, prodVars, Ring
<1> QED BY <1>3, <1>4, <1>5, <1>6, <1>7, <1>8

LEMMA TestLocalTailStep ==
  ASSUME RingIInv, TypeOK', TestLocalTail
  PROVE  RingIInv'
<1> USE DEF RingIInv
<1>1. UNCHANGED Ring /\ UNCHANGED prodVars /\ UNCHANGED <<op, wasEmpty>>
      /\ cons = "begin"
      /\ localTail' = localTail
      /\ \/ front[frontBlock] # localTail[frontBlock] /\ Found(frontBlock)
         \/ /\ front[frontBlock] = localTail[frontBlock]
            /\ cons' = "loadTail" /\ result' = NoElem
  BY DEF TestLocalTail, Continue, Ring, prodVars
<1>a. cons' \in {"read", "peeked", "loadTail"}
  BY <1>1 DEF Found
<1>2. SameStage
  BY <1>1, <1>a DEF SameStage, prodVars
<1>3. /\ BlocksInOrder' /\ SlotsFilled' /\ SlotsCounted'
      /\ Stored' = Stored /\ Items' = Items
      /\ \A b : Used(b)' = Used(b)
      /\ AheadOfTail' = AheadOfTail /\ AheadOfFront' = AheadOfFront /\ After' = After
  BY <1>1, <1>2, Quiet
<1>4. ProducerKnows'
  BY <1>1, <1>3, ProducerKept
<1>t. TypeFacts /\ StoredFacts
  BY Types, StoredIs
<1>5. CopiesBehind'
  BY <1>1 DEF CopiesBehind, Ring, prodVars
<1>u. ASSUME Found(frontBlock), front[frontBlock] # localTail[frontBlock] PROVE Used(frontBlock) > 0
  BY <1>t, <1>u, LocalTailBehind DEF TypeFacts
<1>f. ASSUME Used(frontBlock) > 0, Found(frontBlock)
      PROVE  \/ op # "peeking" /\ cons' = "read" /\ result' = NoElem
             \/ /\ op = "peeking" /\ cons' = "peeked" /\ pointer' = <<frontBlock, front[frontBlock]>>
                /\ result' = data[frontBlock][front[frontBlock]] /\ result' \in Elem
  BY <1>1, <1>t, <1>f, FrontFilled DEF Found, TypeFacts
<1>c. \/ /\ op # "peeking" /\ cons' = "read" /\ result' = NoElem
         /\ front[frontBlock] # localTail'[frontBlock]
      \/ /\ op = "peeking" /\ cons' = "peeked" /\ pointer' = <<frontBlock, front[frontBlock]>>
         /\ result' = data[frontBlock][front[frontBlock]] /\ result' \in Elem
         /\ Used(frontBlock) > 0
      \/ /\ cons' = "loadTail" /\ result' = NoElem
  BY <1>1, <1>u, <1>f
<1>6. ConsumerKnows'
  BY <1>1, <1>3, <1>c DEF ConsumerKnows, Ring
<1>7. PointsToFront'
  BY <1>1, <1>3, <1>c DEF PointsToFront, Ring
<1>8. FailuresDue'
  BY <1>1, <1>3, <1>a DEF FailuresDue, prodVars, Ring
<1> QED BY <1>3, <1>4, <1>5, <1>6, <1>7, <1>8

LEMMA LoadTailStep ==
  ASSUME RingIInv, TypeOK', LoadTail
  PROVE  RingIInv'
<1> USE DEF RingIInv
<1>1. UNCHANGED Ring /\ UNCHANGED prodVars /\ UNCHANGED <<op, wasEmpty>>
      /\ cons = "loadTail"
      /\ localTail' = [localTail EXCEPT ![frontBlock] = tail[frontBlock]]
      /\ \/ front[frontBlock] # tail[frontBlock] /\ Found(frontBlock)
         \/ /\ front[frontBlock] = tail[frontBlock]
            /\ cons' = "loadTailBlock" /\ result' = NoElem
  BY DEF LoadTail, Continue, Ring, prodVars
<1>a. cons' \in {"read", "peeked", "loadTailBlock"}
  BY <1>1 DEF Found
<1>2. SameStage
  BY <1>1, <1>a DEF SameStage, prodVars
<1>3. /\ BlocksInOrder' /\ SlotsFilled' /\ SlotsCounted'
      /\ Stored' = Stored /\ Items' = Items
      /\ \A b : Used(b)' = Used(b)
      /\ AheadOfTail' = AheadOfTail /\ AheadOfFront' = AheadOfFront /\ After' = After
  BY <1>1, <1>2, Quiet
<1>4. ProducerKnows'
  BY <1>1, <1>3, ProducerKept
<1>t. TypeFacts /\ StoredFacts
  BY Types, StoredIs
<1>5. CopiesBehind'
  <2> SUFFICES ASSUME NEW b \in Blocks
               PROVE  /\ PastSlot(tail[b], front[b]) <= PastSlot(tail[b], localFront[b])
                      /\ PastSlot(localTail'[b], front[b]) <= PastSlot(tail[b], front[b])
    BY <1>1 DEF CopiesBehind, Ring, prodVars
  <2>1. localTail'[b] = IF b = frontBlock THEN tail[b] ELSE localTail[b]
    BY <1>1, <1>t DEF TypeFacts, Indices
  <2>2. PastSlot(tail[b], front[b]) \in Nat
    BY <1>t, SlotFacts DEF TypeFacts
  <2> QED BY <2>1, <2>2 DEF CopiesBehind
<1>u. ASSUME Found(frontBlock), front[frontBlock] # tail[frontBlock] PROVE Used(frontBlock) > 0
  BY <1>t, <1>u, FullBlock DEF TypeFacts
<1>f. ASSUME Used(frontBlock) > 0, Found(frontBlock)
      PROVE  \/ op # "peeking" /\ cons' = "read" /\ result' = NoElem
             \/ /\ op = "peeking" /\ cons' = "peeked" /\ pointer' = <<frontBlock, front[frontBlock]>>
                /\ result' = data[frontBlock][front[frontBlock]] /\ result' \in Elem
  BY <1>1, <1>t, <1>f, FrontFilled DEF Found, TypeFacts
<1>c. \/ /\ op # "peeking" /\ cons' = "read" /\ result' = NoElem
         /\ front[frontBlock] # localTail'[frontBlock]
      \/ /\ op = "peeking" /\ cons' = "peeked" /\ pointer' = <<frontBlock, front[frontBlock]>>
         /\ result' = data[frontBlock][front[frontBlock]] /\ result' \in Elem
         /\ Used(frontBlock) > 0
      \/ /\ cons' = "loadTailBlock" /\ result' = NoElem
         /\ front[frontBlock] = tail[frontBlock] /\ Used(frontBlock) = 0
  <2>1. localTail'[frontBlock] = tail[frontBlock]
    BY <1>1, <1>t DEF TypeFacts, Indices
  <2>2. front[frontBlock] = tail[frontBlock] => Used(frontBlock) = 0
    BY <1>t, FullBlock DEF TypeFacts
  <2> QED BY <1>1, <1>u, <1>f, <2>1, <2>2
<1>6. ConsumerKnows'
  BY <1>1, <1>3, <1>c DEF ConsumerKnows, Ring
<1>7. PointsToFront'
  BY <1>1, <1>3, <1>c DEF PointsToFront, Ring
<1>8. FailuresDue'
  <2>1. ASSUME cons' = "loadTailBlock", frontBlock = tailBlock PROVE wasEmpty
    <3>1. Used(frontBlock) = 0
      BY <1>c, <2>1
    <3>2. Stored = Rows[frontBlock]
      BY <1>t, <2>1, StoredInOne DEF TypeFacts, StoredFacts
    <3>3. Stored \in Seq(Value) /\ Len(Stored) = 0
      BY <1>t, <3>1, <3>2 DEF TypeFacts, StoredFacts
    <3>4. Items = <<>>
      BY <1>1, <3>3 DEF Items
    <3> QED BY <1>1, <3>4 DEF FailuresDue
  <2> QED BY <1>1, <1>3, <1>a, <2>1 DEF FailuresDue, prodVars, Ring
<1> QED BY <1>3, <1>4, <1>5, <1>6, <1>7, <1>8

LEMMA LoadTailBlockStep ==
  ASSUME RingIInv, TypeOK', LoadTailBlock
  PROVE  RingIInv'
<1> USE DEF RingIInv
<1>1. UNCHANGED Ring /\ UNCHANGED prodVars /\ UNCHANGED <<localTail, op, wasEmpty>>
      /\ cons = "loadTailBlock" /\ result' = NoElem
      /\ cons' = IF frontBlock # tailBlock THEN "reloadTail" ELSE "none"
  BY DEF LoadTailBlock, Continue, Ring, prodVars
<1>2. SameStage
  BY <1>1 DEF SameStage, prodVars
<1>3. /\ BlocksInOrder' /\ SlotsFilled' /\ SlotsCounted'
      /\ Stored' = Stored /\ Items' = Items
      /\ \A b : Used(b)' = Used(b)
      /\ AheadOfTail' = AheadOfTail /\ AheadOfFront' = AheadOfFront /\ After' = After
  BY <1>1, <1>2, Quiet
<1>4. ProducerKnows'
  BY <1>1, <1>3, ProducerKept
<1>t. TypeFacts /\ StoredFacts
  BY Types, StoredIs
<1>5. CopiesBehind'
  BY <1>1 DEF CopiesBehind, Ring, prodVars
<1>6. ConsumerKnows'
  BY <1>1, <1>3 DEF ConsumerKnows, Ring
<1>7. PointsToFront'
  BY <1>1 DEF PointsToFront
<1>8. FailuresDue'
  BY <1>1, <1>3 DEF FailuresDue, prodVars, Ring
<1> QED BY <1>3, <1>4, <1>5, <1>6, <1>7, <1>8

LEMMA ReloadTailStep ==
  ASSUME RingIInv, TypeOK', ReloadTail
  PROVE  RingIInv'
<1> USE DEF RingIInv
<1>1. UNCHANGED Ring /\ UNCHANGED prodVars /\ UNCHANGED <<op, wasEmpty>>
      /\ cons = "reloadTail"
      /\ localTail' = [localTail EXCEPT ![frontBlock] = tail[frontBlock]]
      /\ \/ front[frontBlock] # tail[frontBlock] /\ Found(frontBlock)
         \/ /\ front[frontBlock] = tail[frontBlock]
            /\ cons' = "loadTailAhead" /\ result' = NoElem
  BY DEF ReloadTail, Continue, Ring, prodVars
<1>a. cons' \in {"read", "peeked", "loadTailAhead"}
  BY <1>1 DEF Found
<1>2. SameStage
  BY <1>1, <1>a DEF SameStage, prodVars
<1>3. /\ BlocksInOrder' /\ SlotsFilled' /\ SlotsCounted'
      /\ Stored' = Stored /\ Items' = Items
      /\ \A b : Used(b)' = Used(b)
      /\ AheadOfTail' = AheadOfTail /\ AheadOfFront' = AheadOfFront /\ After' = After
  BY <1>1, <1>2, Quiet
<1>4. ProducerKnows'
  BY <1>1, <1>3, ProducerKept
<1>t. TypeFacts /\ StoredFacts
  BY Types, StoredIs
<1>5. CopiesBehind'
  <2> SUFFICES ASSUME NEW b \in Blocks
               PROVE  /\ PastSlot(tail[b], front[b]) <= PastSlot(tail[b], localFront[b])
                      /\ PastSlot(localTail'[b], front[b]) <= PastSlot(tail[b], front[b])
    BY <1>1 DEF CopiesBehind, Ring, prodVars
  <2>1. localTail'[b] = IF b = frontBlock THEN tail[b] ELSE localTail[b]
    BY <1>1, <1>t DEF TypeFacts, Indices
  <2>2. PastSlot(tail[b], front[b]) \in Nat
    BY <1>t, SlotFacts DEF TypeFacts
  <2> QED BY <2>1, <2>2 DEF CopiesBehind
<1>u. ASSUME Found(frontBlock), front[frontBlock] # tail[frontBlock] PROVE Used(frontBlock) > 0
  BY <1>t, <1>u, FullBlock DEF TypeFacts
<1>f. ASSUME Used(frontBlock) > 0, Found(frontBlock)
      PROVE  \/ op # "peeking" /\ cons' = "read" /\ result' = NoElem
             \/ /\ op = "peeking" /\ cons' = "peeked" /\ pointer' = <<frontBlock, front[frontBlock]>>
                /\ result' = data[frontBlock][front[frontBlock]] /\ result' \in Elem
  BY <1>1, <1>t, <1>f, FrontFilled DEF Found, TypeFacts
<1>c. \/ /\ op # "peeking" /\ cons' = "read" /\ result' = NoElem
         /\ front[frontBlock] # localTail'[frontBlock]
      \/ /\ op = "peeking" /\ cons' = "peeked" /\ pointer' = <<frontBlock, front[frontBlock]>>
         /\ result' = data[frontBlock][front[frontBlock]] /\ result' \in Elem
         /\ Used(frontBlock) > 0
      \/ /\ cons' = "loadTailAhead" /\ result' = NoElem
         /\ front[frontBlock] = tail[frontBlock] /\ Used(frontBlock) = 0
  <2>1. localTail'[frontBlock] = tail[frontBlock]
    BY <1>1, <1>t DEF TypeFacts, Indices
  <2>2. front[frontBlock] = tail[frontBlock] => Used(frontBlock) = 0
    BY <1>t, FullBlock DEF TypeFacts
  <2> QED BY <1>1, <1>u, <1>f, <2>1, <2>2
<1>6. ConsumerKnows'
  BY <1>1, <1>3, <1>c DEF ConsumerKnows, Ring
<1>7. PointsToFront'
  BY <1>1, <1>3, <1>c DEF PointsToFront, Ring
<1>8. FailuresDue'
  BY <1>1, <1>3, <1>a DEF FailuresDue, prodVars, Ring
<1> QED BY <1>3, <1>4, <1>5, <1>6, <1>7, <1>8

\* The block the consumer moves to has an element.
LEMMA NextNotEmpty ==
  TypeOK /\ BlocksInOrder /\ frontBlock # tailBlock =>
    Used(AheadOfFront) > 0 /\ front[AheadOfFront] # tail[AheadOfFront] /\ AheadOfFront # frontBlock
<1> SUFFICES ASSUME TypeOK, BlocksInOrder, frontBlock # tailBlock
             PROVE  /\ Used(AheadOfFront) > 0 /\ front[AheadOfFront] # tail[AheadOfFront]
                    /\ AheadOfFront # frontBlock
  OBVIOUS
<1>1. frontBlock \in Blocks /\ tailBlock \in Blocks /\ AheadOfFront \in Blocks
  BY Types DEF TypeFacts
<1>0. BlockCount \in Nat /\ BlockCount >= 1 /\ BlockSize \in Nat /\ BlockSize >= 2
  BY RingSize
<1>2. BlockCount # 1
  BY <1>1 DEF Blocks
<1>3. NextBlock(frontBlock) # frontBlock
  BY <1>1, <1>2, BlockFacts
<1>4. PastBlock(frontBlock, frontBlock) = 0
  BY <1>1, BlockFacts
<1>5. Ahead(AheadOfFront) = 1
  BY <1>1, <1>3, <1>4, BlockFacts DEF Ahead, AheadOfFront
<1>6. TailAhead \in Nat /\ TailAhead # 0 /\ (TailAhead = 1 => AheadOfFront = tailBlock)
  BY <1>1, <1>5, BlockFacts DEF TailAhead, Ahead
<1>7. Used(AheadOfFront) > 0
  <2>1. CASE TailAhead = 1
    BY <1>6, <2>1 DEF BlocksInOrder
  <2>2. CASE TailAhead # 1
    <3>1. 0 < Ahead(AheadOfFront) /\ Ahead(AheadOfFront) < TailAhead
      BY <1>5, <1>6, <2>2
    <3>2. Used(AheadOfFront) = Room
      BY <1>1, <3>1 DEF BlocksInOrder
    <3> QED BY <1>0, <3>2 DEF Room
  <2> QED BY <2>1, <2>2
<1> QED BY <1>1, <1>3, <1>7, FullBlock DEF AheadOfFront

LEMMA LoadTailAheadStep ==
  ASSUME RingIInv, TypeOK', LoadTailAhead
  PROVE  RingIInv'
<1> USE DEF RingIInv
<1>1. UNCHANGED Ring /\ UNCHANGED prodVars /\ UNCHANGED <<op, result, pointer, wasEmpty>>
      /\ cons = "loadTailAhead" /\ cons' = "advance" /\ op # "peeking"
      /\ localTail' = [localTail EXCEPT ![AheadOfFront] = tail[AheadOfFront]]
  BY DEF LoadTailAhead, Ring, prodVars
<1>2. SameStage
  BY <1>1 DEF SameStage, prodVars
<1>3. /\ BlocksInOrder' /\ SlotsFilled' /\ SlotsCounted'
      /\ Stored' = Stored /\ Items' = Items
      /\ \A b : Used(b)' = Used(b)
      /\ AheadOfTail' = AheadOfTail /\ AheadOfFront' = AheadOfFront /\ After' = After
  BY <1>1, <1>2, Quiet
<1>4. ProducerKnows'
  BY <1>1, <1>3, ProducerKept
<1>t. TypeFacts /\ StoredFacts
  BY Types, StoredIs
<1>5. CopiesBehind'
  <2> SUFFICES ASSUME NEW b \in Blocks
               PROVE  /\ PastSlot(tail[b], front[b]) <= PastSlot(tail[b], localFront[b])
                      /\ PastSlot(localTail'[b], front[b]) <= PastSlot(tail[b], front[b])
    BY <1>1 DEF CopiesBehind, Ring, prodVars
  <2>1. localTail'[b] = IF b = AheadOfFront THEN tail[b] ELSE localTail[b]
    BY <1>1, <1>t DEF TypeFacts, Indices
  <2>2. PastSlot(tail[b], front[b]) \in Nat
    BY <1>t, SlotFacts DEF TypeFacts
  <2> QED BY <2>1, <2>2 DEF CopiesBehind
<1>n. front[AheadOfFront] # tail[AheadOfFront]
  BY <1>1, NextNotEmpty DEF ConsumerKnows
<1>l. localTail'[AheadOfFront] = tail[AheadOfFront]
  BY <1>1, <1>t DEF TypeFacts, Indices
<1>6. ConsumerKnows'
  BY <1>1, <1>3, <1>n, <1>l DEF ConsumerKnows, Ring
<1>7. PointsToFront'
  BY <1>1 DEF PointsToFront
<1>8. FailuresDue'
  BY <1>1, <1>3 DEF FailuresDue, prodVars, Ring
<1> QED BY <1>3, <1>4, <1>5, <1>6, <1>7, <1>8

LEMMA PeekAheadStep ==
  ASSUME RingIInv, TypeOK', PeekAhead
  PROVE  RingIInv'
<1> USE DEF RingIInv
<1>1. UNCHANGED Ring /\ UNCHANGED prodVars /\ UNCHANGED <<localTail, op, wasEmpty>>
      /\ cons = "loadTailAhead" /\ op = "peeking" /\ Found(AheadOfFront)
      /\ cons' = "peeked"
  BY DEF PeekAhead, Found, Ring, prodVars
<1>2. SameStage
  BY <1>1 DEF SameStage, prodVars
<1>3. /\ BlocksInOrder' /\ SlotsFilled' /\ SlotsCounted'
      /\ Stored' = Stored /\ Items' = Items
      /\ \A b : Used(b)' = Used(b)
      /\ AheadOfTail' = AheadOfTail /\ AheadOfFront' = AheadOfFront /\ After' = After
  BY <1>1, <1>2, Quiet
<1>4. ProducerKnows'
  BY <1>1, <1>3, ProducerKept
<1>t. TypeFacts /\ StoredFacts
  BY Types, StoredIs
<1>5. CopiesBehind'
  BY <1>1 DEF CopiesBehind, Ring, prodVars
<1>n. Used(AheadOfFront) > 0
  BY <1>1, NextNotEmpty DEF ConsumerKnows
<1>f. ASSUME Used(AheadOfFront) > 0, Found(AheadOfFront)
      PROVE  \/ op # "peeking" /\ cons' = "read" /\ result' = NoElem
             \/ /\ op = "peeking" /\ cons' = "peeked" /\ pointer' = <<AheadOfFront, front[AheadOfFront]>>
                /\ result' = data[AheadOfFront][front[AheadOfFront]] /\ result' \in Elem
  BY <1>1, <1>t, <1>f, FrontFilled DEF Found, TypeFacts
<1>c. /\ pointer' = <<AheadOfFront, front[AheadOfFront]>>
      /\ result' = data[AheadOfFront][front[AheadOfFront]] /\ result' \in Elem
  BY <1>1, <1>n, <1>f
<1>6. ConsumerKnows'
  BY <1>1, <1>3, <1>c DEF ConsumerKnows, Ring
<1>7. PointsToFront'
  BY <1>1, <1>3, <1>c DEF PointsToFront, ConsumerKnows, Ring
<1>8. FailuresDue'
  BY <1>1, <1>3 DEF FailuresDue, prodVars, Ring
<1> QED BY <1>3, <1>4, <1>5, <1>6, <1>7, <1>8

-----------------------------------------------------------------------------
(* What the steps that change the ring do to what is stored in it. *)

LEMMA SequenceFacts ==
  ASSUME NEW V, NEW x \in V, NEW s \in Seq(V)
  PROVE  /\ Head(<<x>> \o s) = x /\ Tail(<<x>> \o s) = s /\ <<x>> \o s # <<>>
         /\ Len(<<x>> \o s) = Len(s) + 1 /\ <<x>> \o s \in Seq(V)
         /\ s \o <<x>> = Append(s, x) /\ s \o <<>> = s /\ <<>> \o s = s
         /\ Len(s) = 0 => s = <<>>
<1>1. <<x>> \in Seq(V) /\ Len(<<x>>) = 1
  OBVIOUS
<1>2. /\ <<x>> \o s \in Seq(V) /\ Len(<<x>> \o s) = Len(s) + 1
      /\ (<<x>> \o s)[1] = x
      /\ \A i \in 1 .. Len(s) : (<<x>> \o s)[i + 1] = s[i]
  BY <1>1
<1>3. Head(<<x>> \o s) = x /\ <<x>> \o s # <<>>
  BY <1>2
<1>4. Tail(<<x>> \o s) = s
  <2> DEFINE u == <<x>> \o s
  <2> HIDE DEF u
  <2>1. u \in Seq(V) /\ u # <<>> /\ Len(u) = Len(s) + 1 /\ \A i \in 1 .. Len(s) : u[i + 1] = s[i]
    BY <1>2, <1>3 DEF u
  <2>2. /\ Tail(u) \in Seq(V) /\ Len(Tail(u)) = Len(s)
        /\ \A i \in 1 .. Len(s) : Tail(u)[i] = u[i + 1]
    BY <2>1
  <2>3. \A i \in 1 .. Len(s) : Tail(u)[i] = s[i]
    BY <2>1, <2>2
  <2>4. Tail(u) = s
    BY <2>2, <2>3, SeqEqual
  <2> QED BY <2>4 DEF u
<1>5. s \o <<x>> = Append(s, x) /\ s \o <<>> = s /\ <<>> \o s = s
  OBVIOUS
<1>6. Len(s) = 0 => s = <<>>
  OBVIOUS
<1> QED BY <1>2, <1>3, <1>4, <1>5, <1>6

\* The first block is not empty: the front of the ring and what follows it.
FrontAndRest(T) ==
  /\ Stored = <<data[frontBlock][front[frontBlock]]>> \o T
  /\ StoredIn(RowsOf(front, tail, [data EXCEPT ![frontBlock][front[frontBlock]] = NoElem]),
              frontBlock, tailBlock) = <<NoElem>> \o T
  /\ StoredIn(RowsOf([front EXCEPT ![frontBlock] = NextSlot(front[frontBlock])], tail, data),
              frontBlock, tailBlock) = T

LEMMA FrontView ==
  TypeOK /\ front[frontBlock] # tail[frontBlock] => \E T \in Seq(Value) : FrontAndRest(T)
<1> SUFFICES ASSUME TypeOK, front[frontBlock] # tail[frontBlock]
             PROVE  \E T \in Seq(Value) : FrontAndRest(T)
  OBVIOUS
<1> DEFINE fb == frontBlock  d == data[fb][front[fb]]
           erased == RowsOf(front, tail, [data EXCEPT ![fb][front[fb]] = NoElem])
           freed == RowsOf([front EXCEPT ![fb] = NextSlot(front[fb])], tail, data)
<1>1. /\ Rows \in [Blocks -> Seq(Value)] /\ fb \in Blocks /\ tailBlock \in Blocks
      /\ front \in Indices /\ tail \in Indices /\ data \in Contents
      /\ Stored = StoredIn(Rows, fb, tailBlock) /\ d \in Value /\ NoElem \in Value
  BY Types, StoredIs DEF TypeFacts, StoredFacts, Value
<1>2. PICK row \in Seq(Value) :
        /\ Rows[fb] = <<d>> \o row
        /\ erased = [Rows EXCEPT ![fb] = <<NoElem>> \o row]
        /\ freed = [Rows EXCEPT ![fb] = row]
  <2>1. \E row \in Seq(Value) : FrontMoves(front, tail, data, fb, NoElem, row)
    <3> HIDE DEF fb
    <3>1. fb \in Blocks /\ front[fb] # tail[fb]
      BY <1>1 DEF fb
    <3> QED BY <1>1, <3>1, RowsFront
  <2> QED BY <2>1 DEF FrontMoves, Rows
<1>3. PICK rest \in Seq(Value) : FrontBefore(Value, Rows, fb, tailBlock, rest)
  BY <1>1, StoredFront
<1> HIDE DEF erased, freed, d, fb
<1>4. <<d>> \o row \in Seq(Value) /\ <<NoElem>> \o row \in Seq(Value)
  BY <1>1, SequenceFacts
<1>5. Rows = [Rows EXCEPT ![fb] = <<d>> \o row]
  BY <1>1, <1>2
<1>6. /\ StoredIn(Rows, fb, tailBlock) = (<<d>> \o row) \o rest
      /\ StoredIn(erased, fb, tailBlock) = (<<NoElem>> \o row) \o rest
      /\ StoredIn(freed, fb, tailBlock) = row \o rest
  <2>1. ASSUME NEW r \in Seq(Value)
        PROVE  StoredIn([Rows EXCEPT ![fb] = r], fb, tailBlock) = r \o rest
    BY <1>3 DEF FrontBefore
  <2>2. /\ StoredIn([Rows EXCEPT ![fb] = <<d>> \o row], fb, tailBlock) = (<<d>> \o row) \o rest
        /\ StoredIn([Rows EXCEPT ![fb] = <<NoElem>> \o row], fb, tailBlock) =
             (<<NoElem>> \o row) \o rest
        /\ StoredIn([Rows EXCEPT ![fb] = row], fb, tailBlock) = row \o rest
    BY <1>4, <2>1
  <2> QED BY <1>2, <1>5, <2>2
<1>7. ASSUME NEW x \in Value PROVE (<<x>> \o row) \o rest = <<x>> \o (row \o rest)
  <2>1. <<x>> \in Seq(Value)
    OBVIOUS
  <2>2. \A a, b, c \in Seq(Value) : Cat(Cat(a, b), c) = Cat(a, Cat(b, c))
    BY CatFacts
  <2>3. Cat(Cat(<<x>>, row), rest) = Cat(<<x>>, Cat(row, rest))
    BY <2>1, <2>2, Zenon
  <2> QED BY <2>3, Zenon DEF Cat
<1>8. row \o rest \in Seq(Value)
  BY ConcatProperties
<1>9. /\ (<<d>> \o row) \o rest = <<d>> \o (row \o rest)
      /\ (<<NoElem>> \o row) \o rest = <<NoElem>> \o (row \o rest)
  BY <1>1, <1>7
<1>10. FrontAndRest(row \o rest)
  BY <1>1, <1>6, <1>9 DEF FrontAndRest, erased, freed, d, fb
<1> QED BY <1>8, <1>10

LEMMA PutInFront ==
  ASSUME NEW V, NEW x \in V, NEW e \in V, NEW s \in Seq(V)
  PROVE  Append(<<x>> \o s, e) = <<x>> \o Append(s, e)
<1>1. <<x>> \in Seq(V) /\ Append(s, e) \in Seq(V) /\ Len(Append(s, e)) = Len(s) + 1
  OBVIOUS
<1>2. /\ <<x>> \o s \in Seq(V) /\ Len(<<x>> \o s) = Len(s) + 1
      /\ <<x>> \o Append(s, e) \in Seq(V) /\ Len(<<x>> \o Append(s, e)) = Len(s) + 2
  BY <1>1, SequenceFacts
<1>3. Append(<<x>> \o s, e) \in Seq(V) /\ Len(Append(<<x>> \o s, e)) = Len(s) + 2
  BY <1>2
<1>4. \A i \in 1 .. Len(s) + 2 : Append(<<x>> \o s, e)[i] = (<<x>> \o Append(s, e))[i]
  OBVIOUS
<1> QED BY <1>2, <1>3, <1>4, SeqEqual

\* An element at the end of the ring, though the consumer has moved out its front.
LEMMA ItemsAppend ==
  ASSUME TypeOK, ConsumerKnows, CopiesBehind, NEW e \in Value,
         Stored' = Append(Stored, e), cons' = cons, result' = result
  PROVE  Items' = Append(Items, e)
<1>1. Stored \in Seq(Value) /\ result \in Value
  BY Types, StoredIs DEF TypeFacts, StoredFacts
<1>2. CASE cons # "free"
  BY <1>2 DEF Items
<1>3. CASE cons = "free"
  <2>1. front[frontBlock] # tail[frontBlock]
    <3>1. front[frontBlock] # localTail[frontBlock] /\ frontBlock \in Blocks
      BY <1>3, Types DEF ConsumerKnows, TypeFacts
    <3> QED BY <3>1, LocalTailBehind, FullBlock
  <2>2. PICK T \in Seq(Value) : FrontAndRest(T)
    BY <2>1, FrontView
  <2> DEFINE d == data[frontBlock][front[frontBlock]]
  <2>3. d \in Value /\ Stored = <<d>> \o T
    BY <2>2, Types DEF TypeFacts, FrontAndRest
  <2> HIDE DEF d
  <2>4. Tail(Stored) = T
    BY <2>3, SequenceFacts
  <2>5. Tail(Append(Stored, e)) = Append(T, e)
    <3>1. Append(<<d>> \o T, e) = <<d>> \o Append(T, e)
      BY <2>3, PutInFront
    <3>2. Append(T, e) \in Seq(Value)
      OBVIOUS
    <3> QED BY <2>3, <3>1, <3>2, SequenceFacts
  <2>6. <<result>> \o Append(T, e) = Append(<<result>> \o T, e)
    BY <1>1, PutInFront
  <2>7. Items = <<result>> \o T /\ Items' = <<result>> \o Append(T, e)
    BY <1>3, <2>4, <2>5 DEF Items
  <2> QED BY <2>6, <2>7
<1> QED BY <1>2, <1>3

LEMMA FilledFinite == TypeOK => IsFiniteSet(Filled)
<1>1. IsFiniteSet(Blocks) /\ IsFiniteSet(Slots)
  <2>1. BlockCount - 1 \in Int /\ BlockSize - 1 \in Int
    BY RingSize
  <2> QED BY <2>1, FS_Interval DEF Blocks, Slots
<1>2. IsFiniteSet(Blocks \X Slots)
  BY <1>1, FS_Product
<1>3. Filled \subseteq Blocks \X Slots
  BY DEF Filled
<1> QED BY <1>2, <1>3, FS_Subset

-----------------------------------------------------------------------------
(* The producer's steps that change the ring. *)

\* new (location) T(element), in the producer's block b.
WritesTo(b) ==
  /\ data' = [data EXCEPT ![b][tail[b]] = element]
  /\ UNCHANGED <<front, tail, frontBlock, tailBlock, localFront, localTail, element, wasFull,
                 cons, op, result, pointer, wasEmpty>>
  /\ \/ prod = "write" /\ b = tailBlock /\ prod' = "publish"
     \/ prod = "writeAhead" /\ b = AheadOfTail /\ prod' = "publishAhead"

LEMMA WriteStep ==
  ASSUME RingIInv, TypeOK', NEW b \in Blocks, WritesTo(b)
  PROVE  RingIInv' /\ Items' = Items
<1> USE DEF RingIInv
<1>1. /\ data' = [data EXCEPT ![b][tail[b]] = element]
      /\ front' = front /\ tail' = tail /\ frontBlock' = frontBlock /\ tailBlock' = tailBlock
      /\ localFront' = localFront /\ localTail' = localTail
      /\ element' = element /\ wasFull' = wasFull
      /\ cons' = cons /\ op' = op /\ result' = result /\ pointer' = pointer
      /\ wasEmpty' = wasEmpty
  BY DEF WritesTo
<1>2. \/ prod = "write" /\ b = tailBlock /\ prod' = "publish"
      \/ prod = "writeAhead" /\ b = AheadOfTail /\ prod' = "publishAhead"
  BY DEF WritesTo
<1>t. TypeFacts /\ StoredFacts /\ TypeFacts' /\ StoredFacts'
  BY Types, StoredIs, FactsNext
<1>3. element \in Elem /\ element # NoElem
  BY <1>2, QueueAssumption DEF ProducerKnows, Enqueuing
<1>4. /\ tail[b] \in Slots /\ front[b] \in Slots
      /\ Used(b) = PastSlot(tail[b], front[b]) /\ Used(b) \in Nat
  BY <1>t, SlotFacts DEF TypeFacts, StoredFacts
<1>5. \A c \in Blocks : \A i \in Slots :
        data'[c][i] = IF c = b /\ i = tail[b] THEN element ELSE data[c][i]
  BY <1>1, <1>4, <1>t DEF TypeFacts, Contents
<1>6. Rows' = Rows
  <2>1. PastSlot(tail[b], front[b]) >= PastSlot(tail[b], front[b])
    BY <1>4
  <2>2. SlotWritten(data, data', b, tail[b], element)
    BY <1>1 DEF SlotWritten
  <2>3. front \in Indices /\ tail \in Indices /\ data \in Contents
    BY <1>t DEF TypeFacts
  <2>4. RowsOf(front, tail, data') = RowsOf(front, tail, data)
    BY <1>4, <2>1, <2>2, <2>3, RowsWrite
  <2> QED BY <1>1, <2>4 DEF Rows
<1>7. Stored' = Stored /\ Items' = Items
  BY <1>1, <1>6, <1>t DEF StoredFacts, Items
<1>8. /\ \A c : Used(c)' = Used(c) /\ Ahead(c)' = Ahead(c)
      /\ AheadOfTail' = AheadOfTail /\ AheadOfFront' = AheadOfFront /\ After' = After
      /\ TailAhead' = TailAhead
  BY <1>1 DEF Used, Ahead, AheadOfTail, AheadOfFront, After, TailAhead
<1>9. CopiesBehind'
  BY <1>1 DEF CopiesBehind
<1>10. BlocksInOrder'
  BY <1>1, <1>2, <1>8 DEF BlocksInOrder
<1>11. ~IsFilled(b, tail[b])
  <2>1. prod # "publish" /\ prod # "publishAhead"
    BY <1>2
  <2>2. ~(PastSlot(tail[b], front[b]) < Used(b))
    BY <1>4
  <2> QED BY <2>1, <2>2 DEF IsFilled
<1>12. data[b][tail[b]] = NoElem
  BY <1>4, <1>11 DEF SlotsFilled
<1>13. ProducerKnows'
  <2>1. data'[b][tail[b]] = element
    BY <1>4, <1>5
  <2> QED BY <1>1, <1>2, <1>8, <2>1 DEF ProducerKnows, Enqueuing, LeftTail, Entering
<1>14. ConsumerKnows'
  <2>1. Used(frontBlock)' = Used(frontBlock)
    BY <1>1, <1>8
  <2> QED BY <1>1, <1>8, <2>1 DEF ConsumerKnows
<1>15. PointsToFront'
  <2> SUFFICES ASSUME cons = "peeked" PROVE PointsToFront'
    BY <1>1 DEF PointsToFront
  <2>1. Used(frontBlock)' = Used(frontBlock)
    BY <1>1, <1>8
  <2>2. PICK c \in Blocks : c \in {frontBlock, AheadOfFront} /\ pointer = <<c, front[c]>> /\ Used(c) > 0
    BY <1>t, NextNotEmpty DEF PointsToFront, TypeFacts
  <2>3. front[c] # tail[c] /\ front[c] \in Slots
    BY <1>t, <2>2, FullBlock DEF TypeFacts
  <2>4. data'[pointer[1]][pointer[2]] = data[pointer[1]][pointer[2]]
    BY <1>5, <2>2, <2>3
  <2> QED BY <1>1, <1>8, <2>1, <2>4 DEF PointsToFront
<1>16. SlotsFilled'
  <2> SUFFICES ASSUME NEW c \in Blocks, NEW i \in Slots
               PROVE  data'[c][i] # NoElem <=> IsFilled(c, i)'
    BY DEF SlotsFilled
  <2>1. IsFilled(c, i)' <=> IsFilled(c, i) \/ (c = b /\ i = tail[b])
    BY <1>1, <1>2, <1>8 DEF IsFilled
  <2> QED BY <1>3, <1>5, <2>1 DEF SlotsFilled
<1>17. SlotsCounted'
  <2>1. /\ <<b, tail[b]>> \notin Filled /\ <<b, tail[b]>> \in Blocks \X Slots
    BY <1>4, <1>12 DEF Filled
  <2>2. Filled' = Filled \cup {<<b, tail[b]>>}
    <3>1. \A p \in Blocks \X Slots : p \in Filled' <=> data'[p[1]][p[2]] # NoElem
      BY DEF Filled
    <3>2. \A p \in Blocks \X Slots : p \in Filled <=> data[p[1]][p[2]] # NoElem
      BY DEF Filled
    <3>3. \A p \in Blocks \X Slots : p \in Filled' <=> p \in Filled \cup {<<b, tail[b]>>}
      BY <1>3, <1>5, <3>1, <3>2
    <3> QED BY <2>1, <3>3 DEF Filled
  <2>3. Cardinality(Filled') = Cardinality(Filled) + 1 /\ Cardinality(Filled) \in Nat
    BY <2>1, <2>2, FilledFinite, FS_AddElement, FS_CardinalityType
  <2>4. Len(Stored) \in Nat
    BY <1>t DEF StoredFacts
  <2>5. /\ prod' \in {"publish", "publishAhead", "advance"}
        /\ prod \notin {"publish", "publishAhead", "advance"}
    BY <1>2
  <2> QED BY <1>1, <1>7, <2>3, <2>4, <2>5 DEF SlotsCounted
<1>18. FailuresDue'
  BY <1>1, <1>2, <1>7 DEF FailuresDue
<1> QED BY <1>7, <1>9, <1>10, <1>13, <1>14, <1>15, <1>16, <1>17, <1>18

LEMMA WriteHereStep ==
  ASSUME RingIInv, TypeOK', WriteHere
  PROVE  RingIInv' /\ Items' = Items
<1>1. WritesTo(tailBlock)
  BY DEF WriteHere, Write, WritesTo, consVars
<1>2. tailBlock \in Blocks
  BY Types DEF RingIInv, TypeFacts
<1> QED BY <1>1, <1>2, WriteStep

LEMMA WriteAheadStep ==
  ASSUME RingIInv, TypeOK', WriteAhead
  PROVE  RingIInv' /\ Items' = Items
<1>1. WritesTo(AheadOfTail)
  BY DEF WriteAhead, Write, WritesTo, consVars
<1>2. AheadOfTail \in Blocks
  BY Types DEF RingIInv, TypeFacts
<1> QED BY <1>1, <1>2, WriteStep

\* tail = nextBlockTail, in the producer's block b.
TailMovesIn(b) ==
  /\ tail' = [tail EXCEPT ![b] = NextSlot(tail[b])]
  /\ UNCHANGED <<data, front, frontBlock, tailBlock, localFront, localTail,
                 cons, op, result, pointer, wasEmpty>>
  /\ NextSlot(tail[b]) # localFront[b]
  /\ data[b][tail[b]] = element
  /\ prod' \notin {"publish", "publishAhead"}
  /\ \/ prod = "publish" /\ b = tailBlock
     \/ prod = "publishAhead" /\ b = AheadOfTail

\* What block b holds after the step.
UsedNext(b) == PastSlot(tail'[b], front'[b])

LEMMA UsedPrimed == /\ \A b : Used(b)' = UsedNext(b)
                    /\ Used(frontBlock)' = UsedNext(frontBlock')
                    /\ Used(tailBlock)' = UsedNext(tailBlock')
BY DEF Used, UsedNext, PastSlot

\* What such a step does whichever block it is in.
TailMoved(b) ==
  /\ NextSlot(tail[b]) # front[b]
  /\ UsedNext(b) = Used(b) + 1
  /\ \A c \in Blocks \ {b} : UsedNext(c) = Used(c)
  /\ RowAppended(Rows, Rows', b, element)

LEMMA TailStep ==
  ASSUME RingIInv, TypeOK', NEW b \in Blocks, TailMovesIn(b)
  PROVE  /\ TailMoved(b)
         /\ CopiesBehind' /\ SlotsFilled' /\ PointsToFront' /\ Filled' = Filled
<1> USE DEF RingIInv
<1>1. /\ tail' = [tail EXCEPT ![b] = NextSlot(tail[b])]
      /\ data' = data /\ front' = front /\ frontBlock' = frontBlock /\ tailBlock' = tailBlock
      /\ localFront' = localFront /\ localTail' = localTail
      /\ cons' = cons /\ op' = op /\ result' = result /\ pointer' = pointer
      /\ wasEmpty' = wasEmpty
      /\ NextSlot(tail[b]) # localFront[b]
      /\ data[b][tail[b]] = element
  BY DEF TailMovesIn
<1>2. /\ prod' \notin {"publish", "publishAhead"}
      /\ \/ prod = "publish" /\ b = tailBlock
         \/ prod = "publishAhead" /\ b = AheadOfTail
  BY DEF TailMovesIn
<1>t. TypeFacts /\ StoredFacts /\ TypeFacts' /\ StoredFacts'
  BY Types, StoredIs, FactsNext
<1>3. /\ tail[b] \in Slots /\ front[b] \in Slots /\ localFront[b] \in Slots
      /\ localTail[b] \in Slots
      /\ Used(b) = PastSlot(tail[b], front[b]) /\ Used(b) \in Nat
  BY <1>t, SlotFacts DEF TypeFacts, StoredFacts
<1>4. \A c \in Blocks : tail'[c] = IF c = b THEN NextSlot(tail[b]) ELSE tail[c]
  BY <1>1, <1>t DEF TypeFacts, Indices
<1>5. NextSlot(tail[b]) # front[b]
  <2>1. /\ PastSlot(tail[b], localFront[b]) <= BlockSize - 1
        /\ PastSlot(tail[b], localFront[b]) # BlockSize - 1
        /\ PastSlot(tail[b], localFront[b]) \in Nat
        /\ PastSlot(tail[b], front[b]) \in Nat
        /\ PastSlot(tail[b], front[b]) = BlockSize - 1 <=> NextSlot(tail[b]) = front[b]
    BY <1>1, <1>3, SlotFacts
  <2>2. PastSlot(tail[b], front[b]) <= PastSlot(tail[b], localFront[b])
    BY DEF CopiesBehind
  <2>3. BlockSize \in Nat
    BY RingSize
  <2> QED BY <2>1, <2>2, <2>3
<1>6. UsedNext(b) = Used(b) + 1 /\ \A c \in Blocks \ {b} : UsedNext(c) = Used(c)
  <2>1. PastSlot(NextSlot(tail[b]), front[b]) = PastSlot(tail[b], front[b]) + 1
    BY <1>3, <1>5, SlotFacts
  <2>2. \A c \in Blocks : UsedNext(c) = PastSlot(tail'[c], front[c]) /\ Used(c) = PastSlot(tail[c], front[c])
    BY <1>1, <1>t DEF StoredFacts, UsedNext
  <2> QED BY <1>4, <2>1, <2>2
<1>7. RowAppended(Rows, Rows', b, element)
  <2>1. front \in Indices /\ tail \in Indices /\ data \in Contents
    BY <1>t DEF TypeFacts
  <2>2. RowAppended(RowsOf(front, tail, data),
                    RowsOf(front, [tail EXCEPT ![b] = NextSlot(tail[b])], data),
                    b, data[b][tail[b]])
    BY <1>5, <2>1, RowsPut
  <2> QED BY <1>1, <2>2 DEF Rows
<1>8. CopiesBehind'
  <2> SUFFICES ASSUME NEW c \in Blocks
               PROVE  /\ PastSlot(tail'[c], front[c]) <= PastSlot(tail'[c], localFront[c])
                      /\ PastSlot(localTail[c], front[c]) <= PastSlot(tail'[c], front[c])
    BY <1>1 DEF CopiesBehind
  <2>1. /\ PastSlot(tail[c], front[c]) <= PastSlot(tail[c], localFront[c])
        /\ PastSlot(localTail[c], front[c]) <= PastSlot(tail[c], front[c])
    BY DEF CopiesBehind
  <2>2. CASE c = b
    <3>1. /\ PastSlot(NextSlot(tail[b]), front[b]) = PastSlot(tail[b], front[b]) + 1
          /\ PastSlot(NextSlot(tail[b]), localFront[b]) = PastSlot(tail[b], localFront[b]) + 1
          /\ PastSlot(tail[b], front[b]) \in Nat /\ PastSlot(tail[b], localFront[b]) \in Nat
          /\ PastSlot(localTail[b], front[b]) \in Nat
      BY <1>1, <1>3, <1>5, SlotFacts
    <3> QED BY <1>4, <2>1, <2>2, <3>1
  <2>3. CASE c # b
    BY <1>4, <2>1, <2>3
  <2> QED BY <2>2, <2>3
<1>9. cons = "free" => frontBlock # b \/ front[b] # tail[b]
  <2>1. cons = "free" => front[frontBlock] # localTail[frontBlock]
    BY DEF ConsumerKnows
  <2> QED BY <1>t, <2>1, LocalTailBehind, FullBlock DEF TypeFacts
<1>10. SlotsFilled'
  <2> SUFFICES ASSUME NEW c \in Blocks, NEW i \in Slots
               PROVE  IsFilled(c, i)' <=> IsFilled(c, i)
    BY <1>1 DEF SlotsFilled
  <2>1. CASE c = b
    <3>1. PastSlot(i, front[b]) \in Nat
          /\ (PastSlot(i, front[b]) = PastSlot(tail[b], front[b]) => i = tail[b])
      BY <1>3, SlotFacts
    <3>2. PastSlot(i, front[b]) < Used(b)' <=> PastSlot(i, front[b]) < Used(b) \/ i = tail[b]
      BY <1>3, <1>6, <3>1, UsedPrimed
    <3> QED BY <1>1, <1>2, <1>9, <2>1, <3>2 DEF IsFilled
  <2>2. CASE c # b
    <3>1. Used(c)' = Used(c)
      BY <1>6, <2>2, UsedPrimed
    <3> QED BY <1>1, <1>2, <2>2, <3>1 DEF IsFilled
  <2> QED BY <2>1, <2>2
<1>11. PointsToFront'
  <2>1. ASSUME cons = "peeked" PROVE PointsToFront'
    <3>1. /\ AheadOfFront' = AheadOfFront /\ frontBlock \in Blocks /\ tailBlock \in Blocks
          /\ AheadOfTail \in Blocks
      BY <1>1, <1>t DEF AheadOfFront, TypeFacts
    <3>2. UsedNext(frontBlock) = Used(frontBlock) \/ frontBlock = b
      BY <1>6, <3>1
    <3>3. Used(frontBlock) > 0 => UsedNext(frontBlock) > 0
      BY <1>3, <1>6, <3>1, <3>2
    <3>4. frontBlock # tailBlock => frontBlock # b
      BY <1>2 DEF ProducerKnows, Entering, LeftTail
    <3>5. UsedNext(frontBlock) = Used(frontBlock) \/ frontBlock = tailBlock
      BY <1>6, <3>1, <3>4
    <3>a. Used(frontBlock)' = UsedNext(frontBlock)
      BY <1>1, UsedPrimed
    <3> QED BY <1>1, <2>1, <3>1, <3>3, <3>5, <3>a DEF PointsToFront
  <2> QED BY <1>1, <2>1 DEF PointsToFront
<1>12. Filled' = Filled
  BY <1>1 DEF Filled
<1> QED BY <1>5, <1>6, <1>7, <1>8, <1>10, <1>11, <1>12 DEF TailMoved

LEMMA PublishStep ==
  ASSUME RingIInv, TypeOK', Publish
  PROVE  RingIInv' /\ Items' = Append(Items, element)
<1> USE DEF RingIInv
<1>t. TypeFacts /\ StoredFacts /\ TypeFacts' /\ StoredFacts'
  BY Types, StoredIs, FactsNext
<1> DEFINE b == tailBlock
<1>1. /\ tail' = [tail EXCEPT ![b] = NextSlot(tail[b])]
      /\ data' = data /\ front' = front /\ frontBlock' = frontBlock /\ tailBlock' = tailBlock
      /\ localFront' = localFront /\ localTail' = localTail
      /\ cons' = cons /\ op' = op /\ result' = result /\ pointer' = pointer
      /\ wasEmpty' = wasEmpty
      /\ prod = "publish" /\ prod' = "ok" /\ element' = NoElem
  BY DEF Publish, Return, consVars, After
<1>2. TailMovesIn(b)
  BY <1>1 DEF TailMovesIn, ProducerKnows, After
<1>3. /\ TailMoved(b)
      /\ CopiesBehind' /\ SlotsFilled' /\ PointsToFront' /\ Filled' = Filled
  BY <1>2, <1>t, TailStep DEF TypeFacts
<1>4. /\ element \in Elem /\ element \in Value
  BY <1>1 DEF ProducerKnows, Enqueuing, Value
<1>5. Stored' = Append(Stored, element)
  <2>1. RowAppended(Rows, Rows', b, element)
    BY <1>3 DEF TailMoved
  <2>2. /\ Rows \in [Blocks -> Seq(Value)] /\ frontBlock \in Blocks /\ b \in Blocks
    BY <1>t DEF TypeFacts, StoredFacts
  <2>3. StoredIn(Rows', frontBlock, b) = Append(StoredIn(Rows, frontBlock, b), element)
    BY <1>4, <2>1, <2>2, StoredPut
  <2> QED BY <1>1, <1>t, <2>3 DEF StoredFacts
<1>6. Items' = Append(Items, element)
  BY <1>1, <1>4, <1>5, ItemsAppend
<1>7. /\ UsedNext(b) = Used(b) + 1 /\ \A c \in Blocks \ {b} : UsedNext(c) = Used(c)
      /\ \A c : Ahead(c)' = Ahead(c)
      /\ AheadOfTail' = AheadOfTail /\ AheadOfFront' = AheadOfFront /\ TailAhead' = TailAhead
      /\ Used(b) \in Nat
  BY <1>1, <1>3, <1>t, FullBlock DEF TailMoved, Ahead, AheadOfTail, AheadOfFront, TailAhead, TypeFacts
<1>8. BlocksInOrder'
  <2>1. ASSUME NEW c \in Blocks, 0 < Ahead(c), Ahead(c) < TailAhead PROVE UsedNext(c) = Room
    <3>1. c # b
      BY <2>1, BlockFacts, <1>t DEF TailAhead, TypeFacts, Ahead
    <3> QED BY <1>7, <2>1, <3>1 DEF BlocksInOrder
  <2>2. Used(tailBlock)' > 0
    <3>1. Used(tailBlock)' = UsedNext(b)
      BY <1>1 DEF Used, UsedNext, PastSlot
    <3> QED BY <1>7, <3>1
  <2>3. ASSUME NEW c \in Blocks, Ahead(c) > TailAhead PROVE UsedNext(c) = 0
    <3>1. c # b
      BY <2>3, BlockFacts, <1>t DEF TailAhead, TypeFacts, Ahead
    <3>2. Used(c) = 0
      BY <1>1, <2>3 DEF BlocksInOrder
    <3> QED BY <1>7, <3>1, <3>2
  <2> QED BY <1>1, <1>7, <2>1, <2>2, <2>3, UsedPrimed DEF BlocksInOrder
<1>9. ProducerKnows'
  BY <1>1 DEF ProducerKnows, Enqueuing, LeftTail, Entering
<1>10. ConsumerKnows'
  <2>1. frontBlock # tailBlock => Used(frontBlock)' = Used(frontBlock)
    <3>1. frontBlock \in Blocks
      BY <1>t DEF TypeFacts
    <3> QED BY <1>1, <1>7, <3>1, UsedPrimed
  <2> QED BY <1>1, <1>7, <2>1 DEF ConsumerKnows
<1>11. SlotsCounted'
  <2>1. Len(Stored') = Len(Stored) + 1 /\ Len(Stored) \in Nat
    BY <1>t, <1>4, <1>5 DEF StoredFacts
  <2>2. Cardinality(Filled) \in Nat
    BY FilledFinite, FS_CardinalityType
  <2> QED BY <1>1, <1>3, <2>1, <2>2 DEF SlotsCounted
<1>12. FailuresDue'
  <2>1. cons # "free" => Items' # <<>>
    <3>1. Append(Stored, element) # <<>>
      <4>1. ASSUME NEW s \in Seq(Value), NEW e \in Value PROVE Append(s, e) # <<>>
        <5>1. Len(Append(s, e)) # 0 /\ Len(<<>>) = 0
          OBVIOUS
        <5> QED BY <5>1
      <4> QED BY <1>t, <1>4, <4>1 DEF StoredFacts
    <3> QED BY <1>1, <1>5, <3>1 DEF Items
  <2> QED BY <1>1, <2>1 DEF FailuresDue
<1> QED BY <1>3, <1>6, <1>8, <1>9, <1>10, <1>11, <1>12

\* The block ahead of the producer's, once the consumer is known not to be in it.
LEMMA BlockAhead ==
  TypeOK /\ AheadOfTail # frontBlock =>
    /\ Ahead(AheadOfTail) = TailAhead + 1 /\ TailAhead \in Nat
    /\ AheadOfTail # tailBlock
    /\ \A c \in Blocks : Ahead(c) \in Nat /\ (Ahead(c) = TailAhead + 1 => c = AheadOfTail)
    /\ \A c \in Blocks : Ahead(c) = TailAhead => c = tailBlock
    /\ \A c \in Blocks : Ahead(c) = 0 <=> c = frontBlock
<1> SUFFICES ASSUME TypeOK, AheadOfTail # frontBlock
             PROVE  /\ Ahead(AheadOfTail) = TailAhead + 1 /\ TailAhead \in Nat
                    /\ AheadOfTail # tailBlock
                    /\ \A c \in Blocks : Ahead(c) \in Nat
                                         /\ (Ahead(c) = TailAhead + 1 => c = AheadOfTail)
                    /\ \A c \in Blocks : Ahead(c) = TailAhead => c = tailBlock
                    /\ \A c \in Blocks : Ahead(c) = 0 <=> c = frontBlock
  OBVIOUS
<1>1. frontBlock \in Blocks /\ tailBlock \in Blocks /\ AheadOfTail \in Blocks
  BY Types DEF TypeFacts
<1>2. Ahead(AheadOfTail) = TailAhead + 1 /\ TailAhead \in Nat
  BY <1>1, BlockFacts DEF Ahead, TailAhead, AheadOfTail
<1>3. AheadOfTail # tailBlock
  BY <1>2 DEF TailAhead
<1>4. ASSUME NEW c \in Blocks
      PROVE  /\ Ahead(c) \in Nat /\ (Ahead(c) = TailAhead + 1 => c = AheadOfTail)
             /\ (Ahead(c) = TailAhead => c = tailBlock)
             /\ (Ahead(c) = 0 <=> c = frontBlock)
  <2>1. PastBlock(c, frontBlock) \in Nat /\ (PastBlock(c, frontBlock) = 0 <=> c = frontBlock)
    BY <1>1, BlockFacts
  <2>2. PastBlock(c, frontBlock) = PastBlock(AheadOfTail, frontBlock) => c = AheadOfTail
    BY <1>1, BlockFacts
  <2>3. PastBlock(c, frontBlock) = PastBlock(tailBlock, frontBlock) => c = tailBlock
    BY <1>1, BlockFacts
  <2> QED BY <1>2, <2>1, <2>2, <2>3 DEF Ahead, TailAhead
<1> QED BY <1>2, <1>3, <1>4

LEMMA PublishAheadStep ==
  ASSUME RingIInv, TypeOK', PublishAhead
  PROVE  RingIInv' /\ Items' = Items
<1> USE DEF RingIInv
<1>t. TypeFacts /\ StoredFacts /\ TypeFacts' /\ StoredFacts'
  BY Types, StoredIs, FactsNext
<1>0. PICK b \in Blocks : b = AheadOfTail
  BY <1>t DEF TypeFacts
<1>1. /\ tail' = [tail EXCEPT ![b] = NextSlot(tail[b])]
      /\ data' = data /\ front' = front /\ frontBlock' = frontBlock /\ tailBlock' = tailBlock
      /\ localFront' = localFront /\ localTail' = localTail
      /\ cons' = cons /\ op' = op /\ result' = result /\ pointer' = pointer
      /\ wasEmpty' = wasEmpty /\ wasFull' = wasFull
      /\ prod = "publishAhead" /\ prod' = "advance" /\ element' = element
  BY <1>0 DEF PublishAhead, consVars
<1>2. b # frontBlock /\ AheadOfTail # frontBlock
  BY <1>0, <1>1 DEF ProducerKnows, Entering, LeftTail
<1>3. /\ Ahead(b) = TailAhead + 1 /\ TailAhead \in Nat /\ b # tailBlock
      /\ \A c \in Blocks : Ahead(c) \in Nat /\ (Ahead(c) = TailAhead + 1 => c = b)
  BY <1>0, <1>2, BlockAhead
<1>4. Used(b) = 0 /\ front[b] = tail[b] /\ front[b] \in Slots
  <2>1. Used(b) = 0
    BY <1>1, <1>3 DEF BlocksInOrder
  <2> QED BY <1>t, <2>1, FullBlock DEF TypeFacts
<1>5. TailMovesIn(b)
  <2>1. localFront[b] = tail[b] /\ data[b][tail[b]] = element
    BY <1>0, <1>1, <1>4 DEF ProducerKnows
  <2>2. NextSlot(tail[b]) # tail[b]
    <3>1. PastSlot(tail[b], NextSlot(tail[b])) = BlockSize - 1 /\ PastSlot(tail[b], tail[b]) = 0
      BY <1>4, SlotFacts
    <3>2. BlockSize - 1 # 0
      BY RingSize
    <3> QED BY <3>1, <3>2
  <2> QED BY <1>0, <1>1, <2>1, <2>2 DEF TailMovesIn
<1>6. /\ TailMoved(b)
      /\ CopiesBehind' /\ SlotsFilled' /\ PointsToFront' /\ Filled' = Filled
  BY <1>5, TailStep
<1>7. /\ UsedNext(b) = 1 /\ \A c \in Blocks \ {b} : UsedNext(c) = Used(c)
      /\ \A c : Ahead(c)' = Ahead(c)
      /\ AheadOfTail' = b /\ AheadOfFront' = AheadOfFront /\ TailAhead' = TailAhead
  BY <1>0, <1>1, <1>4, <1>6
     DEF TailMoved, Ahead, AheadOfTail, AheadOfFront, TailAhead
<1>8. Stored' = Stored
  <2>1. \A c \in Blocks \ {b} : Rows'[c] = Rows[c]
    BY <1>6, <1>t DEF TailMoved, RowAppended, StoredFacts
  <2>2. ASSUME NEW c \in Blocks, PastBlock(c, frontBlock) <= PastBlock(tailBlock, frontBlock)
        PROVE  Rows'[c] = Rows[c]
    <3>1. c # b
      BY <1>3, <2>2 DEF Ahead, TailAhead
    <3> QED BY <2>1, <3>1
  <2>3. Agree(Rows, Rows', frontBlock, tailBlock)
    BY <2>2 DEF Agree
  <2>4. frontBlock \in Blocks /\ tailBlock \in Blocks
    BY <1>t DEF TypeFacts
  <2>5. StoredIn(Rows', frontBlock, tailBlock) = StoredIn(Rows, frontBlock, tailBlock)
    BY <2>3, <2>4, StoredInSame
  <2> QED BY <1>1, <1>t, <2>5 DEF StoredFacts
<1>9. Items' = Items
  BY <1>1, <1>8 DEF Items
<1>10. BlocksInOrder'
  <2>1. ASSUME NEW c \in Blocks, 0 < Ahead(c), Ahead(c) < TailAhead PROVE UsedNext(c) = Room
    <3>1. c # b
      BY <1>3, <2>1
    <3> QED BY <1>7, <2>1, <3>1 DEF BlocksInOrder
  <2>2. tailBlock # frontBlock => Used(tailBlock)' > 0
    <3>1. Used(tailBlock)' = UsedNext(tailBlock)
      BY <1>1 DEF Used, UsedNext, PastSlot
    <3>2. tailBlock \in Blocks \ {b}
      BY <1>3, <1>t DEF TypeFacts
    <3> QED BY <1>7, <3>1, <3>2 DEF BlocksInOrder
  <2>3. ASSUME NEW c \in Blocks, Ahead(c) > TailAhead PROVE UsedNext(c) = IF c = b THEN 1 ELSE 0
    <3>2. Used(c) = 0
      BY <1>1, <2>3 DEF BlocksInOrder
    <3> QED BY <1>7, <3>2
  <2> QED BY <1>1, <1>7, <2>1, <2>2, <2>3, UsedPrimed DEF BlocksInOrder
<1>11. ProducerKnows'
  <2>1. tailBlock # frontBlock => Used(tailBlock)' = Room
    <3>1. Used(tailBlock)' = UsedNext(tailBlock)
      BY <1>1 DEF Used, UsedNext, PastSlot
    <3>2. tailBlock \in Blocks \ {b}
      BY <1>3, <1>t DEF TypeFacts
    <3> QED BY <1>1, <1>7, <3>1, <3>2 DEF ProducerKnows, LeftTail
  <2>2. element \in Elem /\ data[b][front[b]] = element
    BY <1>0, <1>1, <1>4 DEF ProducerKnows, Enqueuing
  <2> QED BY <1>1, <1>2, <1>7, <2>1, <2>2 DEF ProducerKnows, Enqueuing, LeftTail, Entering
<1>12. ConsumerKnows'
  <2>1. Used(frontBlock)' = Used(frontBlock)
    <3>1. frontBlock \in Blocks \ {b}
      BY <1>2, <1>t DEF TypeFacts
    <3> QED BY <1>1, <1>7, <3>1, UsedPrimed
  <2> QED BY <1>1, <1>7, <2>1 DEF ConsumerKnows
<1>13. SlotsCounted'
  BY <1>1, <1>6, <1>8 DEF SlotsCounted
<1>14. FailuresDue'
  BY <1>1, <1>9 DEF FailuresDue
<1> QED BY <1>6, <1>9, <1>10, <1>11, <1>12, <1>13, <1>14

LEMMA AdvanceTailStep ==
  ASSUME RingIInv, TypeOK', AdvanceTail
  PROVE  RingIInv' /\ Items' = Append(Items, element)
<1> USE DEF RingIInv
<1>t. TypeFacts /\ StoredFacts /\ TypeFacts' /\ StoredFacts'
  BY Types, StoredIs, FactsNext
<1>0. PICK b \in Blocks : b = AheadOfTail
  BY <1>t DEF TypeFacts
<1>1. /\ tailBlock' = b
      /\ data' = data /\ front' = front /\ frontBlock' = frontBlock /\ tail' = tail
      /\ localFront' = localFront /\ localTail' = localTail
      /\ cons' = cons /\ op' = op /\ result' = result /\ pointer' = pointer
      /\ wasEmpty' = wasEmpty
      /\ prod = "advance" /\ prod' = "ok" /\ element' = NoElem
  BY <1>0 DEF AdvanceTail, Return, consVars
<1>2. b # frontBlock /\ AheadOfTail # frontBlock
  BY <1>0, <1>1 DEF ProducerKnows, Entering, LeftTail
<1>3. /\ Ahead(b) = TailAhead + 1 /\ TailAhead \in Nat /\ b # tailBlock
      /\ \A c \in Blocks : Ahead(c) \in Nat /\ (Ahead(c) = TailAhead + 1 => c = b)
      /\ \A c \in Blocks : Ahead(c) = TailAhead => c = tailBlock
      /\ \A c \in Blocks : Ahead(c) = 0 <=> c = frontBlock
  BY <1>0, <1>2, BlockAhead
<1>4. Used(b) = 1 /\ front[b] # tail[b]
  <2>1. Used(b) = 1
    BY <1>0, <1>1, <1>3 DEF BlocksInOrder
  <2> QED BY <2>1, FullBlock
<1>5. element \in Elem /\ element \in Value /\ data[b][front[b]] = element
  BY <1>0, <1>1 DEF ProducerKnows, Enqueuing, Value
<1>6. Rows' = Rows
  BY <1>1 DEF Rows
<1>7. Rows[b] = <<element>>
  <2>1. front \in Indices /\ tail \in Indices /\ data \in Contents
    BY <1>t DEF TypeFacts
  <2>2. PICK row \in Seq(Value) : FrontMoves(front, tail, data, b, element, row)
    BY <1>4, <1>5, <2>1, RowsFront
  <2>3. Rows[b] = <<element>> \o row
    BY <1>5, <2>2 DEF FrontMoves, Rows
  <2>4. Len(Rows[b]) = 1
    BY <1>4, <1>t DEF StoredFacts
  <2>5. Len(Rows[b]) = Len(row) + 1
    BY <1>5, <2>3, SequenceFacts
  <2>6. row = <<>>
    <3>0. Len(row) \in Nat
      BY <1>5, SequenceFacts
    <3>1. Len(row) = 0
      <4> DEFINE l == Len(row)
                 r == Len(Rows[b])
      <4>1. l \in Nat /\ r = 1 /\ r = l + 1
        BY <2>4, <2>5, <3>0
      <4> HIDE DEF l, r
      <4>2. l = 0
        BY <4>1
      <4> QED BY <4>2 DEF l
    <3> QED BY <1>5, <3>1, SequenceFacts
  <2> QED BY <2>3, <2>6
<1>8. Stored' = Append(Stored, element)
  <2>1. /\ Rows \in [Blocks -> Seq(Value)] /\ frontBlock \in Blocks /\ tailBlock \in Blocks
        /\ Stored \in Seq(Value)
    BY <1>t DEF TypeFacts, StoredFacts
  <2>2. NextBlock(tailBlock) = b
    BY <1>0 DEF AheadOfTail
  <2>3. StoredIn(Rows, frontBlock, b) = StoredIn(Rows, frontBlock, tailBlock) \o Rows[b]
    BY <1>2, <2>1, <2>2, StoredInNext
  <2>4. Stored' = Stored \o <<element>>
    BY <1>1, <1>6, <1>7, <1>t, <2>3 DEF StoredFacts
  <2> QED BY <1>5, <2>1, <2>4, SequenceFacts
<1>9. Items' = Append(Items, element)
  BY <1>1, <1>5, <1>8, ItemsAppend
<1>10. /\ \A c : Used(c)' = Used(c) /\ Ahead(c)' = Ahead(c)
       /\ AheadOfFront' = AheadOfFront /\ TailAhead' = TailAhead + 1
  <2>1. TailAhead' = Ahead(b)
    BY <1>1 DEF TailAhead, Ahead
  <2> QED BY <1>1, <1>3, <2>1 DEF Used, Ahead, AheadOfFront
<1>11. CopiesBehind'
  BY <1>1 DEF CopiesBehind
<1>12. BlocksInOrder'
  <2>1. ASSUME NEW c \in Blocks, 0 < Ahead(c), Ahead(c) < TailAhead + 1 PROVE Used(c) = Room
    <3>1. CASE c = tailBlock
      <4>1. tailBlock # frontBlock
        BY <1>3, <2>1, <3>1
      <4> QED BY <1>1, <3>1, <4>1 DEF ProducerKnows, LeftTail
    <3>2. CASE c # tailBlock
      <4>1. Ahead(c) < TailAhead
        BY <1>3, <2>1, <3>2
      <4> QED BY <2>1, <4>1 DEF BlocksInOrder
    <3> QED BY <3>1, <3>2
  <2>2. Used(tailBlock)' = Used(b)
    BY <1>1 DEF Used
  <2>3. ASSUME NEW c \in Blocks, Ahead(c) > TailAhead + 1 PROVE Used(c) = 0
    <3>1. c # b /\ Ahead(c) > TailAhead
      BY <1>3, <2>3
    <3> QED BY <1>0, <2>3, <3>1 DEF BlocksInOrder
  <2> QED BY <1>1, <1>4, <1>10, <2>1, <2>2, <2>3 DEF BlocksInOrder
<1>13. ProducerKnows'
  BY <1>1 DEF ProducerKnows, Enqueuing, LeftTail, Entering
<1>14. ConsumerKnows'
  <2>1. Used(frontBlock)' = Used(frontBlock)
    BY <1>1 DEF Used
  <2> QED BY <1>1, <1>2, <1>10, <2>1 DEF ConsumerKnows
<1>15. PointsToFront'
  <2>1. Used(frontBlock)' = Used(frontBlock)
    BY <1>1 DEF Used
  <2> QED BY <1>1, <1>2, <1>10, <2>1 DEF PointsToFront
<1>16. SlotsFilled'
  <2>1. \A c, i : IsFilled(c, i)' = IsFilled(c, i)
    BY <1>1, <1>10 DEF IsFilled
  <2> QED BY <1>1, <2>1 DEF SlotsFilled
<1>17. SlotsCounted'
  <2>1. Len(Stored') = Len(Stored) + 1 /\ Len(Stored) \in Nat
    BY <1>t, <1>5, <1>8 DEF StoredFacts
  <2>2. Cardinality(Filled) \in Nat /\ Filled' = Filled
    BY <1>1, FilledFinite, FS_CardinalityType DEF Filled
  <2> QED BY <1>1, <2>1, <2>2 DEF SlotsCounted
<1>18. FailuresDue'
  <2>1. cons # "free" => Items' # <<>>
    <3>1. Append(Stored, element) # <<>>
      <4>1. ASSUME NEW s \in Seq(Value), NEW e \in Value PROVE Append(s, e) # <<>>
        <5>1. Len(Append(s, e)) # 0 /\ Len(<<>>) = 0
          OBVIOUS
        <5> QED BY <5>1
      <4> QED BY <1>t, <1>5, <4>1 DEF StoredFacts
    <3> QED BY <1>1, <1>8, <3>1 DEF Items
  <2> QED BY <1>1, <1>2, <2>1 DEF FailuresDue
<1> QED BY <1>9, <1>11, <1>12, <1>13, <1>14, <1>15, <1>16, <1>17, <1>18

-----------------------------------------------------------------------------
(* The consumer's steps that change the ring. *)

LEMMA AdvanceFrontStep ==
  ASSUME RingIInv, TypeOK', AdvanceFront
  PROVE  RingIInv' /\ Items' = Items
<1> USE DEF RingIInv
<1>t. TypeFacts /\ StoredFacts /\ TypeFacts' /\ StoredFacts'
  BY Types, StoredIs, FactsNext
<1>0. PICK b \in Blocks : b = AheadOfFront
  BY <1>t DEF TypeFacts
<1>1. /\ frontBlock' = b
      /\ data' = data /\ front' = front /\ tail' = tail /\ tailBlock' = tailBlock
      /\ localFront' = localFront /\ localTail' = localTail
      /\ prod' = prod /\ element' = element /\ wasFull' = wasFull
      /\ cons = "advance" /\ cons' = "read" /\ op' = op /\ result' = result
      /\ wasEmpty' = wasEmpty
  BY <1>0 DEF AdvanceFront, prodVars
<1>2. /\ frontBlock # tailBlock /\ Used(frontBlock) = 0 /\ localTail[b] # front[b]
      /\ op # "peeking" /\ result = NoElem
  BY <1>0, <1>1 DEF ConsumerKnows
<1>3. /\ frontBlock \in Blocks /\ tailBlock \in Blocks /\ AheadOfTail \in Blocks
      /\ b = NextBlock(frontBlock)
  BY <1>0, <1>t DEF TypeFacts, AheadOfFront
<1>4. /\ TailAhead' = TailAhead - 1 /\ TailAhead \in Nat /\ TailAhead <= BlockCount - 1
      /\ \A c \in Blocks \ {frontBlock} : Ahead(c)' = Ahead(c) - 1 /\ Ahead(c) \in Nat
      /\ Ahead(frontBlock) = 0 /\ PastBlock(frontBlock, b) = BlockCount - 1
      /\ AheadOfTail' = AheadOfTail /\ AheadOfFront' = NextBlock(b)
      /\ BlockCount \in Nat
  <2>1. PastBlock(tailBlock, b) = PastBlock(tailBlock, frontBlock) - 1
    BY <1>2, <1>3, BlockFacts
  <2>2. \A c \in Blocks \ {frontBlock} : PastBlock(c, b) = PastBlock(c, frontBlock) - 1
    BY <1>3, BlockFacts
  <2>3. PastBlock(frontBlock, b) = BlockCount - 1 /\ PastBlock(frontBlock, frontBlock) = 0
    BY <1>3, BlockFacts
  <2>4. \A c \in Blocks : PastBlock(c, frontBlock) \in Nat
                          /\ PastBlock(c, frontBlock) <= BlockCount - 1
    BY <1>3, BlockFacts
  <2> QED BY <1>1, <1>3, <2>1, <2>2, <2>3, <2>4, RingSize
          DEF Ahead, TailAhead, AheadOfTail, AheadOfFront
<1>5. /\ \A c : Used(c)' = Used(c) /\ After' = After
  BY <1>1 DEF Used, After
<1>6. Rows' = Rows
  BY <1>1 DEF Rows
<1>7. Stored' = Stored
  <2>1. /\ Rows \in [Blocks -> Seq(Value)] /\ Stored \in Seq(Value)
        /\ Stored = StoredIn(Rows, frontBlock, tailBlock)
    BY <1>t DEF StoredFacts
  <2>2. StoredIn(Rows, frontBlock, tailBlock) = Rows[frontBlock] \o StoredIn(Rows, b, tailBlock)
    BY <1>2, <1>3, <2>1, StoredInFirst
  <2>3. Rows[frontBlock] = <<>>
    <3>1. Len(Rows[frontBlock]) = 0 /\ Rows[frontBlock] \in Seq(Value)
      BY <1>2, <1>3, <1>t DEF StoredFacts
    <3> QED BY <3>1
  <2>4. Stored' = StoredIn(Rows, b, tailBlock) /\ Stored' \in Seq(Value)
    BY <1>1, <1>6, <1>t DEF StoredFacts
  <2>5. NoElem \in Value
    BY DEF Value
  <2>6. <<>> \o Stored' = Stored'
    BY <2>4, <2>5, SequenceFacts
  <2> QED BY <2>1, <2>2, <2>3, <2>4, <2>6
<1>8. Items' = Items
  BY <1>1, <1>7 DEF Items
<1>9. CopiesBehind'
  BY <1>1 DEF CopiesBehind
<1>10. prod \in Entering => AheadOfTail # frontBlock /\ AheadOfTail # b
  <2>1. NextBlock(tailBlock) # NextBlock(frontBlock)
    BY <1>2, <1>3, BlockFacts
  <2> QED BY <1>3, <2>1 DEF ProducerKnows, AheadOfTail
<1>11. BlocksInOrder'
  <2>1. ASSUME NEW c \in Blocks, 0 < Ahead(c)', Ahead(c)' < TailAhead - 1 PROVE Used(c) = Room
    <3>2. c # frontBlock
      <4>1. c = frontBlock => Ahead(c)' = BlockCount - 1
        BY <1>1, <1>4 DEF Ahead
      <4> QED BY <1>4, <2>1, <4>1
    <3> QED BY <1>4, <2>1, <3>2 DEF BlocksInOrder
  <2>2. Used(tailBlock)' > 0
    <3>1. Used(tailBlock)' = Used(tailBlock)
      BY <1>1 DEF Used
    <3> QED BY <1>2, <3>1 DEF BlocksInOrder
  <2>3. ASSUME NEW c \in Blocks, Ahead(c)' > TailAhead - 1
        PROVE  Used(c) = IF prod = "advance" /\ c = AheadOfTail THEN 1 ELSE 0
    <3>1. CASE c = frontBlock
      BY <1>2, <1>10, <3>1 DEF Entering, LeftTail
    <3>2. CASE c # frontBlock
      BY <1>4, <2>3, <3>2 DEF BlocksInOrder
    <3> QED BY <3>1, <3>2
  <2> QED BY <1>1, <1>4, <1>5, <2>1, <2>2, <2>3 DEF BlocksInOrder
<1>12. ProducerKnows'
  <2>1. Used(tailBlock)' = Used(tailBlock)
    BY <1>1 DEF Used
  <2> QED BY <1>1, <1>2, <1>4, <1>5, <1>10, <2>1 DEF ProducerKnows, Enqueuing
<1>13. ConsumerKnows'
  BY <1>1, <1>2 DEF ConsumerKnows
<1>14. PointsToFront'
  BY <1>1 DEF PointsToFront
<1>15. SlotsFilled'
  <2>1. \A c, i : IsFilled(c, i)' = IsFilled(c, i)
    BY <1>1, <1>4, <1>5 DEF IsFilled
  <2> QED BY <1>1, <2>1 DEF SlotsFilled
<1>16. SlotsCounted'
  <2>1. Filled' = Filled
    BY <1>1 DEF Filled
  <2> QED BY <1>1, <1>7, <2>1 DEF SlotsCounted
<1>17. FailuresDue'
  BY <1>1, <1>8 DEF FailuresDue
<1> QED BY <1>8, <1>9, <1>11, <1>12, <1>13, <1>14, <1>15, <1>16, <1>17

LEMMA ReadStep ==
  ASSUME RingIInv, TypeOK', Read
  PROVE  RingIInv' /\ Items' = Items
<1> USE DEF RingIInv
<1>t. TypeFacts /\ StoredFacts /\ TypeFacts' /\ StoredFacts'
  BY Types, StoredIs, FactsNext
<1>0. PICK b \in Blocks : b = frontBlock
  BY <1>t DEF TypeFacts
<1>1. /\ data' = [data EXCEPT ![b][front[b]] = NoElem]
      /\ front' = front /\ tail' = tail /\ frontBlock' = frontBlock /\ tailBlock' = tailBlock
      /\ localFront' = localFront /\ localTail' = localTail
      /\ prod' = prod /\ element' = element /\ wasFull' = wasFull
      /\ cons = "read" /\ cons' = "free" /\ op' = op
      /\ result' = data[b][front[b]] /\ wasEmpty' = wasEmpty
  BY <1>0 DEF Read, prodVars
<1>2. /\ front[b] # localTail[b] /\ op # "peeking" /\ Used(b) > 0 /\ front[b] # tail[b]
  <2>1. front[b] # localTail[b] /\ op # "peeking"
    BY <1>0, <1>1 DEF ConsumerKnows
  <2> QED BY <2>1, LocalTailBehind, FullBlock
<1>3. front[b] \in Slots /\ tail[b] \in Slots /\ data[b][front[b]] \in Elem
      /\ data[b][front[b]] # NoElem
  BY <1>1, <1>2, <1>t, FrontFilled, QueueAssumption DEF TypeFacts
<1>4. \A c \in Blocks : \A i \in Slots :
        data'[c][i] = IF c = b /\ i = front[b] THEN NoElem ELSE data[c][i]
  BY <1>1, <1>3, <1>t DEF TypeFacts, Contents
<1>5. PICK T \in Seq(Value) : FrontAndRest(T)
  BY <1>0, <1>2, FrontView
<1>6. Stored = <<data[b][front[b]]>> \o T /\ Stored' = <<NoElem>> \o T
  <2>1. Stored' = StoredIn(RowsOf(front, tail, data'), frontBlock, tailBlock)
    BY <1>1, <1>t DEF StoredFacts, Rows
  <2> QED BY <1>0, <1>1, <1>5, <2>1 DEF FrontAndRest
<1>7. /\ Tail(Stored') = T /\ Len(Stored') = Len(Stored) /\ Len(Stored) \in Nat
  <2>1. data[b][front[b]] \in Value /\ NoElem \in Value
    BY <1>3 DEF Value
  <2>2. Len(<<NoElem>> \o T) = Len(T) + 1 /\ Tail(<<NoElem>> \o T) = T
    BY <2>1, SequenceFacts
  <2> DEFINE d == data[b][front[b]]
  <2> HIDE DEF d
  <2>3. Len(<<d>> \o T) = Len(T) + 1
    BY <2>1, SequenceFacts DEF d
  <2> QED BY <1>6, <2>2, <2>3 DEF d
<1>8. Items' = Items
  BY <1>1, <1>6, <1>7 DEF Items
<1>9. /\ \A c : Used(c)' = Used(c) /\ Ahead(c)' = Ahead(c)
      /\ AheadOfTail' = AheadOfTail /\ AheadOfFront' = AheadOfFront /\ After' = After
      /\ TailAhead' = TailAhead
  BY <1>1 DEF Used, Ahead, AheadOfTail, AheadOfFront, After, TailAhead
<1>10. CopiesBehind'
  BY <1>1 DEF CopiesBehind
<1>11. BlocksInOrder'
  BY <1>1, <1>9 DEF BlocksInOrder
<1>12. ProducerKnows'
  <2>1. Used(tailBlock)' = Used(tailBlock)
    BY <1>1 DEF Used
  <2>2. prod = "publish" => data'[tailBlock][tail[tailBlock]] = element
    BY <1>0, <1>2, <1>4, <1>t DEF ProducerKnows, TypeFacts
  <2>3. /\ prod = "publishAhead" => data'[AheadOfTail][tail[AheadOfTail]] = element
        /\ prod = "advance" => data'[AheadOfTail][front[AheadOfTail]] = element
    BY <1>0, <1>4, <1>t DEF ProducerKnows, TypeFacts, Entering, LeftTail
  <2> QED BY <1>1, <1>9, <2>1, <2>2, <2>3 DEF ProducerKnows, Enqueuing
<1>13. ConsumerKnows'
  BY <1>0, <1>1, <1>2, <1>3 DEF ConsumerKnows
<1>14. PointsToFront'
  BY <1>1 DEF PointsToFront
<1>15. SlotsFilled'
  <2> SUFFICES ASSUME NEW c \in Blocks, NEW i \in Slots
               PROVE  data'[c][i] # NoElem <=> IsFilled(c, i)'
    BY DEF SlotsFilled
  <2>1. prod = "publishAhead" => AheadOfTail # b
    BY <1>0 DEF ProducerKnows, Entering, LeftTail
  <2>2. IsFilled(c, i)' <=> IsFilled(c, i) /\ ~(c = b /\ i = front[b])
    BY <1>0, <1>1, <1>2, <1>9, <2>1 DEF IsFilled
  <2> QED BY <1>4, <2>2 DEF SlotsFilled
<1>16. SlotsCounted'
  <2>1. <<b, front[b]>> \in Filled
    BY <1>3 DEF Filled
  <2>2. Filled' = Filled \ {<<b, front[b]>>}
    <3>1. \A p \in Blocks \X Slots : p \in Filled' <=> data'[p[1]][p[2]] # NoElem
      BY DEF Filled
    <3>2. \A p \in Blocks \X Slots : p \in Filled <=> data[p[1]][p[2]] # NoElem
      BY DEF Filled
    <3>3. \A p \in Blocks \X Slots : p \in Filled' <=> p \in Filled \ {<<b, front[b]>>}
      BY <1>3, <1>4, <3>1, <3>2
    <3> QED BY <2>1, <3>3 DEF Filled
  <2>3. Cardinality(Filled') = Cardinality(Filled) - 1 /\ Cardinality(Filled) \in Nat
    BY <2>1, <2>2, FilledFinite, FS_RemoveElement, FS_CardinalityType
  <2> QED BY <1>1, <1>7, <2>3 DEF SlotsCounted
<1>17. FailuresDue'
  BY <1>1, <1>8 DEF FailuresDue
<1> QED BY <1>8, <1>10, <1>11, <1>12, <1>13, <1>14, <1>15, <1>16, <1>17

LEMMA FreeStep ==
  ASSUME RingIInv, TypeOK', Free
  PROVE  /\ RingIInv'
         /\ Items # <<>> /\ Items' = Tail(Items) /\ result = Head(Items)
<1> USE DEF RingIInv
<1>t. TypeFacts /\ StoredFacts /\ TypeFacts' /\ StoredFacts'
  BY Types, StoredIs, FactsNext
<1>0. PICK b \in Blocks : b = frontBlock
  BY <1>t DEF TypeFacts
<1>1. /\ front' = [front EXCEPT ![b] = NextSlot(front[b])]
      /\ data' = data /\ tail' = tail /\ frontBlock' = frontBlock /\ tailBlock' = tailBlock
      /\ localFront' = localFront /\ localTail' = localTail
      /\ prod' = prod /\ element' = element /\ wasFull' = wasFull
      /\ cons = "free" /\ cons' = "taken" /\ op' = op /\ result' = result
      /\ wasEmpty' = wasEmpty
  BY <1>0 DEF Free, prodVars
<1>2. /\ front[b] # localTail[b] /\ op # "peeking" /\ Used(b) > 0 /\ front[b] # tail[b]
      /\ result \in Elem /\ result \in Value
  <2>1. front[b] # localTail[b] /\ op # "peeking" /\ result \in Elem
    BY <1>0, <1>1 DEF ConsumerKnows
  <2> QED BY <2>1, LocalTailBehind, FullBlock DEF Value
<1>3. /\ front[b] \in Slots /\ tail[b] \in Slots /\ localTail[b] \in Slots /\ localFront[b] \in Slots
      /\ data[b][front[b]] \in Value
  BY <1>t DEF TypeFacts
<1>4. \A c \in Blocks : front'[c] = IF c = b THEN NextSlot(front[b]) ELSE front[c]
  BY <1>1, <1>t DEF TypeFacts, Indices
<1>5. PICK T \in Seq(Value) : FrontAndRest(T)
  BY <1>0, <1>2, FrontView
<1>6. Stored = <<data[b][front[b]]>> \o T /\ Stored' = T
  <2>1. Stored' = StoredIn(RowsOf(front', tail, data), frontBlock, tailBlock)
    BY <1>1, <1>t DEF StoredFacts, Rows
  <2> QED BY <1>0, <1>1, <1>5, <2>1 DEF FrontAndRest
<1>7. /\ Tail(Stored) = T /\ Len(Stored) = Len(T) + 1 /\ Len(T) \in Nat
  <2> DEFINE d == data[b][front[b]]
  <2>1. d \in Value
    BY <1>3
  <2> HIDE DEF d
  <2>2. Len(<<d>> \o T) = Len(T) + 1 /\ Tail(<<d>> \o T) = T
    BY <2>1, SequenceFacts
  <2> QED BY <1>6, <2>2 DEF d
<1>8. Items # <<>> /\ Items' = Tail(Items) /\ result = Head(Items)
  <2>1. Items = <<result>> \o T /\ Items' = T
    BY <1>1, <1>6, <1>7 DEF Items
  <2> QED BY <1>2, <2>1, SequenceFacts
<1>9. /\ UsedNext(b) = Used(b) - 1 /\ Used(b) \in Nat
      /\ \A c \in Blocks \ {b} : UsedNext(c) = Used(c)
  <2>1. PastSlot(tail[b], NextSlot(front[b])) = PastSlot(tail[b], front[b]) - 1
    BY <1>2, <1>3, SlotFacts
  <2>2. \A c \in Blocks : UsedNext(c) = PastSlot(tail[c], front'[c]) /\ Used(c) = PastSlot(tail[c], front[c])
    BY <1>1, <1>t DEF StoredFacts, UsedNext
  <2>3. Used(b) \in Nat
    BY FullBlock
  <2> QED BY <1>4, <2>1, <2>2, <2>3
<1>10. /\ \A c : Ahead(c)' = Ahead(c)
       /\ AheadOfTail' = AheadOfTail /\ AheadOfFront' = AheadOfFront /\ After' = After
       /\ TailAhead' = TailAhead
  BY <1>1 DEF Ahead, AheadOfTail, AheadOfFront, After, TailAhead
<1>11. CopiesBehind'
  <2> SUFFICES ASSUME NEW c \in Blocks
               PROVE  /\ PastSlot(tail[c], front'[c]) <= PastSlot(tail[c], localFront[c])
                      /\ PastSlot(localTail[c], front'[c]) <= PastSlot(tail[c], front'[c])
    BY <1>1 DEF CopiesBehind
  <2>1. /\ PastSlot(tail[c], front[c]) <= PastSlot(tail[c], localFront[c])
        /\ PastSlot(localTail[c], front[c]) <= PastSlot(tail[c], front[c])
    BY DEF CopiesBehind
  <2>2. CASE c = b
    <3>1. /\ PastSlot(tail[b], NextSlot(front[b])) = PastSlot(tail[b], front[b]) - 1
          /\ PastSlot(localTail[b], NextSlot(front[b])) = PastSlot(localTail[b], front[b]) - 1
          /\ PastSlot(tail[b], front[b]) \in Nat /\ PastSlot(tail[b], localFront[b]) \in Nat
          /\ PastSlot(localTail[b], front[b]) \in Nat
      BY <1>2, <1>3, SlotFacts
    <3> QED BY <1>4, <2>1, <2>2, <3>1
  <2>3. CASE c # b
    BY <1>4, <2>1, <2>3
  <2> QED BY <2>2, <2>3
<1>12. tailBlock # frontBlock => Used(tailBlock)' = Used(tailBlock)
  <2>1. Used(tailBlock)' = UsedNext(tailBlock)
    BY <1>1 DEF Used, UsedNext, PastSlot
  <2>2. tailBlock \in Blocks
    BY <1>t DEF TypeFacts
  <2> QED BY <1>0, <1>9, <2>1, <2>2
<1>13. BlocksInOrder'
  <2>1. /\ Ahead(frontBlock) = 0 /\ TailAhead \in Nat
    BY <1>0, <1>t, BlockFacts DEF Ahead, TailAhead, TypeFacts
  <2>2. ASSUME NEW c \in Blocks, 0 < Ahead(c), Ahead(c) < TailAhead PROVE UsedNext(c) = Room
    <3>1. c # b
      BY <1>0, <2>1, <2>2
    <3> QED BY <1>9, <2>2, <3>1 DEF BlocksInOrder
  <2>3. ASSUME NEW c \in Blocks, Ahead(c) > TailAhead
        PROVE  UsedNext(c) = IF prod = "advance" /\ c = AheadOfTail THEN 1 ELSE 0
    <3>1. c # b
      BY <1>0, <2>1, <2>3
    <3> QED BY <1>9, <2>3, <3>1 DEF BlocksInOrder
  <2> QED BY <1>1, <1>10, <1>12, <2>2, <2>3, UsedPrimed DEF BlocksInOrder
<1>14. ProducerKnows'
  <2>1. /\ AheadOfTail \in Blocks
        /\ prod \in Entering => front'[AheadOfTail] = front[AheadOfTail]
    BY <1>0, <1>4, <1>t DEF ProducerKnows, TypeFacts
  <2> QED BY <1>1, <1>10, <1>12, <2>1 DEF ProducerKnows, Enqueuing, Entering, LeftTail
<1>15. ConsumerKnows'
  BY <1>1, <1>2 DEF ConsumerKnows
<1>16. PointsToFront'
  BY <1>1 DEF PointsToFront
<1>17. SlotsFilled'
  <2> SUFFICES ASSUME NEW c \in Blocks, NEW i \in Slots
               PROVE  IsFilled(c, i)' <=> IsFilled(c, i)
    BY <1>1 DEF SlotsFilled
  <2>1. CASE c = b
    <3>1. CASE i = front[b]
      <4>1. PastSlot(i, NextSlot(front[b])) = BlockSize - 1 /\ Used(b) <= BlockSize - 1
            /\ BlockSize \in Nat
        BY <1>3, <3>1, SlotFacts, FullBlock, RingSize DEF Room
      <4>2. ~(PastSlot(i, front'[b]) < UsedNext(b))
        BY <1>4, <1>9, <4>1
      <4> QED BY <1>0, <1>1, <1>2, <1>10, <2>1, <3>1, <4>2, UsedPrimed DEF IsFilled
    <3>2. CASE i # front[b]
      <4>1. PastSlot(i, NextSlot(front[b])) = PastSlot(i, front[b]) - 1 /\ PastSlot(i, front[b]) \in Nat
        BY <1>3, <3>2, SlotFacts
      <4>2. PastSlot(i, front'[b]) < UsedNext(b) <=> PastSlot(i, front[b]) < Used(b)
        BY <1>4, <1>9, <4>1
      <4> QED BY <1>0, <1>1, <1>10, <2>1, <3>2, <4>2, UsedPrimed DEF IsFilled
    <3> QED BY <3>1, <3>2
  <2>2. CASE c # b
    <3>1. Used(c)' = Used(c) /\ front'[c] = front[c]
      BY <1>4, <1>9, <2>2, UsedPrimed
    <3> QED BY <1>0, <1>1, <1>10, <2>2, <3>1 DEF IsFilled
  <2> QED BY <2>1, <2>2
<1>18. SlotsCounted'
  <2>1. Filled' = Filled
    BY <1>1 DEF Filled
  <2>2. Cardinality(Filled) \in Nat
    BY FilledFinite, FS_CardinalityType
  <2> QED BY <1>1, <1>6, <1>7, <2>1, <2>2 DEF SlotsCounted
<1>19. FailuresDue'
  <2>1. Len(Items) >= Len(Items') /\ Len(Items') \in Nat /\ Len(Items) \in Nat
    <3>1. Items = <<result>> \o T /\ Items' = T
      BY <1>1, <1>6, <1>7 DEF Items
    <3>2. Len(<<result>> \o T) = Len(T) + 1
      BY <1>2, SequenceFacts
    <3> QED BY <1>7, <3>1, <3>2
  <2>2. maxSize \in Nat
    BY RingSize
  <2> QED BY <1>1, <2>1, <2>2 DEF FailuresDue
<1> QED BY <1>8, <1>11, <1>13, <1>14, <1>15, <1>16, <1>17, <1>18, <1>19

-----------------------------------------------------------------------------
(* The invariant is inductive. *)

LEMMA InitEmpty == Init => TypeOK /\ Stored = <<>> /\ Items = <<>> /\ \A b \in Blocks : Used(b) = 0
<1> SUFFICES ASSUME Init
             PROVE  TypeOK /\ Stored = <<>> /\ Items = <<>> /\ \A b \in Blocks : Used(b) = 0
  OBVIOUS
<1>1. /\ front = [b \in Blocks |-> 0] /\ tail = [b \in Blocks |-> 0]
      /\ localFront = [b \in Blocks |-> 0] /\ localTail = [b \in Blocks |-> 0]
      /\ data = [b \in Blocks |-> [i \in Slots |-> NoElem]]
      /\ frontBlock = 0 /\ tailBlock = 0
      /\ prod = "idle" /\ element = NoElem
      /\ cons = "idle" /\ op = "taking" /\ result = NoElem /\ pointer = <<>>
  BY DEF Init
<1>2. 0 \in Blocks /\ 0 \in Slots
  BY RingSize DEF Blocks, Slots
<1>3. TypeOK
  <2>1. /\ front \in [Blocks -> Slots] /\ tail \in [Blocks -> Slots]
        /\ localFront \in [Blocks -> Slots] /\ localTail \in [Blocks -> Slots]
        /\ data \in [Blocks -> [Slots -> Elem \cup {NoElem}]]
    BY <1>1, <1>2
  <2> QED BY <1>1, <1>2, <2>1 DEF TypeOK
<1>4. \A b \in Blocks : /\ front[b] = 0 /\ tail[b] = 0 /\ localFront[b] = 0 /\ localTail[b] = 0
                         /\ \A i \in Slots : data[b][i] = NoElem
  BY <1>1
<1>5. PastSlot(0, 0) = 0 /\ \A i \in Slots : PastSlot(i, 0) \in Nat
  BY <1>2, SlotFacts
<1>6. StoredFacts
  BY <1>3, StoredIs
<1>7. \A b \in Blocks : Used(b) = 0
  BY <1>4, <1>5, <1>6 DEF StoredFacts
<1>8. Stored = <<>>
  <2>1. Stored = StoredIn(Rows, 0, 0) /\ Rows \in [Blocks -> Seq(Value)] /\ Len(Rows[0]) = 0
    BY <1>1, <1>2, <1>6, <1>7 DEF StoredFacts
  <2>2. Rows[0] = <<>>
    BY <1>2, <2>1
  <2> QED BY <1>2, <2>1, <2>2, StoredInOne
<1>9. Items = <<>>
  BY <1>1, <1>8 DEF Items
<1> QED BY <1>3, <1>7, <1>8, <1>9

LEMMA InitInductive == Init => RingIInv
<1> SUFFICES ASSUME Init PROVE RingIInv
  OBVIOUS
<1>1. /\ front = [b \in Blocks |-> 0] /\ tail = [b \in Blocks |-> 0]
      /\ localFront = [b \in Blocks |-> 0] /\ localTail = [b \in Blocks |-> 0]
      /\ data = [b \in Blocks |-> [i \in Slots |-> NoElem]]
      /\ frontBlock = 0 /\ tailBlock = 0
      /\ prod = "idle" /\ element = NoElem
      /\ cons = "idle" /\ op = "taking" /\ result = NoElem /\ pointer = <<>>
  BY DEF Init
<1>2. 0 \in Blocks /\ 0 \in Slots
  BY RingSize DEF Blocks, Slots
<1>3. TypeOK /\ Stored = <<>> /\ Items = <<>> /\ \A b \in Blocks : Used(b) = 0
  BY InitEmpty
<1>4. \A b \in Blocks : /\ front[b] = 0 /\ tail[b] = 0 /\ localFront[b] = 0 /\ localTail[b] = 0
                         /\ \A i \in Slots : data[b][i] = NoElem
  BY <1>1
<1>5. PastSlot(0, 0) = 0 /\ \A i \in Slots : PastSlot(i, 0) \in Nat
  BY <1>2, SlotFacts
<1>10. CopiesBehind
  BY <1>4, <1>5 DEF CopiesBehind
<1>11. BlocksInOrder
  <2>1. TailAhead = 0 /\ \A b \in Blocks : Ahead(b) \in Nat
    BY <1>1, <1>2, BlockFacts DEF TailAhead, Ahead
  <2> QED BY <1>1, <1>3, <2>1 DEF BlocksInOrder
<1>12. ProducerKnows
  BY <1>1 DEF ProducerKnows, Enqueuing, LeftTail, Entering
<1>13. ConsumerKnows /\ PointsToFront
  BY <1>1 DEF ConsumerKnows, PointsToFront
<1>14. SlotsFilled
  BY <1>1, <1>3, <1>4, <1>5 DEF SlotsFilled, IsFilled
<1>15. SlotsCounted
  <2>1. Filled = {}
    BY <1>4 DEF Filled
  <2>2. Cardinality(Filled) = 0
    BY <2>1, FS_EmptySet
  <2>3. Len(Stored) = 0
    BY <1>3
  <2> QED BY <1>1, <2>2, <2>3 DEF SlotsCounted
<1>16. FailuresDue
  BY <1>1 DEF FailuresDue
<1> QED BY <1>3, <1>10, <1>11, <1>12, <1>13, <1>14, <1>15, <1>16 DEF RingIInv

\* No action at all.
LEMMA StutterStep ==
  ASSUME RingIInv, TypeOK', UNCHANGED vars
  PROVE  RingIInv' /\ Items' = Items
<1> USE DEF RingIInv
<1>1. UNCHANGED Ring /\ UNCHANGED prodVars /\ UNCHANGED consVars
  BY DEF vars, Ring, prodVars, consVars
<1>2. SameStage
  BY <1>1 DEF SameStage, prodVars, consVars
<1>3. /\ BlocksInOrder' /\ SlotsFilled' /\ SlotsCounted'
      /\ Stored' = Stored /\ Items' = Items
      /\ \A b : Used(b)' = Used(b)
      /\ AheadOfTail' = AheadOfTail /\ AheadOfFront' = AheadOfFront /\ After' = After
  BY <1>1, <1>2, Quiet
<1>4. ConsumerKnows' /\ PointsToFront'
  BY <1>1, <1>3, ConsumerKept
<1>5. ProducerKnows'
  BY <1>1, <1>3, ProducerKept
<1>6. CopiesBehind'
  BY <1>1 DEF CopiesBehind, Ring, prodVars, consVars
<1>7. FailuresDue'
  BY <1>1, <1>3, Zenon DEF FailuresDue, Ring, prodVars, consVars
<1> QED BY <1>3, <1>4, <1>5, <1>6, <1>7

LEMMA StepInductive == RingIInv /\ [Next]_vars => RingIInv'
<1> SUFFICES ASSUME RingIInv, [Next]_vars PROVE RingIInv'
  OBVIOUS
<1>1. TypeOK'
  BY TypeStep DEF RingIInv
<1>2. CASE Producer
  BY <1>1, <1>2, CallEnqueueStep, LoadFrontStep, LoadFrontBlockStep, LoadFrontAheadStep,
     WriteHereStep, PublishStep, WriteAheadStep, PublishAheadStep, AdvanceTailStep
     DEF Producer
<1>3. CASE Consumer
  BY <1>1, <1>3, CallDequeueStep, TestLocalTailStep, LoadTailStep, LoadTailBlockStep,
     ReloadTailStep, LoadTailAheadStep, AdvanceFrontStep, PeekAheadStep, ReadStep, FreeStep
     DEF Consumer
<1>4. CASE UNCHANGED vars
  BY <1>1, <1>4, StutterStep
<1> QED BY <1>2, <1>3, <1>4 DEF Next

LEMMA Inductive == Spec => []RingIInv
BY InitInductive, StepInductive, PTL DEF Spec

-----------------------------------------------------------------------------
(* What it implies. *)

\* The front of the queue when the consumer's block is empty and another one follows.
LEMMA NextHasFront ==
  TypeOK /\ BlocksInOrder /\ Used(frontBlock) = 0 /\ frontBlock # tailBlock =>
    \E T \in Seq(Value) : Stored = <<data[AheadOfFront][front[AheadOfFront]]>> \o T
<1> SUFFICES ASSUME TypeOK, BlocksInOrder, Used(frontBlock) = 0, frontBlock # tailBlock
             PROVE  \E T \in Seq(Value) : Stored = <<data[AheadOfFront][front[AheadOfFront]]>> \o T
  OBVIOUS
<1>0. PICK b \in Blocks : b = AheadOfFront
  BY Types DEF TypeFacts
<1>1. TypeFacts /\ StoredFacts
  BY Types, StoredIs
<1>2. /\ Rows \in [Blocks -> Seq(Value)] /\ Stored \in Seq(Value)
      /\ Stored = StoredIn(Rows, frontBlock, tailBlock)
      /\ frontBlock \in Blocks /\ tailBlock \in Blocks
      /\ front \in Indices /\ tail \in Indices /\ data \in Contents
  BY <1>1 DEF StoredFacts, TypeFacts
<1>3. Stored = StoredIn(Rows, b, tailBlock)
  <2>1. Stored = Rows[frontBlock] \o StoredIn(Rows, b, tailBlock)
    BY <1>0, <1>2, StoredInFirst DEF AheadOfFront
  <2>2. Rows[frontBlock] = <<>>
    <3>1. Len(Rows[frontBlock]) = 0 /\ Rows[frontBlock] \in Seq(Value)
      BY <1>1, <1>2 DEF StoredFacts
    <3> QED BY <3>1
  <2>3. StoredIn(Rows, b, tailBlock) \in Seq(Value)
    BY <1>2, StoredInType
  <2>4. NoElem \in Value
    BY DEF Value
  <2>5. <<>> \o StoredIn(Rows, b, tailBlock) = StoredIn(Rows, b, tailBlock)
    BY <2>3, <2>4, SequenceFacts
  <2> QED BY <2>1, <2>2, <2>5
<1>4. front[b] # tail[b]
  BY <1>0, NextNotEmpty
<1> DEFINE d == data[b][front[b]]
<1>5. d \in Value
  BY <1>1 DEF TypeFacts
<1>6. PICK row \in Seq(Value) : FrontMoves(front, tail, data, b, d, row)
  BY <1>2, <1>4, <1>5, RowsFront
<1>7. Rows[b] = <<d>> \o row
  BY <1>6 DEF FrontMoves, Rows
<1>8. PICK rest \in Seq(Value) : FrontBefore(Value, Rows, b, tailBlock, rest)
  BY <1>2, StoredFront
<1> HIDE DEF d
<1>9. Stored = (<<d>> \o row) \o rest
  <2>1. Rows[b] \in Seq(Value) /\ [Rows EXCEPT ![b] = Rows[b]] = Rows
    BY <1>2
  <2> QED BY <1>3, <1>7, <1>8, <2>1 DEF FrontBefore
<1>10. (<<d>> \o row) \o rest = <<d>> \o (row \o rest)
  <2>1. <<d>> \in Seq(Value)
    BY <1>5
  <2>2. \A x, y, z \in Seq(Value) : Cat(Cat(x, y), z) = Cat(x, Cat(y, z))
    BY CatFacts
  <2>3. Cat(Cat(<<d>>, row), rest) = Cat(<<d>>, Cat(row, rest))
    BY <2>1, <2>2, Zenon
  <2> QED BY <2>3, Zenon DEF Cat
<1>11. row \o rest \in Seq(Value)
  BY ConcatProperties
<1>12. Stored = <<data[AheadOfFront][front[AheadOfFront]]>> \o (row \o rest)
  BY <1>0, <1>9, <1>10 DEF d
<1> QED BY <1>11, <1>12

LEMMA FrontOfStored ==
  TypeOK /\ Used(frontBlock) > 0 =>
    Stored # <<>> /\ Head(Stored) = data[frontBlock][front[frontBlock]]
<1> SUFFICES ASSUME TypeOK, Used(frontBlock) > 0
             PROVE  Stored # <<>> /\ Head(Stored) = data[frontBlock][front[frontBlock]]
  OBVIOUS
<1> DEFINE d == data[frontBlock][front[frontBlock]]
<1>1. frontBlock \in Blocks /\ d \in Value
  BY Types DEF TypeFacts
<1>2. front[frontBlock] # tail[frontBlock]
  BY <1>1, FullBlock
<1>3. PICK T \in Seq(Value) : FrontAndRest(T)
  BY <1>2, FrontView
<1>4. Stored = <<d>> \o T
  BY <1>3 DEF FrontAndRest
<1> HIDE DEF d
<1>5. Head(Stored) = d /\ Stored # <<>>
  BY <1>1, <1>4, SequenceFacts
<1> QED BY <1>5 DEF d

LEMMA FrontOfNext ==
  TypeOK /\ BlocksInOrder /\ Used(frontBlock) = 0 /\ frontBlock # tailBlock =>
    Stored # <<>> /\ Head(Stored) = data[AheadOfFront][front[AheadOfFront]]
<1> SUFFICES ASSUME TypeOK, BlocksInOrder, Used(frontBlock) = 0, frontBlock # tailBlock
             PROVE  Stored # <<>> /\ Head(Stored) = data[AheadOfFront][front[AheadOfFront]]
  OBVIOUS
<1> DEFINE d == data[AheadOfFront][front[AheadOfFront]]
<1>1. d \in Value
  BY Types DEF TypeFacts
<1>2. PICK T \in Seq(Value) : Stored = <<d>> \o T
  BY NextHasFront
<1> HIDE DEF d
<1>3. Head(Stored) = d /\ Stored # <<>>
  BY <1>1, <1>2, SequenceFacts
<1> QED BY <1>3 DEF d

LEMMA NoBlockInTheWay == RingIInv => EntersFreeBlock
<1> SUFFICES ASSUME RingIInv, prod \in {"loadFrontAhead", "writeAhead"}
             PROVE  front[AheadOfTail] = tail[AheadOfTail] /\ AheadOfTail # frontBlock
  BY DEF EntersFreeBlock
<1> USE DEF RingIInv
<1>0. PICK b \in Blocks : b = AheadOfTail
  BY Types DEF TypeFacts
<1>1. b # frontBlock
  BY <1>0 DEF ProducerKnows, Entering, LeftTail
<1>2. Ahead(b) > TailAhead
  <2>1. Ahead(b) = TailAhead + 1 /\ TailAhead \in Nat
    BY <1>0, <1>1, BlockAhead
  <2> QED BY <2>1
<1>3. Used(b) = 0
  BY <1>2 DEF BlocksInOrder
<1> QED BY <1>0, <1>1, <1>3, FullBlock

LEMMA NextIsNotEmpty == RingIInv => NextBlockHasElement
BY NextNotEmpty DEF RingIInv, NextBlockHasElement, ConsumerKnows

\* The slot a thread is at: the producer's is empty, the consumer's is not.
LEMMA ApartInTheSlots == RingIInv => SlotsAreDisjoint
<1> SUFFICES ASSUME RingIInv PROVE SlotsAreDisjoint
  OBVIOUS
<1> USE DEF RingIInv
<1>1. TypeFacts /\ StoredFacts
  BY Types, StoredIs
<1>2. Writing # <<>> => data[Writing[1]][Writing[2]] = NoElem
  <2>1. ASSUME NEW b \in Blocks, prod \in {"write", "writeAhead"}
        PROVE  data[b][tail[b]] = NoElem
    <3>1. tail[b] \in Slots /\ Used(b) = PastSlot(tail[b], front[b]) /\ Used(b) \in Nat
      BY <1>1, FullBlock DEF TypeFacts, StoredFacts
    <3>2. ~IsFilled(b, tail[b])
      <4>1. ~(PastSlot(tail[b], front[b]) < Used(b))
        BY <3>1
      <4> QED BY <2>1, <4>1 DEF IsFilled
    <3> QED BY <3>1, <3>2 DEF SlotsFilled
  <2>2. CASE prod = "write"
    <3>1. Writing = <<tailBlock, tail[tailBlock]>>
      BY <2>2 DEF Writing
    <3> QED BY <1>1, <2>1, <2>2, <3>1 DEF TypeFacts
  <2>3. CASE prod = "writeAhead"
    <3>1. Writing = <<AheadOfTail, tail[AheadOfTail]>>
      BY <2>3 DEF Writing
    <3> QED BY <1>1, <2>1, <2>3, <3>1 DEF TypeFacts
  <2>4. CASE prod \notin {"write", "writeAhead"}
    BY <2>4 DEF Writing
  <2> QED BY <2>2, <2>3, <2>4
<1>3. Reading # <<>> => data[Reading[1]][Reading[2]] # NoElem
  <2>0. NoElem \notin Elem
    BY QueueAssumption
  <2>1. CASE cons = "read"
    <3>1. Reading = <<frontBlock, front[frontBlock]>> /\ frontBlock \in Blocks
      BY <1>1, <2>1 DEF Reading, TypeFacts
    <3>2. Used(frontBlock) > 0
      BY <2>1, <3>1, LocalTailBehind DEF ConsumerKnows
    <3>3. data[frontBlock][front[frontBlock]] \in Elem
      BY <2>1, <3>1, <3>2, FrontFilled
    <3> QED BY <2>0, <3>1, <3>3
  <2>2. CASE cons = "peeked"
    <3>1. Reading = pointer
      BY <2>2 DEF Reading
    <3>2. result \in Elem /\ result = data[pointer[1]][pointer[2]]
      BY <2>2 DEF ConsumerKnows, PointsToFront
    <3> QED BY <2>0, <3>1, <3>2
  <2>3. CASE cons \notin {"read", "peeked"}
    BY <2>3 DEF Reading
  <2> QED BY <2>1, <2>2, <2>3
<1>4. Writing # <<>> => Reading # Writing
  BY <1>2, <1>3
<1> QED BY <1>2, <1>3, <1>4 DEF SlotsAreDisjoint

LEMMA PeekedIsFront == RingIInv => PointerStaysFront
<1> SUFFICES ASSUME RingIInv, cons = "peeked"
             PROVE  data[pointer[1]][pointer[2]] = Head(Items) /\ result = Head(Items)
  BY DEF PointerStaysFront
<1> USE DEF RingIInv
<1>1. Items = Stored
  BY LenItems
<1>2. result = data[pointer[1]][pointer[2]]
  BY DEF PointsToFront
<1>3. CASE pointer = <<frontBlock, front[frontBlock]>> /\ Used(frontBlock) > 0
  <2>1. Head(Stored) = data[frontBlock][front[frontBlock]]
    BY <1>3, FrontOfStored
  <2> QED BY <1>1, <1>2, <1>3, <2>1
<1>4. CASE /\ pointer = <<AheadOfFront, front[AheadOfFront]>>
           /\ Used(frontBlock) = 0 /\ frontBlock # tailBlock
  <2>1. Head(Stored) = data[AheadOfFront][front[AheadOfFront]]
    BY <1>4, FrontOfNext
  <2> QED BY <1>1, <1>2, <1>4, <2>1
<1> QED BY <1>3, <1>4 DEF PointsToFront

LEMMA NothingLeftBehind == RingIInv => DestructorFindsAll
<1> SUFFICES ASSUME RingIInv, prod \in {"idle", "ok", "full"},
                    cons \in {"idle", "taken", "peeked", "none"}
             PROVE  Destroyed = Items /\ Cardinality(Filled) = Len(Items)
  BY DEF DestructorFindsAll, Filled
<1> USE DEF RingIInv
<1>1. Items = Stored /\ Len(Stored) \in Nat
  BY LenItems
<1>2. TypeFacts /\ StoredFacts
  BY Types, StoredIs
<1>3. /\ Rows \in [Blocks -> Seq(Value)] /\ frontBlock \in Blocks /\ tailBlock \in Blocks
      /\ Stored = StoredIn(Rows, frontBlock, tailBlock) /\ Destroyed = AllIn(Rows, frontBlock)
  BY <1>2 DEF StoredFacts, TypeFacts
<1>4. \A c \in Blocks : PastBlock(c, frontBlock) > PastBlock(tailBlock, frontBlock) =>
                          Rows[c] = <<>>
  <2>1. ASSUME NEW c \in Blocks, PastBlock(c, frontBlock) > PastBlock(tailBlock, frontBlock)
        PROVE  Rows[c] = <<>>
    <3>1. Used(c) = 0
      BY <2>1 DEF BlocksInOrder, Ahead, TailAhead
    <3>2. Len(Rows[c]) = 0 /\ Rows[c] \in Seq(Value)
      BY <1>2, <1>3, <3>1 DEF StoredFacts
    <3> QED BY <3>2
  <2> QED BY <2>1
<1>5. Destroyed = Stored
  BY <1>3, <1>4, RestEmpty
<1>6. Cardinality(Filled) = Len(Stored)
  <2>1. Cardinality(Filled) \in Nat
    BY FilledFinite, FS_CardinalityType
  <2>2. Cardinality(Filled) + 0 = Len(Stored) + 0
    BY DEF SlotsCounted
  <2> QED BY <1>1, <2>1, <2>2
<1> QED BY <1>1, <1>5, <1>6

\* The asserts of the code, that the threads never meet in a slot, that peek() shows the
\* front and that the destructor finds every element: for every room asked of the
\* constructor and every size of its blocks.
THEOREM RingInvariant == Spec => []RingInv
<1>1. RingIInv => RingInv
  BY NoBlockInTheWay, NextIsNotEmpty, ApartInTheSlots, PeekedIsFront, NothingLeftBehind
     DEF RingInv, RingIInv
<1> QED BY <1>1, Inductive, PTL

-----------------------------------------------------------------------------
(* The ring implements the bounded FIFO. *)

\* How much is in the queue: never more than its blocks hold, and all that was asked for
\* when every block but the consumer's is full and the producer has nowhere to go.
LEMMA NeverOverfull ==
  TypeOK /\ ConsumerKnows /\ CopiesBehind => Len(Items) \in Nat /\ Len(Items) <= MostRoom
<1> SUFFICES ASSUME TypeOK, ConsumerKnows, CopiesBehind
             PROVE  Len(Items) \in Nat /\ Len(Items) <= MostRoom
  OBVIOUS
<1>1. TypeFacts /\ StoredFacts
  BY Types, StoredIs
<1>2. /\ Rows \in [Blocks -> Seq(Value)] /\ frontBlock \in Blocks /\ tailBlock \in Blocks
      /\ Stored = StoredIn(Rows, frontBlock, tailBlock)
  BY <1>1 DEF StoredFacts, TypeFacts
<1>3. Room \in Nat
  BY RingSize DEF Room
<1>4. \A d \in Blocks : PastBlock(d, frontBlock) <= PastBlock(tailBlock, frontBlock) =>
                          Len(Rows[d]) <= Room
  BY <1>1, FullBlock DEF StoredFacts
<1>5. Len(Stored) <= (1 + PastBlock(tailBlock, frontBlock)) * Room
  BY <1>2, <1>3, <1>4, StoredInLen
<1>6. PastBlock(tailBlock, frontBlock) \in Nat /\ PastBlock(tailBlock, frontBlock) <= BlockCount - 1
  BY <1>2, BlockFacts
<1>7. Len(Items) = Len(Stored) /\ Len(Stored) \in Nat
  BY LenItems
<1> DEFINE n == PastBlock(tailBlock, frontBlock)
           l == Len(Stored)
<1>8. n \in Nat /\ n <= BlockCount - 1 /\ l \in Nat /\ l <= (1 + n) * Room /\ BlockCount \in Nat
  BY <1>5, <1>6, <1>7, RingSize
<1> HIDE DEF n, l
<1>9. l <= BlockCount * Room
  <2>1. (1 + n) * Room <= BlockCount * Room
    BY <1>3, <1>8
  <2> QED BY <1>3, <1>8, <2>1
<1> QED BY <1>7, <1>9 DEF l, MostRoom, Room

LEMMA FullWhenBlocked ==
  TypeOK /\ BlocksInOrder /\ ConsumerKnows /\ CopiesBehind /\ Used(tailBlock) = Room
    /\ BlockCount > 1 /\ AheadOfTail = frontBlock =>
    Len(Items) >= maxSize
<1> SUFFICES ASSUME TypeOK, BlocksInOrder, ConsumerKnows, CopiesBehind, Used(tailBlock) = Room,
                    BlockCount > 1, AheadOfTail = frontBlock
             PROVE  Len(Items) >= maxSize
  OBVIOUS
<1>1. TypeFacts /\ StoredFacts
  BY Types, StoredIs
<1>0. PICK b \in Blocks : b = AheadOfFront
  BY <1>1 DEF TypeFacts
<1>2. /\ Rows \in [Blocks -> Seq(Value)] /\ frontBlock \in Blocks /\ tailBlock \in Blocks
      /\ Stored = StoredIn(Rows, frontBlock, tailBlock)
  BY <1>1 DEF StoredFacts, TypeFacts
<1>3. Room \in Nat /\ BlockCount \in Nat /\ maxSize \in Nat
      /\ (BlockCount - 1) * Room >= maxSize
  BY RingSize DEF Room
<1>4. PastBlock(tailBlock, frontBlock) = BlockCount - 1
  BY <1>2, BlockFacts DEF AheadOfTail
<1>5. tailBlock # frontBlock
  <2>1. PastBlock(frontBlock, frontBlock) = 0
    BY <1>2, BlockFacts
  <2> QED BY <1>3, <1>4, <2>1
<1>6. /\ Stored = Rows[frontBlock] \o StoredIn(Rows, b, tailBlock)
      /\ PastBlock(tailBlock, b) = BlockCount - 2
  <2>1. /\ Stored = Rows[frontBlock] \o StoredIn(Rows, NextBlock(frontBlock), tailBlock)
        /\ PastBlock(tailBlock, NextBlock(frontBlock)) = PastBlock(tailBlock, frontBlock) - 1
    BY <1>2, <1>5, StoredInFirst
  <2> QED BY <1>0, <1>3, <1>4, <2>1 DEF AheadOfFront
<1>7. ASSUME NEW d \in Blocks, PastBlock(d, b) <= PastBlock(tailBlock, b) PROVE Len(Rows[d]) = Room
  <2>1. d # frontBlock
    <3>1. PastBlock(frontBlock, b) = BlockCount - 1
      BY <1>0, <1>2, BlockFacts DEF AheadOfFront
    <3> QED BY <1>3, <1>6, <1>7, <3>1
  <2>2. Ahead(d) \in Nat /\ Ahead(d) <= TailAhead /\ Ahead(d) > 0
    <3>1. PastBlock(d, frontBlock) \in Nat /\ PastBlock(d, frontBlock) # 0
          /\ PastBlock(d, frontBlock) <= BlockCount - 1
      BY <1>2, <2>1, BlockFacts
    <3> QED BY <1>3, <1>4, <3>1 DEF Ahead, TailAhead
  <2>3. Used(d) = Room
    <3>1. CASE Ahead(d) = TailAhead
      <4>1. d = tailBlock
        BY <1>2, <3>1, BlockFacts DEF Ahead, TailAhead
      <4> QED BY <4>1
    <3>2. CASE Ahead(d) # TailAhead
      <4>1. TailAhead \in Nat
        BY <1>3, <1>4 DEF TailAhead, Ahead
      <4>2. 0 < Ahead(d) /\ Ahead(d) < TailAhead
        BY <2>2, <3>2, <4>1
      <4> QED BY <4>2 DEF BlocksInOrder
    <3> QED BY <3>1, <3>2
  <2> QED BY <1>1, <2>3 DEF StoredFacts
<1>8. Len(StoredIn(Rows, b, tailBlock)) = (1 + PastBlock(tailBlock, b)) * Room
  <2>1. \A d \in Blocks : PastBlock(d, b) <= PastBlock(tailBlock, b) => Len(Rows[d]) <= Room
    BY <1>3, <1>7
  <2>2. \A d \in Blocks : PastBlock(d, b) <= PastBlock(tailBlock, b) => Len(Rows[d]) = Room
    BY <1>7
  <2> QED BY <1>2, <1>3, <2>1, <2>2, StoredInLen
<1>9. Len(StoredIn(Rows, b, tailBlock)) = (BlockCount - 1) * Room
  <2>1. 1 + PastBlock(tailBlock, b) = BlockCount - 1
    BY <1>3, <1>6
  <2> QED BY <1>8, <2>1
<1>10. Len(Stored) >= (BlockCount - 1) * Room
  <2>1. Rows[frontBlock] \in Seq(Value) /\ StoredIn(Rows, b, tailBlock) \in Seq(Value)
    BY <1>2, StoredInType
  <2> HIDE DEF Rows
  <2> DEFINE rest == StoredIn(Rows, b, tailBlock)
             first == Rows[frontBlock]
  <2>2. first \in Seq(Value) /\ rest \in Seq(Value) /\ Stored = first \o rest
    BY <1>6, <2>1
  <2>3. Len(rest) = (BlockCount - 1) * Room
    BY <1>9
  <2> HIDE DEF rest, first
  <2>4. Len(Stored) = Len(first) + Len(rest) /\ Len(first) \in Nat /\ Len(rest) \in Nat
    BY <2>2
  <2>5. Len(Stored) >= Len(rest)
    BY <2>4
  <2> QED BY <2>3, <2>5
<1>11. Len(Items) = Len(Stored) /\ Len(Stored) \in Nat
  BY LenItems
<1> DEFINE l == Len(Stored)
           m == (BlockCount - 1) * Room
<1>12. l \in Nat /\ l >= m /\ m >= maxSize /\ m \in Int
  BY <1>3, <1>10, <1>11
<1> HIDE DEF l, m
<1>13. l >= maxSize
  BY <1>3, <1>12
<1> QED BY <1>11, <1>13 DEF l

\* What a step of one thread leaves alone of the other's call.
ProducerSame == PutCall' = PutCall /\ element' = element /\ wasFull' = wasFull
ConsumerSame == TakeCall' = TakeCall /\ TakeResult' = TakeResult /\ wasEmpty' = wasEmpty

LEMMA CallsSame ==
  /\ UNCHANGED prodVars => ProducerSame
  /\ UNCHANGED consVars => ConsumerSame
<1>1. UNCHANGED prodVars => ProducerSame
  BY Zenon DEF prodVars, ProducerSame, PutCall
<1>2. UNCHANGED consVars => ConsumerSame
  BY Zenon DEF consVars, ConsumerSame, TakeCall, TakeResult
<1> QED BY <1>1, <1>2

LEMMA Silent ==
  ASSUME Items' = Items, ProducerSame, ConsumerSame
  PROVE  UNCHANGED Fifo!vars
BY Zenon DEF Fifo!vars, ProducerSame, ConsumerSame

LEMMA ItemsType == TypeOK /\ ConsumerKnows /\ CopiesBehind => Items \in Seq(Value)
<1> SUFFICES ASSUME TypeOK, ConsumerKnows, CopiesBehind PROVE Items \in Seq(Value)
  OBVIOUS
<1>1. TypeFacts /\ StoredFacts
  BY Types, StoredIs
<1>2. CASE cons # "free"
  BY <1>1, <1>2 DEF Items, StoredFacts
<1>3. CASE cons = "free"
  <2>1. Used(frontBlock) > 0 /\ frontBlock \in Blocks
    BY <1>1, <1>3, LocalTailBehind DEF ConsumerKnows, TypeFacts
  <2>2. front[frontBlock] # tail[frontBlock]
    BY <2>1, FullBlock
  <2>3. PICK T \in Seq(Value) : FrontAndRest(T)
    BY <2>2, FrontView
  <2> DEFINE d == data[frontBlock][front[frontBlock]]
  <2>4. d \in Value /\ Stored = <<d>> \o T /\ result \in Value
    BY <1>1, <2>3 DEF TypeFacts, FrontAndRest
  <2> HIDE DEF d
  <2>5. Tail(Stored) = T
    BY <2>4, SequenceFacts
  <2> QED BY <1>3, <2>4, <2>5, SequenceFacts DEF Items
<1> QED BY <1>2, <1>3

LEMMA ProducerImplements ==
  ASSUME RingIInv, RingIInv', Producer
  PROVE  [Fifo!Next]_Fifo!vars
<1> USE DEF RingIInv
<1>1. ASSUME UNCHANGED consVars PROVE ConsumerSame
  BY <1>1, CallsSame
<1>2. ASSUME UNCHANGED Ring, SameStage PROVE Items' = Items
  BY <1>2, Quiet
<1>3. ASSUME NEW e \in Elem, CallEnqueue(e) PROVE Fifo!CallPut(e)
  <2>1. UNCHANGED Ring /\ SameStage /\ UNCHANGED consVars
    BY <1>3 DEF CallEnqueue, Ring, SameStage, consVars
  <2>2. Items' = Items /\ ConsumerSame
    BY <1>1, <1>2, <2>1
  <2>3. PutCall # "putting" /\ PutCall' = "putting" /\ element' = e
    BY <1>3 DEF CallEnqueue, PutCall
  <2>4. wasFull' = (Len(Items) >= maxSize)
    BY <1>3, Zenon DEF CallEnqueue
  <2> QED BY <2>2, <2>3, <2>4, Zenon DEF Fifo!CallPut, ConsumerSame
<1>4. CASE LoadFront
  <2>1. UNCHANGED Ring /\ SameStage /\ UNCHANGED consVars
    BY <1>4 DEF LoadFront, Ring, SameStage, consVars
  <2>2. PutCall' = PutCall
    BY <1>4 DEF LoadFront, PutCall
  <2>3. ProducerSame
    BY <1>4, <2>2, Zenon DEF LoadFront, ProducerSame
  <2> QED BY <1>1, <1>2, <2>1, <2>3, Silent
<1>5. CASE LoadFrontBlock
  <2>1. UNCHANGED Ring /\ SameStage /\ UNCHANGED consVars
    BY <1>5 DEF LoadFrontBlock, Return, Ring, SameStage, consVars
  <2>2. Items' = Items /\ ConsumerSame
    BY <1>1, <1>2, <2>1
  <2>3. CASE AheadOfTail # frontBlock
    <3>1. PutCall' = PutCall
      BY <1>5, <2>3 DEF LoadFrontBlock, PutCall
    <3>2. ProducerSame
      BY <1>5, <2>3, <3>1, Zenon DEF LoadFrontBlock, ProducerSame
    <3> QED BY <2>2, <3>2, Silent
  <2>4. CASE AheadOfTail = frontBlock
    <3>1. PutCall = "putting" /\ PutCall' = "full" /\ element' = NoElem
      BY <1>5, <2>4 DEF LoadFrontBlock, Return, PutCall
    <3>2. wasFull' = FALSE
      BY <1>5, <2>4, Zenon DEF LoadFrontBlock, Return
    <3>3. prod = "loadFrontBlock"
      BY <1>5 DEF LoadFrontBlock
    <3>4. wasFull
      <4>1. CASE BlockCount = 1
        BY <3>3, <4>1 DEF FailuresDue
      <4>2. CASE BlockCount # 1
        <5>1. BlockCount > 1
          BY <4>2, RingSize
        <5>2. tailBlock # frontBlock
          <6>1. frontBlock \in Blocks /\ tailBlock \in Blocks
            BY Types DEF TypeFacts
          <6>2. PastBlock(tailBlock, frontBlock) = BlockCount - 1
                /\ PastBlock(frontBlock, frontBlock) = 0
            BY <2>4, <6>1, BlockFacts DEF AheadOfTail
          <6> QED BY <5>1, <6>2, RingSize
        <5>3. Used(tailBlock) = Room
          BY <3>3, <5>2 DEF ProducerKnows, LeftTail
        <5>4. Len(Items) >= maxSize
          BY <2>4, <5>1, <5>3, FullWhenBlocked
        <5> QED BY <3>3, <5>4 DEF FailuresDue
      <4> QED BY <4>1, <4>2
    <3>5. Fifo!PutFails
      BY <2>2, <3>1, <3>2, <3>4, Zenon DEF Fifo!PutFails, ConsumerSame
    <3> QED BY <3>5 DEF Fifo!Next
  <2> QED BY <2>3, <2>4
<1>6. CASE LoadFrontAhead
  <2>1. UNCHANGED Ring /\ SameStage /\ UNCHANGED consVars
    BY <1>6 DEF LoadFrontAhead, Ring, SameStage, consVars
  <2>2. PutCall' = PutCall
    BY <1>6 DEF LoadFrontAhead, PutCall
  <2>3. ProducerSame
    BY <1>6, <2>2, Zenon DEF LoadFrontAhead, ProducerSame
  <2> QED BY <1>1, <1>2, <2>1, <2>3, Silent
<1>7. CASE WriteHere
  <2>1. Items' = Items
    BY <1>7, WriteHereStep
  <2>2. PutCall' = PutCall
    BY <1>7 DEF WriteHere, PutCall
  <2>3. ProducerSame /\ UNCHANGED consVars
    BY <1>7, <2>2, Zenon DEF WriteHere, ProducerSame
  <2> QED BY <1>1, <2>1, <2>3, Silent
<1>8. CASE WriteAhead
  <2>1. Items' = Items
    BY <1>8, WriteAheadStep
  <2>2. PutCall' = PutCall
    BY <1>8 DEF WriteAhead, PutCall
  <2>3. ProducerSame /\ UNCHANGED consVars
    BY <1>8, <2>2, Zenon DEF WriteAhead, ProducerSame
  <2> QED BY <1>1, <2>1, <2>3, Silent
<1>9. CASE PublishAhead
  <2>1. Items' = Items
    BY <1>9, PublishAheadStep
  <2>2. PutCall' = PutCall
    BY <1>9 DEF PublishAhead, PutCall
  <2>3. ProducerSame /\ UNCHANGED consVars
    BY <1>9, <2>2, Zenon DEF PublishAhead, ProducerSame
  <2> QED BY <1>1, <2>1, <2>3, Silent
<1>10. ASSUME Items' = Append(Items, element) PROVE Len(Items) < MostRoom
  <2>1. Len(Items) \in Nat
    BY NeverOverfull
  <2>2. Len(Items') <= MostRoom /\ Len(Items') \in Nat
    <3>1. (TypeOK /\ ConsumerKnows /\ CopiesBehind)' =>
            (Len(Items) \in Nat /\ Len(Items) <= MostRoom)'
      BY NeverOverfull, PTL
    <3> QED BY <3>1 DEF MostRoom
  <2>3. Len(Append(Items, element)) = Len(Items) + 1
    <3>1. Items \in Seq(Value) /\ element \in Value
      BY Types, ItemsType DEF TypeFacts
    <3> QED BY <3>1
  <2>4. MostRoom \in Nat
    BY RingSize DEF MostRoom
  <2> DEFINE l == Len(Items)
             n == Len(Items')
  <2>5. l \in Nat /\ n \in Nat /\ n <= MostRoom /\ n = l + 1
    BY <1>10, <2>1, <2>2, <2>3
  <2> HIDE DEF l, n
  <2>6. l < MostRoom
    BY <2>4, <2>5
  <2> QED BY <2>6 DEF l
<1>11. CASE Publish \/ AdvanceTail
  <2>1. Items' = Append(Items, element)
    BY <1>11, PublishStep, AdvanceTailStep
  <2>2. PutCall = "putting" /\ PutCall' = "ok" /\ element' = NoElem
    BY <1>11 DEF Publish, AdvanceTail, Return, PutCall
  <2>3. wasFull' = FALSE /\ UNCHANGED consVars
    BY <1>11, Zenon DEF Publish, AdvanceTail, Return
  <2>4. ConsumerSame
    BY <1>1, <2>3
  <2>5. Len(Items) < MostRoom
    BY <1>10, <2>1
  <2>6. Fifo!Put
    BY <2>1, <2>2, <2>3, <2>4, <2>5, Zenon DEF Fifo!Put, ConsumerSame
  <2> QED BY <2>6 DEF Fifo!Next
<1>12. CASE \E e \in Elem : CallEnqueue(e)
  <2>1. PICK e \in Elem : CallEnqueue(e)
    BY <1>12
  <2>2. Fifo!CallPut(e)
    BY <1>3, <2>1
  <2> QED BY <2>2 DEF Fifo!Next
<1> QED BY <1>4, <1>5, <1>6, <1>7, <1>8, <1>9, <1>11, <1>12 DEF Producer

\* The consumer's steps but Read and Free, which bound a stage of their own.
LEMMA QuietStage ==
  ASSUME UNCHANGED prodVars, cons # "free", cons' # "free"
  PROVE  SameStage
BY DEF SameStage, prodVars

LEMMA ConsumerImplements ==
  ASSUME RingIInv, RingIInv', Consumer
  PROVE  [Fifo!Next]_Fifo!vars
<1> USE DEF RingIInv
<1>1. ASSUME UNCHANGED prodVars PROVE ProducerSame
  BY <1>1, CallsSame
<1>2. ASSUME UNCHANGED Ring, SameStage PROVE Items' = Items
  BY <1>2, Quiet
<1>3. cons # "free" => Items = Stored
  BY LenItems
\* The consumer goes on with its call.
<1>4. ASSUME Items' = Items, UNCHANGED prodVars, UNCHANGED op, UNCHANGED wasEmpty,
             cons \notin {"idle", "taken", "peeked", "none", "free"},
             cons' \notin {"idle", "taken", "peeked", "none"},
             cons' = "free" \/ result' = NoElem
      PROVE  UNCHANGED Fifo!vars
  <2>1. TakeCall' = TakeCall
    BY <1>4 DEF TakeCall
  <2>2. TakeResult' = TakeResult
    <3>1. TakeResult' = NoElem
      BY <1>4 DEF TakeResult
    <3>2. result = NoElem
      BY <1>4 DEF ConsumerKnows
    <3> QED BY <1>4, <3>1, <3>2 DEF TakeResult
  <2>3. ConsumerSame
    BY <1>4, <2>1, <2>2, Zenon DEF ConsumerSame
  <2>4. ProducerSame
    BY <1>1, <1>4
  <2> QED BY <1>4, <2>3, <2>4, Silent
\* The consumer has found the front of the queue in block b.
<1>5. ASSUME NEW b \in Blocks, Found(b), UNCHANGED Ring, UNCHANGED prodVars, UNCHANGED op,
             UNCHANGED wasEmpty,
             cons \notin {"idle", "taken", "peeked", "none", "free"},
             Stored # <<>>, Head(Stored) = data[b][front[b]]
      PROVE  [Fifo!Next]_Fifo!vars
  <2>1. cons' \in {"read", "peeked"}
    BY <1>5 DEF Found
  <2>2. Items' = Items
    BY <1>2, <1>5, <2>1, QuietStage
  <2>3. ProducerSame
    BY <1>1, <1>5
  <2>4. CASE op # "peeking"
    <3>1. cons' = "read" /\ result' = NoElem
      BY <1>5, <2>4 DEF Found
    <3> QED BY <1>4, <1>5, <2>2, <3>1
  <2>5. CASE op = "peeking"
    <3>1. cons' = "peeked" /\ result' = data[b][front[b]]
      BY <1>5, <2>5 DEF Found
    <3>2. TakeCall = "peeking" /\ TakeCall' = "peeked"
      BY <1>5, <2>5, <3>1 DEF TakeCall
    <3>3. Items # <<>> /\ TakeResult' = Head(Items)
      BY <1>3, <1>5, <3>1 DEF TakeResult
    <3>4. wasEmpty' = wasEmpty
      BY <1>5
    <3>5. Fifo!Peek
      BY <2>2, <2>3, <3>2, <3>3, <3>4, Zenon DEF Fifo!Peek, ProducerSame
    <3> QED BY <3>5 DEF Fifo!Next
  <2> QED BY <2>4, <2>5
<1>6. frontBlock \in Blocks /\ AheadOfFront \in Blocks
  BY Types DEF TypeFacts
<1>7. ASSUME front[frontBlock] # tail[frontBlock]
      PROVE  Stored # <<>> /\ Head(Stored) = data[frontBlock][front[frontBlock]]
  <2>1. Used(frontBlock) > 0
    BY <1>6, <1>7, FullBlock
  <2> QED BY <2>1, FrontOfStored
<1>8. CASE \E how \in {"taking", "popping", "peeking"} : CallDequeue(how)
  <2>1. PICK how \in {"taking", "popping", "peeking"} : CallDequeue(how)
    BY <1>8
  <2>2. UNCHANGED Ring /\ UNCHANGED prodVars
        /\ cons \in {"idle", "taken", "peeked", "none"} /\ cons' = "begin" /\ op' = how
        /\ result' = NoElem
    BY <2>1 DEF CallDequeue, Continue, Ring, prodVars
  <2>3. Items' = Items /\ ProducerSame
    <3>1. SameStage
      BY <2>2 DEF SameStage, prodVars
    <3> QED BY <1>1, <1>2, <2>2, <3>1
  <2>4. PICK at \in {"taking", "peeking"} : at = IF how = "popping" THEN "taking" ELSE how
    OBVIOUS
  <2>5. TakeCall \notin {"taking", "peeking"} /\ TakeCall' = at /\ TakeResult' = NoElem
    BY <2>2, <2>4 DEF TakeCall, TakeResult
  <2>6. wasEmpty' = (Items = <<>>)
    BY <2>1, Zenon DEF CallDequeue
  <2>7. Fifo!CallTake(at)
    BY <2>3, <2>5, <2>6, Zenon DEF Fifo!CallTake, ProducerSame
  <2> QED BY <2>7 DEF Fifo!Next
<1>9. CASE TestLocalTail
  <2>1. UNCHANGED Ring /\ UNCHANGED prodVars /\ UNCHANGED op /\ UNCHANGED wasEmpty
        /\ cons = "begin"
    BY <1>9, Zenon DEF TestLocalTail, Ring, prodVars
  <2>2. CASE front[frontBlock] # localTail[frontBlock]
    <3>1. Found(frontBlock)
      BY <1>9, <2>2 DEF TestLocalTail
    <3>2. Stored # <<>> /\ Head(Stored) = data[frontBlock][front[frontBlock]]
      BY <1>6, <2>2, LocalTailBehind, FrontOfStored
    <3> QED BY <1>5, <1>6, <2>1, <3>1, <3>2
  <2>3. CASE front[frontBlock] = localTail[frontBlock]
    <3>1. cons' = "loadTail" /\ result' = NoElem
      BY <1>9, <2>3 DEF TestLocalTail, Continue
    <3>2. Items' = Items
      BY <1>2, <2>1, <3>1, QuietStage
    <3> QED BY <1>4, <2>1, <3>1, <3>2
  <2> QED BY <2>2, <2>3
<1>10. CASE LoadTail
  <2>1. UNCHANGED Ring /\ UNCHANGED prodVars /\ UNCHANGED op /\ UNCHANGED wasEmpty
        /\ cons = "loadTail"
    BY <1>10, Zenon DEF LoadTail, Ring, prodVars
  <2>2. CASE front[frontBlock] # tail[frontBlock]
    <3>1. Found(frontBlock)
      BY <1>10, <2>2 DEF LoadTail
    <3> QED BY <1>5, <1>6, <1>7, <2>1, <2>2, <3>1
  <2>3. CASE front[frontBlock] = tail[frontBlock]
    <3>1. cons' = "loadTailBlock" /\ result' = NoElem
      BY <1>10, <2>3 DEF LoadTail, Continue
    <3>2. Items' = Items
      BY <1>2, <2>1, <3>1, QuietStage
    <3> QED BY <1>4, <2>1, <3>1, <3>2
  <2> QED BY <2>2, <2>3
<1>11. CASE LoadTailBlock
  <2>1. UNCHANGED Ring /\ UNCHANGED prodVars /\ UNCHANGED op /\ UNCHANGED wasEmpty
        /\ cons = "loadTailBlock" /\ result' = NoElem
    BY <1>11, Zenon DEF LoadTailBlock, Continue, Ring, prodVars
  <2>2. cons' = IF frontBlock # tailBlock THEN "reloadTail" ELSE "none"
    BY <1>11 DEF LoadTailBlock, Continue
  <2>3. Items' = Items /\ ProducerSame
    BY <1>1, <1>2, <2>1, <2>2, QuietStage
  <2>4. CASE frontBlock # tailBlock
    BY <1>4, <2>1, <2>2, <2>3, <2>4
  <2>5. CASE frontBlock = tailBlock
    <3>1. TakeCall \in {"taking", "peeking"} /\ TakeCall' = "none"
      <4>1. op \in {"taking", "popping", "peeking"}
        BY DEF TypeOK
      <4> QED BY <2>1, <2>2, <2>5, <4>1 DEF TakeCall
    <3>2. TakeResult' = TakeResult
      <4>1. result = NoElem
        BY <2>1 DEF ConsumerKnows
      <4> QED BY <2>1, <2>2, <4>1 DEF TakeResult
    <3>3. wasEmpty /\ wasEmpty' = wasEmpty
      BY <2>1, <2>5 DEF FailuresDue
    <3>4. Fifo!Misses
      BY <2>3, <3>1, <3>2, <3>3, Zenon DEF Fifo!Misses, ProducerSame
    <3> QED BY <3>4 DEF Fifo!Next
  <2> QED BY <2>4, <2>5
<1>12. CASE ReloadTail
  <2>1. UNCHANGED Ring /\ UNCHANGED prodVars /\ UNCHANGED op /\ UNCHANGED wasEmpty
        /\ cons = "reloadTail"
    BY <1>12, Zenon DEF ReloadTail, Ring, prodVars
  <2>2. CASE front[frontBlock] # tail[frontBlock]
    <3>1. Found(frontBlock)
      BY <1>12, <2>2 DEF ReloadTail
    <3> QED BY <1>5, <1>6, <1>7, <2>1, <2>2, <3>1
  <2>3. CASE front[frontBlock] = tail[frontBlock]
    <3>1. cons' = "loadTailAhead" /\ result' = NoElem
      BY <1>12, <2>3 DEF ReloadTail, Continue
    <3>2. Items' = Items
      BY <1>2, <2>1, <3>1, QuietStage
    <3> QED BY <1>4, <2>1, <3>1, <3>2
  <2> QED BY <2>2, <2>3
<1>13. CASE LoadTailAhead
  <2>1. UNCHANGED Ring /\ UNCHANGED prodVars /\ UNCHANGED op /\ UNCHANGED wasEmpty
        /\ cons = "loadTailAhead" /\ cons' = "advance" /\ result' = result
    BY <1>13, Zenon DEF LoadTailAhead, Ring, prodVars
  <2>2. result = NoElem
    BY <2>1 DEF ConsumerKnows
  <2>3. Items' = Items
    BY <1>2, <2>1, QuietStage
  <2> QED BY <1>4, <2>1, <2>2, <2>3
<1>14. CASE AdvanceFront
  <2>1. UNCHANGED prodVars /\ UNCHANGED op /\ UNCHANGED wasEmpty
        /\ cons = "advance" /\ cons' = "read" /\ result' = result
    BY <1>14, Zenon DEF AdvanceFront
  <2>2. result = NoElem
    BY <2>1 DEF ConsumerKnows
  <2>3. Items' = Items
    BY <1>14, AdvanceFrontStep
  <2> QED BY <1>4, <2>1, <2>2, <2>3
<1>15. CASE PeekAhead
  <2>1. UNCHANGED Ring /\ UNCHANGED prodVars /\ UNCHANGED op /\ UNCHANGED wasEmpty
        /\ cons = "loadTailAhead" /\ Found(AheadOfFront)
    BY <1>15, Zenon DEF PeekAhead, Ring, prodVars
  <2>2. Used(frontBlock) = 0 /\ frontBlock # tailBlock
    BY <2>1 DEF ConsumerKnows
  <2>3. Stored # <<>> /\ Head(Stored) = data[AheadOfFront][front[AheadOfFront]]
    BY <2>2, FrontOfNext
  <2> QED BY <1>5, <1>6, <2>1, <2>3
<1>16. CASE Read
  <2>1. UNCHANGED prodVars /\ UNCHANGED op /\ UNCHANGED wasEmpty
        /\ cons = "read" /\ cons' = "free"
    BY <1>16, Zenon DEF Read
  <2>2. Items' = Items
    BY <1>16, ReadStep
  <2> QED BY <1>4, <2>1, <2>2
<1>17. CASE Free
  <2>1. Items # <<>> /\ Items' = Tail(Items) /\ result = Head(Items)
    BY <1>17, FreeStep
  <2>2. UNCHANGED prodVars /\ cons = "free" /\ cons' = "taken" /\ op' = op /\ result' = result
    BY <1>17 DEF Free
  <2>3. TakeCall = "taking" /\ TakeCall' = "taken" /\ TakeResult' = result
    <3>1. op \in {"taking", "popping", "peeking"} /\ op # "peeking"
      BY <2>2 DEF TypeOK, ConsumerKnows
    <3> QED BY <2>2, <3>1 DEF TakeCall, TakeResult
  <2>4. wasEmpty' = wasEmpty
    BY <1>17, Zenon DEF Free
  <2>5. ProducerSame
    BY <1>1, <2>2
  <2>6. Fifo!Take
    BY <2>1, <2>3, <2>4, <2>5, Zenon DEF Fifo!Take, ProducerSame
  <2> QED BY <2>6 DEF Fifo!Next
<1> QED BY <1>8, <1>9, <1>10, <1>11, <1>12, <1>13, <1>14, <1>15, <1>16, <1>17 DEF Consumer

\* try_enqueue, try_dequeue, peek and pop of the ring of blocks take effect one at a time
\* as a bounded FIFO's, and fail only when the queue had no room for another element, or
\* none to give, as they were called: for every room asked and every block size.
THEOREM QueueImplementsFifo == Spec => ImplementsFifo
<1>1. Init => Fifo!Init
  <2> SUFFICES ASSUME Init PROVE Fifo!Init
    OBVIOUS
  <2>1. Items = <<>>
    BY InitEmpty
  <2>2. PutCall = "idle" /\ TakeCall = "idle" /\ TakeResult = NoElem /\ element = NoElem
    BY DEF Init, PutCall, TakeCall, TakeResult
  <2>3. wasFull = FALSE /\ wasEmpty = FALSE
    BY Zenon DEF Init
  <2> QED BY <2>1, <2>2, <2>3, Zenon DEF Fifo!Init
<1>2. RingIInv /\ RingIInv' /\ [Next]_vars => [Fifo!Next]_Fifo!vars
  <2> SUFFICES ASSUME RingIInv, RingIInv', [Next]_vars PROVE [Fifo!Next]_Fifo!vars
    OBVIOUS
  <2>1. CASE UNCHANGED vars
    <3>1. Items' = Items
      BY <2>1, StutterStep DEF RingIInv
    <3>2. UNCHANGED prodVars /\ UNCHANGED consVars
      BY <2>1, Zenon DEF vars
    <3>3. ProducerSame /\ ConsumerSame
      BY <3>2, CallsSame
    <3> QED BY <3>1, <3>3, Silent
  <2> QED BY <2>1, ProducerImplements, ConsumerImplements DEF Next
<1> QED BY <1>1, <1>2, Inductive, PTL DEF Spec, Fifo!Spec, ImplementsFifo
=============================================================================
