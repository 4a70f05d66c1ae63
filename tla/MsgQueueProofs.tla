--------------------------- MODULE MsgQueueProofs ---------------------------
(***************************************************************************)
(* The parts of msgQueue.  However many consumers race for the messages of *)
(* an ImplicitProducer, they never take more than there are, and each      *)
(* finds its message, however the index of the blocks has grown and moved  *)
(* on since it looked, so that an ImplicitProducer is a stream of messages *)
(* that SharedStream describes; and however many threads add blocks to a   *)
(* FreeList and take them off it, the list is sound and no block is lost.  *)
(***************************************************************************)
EXTENDS ImplicitProducer, FreeList, SequenceTheorems, WellFoundedInduction, FiniteSetTheorems,
        TLAPS

\* The consumers that claimed a message and have not found out yet whether it is theirs;
\* those that it is not for, and those that it is, but for the index.
Claimed == {c \in Consumers : cons[c].pc = "retest"}
Losers == {c \in Consumers : cons[c].pc = "release"}
Winners == {c \in Consumers : cons[c].pc = "take"}
Won == headIndex + Cardinality(Winners)

\* Those of the open claims that came before number k.
Below(k) == {c \in Claimed : cons[c].count < k}

\* What a consumer knows is kept in a record with the fields of IdleCons.
IsConsumer(r) == /\ DOMAIN r = DOMAIN IdleCons
                 /\ r.count \in Nat /\ r.overcommit \in Nat

\* Every variable that counts has its type.
CountType ==
  /\ tailIndex \in Nat /\ headIndex \in Nat
  /\ dequeueOptimisticCount \in Nat /\ dequeueOvercommit \in Nat
  /\ DOMAIN cons = Consumers /\ \A c \in Consumers : IsConsumer(cons[c])

\* Every claim was won, given back or to be given back, or is open.
ClaimsBalance ==
  Won + dequeueOvercommit + Cardinality(Losers) + Cardinality(Claimed)
    = dequeueOptimisticCount

\* dequeueOvercommit only grows after a consumer has read it.
OvercommitGrows ==
  \A c \in Consumers : cons[c].pc \in {"test", "claim"} =>
                         cons[c].overcommit <= dequeueOvercommit

\* The open claims have numbers of their own.
ClaimsAreDistinct ==
  \A c \in Claimed : /\ cons[c].count < dequeueOptimisticCount
                     /\ \A d \in Claimed : cons[c].count = cons[d].count => c = d

\* There are messages for all the open claims before number k if all are won; and of the
\* later ones, each that passes its second test finds one beyond what it would leave to
\* the claims before it.
Covers(k) ==
  /\ Won + Cardinality(Below(k)) <= tailIndex
  /\ \A c \in Claimed :
       cons[c].count >= k =>
         cons[c].overcommit + Won + Cardinality(Below(cons[c].count)) <= cons[c].count

\* The inductive invariant.
ClaimsInv ==
  /\ CountType
  /\ ClaimsBalance
  /\ OvercommitGrows
  /\ ClaimsAreDistinct
  /\ \E k \in 0 .. dequeueOptimisticCount : Covers(k)

-----------------------------------------------------------------------------
(* Steps that leave the open claims as they are. *)

\* Sets of consumers are finite, and can be counted.
LEMMA Countable ==
  \A S : S \subseteq Consumers => IsFiniteSet(S) /\ Cardinality(S) \in Nat
BY ProducerAssumption, FS_Subset, FS_CardinalityType

\* A step of one consumer leaves the others where they are.
LEMMA OneGoes ==
  ASSUME CountType, NEW c \in Consumers, NEW s, Goes(c, s)
  PROVE  /\ DOMAIN cons' = Consumers /\ cons'[c] = s
         /\ \A d \in Consumers \ {c} : cons'[d] = cons[d]
BY DEF Goes, CountType

\* A step that neither makes a claim nor settles one keeps the invariant.
LEMMA SameClaims ==
  ASSUME ClaimsInv, CountType', OvercommitGrows',
         Claimed' = Claimed, \A d \in Claimed : cons'[d] = cons[d],
         Won' = Won, dequeueOptimisticCount' = dequeueOptimisticCount,
         dequeueOvercommit' + Cardinality(Losers')
           = dequeueOvercommit + Cardinality(Losers),
         tailIndex <= tailIndex'
  PROVE  ClaimsInv'
<1>1. \A k : (Below(k))' = Below(k)
  BY DEF Below
<1>2. Cardinality(Losers) \in Nat /\ Cardinality(Losers') \in Nat
      /\ Cardinality(Claimed) \in Nat /\ Won \in Nat
      /\ \A k : Cardinality(Below(k)) \in Nat
  <2>1. /\ Claimed \subseteq Consumers /\ Losers \subseteq Consumers
        /\ Losers' \subseteq Consumers /\ Winners \subseteq Consumers
        /\ \A k : Below(k) \subseteq Consumers
    BY DEF Claimed, Losers, Winners, Below
  <2>2. QED  BY <2>1, Countable DEF Won, ClaimsInv, CountType
<1>3. ClaimsBalance'
  BY <1>2 DEF ClaimsInv, ClaimsBalance, CountType
<1>4. ClaimsAreDistinct'
  BY DEF ClaimsInv, ClaimsAreDistinct
<1>5. ASSUME NEW k \in 0 .. dequeueOptimisticCount, Covers(k) PROVE Covers(k)'
  BY <1>1, <1>2, <1>5 DEF Covers, ClaimsInv, CountType
<1>6. QED  BY <1>3, <1>4, <1>5 DEF ClaimsInv

\* A step of a consumer away from the counters keeps it.
LEMMA QuietStep ==
  ASSUME ClaimsInv, NEW c \in Consumers, NEW s, Goes(c, s), IsConsumer(s),
         cons[c].pc \notin {"retest", "release", "take"},
         s.pc \notin {"retest", "release", "take"},
         s.pc \in {"test", "claim"} => s.overcommit <= dequeueOvercommit,
         UNCHANGED <<tailIndex, headIndex, counts>>
  PROVE  ClaimsInv'
<1>1. /\ DOMAIN cons' = Consumers /\ cons'[c] = s
      /\ \A d \in Consumers \ {c} : cons'[d] = cons[d]
  BY OneGoes DEF ClaimsInv
<1>2. CountType'
  BY <1>1 DEF ClaimsInv, CountType, counts, IsConsumer
<1>3. OvercommitGrows'
  BY <1>1 DEF ClaimsInv, OvercommitGrows, counts
<1>4. /\ Claimed' = Claimed /\ Losers' = Losers /\ Winners' = Winners
      /\ \A d \in Claimed : cons'[d] = cons[d]
  BY <1>1 DEF Claimed, Losers, Winners
<1>5. Won' = Won
  BY <1>4 DEF Won
<1>6. tailIndex <= tailIndex'
  BY DEF ClaimsInv, CountType
<1>7. QED  BY <1>2, <1>3, <1>4, <1>5, <1>6, SameClaims DEF counts

\* enqueue() only adds messages.
LEMMA ProducerStep ==
  ASSUME ClaimsInv, Producer
  PROVE  ClaimsInv'
<1> USE DEF consVars, counts
<1>1. UNCHANGED consVars /\ (tailIndex' = tailIndex \/ tailIndex' = tailIndex + 1)
  <2>1. CASE EnqueueInBlock  BY <2>1 DEF EnqueueInBlock
  <2>2. CASE EnqueueStartsBlock  BY <2>2 DEF EnqueueStartsBlock
  <2>3. CASE Insert  BY <2>3 DEF Insert
  <2>4. CASE Grow  BY <2>4 DEF Grow
  <2>5. CASE InsertNew  BY <2>5 DEF InsertNew
  <2>6. CASE Requisition  BY <2>6 DEF Requisition
  <2>7. CASE Construct  BY <2>7 DEF Construct
  <2>8. CASE Rewind  BY <2>8 DEF Rewind
  <2>9. CASE Publish  BY <2>9 DEF Publish
  <2>10. QED  BY <2>1, <2>2, <2>3, <2>4, <2>5, <2>6, <2>7, <2>8, <2>9 DEF Producer
<1>2. tailIndex' \in Nat /\ tailIndex <= tailIndex'
  BY <1>1 DEF ClaimsInv, CountType
<1>3. CountType'
  BY <1>1, <1>2 DEF ClaimsInv, CountType, IsConsumer
<1>4. OvercommitGrows'
  BY <1>1 DEF ClaimsInv, OvercommitGrows
<1>5. /\ Claimed' = Claimed /\ Losers' = Losers /\ Won' = Won
      /\ \A d \in Claimed : cons'[d] = cons[d]
  BY <1>1 DEF Claimed, Losers, Winners, Won
<1>6. QED  BY <1>1, <1>2, <1>3, <1>4, <1>5, SameClaims

-----------------------------------------------------------------------------
(* The steps of a consumer that is settling its claim. *)

\* Giving a claim back moves it from the losers to dequeueOvercommit.
LEMMA ReleaseStep ==
  ASSUME ClaimsInv, NEW c \in Consumers, Release(c)
  PROVE  ClaimsInv'
<1>1. /\ DOMAIN cons' = Consumers /\ cons'[c] = IdleCons
      /\ \A d \in Consumers \ {c} : cons'[d] = cons[d]
  BY OneGoes DEF ClaimsInv, Release, Return
<1>2. /\ cons[c].pc = "release" /\ dequeueOvercommit' = dequeueOvercommit + 1
      /\ UNCHANGED <<tailIndex, headIndex, dequeueOptimisticCount>>
  BY DEF Release, At, prodVars
<1>3. CountType'
  BY <1>1, <1>2 DEF ClaimsInv, CountType, IsConsumer, IdleCons
<1>4. OvercommitGrows'
  <2>1. ASSUME NEW d \in Consumers, cons'[d].pc \in {"test", "claim"}
        PROVE  cons'[d].overcommit <= dequeueOvercommit + 1
    <3>1. d # c
      BY <1>1, <2>1 DEF IdleCons
    <3>2. QED  BY <1>1, <2>1, <3>1 DEF ClaimsInv, OvercommitGrows, CountType, IsConsumer
  <2>2. QED  BY <1>2, <2>1 DEF OvercommitGrows
<1>5. /\ Claimed' = Claimed /\ Losers' = Losers \ {c} /\ Winners' = Winners
      /\ \A d \in Claimed : cons'[d] = cons[d]
      /\ c \in Losers /\ Losers \subseteq Consumers
  BY <1>1, <1>2 DEF Claimed, Losers, Winners, IdleCons
<1>6. Won' = Won
  BY <1>2, <1>5 DEF Won
<1>7. Cardinality(Losers') = Cardinality(Losers) - 1 /\ Cardinality(Losers) \in Nat
  BY <1>5, Countable, FS_RemoveElement
<1>8. dequeueOvercommit' + Cardinality(Losers') = dequeueOvercommit + Cardinality(Losers)
  BY <1>2, <1>7 DEF ClaimsInv, CountType
<1>9. tailIndex <= tailIndex'
  BY <1>2 DEF ClaimsInv, CountType
<1>10. QED  BY <1>2, <1>3, <1>4, <1>5, <1>6, <1>8, <1>9, SameClaims

\* Taking the index moves a claim that was won from the winners to headIndex.
LEMMA TakeStep ==
  ASSUME ClaimsInv, NEW c \in Consumers, TakeIndex(c)
  PROVE  ClaimsInv'
<1> DEFINE s == [IdleCons EXCEPT !.pc = "loadIndex", !.index = headIndex]
<1>1. /\ DOMAIN cons' = Consumers /\ cons'[c] = s
      /\ \A d \in Consumers \ {c} : cons'[d] = cons[d]
  BY OneGoes DEF ClaimsInv, TakeIndex
<1>2. /\ cons[c].pc = "take" /\ headIndex' = headIndex + 1
      /\ UNCHANGED <<tailIndex, dequeueOptimisticCount, dequeueOvercommit>>
  BY DEF TakeIndex, At, prodVars, counts
<1>3. IsConsumer(s) /\ s.pc = "loadIndex"
  BY DEF IsConsumer, IdleCons
<1> HIDE DEF s
<1>4. CountType'
  BY <1>1, <1>2, <1>3 DEF ClaimsInv, CountType, IsConsumer
<1>5. OvercommitGrows'
  BY <1>1, <1>2, <1>3 DEF ClaimsInv, OvercommitGrows
<1>6. /\ Claimed' = Claimed /\ Losers' = Losers /\ Winners' = Winners \ {c}
      /\ \A d \in Claimed : cons'[d] = cons[d]
      /\ c \in Winners /\ Winners \subseteq Consumers
  BY <1>1, <1>2, <1>3 DEF Claimed, Losers, Winners
<1>7. Cardinality(Winners') = Cardinality(Winners) - 1 /\ Cardinality(Winners) \in Nat
  BY <1>6, Countable, FS_RemoveElement
<1>8. Won' = Won
  BY <1>2, <1>7 DEF Won, ClaimsInv, CountType
<1>9. tailIndex <= tailIndex'
  BY <1>2 DEF ClaimsInv, CountType
<1>10. QED  BY <1>2, <1>4, <1>5, <1>6, <1>8, <1>9, SameClaims

-----------------------------------------------------------------------------
(* Making a claim, and settling it. *)

\* A new claim comes after all the open ones.  It was not made unless the balance left
\* room for it, so that it is covered by what it would leave to them.
LEMMA ClaimStep ==
  ASSUME ClaimsInv, NEW c \in Consumers, Claim(c)
  PROVE  ClaimsInv'
<1> DEFINE s == [cons[c] EXCEPT !.pc = "retest", !.count = dequeueOptimisticCount]
<1>1. /\ DOMAIN cons' = Consumers /\ cons'[c] = s
      /\ \A d \in Consumers \ {c} : cons'[d] = cons[d]
  BY OneGoes DEF ClaimsInv, Claim
<1>2. /\ cons[c].pc = "claim" /\ dequeueOptimisticCount' = dequeueOptimisticCount + 1
      /\ UNCHANGED <<tailIndex, headIndex, dequeueOvercommit>>
  BY DEF Claim, At, prodVars
<1>3. IsConsumer(s) /\ s.pc = "retest" /\ s.count = dequeueOptimisticCount
      /\ s.overcommit = cons[c].overcommit /\ cons[c].overcommit <= dequeueOvercommit
  BY <1>2 DEF ClaimsInv, CountType, OvercommitGrows, IsConsumer, IdleCons
<1> HIDE DEF s
<1>4. CountType'
  BY <1>1, <1>2, <1>3 DEF ClaimsInv, CountType, IsConsumer
<1>5. OvercommitGrows'
  BY <1>1, <1>2, <1>3 DEF ClaimsInv, OvercommitGrows
<1>6. /\ Claimed' = Claimed \cup {c} /\ Losers' = Losers /\ Winners' = Winners
      /\ c \notin Claimed
      /\ Claimed \subseteq Consumers /\ Losers \subseteq Consumers
      /\ Winners \subseteq Consumers /\ \A k : Below(k) \subseteq Consumers
  BY <1>1, <1>2, <1>3 DEF Claimed, Losers, Winners, Below
<1>7. /\ Cardinality(Claimed') = Cardinality(Claimed) + 1
      /\ Cardinality(Claimed) \in Nat /\ Cardinality(Losers) \in Nat
      /\ Won \in Nat /\ Won' = Won /\ \A k : Cardinality(Below(k)) \in Nat
  <2>1. Cardinality(Claimed') = Cardinality(Claimed) + 1
    BY <1>6, Countable, FS_AddElement
  <2>2. QED  BY <1>2, <1>6, <2>1, Countable DEF Won, ClaimsInv, CountType
<1>8. ClaimsBalance'
  BY <1>2, <1>6, <1>7 DEF ClaimsInv, ClaimsBalance, CountType
<1>9. \A d \in Claimed : /\ cons[d].count < dequeueOptimisticCount
                         /\ cons'[d] = cons[d] /\ cons[d].count \in Nat
  BY <1>1, <1>6 DEF ClaimsInv, ClaimsAreDistinct, CountType, IsConsumer
<1>10. ClaimsAreDistinct'
  BY <1>1, <1>2, <1>3, <1>6, <1>9 DEF ClaimsInv, ClaimsAreDistinct, CountType
<1>11. ASSUME NEW k \in 0 .. dequeueOptimisticCount PROVE (Below(k))' = Below(k)
  BY <1>1, <1>3, <1>6, <1>9 DEF Below, ClaimsInv, CountType
<1>12. ASSUME NEW k \in 0 .. dequeueOptimisticCount, Covers(k) PROVE Covers(k)'
  <2>1. (Won + Cardinality(Below(k)) <= tailIndex)'
    BY <1>2, <1>7, <1>11, <1>12 DEF Covers
  <2>2. ASSUME NEW d \in Claimed', cons'[d].count >= k
        PROVE  (cons[d].overcommit + Won + Cardinality(Below(cons[d].count))
                  <= cons[d].count)'
    <3>1. CASE d = c
      <4>1. (Below(cons[d].count))' = Claimed
        BY <1>1, <1>3, <1>6, <1>9, <3>1 DEF Below, ClaimsInv, CountType
      <4>2. QED  BY <1>1, <1>2, <1>3, <1>6, <1>7, <3>1, <4>1
                 DEF ClaimsInv, CountType, ClaimsBalance, IsConsumer
    <3>2. CASE d # c
      <4>1. d \in Claimed /\ cons'[d] = cons[d] /\ cons[d].count \in 0 .. dequeueOptimisticCount
        BY <1>6, <1>9, <2>2, <3>2 DEF ClaimsInv, CountType
      <4>2. (Below(cons[d].count))' = Below(cons[d].count)
        BY <1>1, <1>3, <1>6, <1>9, <4>1 DEF Below, ClaimsInv, CountType
      <4>3. QED  BY <1>7, <1>12, <2>2, <4>1, <4>2 DEF Covers
    <3>3. QED  BY <3>1, <3>2
  <2>3. QED  BY <1>7, <2>1, <2>2 DEF Covers
<1>13. QED  BY <1>2, <1>4, <1>5, <1>8, <1>10, <1>12 DEF ClaimsInv, CountType

\* A claim that passes its second test is won.  Either it was covered already, or there are
\* messages for it and for all the open claims before it, and they are covered now.
LEMMA WinStep ==
  ASSUME ClaimsInv, NEW c \in Consumers, Retest(c),
         cons[c].count - cons[c].overcommit < tailIndex,
         Goes(c, [IdleCons EXCEPT !.pc = "take"])
  PROVE  ClaimsInv'
<1> DEFINE s == [IdleCons EXCEPT !.pc = "take"]
<1>1. /\ DOMAIN cons' = Consumers /\ cons'[c] = s
      /\ \A d \in Consumers \ {c} : cons'[d] = cons[d]
  BY OneGoes DEF ClaimsInv
<1>2. /\ cons[c].pc = "retest"
      /\ UNCHANGED <<tailIndex, headIndex, dequeueOptimisticCount, dequeueOvercommit>>
  BY DEF Retest, At, prodVars, counts
<1>3. IsConsumer(s) /\ s.pc = "take"
  BY DEF IsConsumer, IdleCons
<1> HIDE DEF s
<1>4. CountType'
  BY <1>1, <1>2, <1>3 DEF ClaimsInv, CountType, IsConsumer
<1>5. OvercommitGrows'
  BY <1>1, <1>2, <1>3 DEF ClaimsInv, OvercommitGrows
<1>6. /\ Claimed' = Claimed \ {c} /\ Losers' = Losers /\ Winners' = Winners \cup {c}
      /\ c \in Claimed /\ c \notin Winners
      /\ Claimed \subseteq Consumers /\ Losers \subseteq Consumers
      /\ Winners \subseteq Consumers /\ \A k : Below(k) \subseteq Claimed
  BY <1>1, <1>2, <1>3 DEF Claimed, Losers, Winners, Below
<1>7. /\ Cardinality(Claimed') = Cardinality(Claimed) - 1
      /\ Cardinality(Claimed) \in Nat /\ Cardinality(Losers) \in Nat
      /\ Won \in Nat /\ Won' = Won + 1
      /\ \A k : Cardinality(Below(k)) \in Nat
  <2>1. Cardinality(Claimed') = Cardinality(Claimed) - 1
    BY <1>6, Countable, FS_RemoveElement
  <2>2. Cardinality(Winners') = Cardinality(Winners) + 1
    BY <1>6, Countable, FS_AddElement
  <2>3. \A k : Cardinality(Below(k)) \in Nat
    BY <1>6, Countable
  <2>4. QED  BY <1>2, <1>6, <2>1, <2>2, <2>3, Countable DEF Won, ClaimsInv, CountType
<1>8. ClaimsBalance'
  BY <1>2, <1>6, <1>7 DEF ClaimsInv, ClaimsBalance, CountType
<1>9. \A d \in Claimed' : cons'[d] = cons[d]
  BY <1>1, <1>6
<1>10. ClaimsAreDistinct'
  BY <1>2, <1>6, <1>9 DEF ClaimsInv, ClaimsAreDistinct
<1>11. \A d \in Claimed : /\ cons[d].count \in Nat /\ cons[d].overcommit \in Nat
                          /\ cons[d].count < dequeueOptimisticCount
                          /\ cons[d].count = cons[c].count => d = c
  BY <1>6 DEF ClaimsInv, ClaimsAreDistinct, CountType, IsConsumer
<1>12. ASSUME NEW k \in Nat
       PROVE  (Cardinality(Below(k)))' = IF cons[c].count < k THEN Cardinality(Below(k)) - 1
                                         ELSE Cardinality(Below(k))
  <2>1. (Below(k))' = Below(k) \ {c}
    BY <1>6, <1>9 DEF Below
  <2>2. c \in Below(k) <=> cons[c].count < k
    BY <1>6 DEF Below
  <2>3. QED  BY <1>6, <2>1, <2>2, Countable, FS_RemoveElement
<1>13. ASSUME NEW d \in Claimed', cons[c].count < cons[d].count,
              cons[d].overcommit + Won + Cardinality(Below(cons[d].count)) <= cons[d].count
       PROVE  (cons[d].overcommit + Won + Cardinality(Below(cons[d].count))
                 <= cons[d].count)'
  <2>1. d \in Claimed /\ cons'[d] = cons[d] /\ cons[d].count \in Nat
        /\ cons[d].overcommit \in Nat
    BY <1>6, <1>9, <1>11
  <2>2. (Cardinality(Below(cons[d].count)))' = Cardinality(Below(cons[d].count)) - 1
    BY <1>12, <1>13, <2>1
  <2>3. QED  BY <1>7, <1>13, <2>1, <2>2
<1>14. PICK k \in 0 .. dequeueOptimisticCount : Covers(k)
  BY DEF ClaimsInv
<1>15. CASE cons[c].count < k
  <2>1. (Won + Cardinality(Below(k)) <= tailIndex)'
    BY <1>2, <1>7, <1>12, <1>14, <1>15 DEF Covers
  <2>2. ASSUME NEW d \in Claimed', (cons[d].count >= k)'
        PROVE  (cons[d].overcommit + Won + Cardinality(Below(cons[d].count))
                  <= cons[d].count)'
    <3>1. d \in Claimed /\ cons[d].count >= k /\ cons[d].count \in Nat
      BY <1>6, <1>9, <1>11, <2>2
    <3>2. QED  BY <1>6, <1>11, <1>13, <1>14, <1>15, <3>1 DEF Covers
  <2>3. Covers(k)'
    BY <2>1, <2>2 DEF Covers
  <2>4. QED  BY <1>2, <1>4, <1>5, <1>8, <1>10, <2>3 DEF ClaimsInv
<1>16. CASE cons[c].count >= k
  <2> PICK n \in Nat : n = cons[c].count + 1
    BY <1>6, <1>11
  <2>1. n \in 0 .. dequeueOptimisticCount
    BY <1>6, <1>11 DEF ClaimsInv, CountType
  <2>2. Below(n) = Below(cons[c].count) \cup {c} /\ c \notin Below(cons[c].count)
    BY <1>6, <1>11 DEF Below
  <2>3. Cardinality(Below(n)) = Cardinality(Below(cons[c].count)) + 1
    BY <1>6, <2>2, Countable, FS_AddElement
  <2>4. (Cardinality(Below(n)))' = Cardinality(Below(cons[c].count))
    BY <1>6, <1>7, <1>11, <1>12, <2>1, <2>3
  <2>5. cons[c].overcommit + Won + Cardinality(Below(cons[c].count)) <= cons[c].count
    BY <1>6, <1>14, <1>16 DEF Covers
  <2>6. Won + 1 + Cardinality(Below(cons[c].count)) <= tailIndex
    BY <1>6, <1>7, <1>11, <2>5 DEF ClaimsInv, CountType
  <2>7. (Won + Cardinality(Below(n)) <= tailIndex)'
    BY <1>2, <1>7, <2>4, <2>6
  <2>8. ASSUME NEW d \in Claimed', (cons[d].count)' >= n
        PROVE  (cons[d].overcommit + Won + Cardinality(Below(cons[d].count))
                  <= cons[d].count)'
    <3>1. d \in Claimed /\ cons[d].count > cons[c].count /\ cons[d].count >= k
      BY <1>6, <1>9, <1>11, <1>16, <2>8
    <3>2. QED  BY <1>13, <1>14, <3>1 DEF Covers
  <2>9. Covers(n)'
    BY <1>2, <2>7, <2>8 DEF Covers
  <2>10. QED  BY <1>2, <1>4, <1>5, <1>8, <1>10, <2>1, <2>9 DEF ClaimsInv
<1>17. QED  BY <1>6, <1>11, <1>15, <1>16

\* A claim that fails it is one fewer to cover.
LEMMA LoseStep ==
  ASSUME ClaimsInv, NEW c \in Consumers, Retest(c),
         Goes(c, [IdleCons EXCEPT !.pc = "release"])
  PROVE  ClaimsInv'
<1> DEFINE s == [IdleCons EXCEPT !.pc = "release"]
<1>1. /\ DOMAIN cons' = Consumers /\ cons'[c] = s
      /\ \A d \in Consumers \ {c} : cons'[d] = cons[d]
  BY OneGoes DEF ClaimsInv
<1>2. /\ cons[c].pc = "retest"
      /\ UNCHANGED <<tailIndex, headIndex, dequeueOptimisticCount, dequeueOvercommit>>
  BY DEF Retest, At, prodVars, counts
<1>3. IsConsumer(s) /\ s.pc = "release"
  BY DEF IsConsumer, IdleCons
<1> HIDE DEF s
<1>4. CountType'
  BY <1>1, <1>2, <1>3 DEF ClaimsInv, CountType, IsConsumer
<1>5. OvercommitGrows'
  BY <1>1, <1>2, <1>3 DEF ClaimsInv, OvercommitGrows
<1>6. /\ Claimed' = Claimed \ {c} /\ Losers' = Losers \cup {c} /\ Winners' = Winners
      /\ c \in Claimed /\ c \notin Losers
      /\ Claimed \subseteq Consumers /\ Losers \subseteq Consumers
      /\ Winners \subseteq Consumers /\ \A k : Below(k) \subseteq Claimed
  BY <1>1, <1>2, <1>3 DEF Claimed, Losers, Winners, Below
<1>7. /\ Cardinality(Claimed') = Cardinality(Claimed) - 1
      /\ Cardinality(Losers') = Cardinality(Losers) + 1
      /\ Cardinality(Claimed) \in Nat /\ Cardinality(Losers) \in Nat
      /\ Won \in Nat /\ Won' = Won
  <2>1. Cardinality(Claimed') = Cardinality(Claimed) - 1
    BY <1>6, Countable, FS_RemoveElement
  <2>2. Cardinality(Losers') = Cardinality(Losers) + 1
    BY <1>6, Countable, FS_AddElement
  <2>3. QED  BY <1>2, <1>6, <2>1, <2>2, Countable DEF Won, ClaimsInv, CountType
<1>8. ClaimsBalance'
  BY <1>2, <1>6, <1>7 DEF ClaimsInv, ClaimsBalance, CountType
<1>9. \A d \in Claimed' : cons'[d] = cons[d] /\ d \in Claimed
                          /\ cons[d].count \in Nat /\ cons[d].overcommit \in Nat
  BY <1>1, <1>6 DEF ClaimsInv, CountType, IsConsumer
<1>10. ClaimsAreDistinct'
  BY <1>2, <1>9 DEF ClaimsInv, ClaimsAreDistinct
<1>11. ASSUME NEW k \in Nat
       PROVE  /\ (Cardinality(Below(k)))' <= Cardinality(Below(k))
              /\ (Cardinality(Below(k)))' \in Nat /\ Cardinality(Below(k)) \in Nat
  <2>1. (Below(k))' \subseteq Below(k) /\ Below(k) \subseteq Consumers
    BY <1>6, <1>9 DEF Below
  <2>2. QED  BY <2>1, Countable, FS_Subset
<1>12. ASSUME NEW k \in 0 .. dequeueOptimisticCount, Covers(k) PROVE Covers(k)'
  <2>1. (Won + Cardinality(Below(k)) <= tailIndex)'
    BY <1>2, <1>7, <1>11, <1>12 DEF Covers, ClaimsInv, CountType
  <2>2. ASSUME NEW d \in Claimed', (cons[d].count >= k)'
        PROVE  (cons[d].overcommit + Won + Cardinality(Below(cons[d].count))
                  <= cons[d].count)'
    <3>1. cons[d].overcommit + Won + Cardinality(Below(cons[d].count)) <= cons[d].count
      BY <1>9, <1>12, <2>2 DEF Covers
    <3>2. /\ (Cardinality(Below(cons[d].count)))' <= Cardinality(Below(cons[d].count))
          /\ (Cardinality(Below(cons[d].count)))' \in Nat
          /\ Cardinality(Below(cons[d].count)) \in Nat
      BY <1>9, <1>11
    <3>3. QED  BY <1>7, <1>9, <3>1, <3>2
  <2>3. QED  BY <2>1, <2>2 DEF Covers
<1>13. QED  BY <1>2, <1>4, <1>5, <1>8, <1>10, <1>12 DEF ClaimsInv

-----------------------------------------------------------------------------
\* The balance of the claims is kept by every step of any number of threads.
THEOREM ClaimsInvariant == Spec => []ClaimsInv
<1>1. Init => ClaimsInv
  <2> SUFFICES ASSUME Init PROVE ClaimsInv
    OBVIOUS
  <2>1. Claimed = {} /\ Losers = {} /\ Winners = {}
    BY DEF Init, IdleCons, Claimed, Losers, Winners
  <2>2. CountType /\ OvercommitGrows
    BY DEF Init, IdleCons, CountType, OvercommitGrows, IsConsumer
  <2>3. Won = 0 /\ Cardinality(Losers) = 0 /\ Cardinality(Claimed) = 0
    BY <2>1, FS_EmptySet DEF Won, Init
  <2>4. ClaimsBalance /\ ClaimsAreDistinct
    BY <2>1, <2>3 DEF ClaimsBalance, ClaimsAreDistinct, Init
  <2>5. Below(0) = Claimed
    BY <2>1 DEF Below
  <2>6. Covers(0)
    <3>1. Cardinality(Below(0)) = 0
      BY <2>3, <2>5
    <3>2. Won + Cardinality(Below(0)) <= tailIndex
      BY <2>3, <3>1 DEF Init
    <3>3. QED  BY <2>1, <3>2 DEF Covers
  <2>7. QED  BY <2>2, <2>4, <2>6 DEF ClaimsInv, Init
<1>2. ClaimsInv /\ [Next]_vars => ClaimsInv'
  <2> SUFFICES ASSUME ClaimsInv, [Next]_vars PROVE ClaimsInv'
    OBVIOUS
  <2> USE DEF prodVars, At
  <2>1. CASE Producer
    BY <2>1, ProducerStep
  <2>2. ASSUME NEW c \in Consumers, Consumer(c) PROVE ClaimsInv'
    <3>1. IsConsumer(cons[c]) /\ IsConsumer(IdleCons) /\ IdleCons.pc = "idle"
      BY DEF ClaimsInv, CountType, IsConsumer, IdleCons
    <3> USE <3>1 DEF IsConsumer, IdleCons
    <3>2. CASE CallDequeue(c)
      BY <3>2, QuietStep DEF CallDequeue
    <3>3. CASE LoadOvercommit(c)
      <4> DEFINE s == [cons[c] EXCEPT !.pc = "test", !.overcommit = dequeueOvercommit]
      <4>1. Goes(c, s) /\ cons[c].pc = "loadOvercommit"
            /\ UNCHANGED <<tailIndex, headIndex, counts>>
        BY <3>3 DEF LoadOvercommit
      <4>2. dequeueOvercommit \in Nat
        BY DEF ClaimsInv, CountType
      <4>3. IsConsumer(s) /\ s.pc = "test" /\ s.overcommit <= dequeueOvercommit
        BY <4>2
      <4> HIDE DEF s
      <4>4. QED  BY <4>1, <4>3, QuietStep
    <3>4. CASE Test(c)
      <4>1. \/ Goes(c, [cons[c] EXCEPT !.pc = "claim"])
            \/ Goes(c, IdleCons)
        BY <3>4 DEF Test, Return
      <4>2. cons[c].pc = "test" /\ UNCHANGED <<tailIndex, headIndex, counts>>
        BY <3>4 DEF Test
      <4>3. cons[c].overcommit <= dequeueOvercommit
        BY <4>2 DEF ClaimsInv, OvercommitGrows
      <4>4. QED  BY <4>1, <4>2, <4>3, QuietStep
    <3>5. CASE Claim(c)
      BY <3>5, ClaimStep
    <3>6. CASE Retest(c)
      BY <3>6, WinStep, LoseStep DEF Retest, CircularLessThan
    <3>7. CASE Release(c)
      BY <3>7, ReleaseStep
    <3>8. CASE TakeIndex(c)
      BY <3>8, TakeStep
    <3>9. CASE LoadIndex(c)
      BY <3>9, QuietStep DEF LoadIndex
    <3>10. CASE LoadIndexTail(c)
      BY <3>10, QuietStep DEF LoadIndexTail
    <3>11. CASE LoadBase(c)
      BY <3>11, QuietStep DEF LoadBase
    <3>12. CASE Read(c)
      BY <3>12, QuietStep DEF Read
    <3>13. CASE SetEmpty(c)
      BY <3>13, QuietStep DEF SetEmpty, Return
    <3>14. CASE Unindex(c)
      BY <3>14, QuietStep DEF Unindex
    <3>15. CASE FreeBlock(c)
      BY <3>15, QuietStep DEF FreeBlock, Return
    <3>16. QED  BY <2>2, <3>2, <3>3, <3>4, <3>5, <3>6, <3>7, <3>8, <3>9, <3>10, <3>11,
                   <3>12, <3>13, <3>14, <3>15 DEF Consumer
  <2>3. CASE UNCHANGED vars
    <3>1. /\ Claimed' = Claimed /\ Losers' = Losers /\ Won' = Won
          /\ \A d \in Claimed : cons'[d] = cons[d]
      BY <2>3 DEF vars, Claimed, Losers, Winners, Won
    <3>2. CountType' /\ OvercommitGrows' /\ tailIndex <= tailIndex'
      BY <2>3 DEF vars, counts, ClaimsInv, CountType, OvercommitGrows, IsConsumer
    <3>3. QED  BY <2>3, <3>1, <3>2, SameClaims DEF vars, counts
  <2>4. CASE Stopped
    BY <2>3, <2>4 DEF Stopped
  <2>5. QED  BY <2>1, <2>2, <2>3, <2>4 DEF Next
<1>3. QED  BY <1>1, <1>2, PTL DEF Spec

\* No consumer takes an index that was not enqueued, for any number of consumers, any size
\* of the blocks and any number of messages.
THEOREM NotOverdrawn == Spec => []NeverOverdrawn
<1>1. ClaimsInv => NeverOverdrawn
  <2> SUFFICES ASSUME ClaimsInv PROVE NeverOverdrawn
    OBVIOUS
  <2>1. PICK k \in 0 .. dequeueOptimisticCount : Covers(k)
    BY DEF ClaimsInv
  <2>2. Winners \subseteq Consumers /\ Below(k) \subseteq Consumers
    BY DEF Winners, Below, Claimed
  <2>3. Cardinality(Winners) \in Nat /\ Cardinality(Below(k)) \in Nat
    BY <2>2, Countable
  <2>4. QED  BY <2>1, <2>3 DEF Covers, Won, NeverOverdrawn, ClaimsInv, CountType
<1>2. QED  BY <1>1, ClaimsInvariant, PTL

-----------------------------------------------------------------------------
(* The numbers of the blocks. *)

\* Blocks are numbered; a number's key is the first index in the block.
Key(m) == BLOCK_SIZE * m
Num(i) == i \div BLOCK_SIZE

\* The keys are in the order of the numbers, a block apart.
LEMMA KeyOrder ==
  ASSUME ProducerAssumption, NEW a \in Int, NEW b \in Int
  PROVE  /\ Key(a) \in Int /\ Key(a + 1) = Key(a) + BLOCK_SIZE
         /\ a < b => Key(a) + BLOCK_SIZE <= Key(b)
         /\ Key(a) = Key(b) => a = b
         /\ a >= 0 => Key(a) >= 0
         /\ a < 0 => Key(a) <= -BLOCK_SIZE
<1> DEFINE n == BLOCK_SIZE
<1>1. n \in Nat /\ n >= 2
  BY DEF ProducerAssumption
<1>2. Key(a) = n * a /\ Key(b) = n * b /\ Key(a + 1) = n * (a + 1)
  BY DEF Key
<1> HIDE DEF n
<1>3. ASSUME NEW x \in Int, NEW y \in Int, x < y PROVE n * x + n <= n * y
  BY <1>1, <1>3
<1>4. n * a \in Int /\ n * (a + 1) = n * a + n
  BY <1>1
<1>5. a < b => n * a + n <= n * b
  BY <1>3
<1>6. n * a = n * b => a = b
  <2>1. a < b => n * a # n * b
    BY <1>1, <1>3
  <2>2. b < a => n * a # n * b
    BY <1>1, <1>3
  <2> QED BY <2>1, <2>2
<1>7. a >= 0 => n * a >= 0
  BY <1>1
<1>8. a < 0 => n * a <= -n
  <2>1. a < 0 => n * a + n <= n * 0
    BY <1>3
  <2>2. n * 0 = 0
    BY <1>1
  <2> QED BY <1>1, <1>4, <2>1, <2>2
<1> QED BY <1>2, <1>4, <1>5, <1>6, <1>7, <1>8 DEF n

\* Division with a remainder.
LEMMA DivMod ==
  ASSUME NEW n \in Nat, n > 0, NEW i \in Int
  PROVE  i = n * (i \div n) + (i % n)
BY SMTT(30)

\* Whole rounds do not change a place on a circle.
LEMMA ModIs ==
  ASSUME NEW n \in Nat, n > 0, NEW p \in 0 .. n - 1, NEW a \in Int
  PROVE  (p + a * n) % n = p
<1>1. PICK i \in Int : i = p + a * n
  OBVIOUS
<1>2. PICK d \in Int : d = i \div n
  OBVIOUS
<1>3. PICK r \in 0 .. n - 1 : r = i % n
  OBVIOUS
<1>4. i = n * d + r
  BY <1>1, <1>2, <1>3, DivMod
<1>5. d = a
  <2>1. n * (d - a) = p - r
    BY <1>1, <1>4
  <2>2. PICK x \in Int : x = d - a
    OBVIOUS
  <2>3. n * x = p - r
    BY <2>1, <2>2
  <2>4. ~(x >= 1)
    <3>1. x >= 1 => n * x >= n
      OBVIOUS
    <3> QED BY <2>3, <3>1
  <2>5. ~(x <= -1)
    <3>1. x <= -1 => n * x <= -n
      OBVIOUS
    <3> QED BY <2>3, <3>1
  <2> QED BY <2>2, <2>4, <2>5
<1> QED BY <1>1, <1>3, <1>4, <1>5

\* An index is in its slot of the block with its number.
LEMMA NumFacts ==
  ASSUME ProducerAssumption, NEW i \in Int
  PROVE  /\ Num(i) \in Int /\ Slot(i) \in 0 .. BLOCK_SIZE - 1
         /\ Slot(i) = i - Key(Num(i)) /\ BlockBase(i) = Key(Num(i))
<1> DEFINE n == BLOCK_SIZE
<1>1. n \in Nat /\ n >= 2
  BY DEF ProducerAssumption
<1> HIDE DEF n
<1>2. i \div n \in Int
  BY <1>1
<1>3. i % n \in 0 .. n - 1
  BY <1>1
<1>4. i = n * (i \div n) + (i % n)
  BY <1>1, DivMod
<1> QED BY <1>1, <1>2, <1>3, <1>4 DEF n, Num, Slot, Key, BlockBase

\* The number of an index's block is the one whose key is at most a block before it.
LEMMA NumIs ==
  ASSUME ProducerAssumption, NEW i \in Int, NEW m \in Int
  PROVE  Num(i) = m <=> Key(m) <= i /\ i < Key(m) + BLOCK_SIZE
<1>1. /\ Num(i) \in Int /\ Key(Num(i)) <= i /\ i < Key(Num(i)) + BLOCK_SIZE
      /\ BLOCK_SIZE \in Nat
  <2>1. Key(Num(i)) \in Int /\ BLOCK_SIZE \in Nat
    BY NumFacts, KeyOrder DEF ProducerAssumption
  <2> QED BY <2>1, NumFacts
<1>2. Key(m) \in Int /\ Key(Num(i)) \in Int
  BY <1>1, KeyOrder
<1>3. m < Num(i) => Key(m) + BLOCK_SIZE <= Key(Num(i))
  BY <1>1, KeyOrder
<1>4. Num(i) < m => Key(Num(i)) + BLOCK_SIZE <= Key(m)
  BY <1>1, KeyOrder
<1> QED BY <1>1, <1>2, <1>3, <1>4

\* The block of an index that was enqueued has a number and a key from 0 on.
LEMMA NumNat ==
  ASSUME ProducerAssumption, NEW i \in Nat
  PROVE  Num(i) \in Nat /\ Key(Num(i)) \in Nat
<1>1. PICK n \in Int : n = Num(i)
  BY NumFacts
<1>2. Key(n) \in Int
  BY KeyOrder
<1>3. PICK k \in Int : k = Key(n)
  BY <1>2
<1>4. Slot(i) \in 0 .. BLOCK_SIZE - 1 /\ Slot(i) = i - k
  BY <1>1, <1>3, NumFacts
<1>5. BLOCK_SIZE \in Nat /\ BLOCK_SIZE >= 2
  BY DEF ProducerAssumption
<1>6. n < 0 => k <= -BLOCK_SIZE
  BY <1>3, KeyOrder
<1>7. n >= 0
  BY <1>4, <1>5, <1>6
<1>8. k >= 0
  BY <1>3, <1>7, KeyOrder
<1> QED BY <1>1, <1>3, <1>7, <1>8

\* A key is the first index of its block.
LEMMA KeyNum ==
  ASSUME ProducerAssumption, NEW m \in Int
  PROVE  Num(Key(m)) = m /\ Slot(Key(m)) = 0
<1>1. Key(m) \in Int /\ BLOCK_SIZE \in Nat /\ BLOCK_SIZE > 0
  BY KeyOrder DEF ProducerAssumption
<1>2. Num(Key(m)) = m
  BY <1>1, NumIs
<1> QED BY <1>1, <1>2, NumFacts

\* The last index of a block, and the next.
LEMMA NumNext ==
  ASSUME ProducerAssumption, NEW i \in Int
  PROVE  /\ Slot(i) # 0 => Num(i - 1) = Num(i)
         /\ Slot(i) = 0 => Num(i - 1) = Num(i) - 1 /\ i = Key(Num(i))
<1> DEFINE m == Num(i)
<1>1. m \in Int /\ Key(m) \in Int /\ Slot(i) \in 0 .. BLOCK_SIZE - 1 /\ Slot(i) = i - Key(m)
  BY NumFacts, KeyOrder
<1>2. BLOCK_SIZE \in Nat /\ BLOCK_SIZE >= 2
  BY DEF ProducerAssumption
<1>3. Key(m) = Key(m - 1) + BLOCK_SIZE /\ Key(m - 1) \in Int
  <2>1. Key((m - 1) + 1) = Key(m - 1) + BLOCK_SIZE /\ Key(m - 1) \in Int
    BY <1>1, KeyOrder, m - 1 \in Int
  <2> QED BY <1>1, <2>1
<1> HIDE DEF m
<1>4. Slot(i) # 0 => Num(i - 1) = m
  BY <1>1, <1>2, NumIs
<1>5. Slot(i) = 0 => Num(i - 1) = m - 1
  BY <1>1, <1>2, <1>3, NumIs
<1> QED BY <1>1, <1>4, <1>5 DEF m

-----------------------------------------------------------------------------
(* The index. *)

\* Where the enqueuing thread is: without an entry, with one, with a block.
Unentered == {"idle", "insert", "grow", "insertNew"}
Writing == {"requisition", "construct", "rewind"}

\* The number of the block that the last entry is for, and that of tailBlock.
LastNum == IF prod.pc \in Unentered THEN Num(tailIndex - 1) ELSE Num(tailIndex)
TailNum == IF prod.pc = "publish" THEN Num(tailIndex) ELSE Num(tailIndex - 1)

Entries == DOMAIN entries
KeyOf(e) == entries[e].key
ValueOf(e) == entries[e].value
Valid(e) == KeyOf(e) # INVALID_BLOCK_BASE
Nr(e) == Num(KeyOf(e))

Top == Len(headers)
Cap(h) == headers[h].capacity
TailOf(h) == headers[h].tail
Pos(h) == 0 .. Cap(h) - 1
Entry(h, p) == headers[h].index[p]

EntryState == [key : Nat \cup {INVALID_BLOCK_BASE}, value : Nat \cup {Nothing}]
HeaderOf(n) == [capacity : {n}, tail : 0 .. n - 1, index : [0 .. n - 1 -> Nat]]
HeaderState == UNION {HeaderOf(n) : n \in {m \in Nat : m >= 2}}
ProdState == [pc : Unentered \cup Writing \cup {"publish"}, entry : Nat \cup {Nothing},
              block : Nat \cup {Nothing}]

IndexTypes ==
  /\ tailIndex \in Nat /\ headIndex \in Nat /\ headIndex <= tailIndex
  /\ entries \in Seq(EntryState) /\ headers \in Seq(HeaderState) /\ headers # <<>>
  /\ prod \in ProdState

\* A header leads to entries, to each at most once; the capacities are multiples.
Leads(h) == /\ \A p \in Pos(h) : Entry(h, p) \in Entries
            /\ \A p, q \in Pos(h) : Entry(h, p) = Entry(h, q) => p = q
            /\ \E k \in Nat : Cap(Top) = k * Cap(h)

\* Entries are as far from each other as their blocks, round the circle.
Apart(h, p, q) == \E k \in Int : Nr(Entry(h, p)) - Nr(Entry(h, q)) = p - q + k * Cap(h)
Aligned(h) == \A p, q \in Pos(h) :
  Valid(Entry(h, p)) /\ Valid(Entry(h, q)) => Apart(h, p, q)

\* The newest header leads to every entry, the others had all theirs in use.
Headers ==
  /\ \A h \in DOMAIN headers : Leads(h)
  /\ \A h \in 1 .. Top - 1 : Aligned(h) /\ \A p \in Pos(h) : Valid(Entry(h, p))
  /\ Cap(Top) = Len(entries)
  /\ \A e \in Entries : \E p \in Pos(Top) : Entry(Top, p) = e

\* The entry of the newest header that is j before the last, and the last of these.
Back(j) == IF j <= TailOf(Top) THEN TailOf(Top) - j ELSE TailOf(Top) - j + Cap(Top)
Ago(j) == Entry(Top, Back(j))
Oldest == Cap(Top) - 1

InOrder(j) == j <= LastNum /\ KeyOf(Ago(j)) = Key(LastNum - j)

\* An entry that was inserted, and given up.
Rewound(j) == /\ j = Oldest /\ prod.pc \in {"idle", "insert"} /\ Slot(tailIndex) = 0
              /\ KeyOf(Ago(j)) = Key(LastNum + 1) /\ ValueOf(Ago(j)) = Nothing

\* The entries are in the order of their blocks, and used in this order.
Window ==
  /\ \A j \in Pos(Top) : ~Valid(Ago(j)) \/ InOrder(j) \/ Rewound(j)
  /\ \A j, k \in Pos(Top) : InOrder(j) /\ k <= j => InOrder(k)
  /\ LastNum >= 0 => InOrder(0)
  /\ \A e \in Entries : ~Valid(e) => ValueOf(e) = Nothing

\* What the enqueuing thread has found out.
Enqueuing ==
  /\ prod.pc \notin {"idle", "publish"} => Slot(tailIndex) = 0
  /\ prod.pc = "grow" => InOrder(Oldest)
  /\ prod.pc = "insertNew" => ~Valid(Ago(Oldest))
  /\ prod.pc \in Writing => /\ prod.entry = Ago(0) /\ ValueOf(prod.entry) = Nothing
                            /\ LastNum >= 1 => InOrder(1)

IndexInv == IndexTypes /\ Headers /\ Window /\ Enqueuing

\* The fields of a header of the index have their types.
LEMMA HeaderFacts ==
  ASSUME ProducerAssumption, IndexTypes, NEW h \in DOMAIN headers
  PROVE  /\ Cap(h) \in Nat /\ Cap(h) >= 2 /\ TailOf(h) \in Pos(h)
         /\ headers[h].index \in [Pos(h) -> Nat]
         /\ headers[h] = [capacity |-> Cap(h), tail |-> TailOf(h), index |-> headers[h].index]
<1>1. headers[h] \in HeaderState
  BY DEF IndexTypes
<1>2. PICK n \in Nat : n >= 2 /\ headers[h] \in HeaderOf(n)
  BY <1>1 DEF HeaderState
<1> QED BY <1>2 DEF HeaderOf, Cap, TailOf, Pos

\* The newest header is there, and the entries have their types.
LEMMA IndexFacts ==
  ASSUME ProducerAssumption, IndexTypes
  PROVE  /\ Top \in DOMAIN headers /\ Top \in Nat /\ Top >= 1 /\ DOMAIN headers = 1 .. Top
         /\ Newest = headers[Top]
         /\ Entries = 1 .. Len(entries) /\ Len(entries) \in Nat
         /\ \A e \in Entries : /\ KeyOf(e) \in Nat \cup {INVALID_BLOCK_BASE}
                               /\ ValueOf(e) \in Nat \cup {Nothing}
         /\ LastNum \in Int /\ LastNum >= -1 /\ TailNum \in Int /\ TailNum >= -1
<1>1. /\ Top \in DOMAIN headers /\ Top \in Nat /\ Top >= 1 /\ DOMAIN headers = 1 .. Top
      /\ Newest = headers[Top] /\ Entries = 1 .. Len(entries) /\ Len(entries) \in Nat
  BY DEF IndexTypes, Top, Newest, Entries
<1>2. \A e \in Entries : /\ KeyOf(e) \in Nat \cup {INVALID_BLOCK_BASE}
                         /\ ValueOf(e) \in Nat \cup {Nothing}
  <2> TAKE e \in Entries
  <2>1. entries[e] \in EntryState
    BY DEF IndexTypes, Entries
  <2> QED BY <2>1 DEF EntryState, KeyOf, ValueOf
<1>3. ASSUME NEW i \in Nat PROVE Num(i - 1) \in Int /\ Num(i - 1) >= -1 /\ Num(i) \in Int /\ Num(i) >= -1
  <2>1. ASSUME NEW x \in Int, x >= -1 PROVE Num(x) \in Int /\ Num(x) >= -1
    <3>1. Num(x) \in Int /\ Key(Num(x)) \in Int /\ Slot(x) = x - Key(Num(x))
          /\ Slot(x) \in 0 .. BLOCK_SIZE - 1
      BY NumFacts, KeyOrder
    <3>2. Num(x) < -1 => Key(Num(x)) + BLOCK_SIZE <= Key(-1)
      BY <3>1, KeyOrder
    <3>3. Key(-1) \in Int /\ Key(-1) <= -BLOCK_SIZE
      BY KeyOrder, -1 \in Int, -1 < 0
    <3>4. BLOCK_SIZE \in Nat /\ BLOCK_SIZE >= 2
      BY DEF ProducerAssumption
    <3>5. PICK m : m = Num(x)
      OBVIOUS
    <3>6. PICK k : k = Key(m)
      OBVIOUS
    <3>7. ASSUME m < -1 PROVE FALSE
      <4>1. k + BLOCK_SIZE <= -BLOCK_SIZE
        BY <3>2, <3>3, <3>1, <3>4, <3>5, <3>6, <3>7
      <4> QED BY <2>1, <3>1, <3>4, <3>5, <3>6, <4>1
    <3> QED BY <3>1, <3>5, <3>7
  <2> QED BY <2>1
<1>4. tailIndex \in Nat
  BY DEF IndexTypes
<1> QED BY <1>1, <1>2, <1>3, <1>4 DEF LastNum, TailNum

\* The entries before the last are all those of the newest header.
LEMMA BackFacts ==
  ASSUME ProducerAssumption, IndexTypes
  PROVE  /\ \A j \in Pos(Top) : Back(j) \in Pos(Top)
         /\ \A p \in Pos(Top) : \E j \in Pos(Top) : Back(j) = p
         /\ \A j, k \in Pos(Top) : Back(j) = Back(k) => j = k
         /\ Back(0) = TailOf(Top) /\ Oldest \in Pos(Top) /\ 0 \in Pos(Top) /\ Oldest \in Nat
         /\ Oldest > 0
         /\ Back(Oldest) = IF TailOf(Top) = Oldest THEN 0 ELSE TailOf(Top) + 1
<1>1. Cap(Top) \in Nat /\ Cap(Top) >= 2 /\ TailOf(Top) \in 0 .. Cap(Top) - 1
  BY HeaderFacts, IndexFacts DEF Pos
<1>2. \A p \in Pos(Top) : \E j \in Pos(Top) : Back(j) = p
  <2> TAKE p \in Pos(Top)
  <2>1. CASE p <= TailOf(Top)
    <3>1. TailOf(Top) - p \in Pos(Top)
      BY <1>1, <2>1 DEF Pos
    <3> WITNESS TailOf(Top) - p \in Pos(Top)
    <3> QED BY <1>1, <2>1 DEF Back, Pos
  <2>2. CASE p > TailOf(Top)
    <3>1. TailOf(Top) - p + Cap(Top) \in Pos(Top)
      BY <1>1, <2>2 DEF Pos
    <3> WITNESS TailOf(Top) - p + Cap(Top) \in Pos(Top)
    <3> QED BY <1>1, <2>2 DEF Back, Pos
  <2> QED BY <1>1, <2>1, <2>2 DEF Pos
<1>3. \A j \in Pos(Top) : Back(j) \in Pos(Top)
  BY <1>1 DEF Back, Pos
<1>4. \A j, k \in Pos(Top) : Back(j) = Back(k) => j = k
  BY <1>1 DEF Back, Pos
<1>5. /\ Back(0) = TailOf(Top) /\ Oldest \in Pos(Top) /\ 0 \in Pos(Top) /\ Oldest \in Nat
      /\ Oldest > 0
  BY <1>1 DEF Back, Pos, Oldest
<1>6. Back(Oldest) = IF TailOf(Top) = Oldest THEN 0 ELSE TailOf(Top) + 1
  BY <1>1 DEF Back, Oldest
<1> QED BY <1>2, <1>3, <1>4, <1>5, <1>6

\* Counting back from the last entry meets every entry of the newest header once.
LEMMA AgoFacts ==
  ASSUME ProducerAssumption, IndexTypes, Headers
  PROVE  /\ \A j \in Pos(Top) : Ago(j) \in Entries
         /\ \A e \in Entries : \E j \in Pos(Top) : Ago(j) = e
         /\ \A j, k \in Pos(Top) : Ago(j) = Ago(k) => j = k
<1>1. Top \in DOMAIN headers
  BY IndexFacts
<1> QED BY <1>1, BackFacts DEF Headers, Leads, Ago

\* An entry in use is for the block as many before the last as it is entries before it.
LEMMA AgoNumbers ==
  ASSUME ProducerAssumption, IndexTypes, Headers, Window, NEW j \in Pos(Top), Valid(Ago(j))
  PROVE  /\ Nr(Ago(j)) \in Int
         /\ \/ InOrder(j) /\ Nr(Ago(j)) = LastNum - j
            \/ Rewound(j) /\ Nr(Ago(j)) = LastNum + 1
<1>1. LastNum \in Int /\ j \in Int
  BY IndexFacts, HeaderFacts DEF Pos
<1>2. InOrder(j) => Nr(Ago(j)) = LastNum - j
  BY <1>1, KeyNum DEF InOrder, Nr
<1>3. Rewound(j) => Nr(Ago(j)) = LastNum + 1
  BY <1>1, KeyNum DEF Rewound, Nr
<1> QED BY <1>1, <1>2, <1>3 DEF Window

\* In the newest header too, entries are as far from each other as their blocks.
LEMMA TopAligned ==
  ASSUME ProducerAssumption, IndexTypes, Headers, Window
  PROVE  Aligned(Top)
<1> SUFFICES ASSUME NEW p \in Pos(Top), NEW q \in Pos(Top),
                    Valid(Entry(Top, p)), Valid(Entry(Top, q))
             PROVE  Apart(Top, p, q)
  BY DEF Aligned
<1>1. PICK j \in Pos(Top) : Back(j) = p
  BY BackFacts
<1>2. PICK k \in Pos(Top) : Back(k) = q
  BY BackFacts
<1>3. PICK n \in Nat : n = Cap(Top)
  BY HeaderFacts, IndexFacts
<1>4. LastNum \in Int /\ j \in 0 .. n - 1 /\ k \in 0 .. n - 1 /\ TailOf(Top) \in 0 .. n - 1
  BY IndexFacts, HeaderFacts, <1>3 DEF Pos
<1>5. PICK x : x = Nr(Entry(Top, p))
  OBVIOUS
<1>6. PICK y : y = Nr(Entry(Top, q))
  OBVIOUS
<1>7. x = LastNum - j \/ (x = LastNum + 1 /\ j = n - 1)
  BY <1>1, <1>3, <1>5, AgoNumbers DEF Ago, Rewound, Oldest
<1>8. y = LastNum - k \/ (y = LastNum + 1 /\ k = n - 1)
  BY <1>2, <1>3, <1>6, AgoNumbers DEF Ago, Rewound, Oldest
<1>9. p = TailOf(Top) - j \/ p = TailOf(Top) - j + n
  BY <1>1, <1>3 DEF Back
<1>10. q = TailOf(Top) - k \/ q = TailOf(Top) - k + n
  BY <1>2, <1>3 DEF Back
<1>11. \E a \in -2 .. 2 : x - y = p - q + a * n
  <2> DEFINE T == TailOf(Top)
  <2> DEFINE L == LastNum
  <2>1. T \in Int /\ L \in Int /\ j \in Int /\ k \in Int /\ n \in Int
    BY <1>3, <1>4
  <2>2. \E a \in -1 .. 0 : p = T - j - a * n
    BY <2>1, <1>9
  <2>3. \E a \in -1 .. 0 : q = T - k - a * n
    BY <2>1, <1>10
  <2>4. \E a \in 0 .. 1 : x = L - j + a * n
    BY <2>1, <1>7
  <2>5. \E a \in 0 .. 1 : y = L - k + a * n
    BY <2>1, <1>8
  <2> HIDE DEF T, L
  <2>6. PICK a \in -1 .. 0 : p = T - j - a * n
    BY <2>2
  <2>7. PICK b \in -1 .. 0 : q = T - k - b * n
    BY <2>3
  <2>8. PICK c \in 0 .. 1 : x = L - j + c * n
    BY <2>4
  <2>9. PICK d \in 0 .. 1 : y = L - k + d * n
    BY <2>5
  <2>10. x - y = p - q + (c - d + a - b) * n
    BY <2>1, <2>6, <2>7, <2>8, <2>9
  <2>11. c - d + a - b \in -2 .. 2
    OBVIOUS
  <2> QED BY <2>10, <2>11
<1>12. PICK a \in Int : x - y = p - q + a * n
  <2>1. PICK a \in -2 .. 2 : x - y = p - q + a * n
    BY <1>11
  <2>2. a \in Int
    OBVIOUS
  <2> QED BY <2>1, <2>2, Zenon
<1>13. Nr(Entry(Top, p)) - Nr(Entry(Top, q)) = p - q + a * Cap(Top)
  BY <1>3, <1>5, <1>6, <1>12
<1> QED BY <1>13 DEF Apart

\* An entry is known by its key.
LEMMA KeysDiffer ==
  ASSUME ProducerAssumption, IndexTypes, Headers, Window,
         NEW e \in Entries, NEW f \in Entries, Valid(e), KeyOf(e) = KeyOf(f)
  PROVE  e = f
<1>1. PICK j \in Pos(Top) : Ago(j) = e
  BY AgoFacts
<1>2. PICK k \in Pos(Top) : Ago(k) = f
  BY AgoFacts
<1>3. Valid(f) /\ Nr(e) = Nr(f)
  BY DEF Valid, Nr
<1>4. LastNum \in Int /\ j \in Nat /\ k \in Nat
  BY IndexFacts, HeaderFacts DEF Pos
<1>5. Nr(e) = LastNum - j \/ (Nr(e) = LastNum + 1 /\ j = Oldest)
  BY <1>1, AgoNumbers DEF Rewound
<1>6. Nr(f) = LastNum - k \/ (Nr(f) = LastNum + 1 /\ k = Oldest)
  BY <1>2, <1>3, AgoNumbers DEF Rewound
<1>7. j = k
  BY <1>3, <1>4, <1>5, <1>6
<1> QED BY <1>1, <1>2, <1>7

\* The entry for an index is found from any other: it is as far from it as its block.
LEMMA FindsEntry ==
  ASSUME ProducerAssumption, IndexTypes, NEW h \in DOMAIN headers, NEW p \in Pos(h),
         NEW q \in Pos(h), Apart(h, p, q), NEW i \in Nat, KeyOf(Entry(h, p)) = Key(Num(i)),
         NEW m \in Int, KeyOf(Entry(h, q)) = Key(m)
  PROVE  EntryFor(i, headers[h], q) = Entry(h, p)
<1>1. PICK n \in Nat : n = Cap(h) /\ n >= 2
  BY HeaderFacts
<1>2. PICK a \in Int : Nr(Entry(h, p)) - Nr(Entry(h, q)) = p - q + a * n
  BY <1>1 DEF Apart
<1>3. Num(i) \in Int /\ Nr(Entry(h, p)) = Num(i) /\ Nr(Entry(h, q)) = m
  BY NumFacts, KeyNum DEF Nr
<1>4. PICK k \in Int : k = Num(i)
  BY <1>3
<1>5. (BlockBase(i) - entries[headers[h].index[q]].key) \div BLOCK_SIZE = k - m
  <2>1. BlockBase(i) = Key(k) /\ entries[headers[h].index[q]].key = Key(m)
    BY <1>4, NumFacts DEF KeyOf, Entry
  <2>2. Key(k) - Key(m) = Key(k - m)
    <3>1. PICK b \in Nat : b = BLOCK_SIZE
      BY DEF ProducerAssumption
    <3>2. b * k - b * m = b * (k - m)
      OBVIOUS
    <3> QED BY <3>1, <3>2 DEF Key
  <2>3. Key(k - m) \div BLOCK_SIZE = k - m
    BY k - m \in Int, KeyNum DEF Num
  <2> QED BY <2>1, <2>2, <2>3
<1>6. (q + (k - m)) % n = p
  <2>1. p \in 0 .. n - 1 /\ q \in 0 .. n - 1 /\ k - m = p - q + a * n
    BY <1>1, <1>2, <1>3, <1>4 DEF Pos
  <2>2. q + (k - m) = p + a * n
    BY <2>1
  <2>3. (p + a * n) % n = p
    <3>1. n > 0 /\ p \in 0 .. n - 1
      BY <1>1, <2>1
    <3> QED BY <3>1, ModIs, Zenon
  <2> QED BY <2>2, <2>3
<1> QED BY <1>1, <1>5, <1>6 DEF EntryFor, Entry, Cap

-----------------------------------------------------------------------------
(* The steps of the enqueuing thread in the index. *)

\* The tail of the newest header moves; nothing else of the headers changes.
TailGoes(t) ==
  /\ headers' \in Seq(HeaderState) /\ headers' # <<>>
  /\ Top' = Top /\ DOMAIN headers' = DOMAIN headers
  /\ \A h \in DOMAIN headers : Cap(h)' = Cap(h) /\ \A p : Entry(h, p)' = Entry(h, p)
  /\ TailOf(Top)' = t
  /\ \A h \in 1 .. Top - 1 : headers'[h] = headers[h]

\* The entries stay, but for the key of one, or the value.
KeyGoes(x, k) ==
  /\ entries' \in Seq(EntryState) /\ Entries' = Entries /\ Len(entries') = Len(entries)
  /\ \A e \in Entries : /\ KeyOf(e)' = IF e = x THEN k ELSE KeyOf(e)
                        /\ ValueOf(e)' = ValueOf(e)
ValueGoes(x, v) ==
  /\ entries' \in Seq(EntryState) /\ Entries' = Entries /\ Len(entries') = Len(entries)
  /\ \A e \in Entries : /\ KeyOf(e)' = KeyOf(e)
                        /\ ValueOf(e)' = IF e = x THEN v ELSE ValueOf(e)

\* What setting the tail of the newest header does.
LEMMA TailDoes ==
  ASSUME ProducerAssumption, IndexTypes, NEW t \in Pos(Top),
         headers' = [headers EXCEPT ![Len(headers)].tail = t]
  PROVE  TailGoes(t)
<1> DEFINE new == [headers[Top] EXCEPT !.tail = t]
<1>1. Top \in DOMAIN headers /\ DOMAIN headers = 1 .. Top /\ Top \in Nat /\ headers \in Seq(HeaderState)
  BY IndexFacts DEF IndexTypes
<1>2. headers' = [headers EXCEPT ![Top] = new]
  BY DEF Top
<1>3. PICK n \in Nat : n >= 2 /\ n = Cap(Top) /\ headers[Top] \in HeaderOf(n)
  <2>1. headers[Top] \in HeaderState
    BY <1>1
  <2>2. PICK n \in Nat : n >= 2 /\ headers[Top] \in HeaderOf(n)
    BY <2>1 DEF HeaderState
  <2> QED BY <2>2 DEF HeaderOf, Cap
<1>4. new \in HeaderOf(n) /\ new.capacity = headers[Top].capacity /\ new.tail = t
      /\ new.index = headers[Top].index
  BY <1>3 DEF HeaderOf, Pos
<1>5. new \in HeaderState
  BY <1>3, <1>4 DEF HeaderState
<1> HIDE DEF new
<1>6. headers' \in Seq(HeaderState) /\ headers' # <<>> /\ Len(headers') = Len(headers)
      /\ DOMAIN headers' = DOMAIN headers
  BY <1>1, <1>2, <1>5
<1>7. headers'[Top] = new /\ \A h \in DOMAIN headers : h # Top => headers'[h] = headers[h]
  BY <1>1, <1>2
<1>8. Top' = Top
  BY <1>6 DEF Top
<1>9. ASSUME NEW h \in DOMAIN headers
      PROVE  Cap(h)' = Cap(h) /\ \A p : Entry(h, p)' = Entry(h, p)
  BY <1>4, <1>7 DEF Cap, Entry
<1>10. TailOf(Top)' = t
  BY <1>4, <1>7, <1>8 DEF TailOf
<1>11. \A h \in 1 .. Top - 1 : headers'[h] = headers[h]
  BY <1>1, <1>7
<1> QED BY <1>6, <1>8, <1>9, <1>10, <1>11 DEF TailGoes

\* What setting the key of an entry does.
LEMMA KeyDoes ==
  ASSUME ProducerAssumption, IndexTypes, NEW x \in Entries, NEW k \in Nat,
         entries' = [entries EXCEPT ![x].key = k]
  PROVE  KeyGoes(x, k)
<1> DEFINE new == [entries[x] EXCEPT !.key = k]
<1>1. entries \in Seq(EntryState) /\ x \in DOMAIN entries /\ entries[x] \in EntryState
  BY DEF IndexTypes, Entries
<1>2. new \in EntryState /\ new.key = k /\ new.value = entries[x].value
  BY <1>1 DEF EntryState
<1> HIDE DEF new
<1>3. entries' = [entries EXCEPT ![x] = new]
  BY DEF new
<1>4. entries' \in Seq(EntryState) /\ DOMAIN entries' = DOMAIN entries /\ Len(entries') = Len(entries)
  BY <1>1, <1>2, <1>3
<1>5. entries'[x] = new /\ \A e \in DOMAIN entries : e # x => entries'[e] = entries[e]
  BY <1>1, <1>3
<1> QED BY <1>2, <1>4, <1>5 DEF KeyGoes, Entries, KeyOf, ValueOf

\* What setting the value of an entry does.
LEMMA ValueDoes ==
  ASSUME ProducerAssumption, IndexTypes, NEW x \in Entries, NEW v \in Nat \cup {Nothing},
         entries' = [entries EXCEPT ![x].value = v]
  PROVE  ValueGoes(x, v)
<1> DEFINE new == [entries[x] EXCEPT !.value = v]
<1>1. entries \in Seq(EntryState) /\ x \in DOMAIN entries /\ entries[x] \in EntryState
  BY DEF IndexTypes, Entries
<1>2. new \in EntryState /\ new.value = v /\ new.key = entries[x].key
  BY <1>1 DEF EntryState
<1> HIDE DEF new
<1>3. entries' = [entries EXCEPT ![x] = new]
  BY DEF new
<1>4. entries' \in Seq(EntryState) /\ DOMAIN entries' = DOMAIN entries /\ Len(entries') = Len(entries)
  BY <1>1, <1>2, <1>3
<1>5. entries'[x] = new /\ \A e \in DOMAIN entries : e # x => entries'[e] = entries[e]
  BY <1>1, <1>3
<1> QED BY <1>2, <1>4, <1>5 DEF ValueGoes, Entries, KeyOf, ValueOf

\* One on, and one back.
Before(p) == IF p = 0 THEN Oldest ELSE p - 1

\* The entry after the last is the oldest, and the one before it its predecessor.
LEMMA NextIsOldest ==
  ASSUME ProducerAssumption, IndexTypes
  PROVE  /\ NextEntry(Newest) = Ago(Oldest)
         /\ (Newest.tail + 1) % Newest.capacity = Back(Oldest)
         /\ (Newest.tail + Newest.capacity - 1) % Newest.capacity = Before(TailOf(Top))
         /\ Before(TailOf(Top)) \in Pos(Top)
<1>1. PICK n \in Nat : n = Cap(Top) /\ n >= 2
  BY HeaderFacts, IndexFacts
<1>2. PICK t \in 0 .. n - 1 : t = TailOf(Top)
  BY <1>1, HeaderFacts, IndexFacts DEF Pos
<1>3. Newest.tail = t /\ Newest.capacity = n /\ Newest.index = headers[Top].index
  BY <1>1, <1>2, IndexFacts DEF TailOf, Cap
<1>4. (t + 1) % n = IF t = n - 1 THEN 0 ELSE t + 1
  BY <1>1, <1>2
<1>5. (t + n - 1) % n = IF t = 0 THEN n - 1 ELSE t - 1
  BY <1>1, <1>2
<1>6. Oldest = n - 1
  BY <1>1 DEF Oldest
<1>7. (t + 1) % n = Back(Oldest)
  BY <1>2, <1>4, <1>6, BackFacts
<1>8. (t + n - 1) % n = Before(t) /\ Before(t) \in Pos(Top)
  BY <1>1, <1>2, <1>5, <1>6 DEF Before, Pos
<1> QED BY <1>2, <1>3, <1>7, <1>8 DEF NextEntry, Ago, Entry

\* When the tail goes one on, every entry is one more before the last.
LEMMA TurnOn ==
  ASSUME ProducerAssumption, IndexTypes, TailGoes(Back(Oldest))
  PROVE  /\ Pos(Top)' = Pos(Top) /\ Oldest' = Oldest
         /\ Ago(0)' = Ago(Oldest) /\ \A j \in 1 .. Oldest : Ago(j)' = Ago(j - 1)
<1>1. PICK n \in Nat : n = Cap(Top) /\ n >= 2
  BY HeaderFacts, IndexFacts
<1>2. PICK t \in 0 .. n - 1 : t = TailOf(Top)
  BY <1>1, HeaderFacts, IndexFacts DEF Pos
<1>3. Top' = Top /\ Cap(Top)' = n /\ TailOf(Top)' = Back(Oldest) /\ \A p : Entry(Top, p)' = Entry(Top, p)
  BY <1>1, IndexFacts DEF TailGoes
<1>4. Oldest = n - 1 /\ Oldest' = n - 1 /\ Pos(Top) = 0 .. n - 1 /\ Pos(Top)' = 0 .. n - 1
  BY <1>1, <1>3 DEF Oldest, Pos
<1>5. Back(Oldest) = IF t = n - 1 THEN 0 ELSE t + 1
  BY <1>2, <1>4, BackFacts
<1>6. Back(0)' = Back(Oldest)
  BY <1>1, <1>2, <1>3, <1>5 DEF Back
<1>7. ASSUME NEW j \in 1 .. n - 1 PROVE Back(j)' = Back(j - 1)
  <2>1. Back(j)' = IF j <= Back(Oldest) THEN Back(Oldest) - j ELSE Back(Oldest) - j + n
    BY <1>3 DEF Back
  <2>2. Back(j - 1) = IF j - 1 <= t THEN t - (j - 1) ELSE t - (j - 1) + n
    BY <1>1, <1>2 DEF Back
  <2> QED BY <1>1, <1>2, <1>5, <2>1, <2>2
<1>8. Ago(0)' = Ago(Oldest)
  BY <1>3, <1>6 DEF Ago
<1>9. ASSUME NEW j \in 1 .. n - 1 PROVE Ago(j)' = Ago(j - 1)
  BY <1>3, <1>7 DEF Ago
<1> QED BY <1>4, <1>8, <1>9

\* When the tail goes one back, every entry is one less before the last.
LEMMA TurnBack ==
  ASSUME ProducerAssumption, IndexTypes, TailGoes(Before(TailOf(Top)))
  PROVE  /\ Pos(Top)' = Pos(Top) /\ Oldest' = Oldest
         /\ Ago(Oldest)' = Ago(0) /\ \A j \in 0 .. Oldest - 1 : Ago(j)' = Ago(j + 1)
<1>1. PICK n \in Nat : n = Cap(Top) /\ n >= 2
  BY HeaderFacts, IndexFacts
<1>2. PICK t \in 0 .. n - 1 : t = TailOf(Top)
  BY <1>1, HeaderFacts, IndexFacts DEF Pos
<1>3. Top' = Top /\ Cap(Top)' = n /\ TailOf(Top)' = Before(t) /\ \A p : Entry(Top, p)' = Entry(Top, p)
  BY <1>1, <1>2, IndexFacts DEF TailGoes
<1>4. Oldest = n - 1 /\ Oldest' = n - 1 /\ Pos(Top) = 0 .. n - 1 /\ Pos(Top)' = 0 .. n - 1
  BY <1>1, <1>3 DEF Oldest, Pos
<1>5. Before(t) = IF t = 0 THEN n - 1 ELSE t - 1
  BY <1>4 DEF Before
<1>6. ASSUME NEW j \in 0 .. n - 1 PROVE Back(j)' = Back(IF j = n - 1 THEN 0 ELSE j + 1)
  <2>1. Back(j)' = IF j <= Before(t) THEN Before(t) - j ELSE Before(t) - j + n
    BY <1>3 DEF Back
  <2>2. Back(j + 1) = IF j + 1 <= t THEN t - (j + 1) ELSE t - (j + 1) + n
    BY <1>1, <1>2 DEF Back
  <2>3. Back(0) = t
    BY <1>2, BackFacts
  <2> QED BY <1>1, <1>2, <1>5, <2>1, <2>2, <2>3
<1>7. ASSUME NEW j \in 0 .. n - 1 PROVE Ago(j)' = Ago(IF j = n - 1 THEN 0 ELSE j + 1)
  BY <1>3, <1>6 DEF Ago
<1>8. Ago(Oldest)' = Ago(0)
  <2>1. Ago(n - 1)' = Ago(0)
    BY <1>1, <1>7
  <2> QED BY <1>4, <2>1
<1>9. \A j \in 0 .. n - 2 : Ago(j)' = Ago(j + 1)
  BY <1>1, <1>7
<1> QED BY <1>4, <1>8, <1>9

\* Nothing is reordered where the headers stay.
LEMMA HeadersStay ==
  ASSUME ProducerAssumption, IndexTypes, headers' = headers
  PROVE  /\ TailGoes(TailOf(Top)) /\ Pos(Top)' = Pos(Top) /\ Oldest' = Oldest
         /\ \A j : Ago(j)' = Ago(j)
BY IndexFacts DEF TailGoes, IndexTypes, Top, Cap, Entry, TailOf, Pos, Oldest, Ago, Back

\* A new key is as far from the old one as some rounds through each old header.
LEMMA HeadersKept ==
  ASSUME ProducerAssumption, IndexTypes, Headers, NEW t, TailGoes(t),
         Entries' = Entries, Len(entries') = Len(entries),
         \A e \in Entries : Valid(e) => Valid(e)',
         \A h \in 1 .. Top - 1 : \A p \in Pos(h) :
           \E a \in Int : Nr(Entry(h, p))' = Nr(Entry(h, p)) + a * Cap(h)
  PROVE  Headers'
<1>1. /\ Top' = Top /\ DOMAIN headers' = DOMAIN headers
      /\ \A h \in DOMAIN headers : Cap(h)' = Cap(h) /\ \A p : Entry(h, p)' = Entry(h, p)
  BY DEF TailGoes
<1>2. DOMAIN headers = 1 .. Top /\ Top \in Nat /\ Top >= 1
  BY IndexFacts
<1>3. \A h \in DOMAIN headers : Pos(h)' = Pos(h)
  BY <1>1 DEF Pos
<1>4. (\A h \in DOMAIN headers : Leads(h))'
  <2>1. Cap(Top)' = Cap(Top)
    BY <1>1, <1>2
  <2>2. ASSUME NEW h \in DOMAIN headers PROVE Leads(h)'
    <3>1. \A p \in Pos(h) : Entry(h, p) \in Entries
      BY DEF Headers, Leads
    <3>2. \A p, q \in Pos(h) : Entry(h, p) = Entry(h, q) => p = q
      BY DEF Headers, Leads
    <3>3. \E k \in Nat : Cap(Top) = k * Cap(h)
      BY DEF Headers, Leads
    <3>4. Cap(h)' = Cap(h) /\ Pos(h)' = Pos(h) /\ \A p : Entry(h, p)' = Entry(h, p)
      BY <1>1, <1>3
    <3> QED BY <2>1, <3>1, <3>2, <3>3, <3>4 DEF Leads
  <2> QED BY <1>1, <2>2
<1>5. ASSUME NEW h \in 1 .. Top - 1
      PROVE  Aligned(h)' /\ (\A p \in Pos(h) : Valid(Entry(h, p)))'
  <2>1. h \in DOMAIN headers
    BY <1>2
  <2>2. PICK n \in Nat : n = Cap(h) /\ n >= 2
    BY <2>1, HeaderFacts
  <2>3. Pos(h) = 0 .. n - 1 /\ Pos(h)' = Pos(h) /\ Cap(h)' = n
    BY <1>1, <1>3, <2>1, <2>2 DEF Pos
  <2>4. \A p : Entry(h, p)' = Entry(h, p)
    BY <1>1, <2>1
  <2>5. \A p \in Pos(h) : Entry(h, p) \in Entries /\ Valid(Entry(h, p))
    BY <2>1 DEF Headers, Leads
  <2>6. \A p \in Pos(h) : Valid(Entry(h, p))'
    <3> TAKE p \in Pos(h)
    <3>1. PICK e \in Entries : e = Entry(h, p) /\ Valid(e)
      BY <2>5
    <3>2. Valid(e)' /\ e = Entry(h, p)'
      BY <2>4, <3>1
    <3> QED BY <3>2 DEF Valid, KeyOf
  <2>7. ASSUME NEW p \in Pos(h), NEW q \in Pos(h) PROVE Apart(h, p, q)'
    <3>1. PICK x : x = Nr(Entry(h, p))
      OBVIOUS
    <3>2. PICK y : y = Nr(Entry(h, q))
      OBVIOUS
    <3>3. PICK a \in Int : Nr(Entry(h, p))' = x + a * n
      BY <2>2, <3>1
    <3>4. PICK b \in Int : Nr(Entry(h, q))' = y + b * n
      BY <2>2, <3>2
    <3>5. PICK k \in Int : x - y = p - q + k * n
      <4>1. Apart(h, p, q)
        BY <2>5 DEF Headers, Aligned
      <4> QED BY <2>2, <3>1, <3>2, <4>1 DEF Apart
    <3>6. x \in Int /\ y \in Int
      <4>1. KeyOf(Entry(h, p)) \in Nat /\ KeyOf(Entry(h, q)) \in Nat
        BY <2>5, IndexFacts DEF Valid
      <4> QED BY <3>1, <3>2, <4>1, NumFacts DEF Nr
    <3>7. (x + a * n) - (y + b * n) = p - q + (k + a - b) * n
      BY <2>3, <3>5, <3>6
    <3>8. Nr(Entry(h, p))' - Nr(Entry(h, q))' = p - q + (k + a - b) * Cap(h)'
      BY <2>3, <3>3, <3>4, <3>7
    <3>9. k + a - b \in Int
      OBVIOUS
    <3> QED BY <3>8, <3>9 DEF Apart
  <2>8. Aligned(h)'
    <3>1. \A p, q \in Pos(h)' : Apart(h, p, q)'
      BY <2>3, <2>7
    <3> QED BY <3>1 DEF Aligned
  <2>9. (\A p \in Pos(h) : Valid(Entry(h, p)))'
    BY <2>3, <2>6, <2>4
  <2> QED BY <2>8, <2>9
<1>6. (\A e \in Entries : \E p \in Pos(Top) : Entry(Top, p) = e)'
  BY <1>1, <1>2, <1>3 DEF Headers
<1>7. (Cap(Top) = Len(entries))'
  BY <1>1, <1>2 DEF Headers
<1> QED BY <1>1, <1>4, <1>5, <1>6, <1>7 DEF Headers

\* An entry that is inserted.
LEMMA InsertKeeps ==
  ASSUME ProducerAssumption, IndexInv, prod.pc \in {"insert", "insertNew"},
         InsertEntry(NextEntry(Newest)), ValueOf(Ago(Oldest)) = Nothing,
         UNCHANGED <<tailIndex, headIndex>>
  PROVE  /\ IndexInv' /\ KeyGoes(Ago(Oldest), tailIndex) /\ TailGoes(Back(Oldest))
         /\ prod' = [prod EXCEPT !.pc = "requisition", !.entry = Ago(Oldest)]
         /\ ~Valid(Ago(Oldest)) \/ Nr(Ago(Oldest)) \in {LastNum - Oldest, LastNum + 1}
<1>1. IndexTypes /\ Headers /\ Window /\ Enqueuing
  BY DEF IndexInv
<1>2. PICK x \in Entries : x = Ago(Oldest)
  BY <1>1, BackFacts, AgoFacts
<1>3. KeyGoes(x, tailIndex)
  <2>1. entries' = [entries EXCEPT ![x].key = tailIndex]
    BY <1>1, <1>2, NextIsOldest DEF InsertEntry
  <2> QED BY <1>1, <2>1, KeyDoes DEF IndexTypes
<1>4. TailGoes(Back(Oldest))
  <2>1. headers' = [headers EXCEPT ![Len(headers)].tail = (@ + 1) % Newest.capacity]
    BY DEF InsertEntry
  <2>2. headers' = [headers EXCEPT ![Len(headers)].tail = Back(Oldest)]
    BY <1>1, <2>1, NextIsOldest, IndexFacts DEF Newest
  <2> QED BY <1>1, <2>2, TailDoes, BackFacts
<1>5. /\ Pos(Top)' = Pos(Top) /\ Oldest' = Oldest
      /\ Ago(0)' = x /\ \A j \in 1 .. Oldest : Ago(j)' = Ago(j - 1)
  BY <1>1, <1>2, <1>4, TurnOn
<1>6. prod' = [prod EXCEPT !.pc = "requisition", !.entry = x]
  BY <1>1, <1>2, NextIsOldest DEF InsertEntry
<1>7. prod'.pc = "requisition" /\ prod'.entry = x /\ prod' \in ProdState
  <2>1. prod \in ProdState /\ x \in Nat
    BY <1>1, IndexFacts DEF IndexTypes
  <2>2. "requisition" \in Unentered \cup Writing \cup {"publish"}
    BY DEF Writing
  <2> QED BY <1>6, <2>1, <2>2 DEF ProdState
<1>8. PICK last \in Int : last = LastNum /\ last >= -1
  BY <1>1, IndexFacts
<1>9. LastNum' = last + 1 /\ tailIndex = Key(last + 1) /\ Num(tailIndex) = last + 1
      /\ Slot(tailIndex) = 0
  <2>1. Slot(tailIndex) = 0 /\ tailIndex \in Nat
    BY <1>1 DEF Enqueuing, IndexTypes
  <2>2. last = Num(tailIndex - 1)
    BY <1>8 DEF LastNum, Unentered
  <2>3. Num(tailIndex) = last + 1 /\ tailIndex = Key(Num(tailIndex))
    BY <1>8, <2>1, <2>2, NumNext, NumFacts
  <2>4. LastNum' = Num(tailIndex)
    BY <1>7 DEF LastNum, Unentered
  <2> QED BY <2>1, <2>3, <2>4
<1>10. ~Valid(x) \/ Nr(x) \in {last - Oldest, last + 1}
  BY <1>1, <1>2, <1>8, BackFacts, AgoNumbers
<1>11. PICK n \in Nat : n = Cap(Top) /\ n >= 2 /\ Oldest = n - 1
  BY <1>1, HeaderFacts, IndexFacts DEF Oldest
<1>12. IndexTypes'
  BY <1>1, <1>3, <1>4, <1>7 DEF IndexTypes, KeyGoes, TailGoes
<1>13. \A e \in Entries : Valid(e) => Valid(e)'
  BY <1>1, <1>3 DEF KeyGoes, Valid, IndexTypes, INVALID_BLOCK_BASE
<1>14. Headers'
  <2>1. ASSUME NEW h \in 1 .. Top - 1, NEW p \in Pos(h)
        PROVE  \E a \in Int : Nr(Entry(h, p))' = Nr(Entry(h, p)) + a * Cap(h)
    <3>1. h \in DOMAIN headers
      BY <1>1, IndexFacts
    <3>2. PICK e \in Entries : e = Entry(h, p) /\ Valid(e)
      BY <1>1, <3>1 DEF Headers, Leads
    <3>3. e = Entry(h, p)'
      BY <1>4, <3>1, <3>2 DEF TailGoes
    <3>4. Nr(e)' = Nr(Entry(h, p))'
      BY <3>3 DEF Nr, KeyOf
    <3>5. PICK c \in Nat : c = Cap(h)
      BY <1>1, <3>1, HeaderFacts
    <3>6. Nr(e) \in Int
      <4>1. KeyOf(e) \in Nat
        BY <1>1, <3>2, IndexFacts DEF Valid
      <4> QED BY <4>1, NumFacts DEF Nr
    <3>7. CASE e # x
      <4>1. KeyOf(e)' = KeyOf(e)
        BY <1>3, <3>7 DEF KeyGoes
      <4>2. Nr(e)' = Nr(e)
        BY <4>1 DEF Nr
      <4>3. Nr(e) = Nr(e) + 0 * c
        BY <3>6
      <4> QED BY <3>2, <3>4, <3>5, <4>2, <4>3
    <3>8. CASE e = x
      <4>1. Nr(e)' = last + 1
        BY <1>3, <1>9, <3>8 DEF KeyGoes, Nr
      <4>2. CASE Nr(x) = last + 1
        <5>1. last + 1 = Nr(e) + 0 * c
          BY <3>6, <3>8, <4>2
        <5> QED BY <3>2, <3>4, <3>5, <4>1, <5>1
      <4>3. CASE Nr(x) = last - Oldest
        <5>1. PICK k \in Nat : n = k * c
          BY <1>1, <1>11, <3>1, <3>5 DEF Headers, Leads
        <5>2. last + 1 = Nr(e) + k * c
          BY <1>11, <3>6, <3>8, <4>3, <5>1
        <5> QED BY <3>2, <3>4, <3>5, <4>1, <5>2
      <4> QED BY <1>10, <3>2, <3>8, <4>2, <4>3
    <3> QED BY <3>7, <3>8
  <2> QED BY <1>1, <1>3, <1>4, <1>13, <2>1, HeadersKept DEF KeyGoes
<1>15. InOrder(0)'
  <2>1. KeyOf(x)' = tailIndex
    BY <1>3 DEF KeyGoes
  <2>2. KeyOf(Ago(0))' = tailIndex
    BY <1>5, <2>1 DEF KeyOf
  <2>3. (last + 1) - 0 = last + 1 /\ 0 <= last + 1
    BY <1>8
  <2> QED BY <1>9, <2>2, <2>3 DEF InOrder
<1>16. ASSUME NEW j \in 1 .. Oldest
       PROVE  /\ KeyOf(Ago(j))' = KeyOf(Ago(j - 1))
              /\ InOrder(j)' <=> InOrder(j - 1)
  <2>1. j - 1 \in Pos(Top) /\ j \in Nat /\ j - 1 # Oldest
    BY <1>11 DEF Pos
  <2>2. PICK e \in Entries : e = Ago(j - 1) /\ e # x
    BY <1>1, <1>2, <2>1, BackFacts, AgoFacts
  <2>3. KeyOf(e)' = KeyOf(e) /\ e = Ago(j)'
    BY <1>3, <1>5, <2>2 DEF KeyGoes
  <2>4. KeyOf(Ago(j))' = KeyOf(Ago(j - 1))
    BY <2>2, <2>3 DEF KeyOf
  <2>5. last + 1 - j = last - (j - 1) /\ (j <= last + 1 <=> j - 1 <= last)
    BY <1>8
  <2> QED BY <1>8, <1>9, <2>4, <2>5 DEF InOrder
<1>17. Window'
  <2>1. \A j \in Pos(Top) : j = 0 \/ j \in 1 .. Oldest
    BY <1>11 DEF Pos
  <2>2. ASSUME NEW j \in Pos(Top) PROVE ~Valid(Ago(j))' \/ InOrder(j)'
    <3>1. CASE j = 0
      BY <1>15, <3>1
    <3>2. CASE j \in 1 .. Oldest
      <4>1. j - 1 \in Pos(Top) /\ j - 1 # Oldest
        BY <1>11, <3>2 DEF Pos
      <4>2. ~Valid(Ago(j - 1)) \/ InOrder(j - 1)
        BY <1>1, <4>1 DEF Window, Rewound
      <4> QED BY <1>16, <3>2, <4>2 DEF Valid
    <3> QED BY <2>1, <3>1, <3>2
  <2>3. ASSUME NEW j \in Pos(Top), NEW k \in Pos(Top), InOrder(j)', k <= j PROVE InOrder(k)'
    <3>1. CASE k = 0
      BY <1>15, <3>1
    <3>2. CASE k # 0
      <4>1. k \in 1 .. Oldest /\ j \in 1 .. Oldest /\ k - 1 \in Pos(Top) /\ j - 1 \in Pos(Top)
            /\ k - 1 <= j - 1
        BY <1>11, <2>3, <3>2 DEF Pos
      <4>2. InOrder(k - 1)
        BY <1>1, <1>16, <2>3, <4>1 DEF Window
      <4> QED BY <1>16, <4>1, <4>2
    <3> QED BY <3>1, <3>2
  <2>4. ASSUME NEW e \in Entries, ~Valid(e)' PROVE ValueOf(e)' = Nothing
    <3>1. ~Valid(e) /\ ValueOf(e)' = ValueOf(e)
      BY <1>3, <1>13, <2>4 DEF KeyGoes
    <3> QED BY <1>1, <3>1 DEF Window
  <2>5. Entries' = Entries
    BY <1>3 DEF KeyGoes
  <2> QED BY <1>5, <1>15, <2>2, <2>3, <2>4, <2>5 DEF Window
<1>18. Enqueuing'
  <2>1. ValueOf(x)' = Nothing
    BY <1>2, <1>3 DEF KeyGoes
  <2>2. ValueOf(prod.entry)' = Nothing
    BY <1>7, <2>1 DEF ValueOf
  <2>3. Slot(tailIndex)' = 0
    BY <1>9
  <2>4. LastNum' >= 1 => InOrder(1)'
    <3>1. LastNum' >= 1 => InOrder(0)
      BY <1>1, <1>8, <1>9 DEF Window
    <3>2. 1 \in 1 .. Oldest /\ 1 - 1 = 0
      BY <1>11
    <3>3. InOrder(1)' <=> InOrder(1 - 1)
      BY <1>16, <3>2
    <3> QED BY <3>1, <3>2, <3>3
  <2> QED BY <1>5, <1>7, <2>2, <2>3, <2>4 DEF Enqueuing
<1> QED BY <1>2, <1>3, <1>4, <1>6, <1>8, <1>10, <1>12, <1>14, <1>17, <1>18 DEF IndexInv

\* A step that leaves the order of the entries alone.
LEMMA IndexStays ==
  ASSUME ProducerAssumption, IndexInv, IndexTypes', headers' = headers,
         Entries' = Entries, Len(entries') = Len(entries),
         \A e \in Entries : KeyOf(e)' = KeyOf(e),
         \A e \in Entries : ~Valid(e) => ValueOf(e)' = Nothing,
         LastNum' = LastNum, \A j \in Pos(Top) : Rewound(j) => Rewound(j)', Enqueuing'
  PROVE  IndexInv'
<1>1. IndexTypes /\ Headers /\ Window
  BY DEF IndexInv
<1>2. TailGoes(TailOf(Top)) /\ Pos(Top)' = Pos(Top) /\ \A j : Ago(j)' = Ago(j)
  BY <1>1, HeadersStay
<1>3. \A e \in Entries : Valid(e)' <=> Valid(e)
  BY DEF Valid
<1>4. Headers'
  <2>1. ASSUME NEW h \in 1 .. Top - 1, NEW p \in Pos(h)
        PROVE  \E a \in Int : Nr(Entry(h, p))' = Nr(Entry(h, p)) + a * Cap(h)
    <3>1. h \in DOMAIN headers
      BY <1>1, IndexFacts
    <3>2. PICK e \in Entries : e = Entry(h, p) /\ Valid(e)
      BY <1>1, <3>1 DEF Headers, Leads
    <3>3. Nr(e)' = Nr(e) /\ e = Entry(h, p)'
      BY <3>2 DEF Nr, Entry
    <3>4. Nr(Entry(h, p))' = Nr(e)
      BY <3>3 DEF Nr, KeyOf
    <3>5. Nr(e) \in Int /\ Cap(h) \in Int
      <4>1. KeyOf(e) \in Nat
        BY <1>1, <3>2, IndexFacts DEF Valid
      <4> QED BY <1>1, <3>1, <4>1, NumFacts, HeaderFacts DEF Nr
    <3>6. Nr(e) = Nr(e) + 0 * Cap(h)
      BY <3>5
    <3> QED BY <3>2, <3>4, <3>6
  <2>2. \A e \in Entries : Valid(e) => Valid(e)'
    BY <1>3
  <2> QED BY <1>1, <1>2, <2>1, <2>2, HeadersKept
<1>5. \A j \in Pos(Top) : (InOrder(j)' <=> InOrder(j)) /\ (Valid(Ago(j))' <=> Valid(Ago(j)))
  <2> TAKE j \in Pos(Top)
  <2>1. PICK e \in Entries : e = Ago(j)
    BY <1>1, AgoFacts
  <2>2. e = Ago(j)' /\ KeyOf(e)' = KeyOf(e)
    BY <1>2, <2>1
  <2>3. KeyOf(Ago(j))' = KeyOf(Ago(j))
    BY <2>1, <2>2 DEF KeyOf
  <2> QED BY <2>3 DEF InOrder, Valid
<1>6. Window'
  <2>1. 0 \in Pos(Top)
    BY <1>1, BackFacts
  <2> QED BY <1>1, <1>2, <1>3, <1>5, <2>1 DEF Window
<1> QED BY <1>4, <1>6 DEF IndexInv

\* A step away from the index, or one that empties an entry.
LEMMA IndexQuiet ==
  ASSUME ProducerAssumption, IndexInv, UNCHANGED <<headers, tailIndex, prod>>,
         headIndex' \in Nat, headIndex' <= tailIndex',
         entries' = entries \/ \E x \in Entries : ValueGoes(x, Nothing)
  PROVE  IndexInv'
<1>1. IndexTypes /\ Window /\ Enqueuing
  BY DEF IndexInv
<1>2. /\ entries' \in Seq(EntryState) /\ Entries' = Entries /\ Len(entries') = Len(entries)
      /\ \A e \in Entries : KeyOf(e)' = KeyOf(e) /\ ValueOf(e)' \in {ValueOf(e), Nothing}
  BY <1>1 DEF ValueGoes, IndexTypes, Entries, KeyOf, ValueOf
<1>3. IndexTypes'
  BY <1>1, <1>2 DEF IndexTypes
<1>4. LastNum' = LastNum
  BY DEF LastNum
<1>5. \A e \in Entries : ~Valid(e) => ValueOf(e)' = Nothing
  BY <1>1, <1>2 DEF Window
<1>6. \A j : Ago(j)' = Ago(j) /\ Oldest' = Oldest
  BY <1>1, HeadersStay
<1>7. \A j \in Pos(Top) : /\ KeyOf(Ago(j))' = KeyOf(Ago(j))
                          /\ ValueOf(Ago(j)) = Nothing => ValueOf(Ago(j))' = Nothing
  <2> TAKE j \in Pos(Top)
  <2>1. PICK e \in Entries : e = Ago(j) /\ e = Ago(j)'
    BY <1>1, <1>6, AgoFacts DEF IndexInv
  <2>2. KeyOf(e)' = KeyOf(e) /\ (ValueOf(e) = Nothing => ValueOf(e)' = Nothing)
    BY <1>2
  <2> QED BY <2>1, <2>2 DEF KeyOf, ValueOf
<1>8. \A j \in Pos(Top) : Rewound(j) => Rewound(j)'
  BY <1>4, <1>6, <1>7 DEF Rewound
<1>9. Oldest \in Pos(Top) /\ 0 \in Pos(Top)
  BY <1>1, BackFacts
<1>10. Enqueuing'
  <2>1. prod.pc = "grow" => InOrder(Oldest)'
    <3>1. PICK o \in Pos(Top) : o = Oldest /\ o = Oldest'
      BY <1>6, <1>9
    <3>2. KeyOf(Ago(o))' = KeyOf(Ago(o))
      BY <1>7
    <3>3. InOrder(o)' <=> InOrder(o)
      BY <1>4, <3>2 DEF InOrder
    <3> QED BY <1>1, <3>1, <3>3 DEF Enqueuing
  <2>2. prod.pc = "insertNew" => ~Valid(Ago(Oldest))'
    <3>1. PICK o \in Pos(Top) : o = Oldest /\ o = Oldest'
      BY <1>6, <1>9
    <3>2. KeyOf(Ago(o))' = KeyOf(Ago(o))
      BY <1>7
    <3>3. KeyOf(Ago(Oldest))' = KeyOf(Ago(Oldest))
      BY <3>1, <3>2
    <3> QED BY <1>1, <3>3 DEF Enqueuing, Valid
  <2>4. prod.pc \in Writing => prod.entry = Ago(0)' /\ ValueOf(prod.entry)' = Nothing
    <3>1. ASSUME prod.pc \in Writing PROVE ValueOf(prod.entry)' = Nothing
      <4>1. PICK e \in Entries : e = prod.entry /\ ValueOf(e) = Nothing
        BY <1>1, <1>9, <3>1, AgoFacts DEF Enqueuing, IndexInv
      <4>2. ValueOf(e)' = Nothing
        BY <1>2, <4>1
      <4> QED BY <4>1, <4>2 DEF ValueOf
    <3> QED BY <1>1, <1>6, <3>1 DEF Enqueuing
  <2>5. prod.pc \in Writing /\ LastNum' >= 1 => InOrder(1)'
    <3>1. 1 \in Pos(Top)
      BY <1>1, BackFacts DEF Pos, Oldest
    <3> QED BY <1>1, <1>4, <1>7, <3>1 DEF Enqueuing, InOrder
  <2> QED BY <1>1, <1>6, <2>1, <2>2, <2>4, <2>5 DEF Enqueuing
<1> QED BY <1>2, <1>3, <1>4, <1>5, <1>8, <1>10, IndexStays

\* Nothing is read differently in an index that stays.
LEMMA SameIndex ==
  ASSUME headers' = headers, entries' = entries
  PROVE  /\ Entries' = Entries /\ Len(entries') = Len(entries) /\ Top' = Top
         /\ \A e : KeyOf(e)' = KeyOf(e) /\ ValueOf(e)' = ValueOf(e) /\ (Valid(e)' <=> Valid(e))
         /\ \A j : /\ Ago(j)' = Ago(j) /\ KeyOf(Ago(j))' = KeyOf(Ago(j))
                   /\ ValueOf(Ago(j))' = ValueOf(Ago(j))
         /\ Oldest' = Oldest
BY DEF Entries, Top, KeyOf, ValueOf, Valid, Ago, Entry, Back, TailOf, Cap, Oldest

\* The steps of enqueue() that do not change the index.
LEMMA EnqueueKeeps ==
  ASSUME ProducerAssumption, IndexInv, headIndex' = headIndex,
         headers' = headers, entries' = entries, prod' \in ProdState,
         \/ /\ prod.pc = "idle" /\ prod'.pc = "publish" /\ Slot(tailIndex) # 0
            /\ tailIndex' = tailIndex
         \/ /\ prod.pc = "idle" /\ prod'.pc = "insert" /\ Slot(tailIndex) = 0
            /\ tailIndex' = tailIndex
         \/ /\ prod.pc = "insert" /\ prod'.pc = "grow" /\ tailIndex' = tailIndex
            /\ Valid(Ago(Oldest)) /\ ValueOf(Ago(Oldest)) # Nothing
         \/ prod.pc = "grow" /\ prod'.pc = "idle" /\ tailIndex' = tailIndex
         \/ /\ prod.pc \in Writing /\ prod'.pc \in Writing /\ tailIndex' = tailIndex
            /\ prod'.entry = prod.entry
         \/ prod.pc = "publish" /\ prod'.pc = "idle" /\ tailIndex' = tailIndex + 1
  PROVE  IndexInv'
<1>1. IndexTypes /\ Window /\ Enqueuing
  BY DEF IndexInv
<1>2. tailIndex \in Nat /\ tailIndex' \in Nat /\ headIndex' <= tailIndex' /\ headIndex' \in Nat
  BY <1>1 DEF IndexTypes
<1>3. IndexTypes'
  BY <1>1, <1>2 DEF IndexTypes
<1>4. LastNum' = LastNum
  <2>1. Slot(tailIndex) # 0 => Num(tailIndex - 1) = Num(tailIndex)
    BY <1>2, NumNext
  <2>2. CASE prod.pc = "publish" /\ prod'.pc = "idle" /\ tailIndex' = tailIndex + 1
    <3>1. LastNum = Num(tailIndex) /\ LastNum' = Num(tailIndex' - 1)
      BY <2>2 DEF LastNum, Unentered
    <3>2. tailIndex' - 1 = tailIndex
      BY <1>2, <2>2
    <3> QED BY <3>1, <3>2
  <2>3. CASE tailIndex' = tailIndex
    BY <1>2, <2>1, <2>3 DEF LastNum, Unentered, Writing
  <2> QED BY <2>2, <2>3
<1>5. \A e \in Entries : ~Valid(e) => ValueOf(e)' = Nothing
  BY <1>1, SameIndex DEF Window
<1>6. \A j \in Pos(Top) : Rewound(j) => Rewound(j)'
  <2>1. \A j : Rewound(j) => prod.pc \in {"idle", "insert"} /\ Slot(tailIndex) = 0
    BY DEF Rewound
  <2>2. CASE prod.pc = "idle" /\ prod'.pc = "insert" /\ tailIndex' = tailIndex
    BY <1>4, <2>2, SameIndex DEF Rewound
  <2>3. CASE prod.pc = "insert" /\ prod'.pc = "grow" /\ ValueOf(Ago(Oldest)) # Nothing
    BY <2>3 DEF Rewound
  <2> QED BY <2>1, <2>2, <2>3 DEF Writing
<1>7. Enqueuing'
  <2>1. CASE prod'.pc \in {"idle", "publish"}
    BY <2>1 DEF Enqueuing, Writing
  <2>2. CASE prod'.pc = "insert" /\ Slot(tailIndex) = 0 /\ tailIndex' = tailIndex
    BY <2>2 DEF Enqueuing, Writing
  <2>3. CASE prod.pc = "insert" /\ prod'.pc = "grow" /\ tailIndex' = tailIndex
             /\ Valid(Ago(Oldest)) /\ ValueOf(Ago(Oldest)) # Nothing
    <3>1. InOrder(Oldest)
      BY <1>1, <2>3, BackFacts DEF Window, Rewound
    <3>2. InOrder(Oldest)'
      BY <1>4, <3>1, SameIndex DEF InOrder
    <3>3. Slot(tailIndex)' = 0
      BY <1>1, <2>3 DEF Enqueuing
    <3> QED BY <2>3, <3>2, <3>3 DEF Enqueuing, Writing
  <2>4. CASE prod.pc \in Writing /\ prod'.pc \in Writing /\ tailIndex' = tailIndex
             /\ prod'.entry = prod.entry
    <3>1. prod.entry = Ago(0) /\ ValueOf(prod.entry) = Nothing /\ Slot(tailIndex) = 0
      BY <1>1, <2>4 DEF Enqueuing, Writing
    <3>2. prod'.entry = Ago(0)' /\ ValueOf(prod.entry)' = Nothing /\ Slot(tailIndex)' = 0
      BY <2>4, <3>1, SameIndex DEF ValueOf
    <3>3. LastNum' >= 1 => InOrder(1)'
      BY <1>1, <1>4, <2>4, SameIndex DEF Enqueuing, InOrder
    <3> QED BY <2>4, <3>2, <3>3 DEF Enqueuing, Writing
  <2> QED BY <2>1, <2>2, <2>3, <2>4
<1> QED BY <1>3, <1>4, <1>5, <1>6, <1>7, SameIndex, IndexStays

\* The block enters the index.
LEMMA ConstructKeeps ==
  ASSUME ProducerAssumption, IndexInv, UNCHANGED <<headIndex, tailIndex, headers>>,
         prod.pc = "construct", prod' \in ProdState, prod'.pc = "publish",
         NEW b \in Nat, ValueGoes(prod.entry, b)
  PROVE  IndexInv'
<1>1. IndexTypes /\ Window /\ Enqueuing
  BY DEF IndexInv
<1>2. IndexTypes'
  BY <1>1 DEF IndexTypes, ValueGoes
<1>3. LastNum' = LastNum
  BY DEF LastNum, Unentered
<1>4. prod.entry = Ago(0) /\ Valid(prod.entry)
  <2>1. prod.entry = Ago(0) /\ LastNum >= 0
    <3>1. LastNum = Num(tailIndex) /\ tailIndex \in Nat /\ prod.entry = Ago(0)
      BY <1>1 DEF LastNum, Unentered, IndexTypes, Enqueuing, Writing
    <3>2. Num(tailIndex) \in Int /\ Slot(tailIndex) = tailIndex - Key(Num(tailIndex))
          /\ Slot(tailIndex) = 0
      BY <1>1, <3>1, NumFacts DEF Enqueuing
    <3>3. Num(tailIndex) < 0 => Key(Num(tailIndex)) <= -BLOCK_SIZE
      BY <3>2, KeyOrder
    <3>4. Key(Num(tailIndex)) \in Int /\ BLOCK_SIZE \in Nat /\ BLOCK_SIZE >= 2
      BY <3>2, KeyOrder DEF ProducerAssumption
    <3> QED BY <3>1, <3>2, <3>3, <3>4
  <2>2. KeyOf(Ago(0)) = Key(LastNum - 0)
    BY <1>1, <2>1 DEF Window, InOrder
  <2>3. LastNum - 0 = LastNum /\ Key(LastNum) \in Nat
    <3>1. PICK m \in Int : m = LastNum /\ m >= 0
      BY <1>1, <2>1, IndexFacts
    <3>2. Key(m) \in Int /\ Key(m) >= 0
      BY <3>1, KeyOrder
    <3> QED BY <3>1, <3>2
  <2> QED BY <2>1, <2>2, <2>3 DEF Valid, INVALID_BLOCK_BASE
<1>5. \A e \in Entries : ~Valid(e) => ValueOf(e)' = Nothing
  BY <1>1, <1>4 DEF Window, ValueGoes
<1>6. \A j \in Pos(Top) : ~Rewound(j)
  BY DEF Rewound
<1>7. Enqueuing'
  BY DEF Enqueuing, Writing
<1> QED BY <1>2, <1>3, <1>5, <1>6, <1>7, IndexStays DEF ValueGoes

\* The last entry is given up.
LEMMA RewindKeeps ==
  ASSUME ProducerAssumption, IndexInv, UNCHANGED <<headIndex, tailIndex>>,
         prod.pc = "rewind", prod' = IdleProd,
         TailGoes(Before(TailOf(Top))), ValueGoes(prod.entry, Nothing)
  PROVE  IndexInv'
<1>1. IndexTypes /\ Headers /\ Window /\ Enqueuing
  BY DEF IndexInv
<1>2. PICK x \in Entries : x = prod.entry /\ x = Ago(0)
  BY <1>1, BackFacts, AgoFacts DEF Enqueuing, Writing
<1>3. /\ Pos(Top)' = Pos(Top) /\ Oldest' = Oldest
      /\ Ago(Oldest)' = x /\ \A j \in 0 .. Oldest - 1 : Ago(j)' = Ago(j + 1)
  BY <1>1, <1>2, TurnBack
<1>4. PICK last \in Int : last = LastNum /\ last >= -1
  BY <1>1, IndexFacts
<1>5. Slot(tailIndex) = 0 /\ tailIndex \in Nat
  BY <1>1 DEF Enqueuing, IndexTypes
<1>6. last = Num(tailIndex) /\ tailIndex = Key(last) /\ last >= 0
  <2>1. last = Num(tailIndex)
    BY <1>4 DEF LastNum, Unentered
  <2>2. tailIndex = Key(last)
    BY <1>5, <2>1, NumNext
  <2>3. last < 0 => Key(last) <= -BLOCK_SIZE
    BY KeyOrder
  <2>4. BLOCK_SIZE \in Nat /\ BLOCK_SIZE >= 2
    BY DEF ProducerAssumption
  <2> QED BY <1>5, <2>1, <2>2, <2>3, <2>4
<1>7. LastNum' = last - 1
  <2>1. LastNum' = Num(tailIndex - 1)
    BY DEF LastNum, IdleProd, Unentered
  <2> QED BY <1>5, <1>6, <2>1, NumNext
<1>8. PICK n \in Nat : n = Cap(Top) /\ n >= 2 /\ Oldest = n - 1
  BY <1>1, HeaderFacts, IndexFacts DEF Oldest
<1>9. \A e \in Entries : KeyOf(e)' = KeyOf(e) /\ (Valid(e)' <=> Valid(e))
  BY DEF ValueGoes, Valid
<1>10. IndexTypes'
  BY <1>1 DEF IndexTypes, TailGoes, ValueGoes, IdleProd, ProdState, Unentered
<1>11. Headers'
  <2>1. ASSUME NEW h \in 1 .. Top - 1, NEW p \in Pos(h)
        PROVE  \E a \in Int : Nr(Entry(h, p))' = Nr(Entry(h, p)) + a * Cap(h)
    <3>1. h \in DOMAIN headers
      BY <1>1, IndexFacts
    <3>2. PICK e \in Entries : e = Entry(h, p) /\ Valid(e)
      BY <1>1, <3>1 DEF Headers, Leads
    <3>3. Nr(e)' = Nr(e) /\ e = Entry(h, p)'
      BY <1>9, <3>1, <3>2 DEF Nr, TailGoes
    <3>4. Nr(Entry(h, p))' = Nr(e)
      BY <3>3 DEF Nr, KeyOf
    <3>5. Nr(e) \in Int /\ Cap(h) \in Int
      <4>1. KeyOf(e) \in Nat
        BY <1>1, <3>2, IndexFacts DEF Valid
      <4> QED BY <1>1, <3>1, <4>1, NumFacts, HeaderFacts DEF Nr
    <3>6. Nr(e) = Nr(e) + 0 * Cap(h)
      BY <3>5
    <3> QED BY <3>2, <3>4, <3>6
  <2> QED BY <1>1, <1>9, <2>1, HeadersKept DEF ValueGoes
<1>12. ASSUME NEW j \in 0 .. Oldest - 1
       PROVE  /\ KeyOf(Ago(j))' = KeyOf(Ago(j + 1))
              /\ InOrder(j)' <=> InOrder(j + 1)
  <2>1. j + 1 \in Pos(Top) /\ j \in Nat
    BY <1>8 DEF Pos
  <2>2. PICK e \in Entries : e = Ago(j + 1)
    BY <1>1, <2>1, AgoFacts
  <2>3. KeyOf(e)' = KeyOf(e) /\ e = Ago(j)'
    BY <1>3, <1>9, <2>2
  <2>4. KeyOf(Ago(j))' = KeyOf(Ago(j + 1))
    BY <2>2, <2>3 DEF KeyOf
  <2>5. last - 1 - j = last - (j + 1) /\ (j <= last - 1 <=> j + 1 <= last)
    BY <1>4
  <2> QED BY <1>4, <1>7, <2>4, <2>5 DEF InOrder
<1>13. KeyOf(x) = Key(last) /\ InOrder(0)
  <2>1. InOrder(0)
    BY <1>1, <1>4, <1>6 DEF Window
  <2>2. last - 0 = last
    OBVIOUS
  <2> QED BY <1>2, <1>4, <2>1, <2>2 DEF InOrder
<1>14. PICK o \in Pos(Top) : o = Oldest /\ o = Oldest' /\ Ago(o)' = x
  BY <1>1, <1>3, BackFacts
<1>15. KeyOf(Ago(o))' = Key(last) /\ ValueOf(Ago(o))' = Nothing
  <2>1. KeyOf(x)' = Key(last) /\ ValueOf(x)' = Nothing
    BY <1>2, <1>9, <1>13 DEF ValueGoes
  <2> QED BY <1>14, <2>1 DEF KeyOf, ValueOf
<1>16. Rewound(o)'
  <2>1. LastNum' + 1 = last
    BY <1>4, <1>7
  <2> QED BY <1>5, <1>14, <1>15, <2>1 DEF Rewound, IdleProd
<1>17. ~InOrder(o)'
  <2>1. ASSUME InOrder(o)' PROVE FALSE
    <3>1. Key(last - 1 - o) = Key(last) /\ o \in Nat
      BY <1>7, <1>8, <1>14, <1>15, <2>1 DEF InOrder, Pos
    <3>2. last - 1 - o = last
      BY <1>4, <3>1, last - 1 - o \in Int, KeyOrder
    <3> QED BY <1>4, <3>1, <3>2
  <2> QED BY <2>1
<1>18. Window'
  <2>1. \A j \in Pos(Top) : j = o \/ j \in 0 .. Oldest - 1
    BY <1>8, <1>14 DEF Pos
  <2>2. ASSUME NEW j \in Pos(Top) PROVE ~Valid(Ago(j))' \/ InOrder(j)' \/ Rewound(j)'
    <3>1. CASE j \in 0 .. Oldest - 1
      <4>1. j + 1 \in Pos(Top)
        BY <1>8, <3>1 DEF Pos
      <4>2. ~Valid(Ago(j + 1)) \/ InOrder(j + 1)
        BY <1>1, <4>1 DEF Window, Rewound
      <4> QED BY <1>12, <3>1, <4>2 DEF Valid
    <3> QED BY <1>16, <2>1, <3>1
  <2>3. ASSUME NEW j \in Pos(Top), NEW k \in Pos(Top), InOrder(j)', k <= j PROVE InOrder(k)'
    <3>1. j # o
      BY <1>17, <2>3
    <3>2. j \in 0 .. Oldest - 1 /\ k \in 0 .. Oldest - 1 /\ k + 1 \in Pos(Top) /\ j + 1 \in Pos(Top)
          /\ k + 1 <= j + 1
      BY <1>8, <2>1, <2>3, <3>1 DEF Pos
    <3>3. InOrder(k + 1)
      BY <1>1, <1>12, <2>3, <3>2 DEF Window
    <3> QED BY <1>12, <3>2, <3>3
  <2>4. ASSUME NEW e \in Entries, ~Valid(e)' PROVE ValueOf(e)' = Nothing
    BY <1>1, <1>9, <2>4 DEF Window, ValueGoes
  <2>5. LastNum' >= 0 => InOrder(0)'
    <3>1. ASSUME LastNum' >= 0 PROVE InOrder(0)'
      <4>1. 0 \in 0 .. Oldest - 1 /\ 1 \in Pos(Top) /\ last >= 1
        BY <1>4, <1>7, <1>8, <3>1 DEF Pos
      <4>2. InOrder(1)
        BY <1>1, <1>4, <4>1 DEF Enqueuing, Writing
      <4> QED BY <1>12, <4>1, <4>2
    <3> QED BY <3>1
  <2>6. Entries' = Entries
    BY DEF ValueGoes
  <2> QED BY <1>3, <2>2, <2>3, <2>4, <2>5, <2>6 DEF Window
<1>19. Enqueuing'
  BY DEF Enqueuing, IdleProd, Writing
<1> QED BY <1>10, <1>11, <1>18, <1>19 DEF IndexInv

\* What a new index leads to: the old entries from the oldest on, and new ones.
GrowsTo(n) ==
  /\ entries' \in Seq(EntryState) /\ Len(entries') = 2 * n /\ Entries' = 1 .. 2 * n
  /\ \A e \in Entries : entries'[e] = entries[e]
  /\ \A e \in n + 1 .. 2 * n : KeyOf(e)' = INVALID_BLOCK_BASE /\ ValueOf(e)' = Nothing
  /\ headers' \in Seq(HeaderState) /\ headers' # <<>> /\ Top' = Top + 1
  /\ DOMAIN headers' = 1 .. Top + 1
  /\ \A h \in DOMAIN headers : headers'[h] = headers[h]
  /\ headers'[Top + 1].capacity = 2 * n /\ headers'[Top + 1].tail = n - 1
  /\ \A k \in 0 .. 2 * n - 1 :
       headers'[Top + 1].index[k] = IF k < n THEN Ago(n - 1 - k) ELSE k + 1

\* What new_block_index() does to the headers and the entries.
LEMMA GrowDoes ==
  ASSUME ProducerAssumption, IndexTypes, Headers, NEW n \in Nat, n = Cap(Top),
         entries' = entries \o NewEntries(n),
         headers' = Append(headers,
             [capacity |-> 2 * n, tail |-> n - 1,
              index |-> [k \in 0 .. 2 * n - 1 |->
                 IF k < n THEN Newest.index[(Newest.tail + 1 + k) % n]
                 ELSE Len(entries) + 1 + k - n]])
  PROVE  GrowsTo(n)
<1> DEFINE new == NewEntries(n)
           ix == [k \in 0 .. 2 * n - 1 |->
                 IF k < n THEN Newest.index[(Newest.tail + 1 + k) % n]
                 ELSE Len(entries) + 1 + k - n]
           header == [capacity |-> 2 * n, tail |-> n - 1, index |-> ix]
<1>1. n >= 2 /\ Len(entries) = n /\ Entries = 1 .. n /\ entries \in Seq(EntryState)
  BY HeaderFacts, IndexFacts DEF Headers, IndexTypes
<1>2. /\ new \in Seq(EntryState) /\ Len(new) = n
      /\ \A k \in 1 .. n : new[k].key = INVALID_BLOCK_BASE /\ new[k].value = Nothing
  <2>1. new = [k \in 1 .. n |-> [key |-> INVALID_BLOCK_BASE, value |-> Nothing]]
    BY DEF NewEntries
  <2>2. [key |-> INVALID_BLOCK_BASE, value |-> Nothing] \in EntryState
    BY DEF EntryState
  <2> HIDE DEF new
  <2>3. new \in [1 .. n -> EntryState]
    BY <2>1, <2>2
  <2>6. DOMAIN new = 1 .. n
    BY <2>3
  <2>7. new \in Seq(EntryState)
    <3>1. \E m \in Nat : new \in [1 .. m -> EntryState]
      BY <2>3, n \in Nat
    <3> QED BY <3>1, SeqDef, Zenon
  <2>4. new \in Seq(EntryState) /\ DOMAIN new = 1 .. n
    BY <2>6, <2>7
  <2>5. Len(new) = n
    <3>1. DOMAIN new = 1 .. Len(new) /\ Len(new) \in Nat
      BY <2>7, LenProperties
    <3> QED BY <2>6, <3>1
  <2> QED BY <2>1, <2>4, <2>5
<1> HIDE DEF new
<1>3. /\ entries' \in Seq(EntryState) /\ Len(entries') = 2 * n /\ Entries' = 1 .. 2 * n
      /\ \A e \in Entries : entries'[e] = entries[e]
      /\ \A e \in n + 1 .. 2 * n : entries'[e] = new[e - n]
  <2>1. entries' = entries \o new
    BY DEF new
  <2>7. \A a, b \in Seq(EntryState) :
          /\ a \o b \in Seq(EntryState) /\ Len(a \o b) = Len(a) + Len(b)
          /\ \A e \in 1 .. Len(a) : (a \o b)[e] = a[e]
          /\ \A e \in Len(a) + 1 .. Len(a) + Len(b) : (a \o b)[e] = b[e - Len(a)]
    BY ConcatProperties
  <2>8. PICK olds : olds = entries
    OBVIOUS
  <2>9. PICK news : news = entries'
    OBVIOUS
  <2>10. olds \in Seq(EntryState) /\ new \in Seq(EntryState) /\ Len(olds) = n /\ Len(new) = n
         /\ news = olds \o new
    BY <1>1, <1>2, <2>1, <2>8, <2>9
  <2>11. /\ news \in Seq(EntryState) /\ Len(news) = n + n
         /\ \A e \in 1 .. n : news[e] = olds[e]
         /\ \A e \in n + 1 .. n + n : news[e] = new[e - n]
    <3>1. /\ olds \o new \in Seq(EntryState) /\ Len(olds \o new) = Len(olds) + Len(new)
          /\ \A e \in 1 .. Len(olds) : (olds \o new)[e] = olds[e]
          /\ \A e \in Len(olds) + 1 .. Len(olds) + Len(new) :
               (olds \o new)[e] = new[e - Len(olds)]
      BY <2>7, <2>10, Zenon
    <3>2. Len(olds) = n /\ Len(new) = n /\ news = olds \o new
      BY <2>10
    <3> QED BY <3>1, <3>2, Zenon
  <2>2. entries' \in Seq(EntryState) /\ Len(entries') = n + n
    BY <2>9, <2>11
  <2>3. n + n = 2 * n
    OBVIOUS
  <2>4. Entries' = 1 .. 2 * n
    BY <2>2, <2>3 DEF Entries
  <2>5. \A e \in 1 .. n : entries'[e] = entries[e]
    BY <2>8, <2>9, <2>11
  <2>6. \A e \in n + 1 .. n + n : entries'[e] = new[e - n]
    BY <2>9, <2>11
  <2> QED BY <1>1, <2>2, <2>3, <2>4, <2>5, <2>6
<1>4. \A e \in n + 1 .. 2 * n : KeyOf(e)' = INVALID_BLOCK_BASE /\ ValueOf(e)' = Nothing
  <2> TAKE e \in n + 1 .. 2 * n
  <2>1. e - n \in 1 .. n /\ entries'[e] = new[e - n]
    <3>1. e - n \in 1 .. n
      OBVIOUS
    <3> QED BY <1>3, <3>1
  <2> QED BY <1>2, <2>1 DEF KeyOf, ValueOf
<1>5. PICK t \in 0 .. n - 1 : t = TailOf(Top) /\ Newest.tail = t
  BY HeaderFacts, IndexFacts DEF Pos, TailOf
<1>6. ASSUME NEW k \in 0 .. n - 1 PROVE Newest.index[(Newest.tail + 1 + k) % n] = Ago(n - 1 - k)
  <2>1. /\ n - 1 - k <= t => t + 1 + k - n \in 0 .. n - 1
        /\ ~(n - 1 - k <= t) => t + 1 + k \in 0 .. n - 1
    <3>1. t \in Int /\ k \in Int /\ n \in Int
      BY <1>1
    <3> QED BY <3>1
  <2>2. PICK p \in 0 .. n - 1 : p = IF n - 1 - k <= t THEN t + 1 + k - n ELSE t + 1 + k
    <3>1. CASE n - 1 - k <= t
      BY <2>1, <3>1
    <3>2. CASE ~(n - 1 - k <= t)
      BY <2>1, <3>2
    <3> QED BY <3>1, <3>2
  <2>3. (t + 1 + k) % n = p
    <3>1. n > 0 /\ t \in Int /\ k \in Int
      BY <1>1
    <3>2. CASE n - 1 - k <= t
      <4>1. t + 1 + k = p + 1 * n
        BY <2>2, <3>1, <3>2
      <4>2. (p + 1 * n) % n = p
        BY <3>1, ModIs, 1 \in Int, Zenon
      <4> QED BY <4>1, <4>2
    <3>3. CASE ~(n - 1 - k <= t)
      <4>1. t + 1 + k = p + 0 * n
        BY <2>2, <3>1, <3>3
      <4>2. (p + 0 * n) % n = p
        BY <3>1, ModIs, 0 \in Int, Zenon
      <4> QED BY <4>1, <4>2
    <3> QED BY <3>2, <3>3
  <2>4. Back(n - 1 - k) = IF n - 1 - k <= t THEN t - (n - 1 - k) ELSE t - (n - 1 - k) + n
    BY <1>5 DEF Back
  <2>5. Back(n - 1 - k) = (t + 1 + k) % n
    <3>1. Back(n - 1 - k) = p
      BY <1>1, <1>5, <2>2, <2>4
    <3> QED BY <2>3, <3>1
  <2> QED BY <1>5, <2>5, IndexFacts DEF Ago, Entry
<1>7. \A k \in 0 .. 2 * n - 1 : ix[k] = IF k < n THEN Ago(n - 1 - k) ELSE k + 1
  <2> TAKE k \in 0 .. 2 * n - 1
  <2>1. CASE k < n
    <3>1. k \in 0 .. n - 1
      BY <2>1
    <3>2. ix[k] = Newest.index[(Newest.tail + 1 + k) % n]
      BY <2>1
    <3> QED BY <1>6, <2>1, <3>1, <3>2
  <2>2. CASE ~(k < n)
    BY <1>1, <2>2
  <2> QED BY <2>1, <2>2
<1>8. ix \in [0 .. 2 * n - 1 -> Nat]
  <2>1. \A j \in 0 .. n - 1 : Ago(j) \in 1 .. n
    BY <1>1, AgoFacts DEF Pos
  <2>2. \A k \in 0 .. 2 * n - 1 : ix[k] \in Nat
    <3> TAKE k \in 0 .. 2 * n - 1
    <3>1. k < n => n - 1 - k \in 0 .. n - 1
      BY <1>1
    <3>2. k < n => ix[k] \in Nat
      BY <1>7, <2>1, <3>1
    <3>3. ~(k < n) => ix[k] \in Nat
      BY <1>1, <1>7
    <3> QED BY <3>2, <3>3
  <2> HIDE DEF ix
  <2>3. ix = [k \in 0 .. 2 * n - 1 |-> ix[k]]
    BY DEF ix
  <2> QED BY <2>2, <2>3
<1> HIDE DEF ix
<1>9. header \in HeaderState
  <2>1. header \in HeaderOf(2 * n) /\ 2 * n \in {m \in Nat : m >= 2}
    BY <1>1, <1>8 DEF HeaderOf
  <2> QED BY <2>1 DEF HeaderState
<1>10. header.capacity = 2 * n /\ header.tail = n - 1 /\ header.index = ix
  OBVIOUS
<1> HIDE DEF header
<1>11. headers' = Append(headers, header)
  BY DEF header, ix
<1>12. headers \in Seq(HeaderState) /\ Top \in Nat /\ DOMAIN headers = 1 .. Top /\ Len(headers) = Top
  BY IndexFacts DEF IndexTypes, Top
<1>13. /\ headers' \in Seq(HeaderState) /\ headers' # <<>> /\ Len(headers') = Top + 1
       /\ DOMAIN headers' = 1 .. Top + 1 /\ headers'[Top + 1] = header
       /\ \A h \in DOMAIN headers : headers'[h] = headers[h]
  BY <1>9, <1>11, <1>12
<1>14. Top' = Top + 1
  BY <1>13 DEF Top
<1> QED BY <1>3, <1>4, <1>7, <1>10, <1>13, <1>14 DEF GrowsTo

\* A grown index leads to the old entries in their order, and to unused ones.
LEMMA GrowKeeps ==
  ASSUME ProducerAssumption, IndexInv, UNCHANGED <<headIndex, tailIndex>>,
         prod.pc = "grow", prod' \in ProdState, prod'.pc = "insertNew",
         NEW n \in Nat, n = Cap(Top), GrowsTo(n)
  PROVE  IndexInv'
<1>1. IndexTypes /\ Headers /\ Window /\ Enqueuing
  BY DEF IndexInv
<1>2. n >= 2 /\ Oldest = n - 1 /\ Pos(Top) = 0 .. n - 1 /\ Entries = 1 .. n
  BY <1>1, HeaderFacts, IndexFacts DEF Oldest, Pos, Headers
<1>3. Entries' = 1 .. 2 * n /\ \A e \in Entries : KeyOf(e)' = KeyOf(e) /\ ValueOf(e)' = ValueOf(e)
  BY DEF GrowsTo, KeyOf, ValueOf, Entries
<1>4. \A e \in n + 1 .. 2 * n : ~Valid(e)' /\ ValueOf(e)' = Nothing
  BY DEF GrowsTo, Valid
<1>5. \A e \in Entries : Valid(e)' <=> Valid(e)
  BY <1>3 DEF Valid
<1>6. IndexTypes'
  BY <1>1 DEF IndexTypes, GrowsTo
<1>7. Top \in Nat /\ Top >= 1 /\ DOMAIN headers = 1 .. Top
  BY <1>1, IndexFacts
<1>8. PICK u \in Nat : u = Top + 1 /\ u = Top'
  BY <1>7 DEF GrowsTo
<1>9. /\ Cap(u)' = 2 * n /\ TailOf(u)' = n - 1 /\ Pos(u)' = 0 .. 2 * n - 1
      /\ \A k \in 0 .. 2 * n - 1 : Entry(u, k)' = IF k < n THEN Ago(n - 1 - k) ELSE k + 1
  BY <1>8 DEF GrowsTo, Cap, TailOf, Pos, Entry
<1>10. \A h \in 1 .. Top : Cap(h)' = Cap(h) /\ Pos(h)' = Pos(h) /\ \A p : Entry(h, p)' = Entry(h, p)
  BY <1>7 DEF GrowsTo, Cap, Pos, Entry
<1>11. Cap(Top)' = 2 * n /\ Pos(Top)' = 0 .. 2 * n - 1
  BY <1>8, <1>9 DEF Pos, Cap
<1>12. \A j \in 0 .. n - 1 : Ago(j) \in 1 .. n
  BY <1>1, <1>2, AgoFacts
<1>13. \A j, k \in 0 .. n - 1 : Ago(j) = Ago(k) => j = k
  BY <1>1, <1>2, AgoFacts
<1>14. \A e \in 1 .. n : \E j \in 0 .. n - 1 : Ago(j) = e
  BY <1>1, <1>2, AgoFacts
<1>15. \A j \in 0 .. n - 1 : InOrder(j) /\ Valid(Ago(j))
  <2> TAKE j \in 0 .. n - 1
  <2>1. InOrder(j)
    <3>1. Oldest \in Pos(Top) /\ j <= Oldest /\ InOrder(Oldest)
      BY <1>1, <1>2 DEF Enqueuing
    <3> QED BY <1>1, <1>2, <3>1 DEF Window
  <2>2. PICK m \in Int : m = LastNum - j /\ m >= 0
    <3>1. LastNum \in Int
      BY <1>1, IndexFacts
    <3> QED BY <2>1, <3>1 DEF InOrder
  <2>3. KeyOf(Ago(j)) >= 0
    BY <2>1, <2>2, KeyOrder DEF InOrder
  <2> QED BY <2>1, <2>3 DEF Valid, INVALID_BLOCK_BASE
<1>16. LastNum' = LastNum
  BY DEF LastNum, Unentered
<1>17. ASSUME NEW j \in 0 .. n - 1 PROVE Ago(j)' = Ago(j) /\ (InOrder(j)' <=> InOrder(j))
  <2>1. Back(j)' = n - 1 - j
    BY <1>2, <1>8, <1>9 DEF Back, TailOf
  <2>2. PICK k \in 0 .. 2 * n - 1 : k = n - 1 - j /\ k < n /\ n - 1 - k = j
    BY <1>2
  <2>3. Ago(j)' = Entry(u, k)'
    BY <1>8, <2>1, <2>2 DEF Ago, Entry
  <2>4. Entry(u, k)' = Ago(n - 1 - k)
    BY <1>9, <2>2
  <2>5. Ago(j)' = Ago(j)
    BY <2>2, <2>3, <2>4
  <2>6. PICK e \in Entries : e = Ago(j)
    BY <1>2, <1>12
  <2>7. KeyOf(e)' = KeyOf(e)
    BY <1>3
  <2>8. KeyOf(Ago(j))' = KeyOf(Ago(j))
    BY <2>5, <2>6, <2>7 DEF KeyOf
  <2> QED BY <1>16, <2>5, <2>8 DEF InOrder
<1>18. ASSUME NEW j \in n .. 2 * n - 1 PROVE Ago(j)' = 3 * n - j /\ ~Valid(Ago(j))'
  <2>1. Back(j)' = n - 1 - j + 2 * n
    BY <1>2, <1>8, <1>9 DEF Back, TailOf, Cap
  <2>2. PICK k \in 0 .. 2 * n - 1 : k = n - 1 - j + 2 * n /\ ~(k < n) /\ k + 1 = 3 * n - j
    <3>1. PICK k \in 0 .. 2 * n - 1 : k = n - 1 - j + 2 * n
      BY <1>2
    <3>2. ~(k < n) /\ k + 1 = 3 * n - j
      BY <1>2, <3>1
    <3> QED BY <3>1, <3>2, Zenon
  <2>3. Ago(j)' = Entry(u, k)'
    BY <1>8, <2>1, <2>2 DEF Ago, Entry
  <2>4. Entry(u, k)' = k + 1
    BY <1>9, <2>2
  <2>5. PICK e \in n + 1 .. 2 * n : e = 3 * n - j
    BY <1>2
  <2>6. Ago(j)' = e
    BY <2>2, <2>3, <2>4, <2>5
  <2>7. ~Valid(e)'
    BY <1>4
  <2> QED BY <2>5, <2>6, <2>7 DEF Valid, KeyOf
<1>19. ASSUME NEW h \in 1 .. Top PROVE Leads(h)'
  <2>1. Leads(h)
    BY <1>1, <1>7 DEF Headers
  <2>2. \A p \in Pos(h) : Entry(h, p) \in Entries'
    BY <1>2, <1>3, <2>1 DEF Leads
  <2>3. \A p, q \in Pos(h) : Entry(h, p) = Entry(h, q) => p = q
    BY <2>1 DEF Leads
  <2>4. \E k \in Nat : Cap(Top)' = k * Cap(h)
    <3>1. PICK c \in Nat : c = Cap(h)
      BY <1>1, <1>7, HeaderFacts
    <3>2. PICK k \in Nat : n = k * c
      BY <2>1, <3>1 DEF Leads
    <3>3. 2 * n = (2 * k) * c /\ 2 * k \in Nat
      BY <3>2
    <3> QED BY <1>11, <3>1, <3>3
  <2>5. Cap(h)' = Cap(h) /\ Pos(h)' = Pos(h) /\ \A p : Entry(h, p)' = Entry(h, p)
    BY <1>10
  <2> QED BY <2>2, <2>3, <2>4, <2>5 DEF Leads
<1>20. Leads(u)'
  <2>1. ASSUME NEW p \in 0 .. 2 * n - 1 PROVE Entry(u, p)' \in 1 .. 2 * n
    <3>1. CASE p < n
      <4>1. n - 1 - p \in 0 .. n - 1
        BY <3>1
      <4>2. Ago(n - 1 - p) \in 1 .. n
        BY <1>12, <4>1
      <4> QED BY <1>9, <3>1, <4>2
    <3>2. CASE ~(p < n)
      BY <1>9, <3>2
    <3> QED BY <3>1, <3>2
  <2>2. ASSUME NEW p \in 0 .. 2 * n - 1, NEW q \in 0 .. 2 * n - 1, Entry(u, p)' = Entry(u, q)'
        PROVE  p = q
    <3>1. p < n => n - 1 - p \in 0 .. n - 1
      OBVIOUS
    <3>2. q < n => n - 1 - q \in 0 .. n - 1
      OBVIOUS
    <3>3. p < n => Entry(u, p)' = Ago(n - 1 - p) /\ Entry(u, p)' \in 1 .. n
      BY <1>9, <1>12, <3>1
    <3>4. q < n => Entry(u, q)' = Ago(n - 1 - q) /\ Entry(u, q)' \in 1 .. n
      BY <1>9, <1>12, <3>2
    <3>5. ~(p < n) => Entry(u, p)' = p + 1
      BY <1>9
    <3>6. ~(q < n) => Entry(u, q)' = q + 1
      BY <1>9
    <3>7. p < n /\ q < n => n - 1 - p = n - 1 - q
      BY <1>13, <2>2, <3>1, <3>2, <3>3, <3>4
    <3> QED BY <2>2, <3>3, <3>4, <3>5, <3>6, <3>7
  <2>3. \E k \in Nat : Cap(Top)' = k * Cap(u)'
    <3>1. 2 * n = 1 * (2 * n)
      OBVIOUS
    <3> QED BY <1>9, <1>11, <3>1
  <2> QED BY <1>3, <1>9, <2>1, <2>2, <2>3 DEF Leads
<1>21. ASSUME NEW h \in 1 .. Top PROVE Aligned(h)' /\ (\A p \in Pos(h) : Valid(Entry(h, p)))'
  <2>1. \A p \in Pos(h) : Entry(h, p) \in Entries
    BY <1>1, <1>7 DEF Headers, Leads
  <2>2. Aligned(h) /\ \A p \in Pos(h) : Valid(Entry(h, p))
    <3>1. CASE h = Top
      <4>1. Aligned(Top)
        BY <1>1, TopAligned
      <4>2. \A e \in Entries : Valid(e)
        BY <1>2, <1>14, <1>15
      <4> QED BY <2>1, <3>1, <4>1, <4>2
    <3>2. CASE h # Top
      BY <1>1, <1>7, <3>2 DEF Headers
    <3> QED BY <3>1, <3>2
  <2>3. Cap(h)' = Cap(h) /\ Pos(h)' = Pos(h) /\ \A p : Entry(h, p)' = Entry(h, p)
    BY <1>10
  <2>4. ASSUME NEW p \in Pos(h)
        PROVE  Nr(Entry(h, p))' = Nr(Entry(h, p)) /\ (Valid(Entry(h, p))' <=> Valid(Entry(h, p)))
    <3>1. PICK e \in Entries : e = Entry(h, p)
      BY <2>1
    <3>2. KeyOf(e)' = KeyOf(e) /\ e = Entry(h, p)'
      BY <1>3, <2>3, <3>1
    <3>3. KeyOf(Entry(h, p))' = KeyOf(Entry(h, p))
      BY <3>1, <3>2 DEF KeyOf
    <3> QED BY <3>3 DEF Nr, Valid
  <2>5. \A p, q \in Pos(h) : Apart(h, p, q)
    BY <2>2 DEF Aligned
  <2>6. \A p, q \in Pos(h) : Apart(h, p, q)'
    BY <2>3, <2>4, <2>5 DEF Apart
  <2>7. Aligned(h)'
    BY <2>3, <2>6 DEF Aligned
  <2>8. \A p \in Pos(h) : Valid(Entry(h, p))'
    BY <2>2, <2>4
  <2> QED BY <2>3, <2>7, <2>8
<1>22. Headers'
  <2>1. DOMAIN headers' = 1 .. Top + 1 /\ Len(entries') = 2 * n
    BY DEF GrowsTo
  <2>2. (\A h \in DOMAIN headers : Leads(h))'
    <3>1. \A h \in 1 .. Top + 1 : h = u \/ h \in 1 .. Top
      BY <1>7, <1>8
    <3>2. \A h \in 1 .. Top + 1 : Leads(h)'
      BY <1>19, <1>20, <3>1
    <3> QED BY <2>1, <3>2
  <2>3. (\A h \in 1 .. Top - 1 : Aligned(h) /\ \A p \in Pos(h) : Valid(Entry(h, p)))'
    <3>1. u - 1 = Top
      BY <1>7, <1>8
    <3>2. \A h \in 1 .. u - 1 : Aligned(h)' /\ (\A p \in Pos(h) : Valid(Entry(h, p)))'
      BY <1>21, <3>1
    <3> QED BY <1>8, <3>2
  <2>4. ASSUME NEW e \in 1 .. 2 * n PROVE \E p \in 0 .. 2 * n - 1 : Entry(u, p)' = e
    <3>1. CASE e \in 1 .. n
      <4>1. PICK j \in 0 .. n - 1 : Ago(j) = e
        BY <1>14, <3>1
      <4>2. PICK p \in 0 .. 2 * n - 1 : p = n - 1 - j /\ p < n /\ n - 1 - p = j
        BY <1>2
      <4>3. Entry(u, p)' = Ago(n - 1 - p)
        BY <1>9, <4>2
      <4> QED BY <4>1, <4>2, <4>3
    <3>2. CASE e \in n + 1 .. 2 * n
      <4>1. PICK p \in 0 .. 2 * n - 1 : p = e - 1 /\ ~(p < n) /\ p + 1 = e
        BY <3>2
      <4>2. Entry(u, p)' = p + 1
        BY <1>9, <4>1
      <4> QED BY <4>1, <4>2
    <3> QED BY <3>1, <3>2
  <2>5. (\A e \in Entries : \E p \in Pos(Top) : Entry(Top, p) = e)'
    <3>1. \A p : Entry(Top, p)' = Entry(u, p)'
      BY <1>8 DEF Entry
    <3> QED BY <1>3, <1>11, <2>4, <3>1
  <2> QED BY <1>11, <2>1, <2>2, <2>3, <2>5 DEF Headers
<1>23. Window'
  <2>1. \A j \in 0 .. 2 * n - 1 : j \in 0 .. n - 1 \/ j \in n .. 2 * n - 1
    BY <1>2
  <2>2. \A j \in 0 .. n - 1 : InOrder(j)'
    BY <1>15, <1>17
  <2>3. \A j \in n .. 2 * n - 1 : ~Valid(Ago(j))' /\ ~InOrder(j)'
    <3> TAKE j \in n .. 2 * n - 1
    <3>1. ~Valid(Ago(j))'
      BY <1>18
    <3>2. ASSUME InOrder(j)' PROVE FALSE
      <4>1. KeyOf(Ago(j))' = Key(LastNum - j) /\ j <= LastNum
        BY <1>16, <3>2 DEF InOrder
      <4>2. PICK m \in Int : m = LastNum - j /\ m >= 0
        <5>1. LastNum \in Int
          BY <1>1, IndexFacts
        <5> QED BY <4>1, <5>1
      <4>3. Key(m) \in Int /\ Key(m) >= 0
        BY <4>2, KeyOrder
      <4> QED BY <3>1, <4>1, <4>2, <4>3 DEF Valid, INVALID_BLOCK_BASE
    <3> QED BY <3>1, <3>2
  <2>4. \A j \in Pos(Top)' : ~Valid(Ago(j))' \/ InOrder(j)'
    BY <1>11, <2>1, <2>2, <2>3
  <2>5. \A j, k \in Pos(Top)' : InOrder(j)' /\ k <= j => InOrder(k)'
    <3> TAKE j, k \in Pos(Top)'
    <3>1. HAVE InOrder(j)' /\ k <= j
    <3>2. j \in 0 .. n - 1 /\ k \in 0 .. n - 1
      BY <1>2, <1>11, <2>1, <2>3, <3>1
    <3> QED BY <2>2, <3>2
  <2>6. InOrder(0)'
    BY <1>2, <2>2
  <2>7. \A e \in Entries' : ~Valid(e)' => ValueOf(e)' = Nothing
    <3> TAKE e \in Entries'
    <3>1. e \in Entries \/ e \in n + 1 .. 2 * n
      BY <1>2, <1>3
    <3>2. CASE e \in Entries
      BY <1>1, <1>3, <1>5, <3>2 DEF Window
    <3> QED BY <1>4, <3>1, <3>2
  <2> QED BY <2>4, <2>5, <2>6, <2>7 DEF Window
<1>24. Enqueuing'
  <2>1. Slot(tailIndex)' = 0
    BY <1>1 DEF Enqueuing
  <2>2. ~Valid(Ago(Oldest))'
    <3>1. PICK o \in n .. 2 * n - 1 : o = 2 * n - 1
      BY <1>2
    <3>2. Oldest' = o
      BY <1>11, <3>1 DEF Oldest
    <3>3. ~Valid(Ago(o))'
      BY <1>18
    <3>4. Ago(Oldest)' = Ago(o)'
      BY <3>2 DEF Ago, Back
    <3> QED BY <3>3, <3>4 DEF Valid, KeyOf
  <2> QED BY <2>1, <2>2 DEF Enqueuing, Writing
<1> QED BY <1>6, <1>22, <1>23, <1>24 DEF IndexInv

-----------------------------------------------------------------------------
(* The blocks. *)

Elem(b, s) == blocks[b].elements[s]
Deq(b) == blocks[b].dequeued

\* A block is in an entry of the index, in a pool, or with the thread that took it from
\* one or is about to return it.
Has(e, b) == e \in Entries /\ ValueOf(e) = b
Held(k, x, b) ==
  \/ k = "index" /\ Has(x, b)
  \/ k = "pool" /\ x = 0 /\ initialBlockPoolIndex < b /\ b <= initialBlockPoolSize
  \/ k = "prod" /\ x = 0 /\ prod.pc \in {"construct", "rewind"} /\ prod.block = b
  \/ k = "cons" /\ x \in Consumers /\ cons[x].pc = "free" /\ cons[x].block = b
  \/ k = "list" /\ x = 0 /\ b \in freeList

\* What consumers are at: a message, or a block that may be empty.
Loading == {"loadIndex", "loadIndexTail", "loadBase", "read"}
Loads(c, i) == cons[c].pc \in Loading /\ cons[c].index = i
Empties(c, e) == cons[c].pc = "setEmpty" /\ cons[c].entry = e
Unindexes(c, e) == cons[c].pc = "unindex" /\ cons[c].entry = e

BlockState == [elements : [0 .. BLOCK_SIZE - 1 -> Nat \cup {Nothing}], dequeued : Nat]
BlockTypes ==
  /\ blocks \in Seq(BlockState) /\ initialBlockPoolIndex \in Nat
  /\ tailBlock \in Nat \cup {Nothing} /\ freeList \subseteq Nat
  /\ DOMAIN cons = Consumers /\ \A c \in Consumers : DOMAIN cons[c] = DOMAIN IdleCons
  /\ prod.pc \in Unentered \cup {"requisition"} => prod.block = Nothing
  /\ prod.pc = "construct" => prod.block \in Nat

\* No block is in two places.
OneHolder ==
  /\ \A b \in Nat : \A k, x, l, y : Held(k, x, b) /\ Held(l, y, b) => k = l /\ x = y
  /\ \A b \in Nat : \A k, x : Held(k, x, b) => b \in DOMAIN blocks

\* The messages not yet taken out of their blocks, each of which is in the block that the
\* entry with its key has.
Sent(i) == headIndex <= i /\ (i < tailIndex \/ (i = tailIndex /\ prod.pc = "publish"))
Pending(i) == Sent(i) \/ \E c \in Consumers : Loads(c, i)
Stored(i) == \E e \in Entries, b \in Nat :
  Has(e, b) /\ KeyOf(e) = Key(Num(i)) /\ Elem(b, Slot(i)) = i
Kept == \A i \in Nat : Pending(i) => Stored(i)

\* A block that is not full yet is in the index.
TailKept ==
  Slot(tailIndex) # 0 \/ prod.pc = "publish" =>
    tailBlock \in Nat /\ \E e \in Entries : Has(e, tailBlock) /\ KeyOf(e) = Key(TailNum)

\* The consumers that took a message from a block, and are not done with it.
Inside(e) == {c \in Consumers : \/ \E i \in Nat : Loads(c, i) /\ Key(Num(i)) = KeyOf(e)
                                \/ Empties(c, e)}
Taken(k) == IF headIndex <= k THEN 0
            ELSE IF headIndex >= k + BLOCK_SIZE THEN BLOCK_SIZE ELSE headIndex - k
Counted == \A e \in Entries, b \in Nat :
  Has(e, b) => Deq(b) + Cardinality(Inside(e)) = Taken(KeyOf(e))

Knows(c) ==
  /\ cons[c].pc \in Loading => cons[c].index \in Nat /\ cons[c].index < headIndex
  /\ cons[c].pc \in {"loadIndexTail", "loadBase"} =>
       /\ cons[c].header \in DOMAIN headers
       /\ \E p \in Pos(cons[c].header) : KeyOf(Entry(cons[c].header, p)) = Key(Num(cons[c].index))
  /\ cons[c].pc = "loadBase" => /\ cons[c].indexTail \in Pos(cons[c].header)
                                /\ Valid(Entry(cons[c].header, cons[c].indexTail))
  /\ cons[c].pc = "read" => /\ cons[c].entry \in Entries
                            /\ KeyOf(cons[c].entry) = Key(Num(cons[c].index))
  /\ cons[c].pc \in {"setEmpty", "unindex"} =>
       cons[c].block \in Nat /\ Has(cons[c].entry, cons[c].block)
  /\ cons[c].pc = "unindex" => Deq(cons[c].block) = BLOCK_SIZE
  /\ cons[c].pc = "free" => cons[c].block \in Nat

Distinct == \A c, d \in Consumers : c # d =>
  \A x : ~(Loads(c, x) /\ Loads(d, x)) /\ ~(Unindexes(c, x) /\ Unindexes(d, x))

BlockInv == /\ BlockTypes /\ OneHolder /\ Kept /\ TailKept /\ Counted
            /\ (\A c \in Consumers : Knows(c)) /\ Distinct

-----------------------------------------------------------------------------
(* What steps leave alone. *)

\* The headers keep their entries, and the entries that have a block their key.
Gentle ==
  /\ DOMAIN headers \subseteq DOMAIN headers'
  /\ \A h \in DOMAIN headers : Pos(h)' = Pos(h) /\ \A p : Entry(h, p)' = Entry(h, p)
  /\ \A e \in Entries : /\ e \in Entries' /\ (Valid(e) => Valid(e)')
                        /\ ValueOf(e) \in Nat => KeyOf(e)' = KeyOf(e)

SameValues == \A b \in Nat : \A e : Has(e, b)' <=> Has(e, b)

\* A consumer's work stays.
SameWork(c) ==
  /\ \A i : Loads(c, i)' <=> Loads(c, i)
  /\ \A e : (Empties(c, e)' <=> Empties(c, e)) /\ (Unindexes(c, e)' <=> Unindexes(c, e))

\* A consumer that does not move keeps its work.
LEMMA SameTurn ==
  ASSUME NEW c, cons'[c] = cons[c]
  PROVE  SameWork(c)
BY DEF SameWork, Loads, Empties, Unindexes

\* Nothing is taken out of a block, or put in one.
LEMMA QuietKeeps ==
  ASSUME ProducerAssumption, Gentle, SameValues,
         \A b \in Nat : \A e : Has(e, b) => blocks'[b] = blocks[b],
         headIndex' = headIndex, \A i \in Nat : Sent(i)' <=> Sent(i),
         \A c \in Consumers : SameWork(c),
         Kept, Counted, Distinct
  PROVE  Kept' /\ Counted' /\ Distinct'
<1>1. \A e \in Entries, b \in Nat : Has(e, b) => /\ e \in Entries' /\ Has(e, b)' /\ KeyOf(e)' = KeyOf(e)
                                                 /\ blocks'[b] = blocks[b]
  BY DEF Gentle, SameValues, Has
<1>2. \A i \in Nat : Pending(i)' <=> Pending(i)
  BY DEF Pending, SameWork
<1>3. Kept'
  <2> SUFFICES ASSUME NEW i \in Nat, Pending(i) PROVE Stored(i)'
    BY <1>2 DEF Kept
  <2>1. PICK e \in Entries, b \in Nat :
          Has(e, b) /\ KeyOf(e) = Key(Num(i)) /\ Elem(b, Slot(i)) = i
    BY DEF Kept, Stored
  <2>2. e \in Entries' /\ Has(e, b)' /\ KeyOf(e)' = Key(Num(i)) /\ Elem(b, Slot(i))' = i
    BY <1>1, <2>1 DEF Elem
  <2> QED BY <2>2 DEF Stored
<1>4. Counted'
  <2> SUFFICES ASSUME NEW e \in Entries', NEW b \in Nat, Has(e, b)'
               PROVE  Deq(b)' + Cardinality(Inside(e)') = Taken(KeyOf(e))'
    BY DEF Counted
  <2>1. e \in Entries /\ Has(e, b) /\ KeyOf(e)' = KeyOf(e) /\ Deq(b)' = Deq(b)
    BY <1>1 DEF SameValues, Has, Deq
  <2>2. Inside(e)' = Inside(e)
    BY <2>1 DEF Inside, SameWork
  <2>3. PICK k : k = KeyOf(e) /\ k = KeyOf(e)'
    BY <2>1
  <2>4. Taken(KeyOf(e))' = Taken(KeyOf(e))
    BY <2>3 DEF Taken
  <2> QED BY <2>1, <2>2, <2>4 DEF Counted
<1>5. Distinct'
  <2> SUFFICES ASSUME NEW c \in Consumers, NEW d \in Consumers, c # d
               PROVE  \A x : ~(Loads(c, x) /\ Loads(d, x))' /\ ~(Unindexes(c, x) /\ Unindexes(d, x))'
    BY DEF Distinct
  <2> QED BY DEF Distinct, SameWork
<1> QED BY <1>3, <1>4, <1>5

\* What an entry's key says of an index is not changed while its message is pending.
LEMMA EntryKept ==
  ASSUME ProducerAssumption, IndexTypes, Headers, Window, Kept,
         NEW i \in Nat, Pending(i), NEW e \in Entries, KeyOf(e) = Key(Num(i))
  PROVE  \E b \in Nat : Has(e, b) /\ Elem(b, Slot(i)) = i
<1>1. PICK f \in Entries, b \in Nat : Has(f, b) /\ KeyOf(f) = Key(Num(i)) /\ Elem(b, Slot(i)) = i
  BY DEF Kept, Stored
<1>2. Valid(f)
  <2>1. ValueOf(f) # Nothing
    BY <1>1 DEF Has, ProducerAssumption
  <2> QED BY <2>1 DEF Window
<1>3. f = e
  BY <1>1, <1>2, KeysDiffer
<1> QED BY <1>1, <1>3

\* A consumer that does not move still knows what it knew.
LEMMA StillKnows ==
  ASSUME ProducerAssumption, IndexTypes, Headers, Window, Kept, Gentle,
         NEW c \in Consumers, Knows(c), cons'[c] = cons[c],
         headIndex' \in Nat, headIndex' >= headIndex,
         \A b \in Nat : \A e : (Empties(c, e) \/ Unindexes(c, e)) /\ Has(e, b) => Has(e, b)',
         \A b \in Nat : \A e : Unindexes(c, e) /\ Has(e, b) => Deq(b)' = Deq(b)
  PROVE  Knows(c)'
<1>1. cons[c].pc \in Loading => cons[c].index \in Nat /\ cons[c].index < headIndex'
  BY DEF Knows, IndexTypes
<1>2. ASSUME cons[c].pc \in Loading PROVE Pending(cons[c].index)
  BY <1>2 DEF Pending, Loads
<1>3. ASSUME cons[c].pc \in Loading, NEW e \in Entries, KeyOf(e) = Key(Num(cons[c].index))
      PROVE  KeyOf(e)' = KeyOf(e)
  <2>1. PICK i \in Nat : i = cons[c].index
    BY <1>3 DEF Knows
  <2>2. \E b \in Nat : Has(e, b)
    BY <1>2, <1>3, <2>1, EntryKept
  <2> QED BY <2>2 DEF Has, Gentle
<1>4. ASSUME cons[c].pc \in {"loadIndexTail", "loadBase"}
      PROVE  /\ cons[c].header \in DOMAIN headers'
             /\ (\E p \in Pos(cons[c].header) :
                  KeyOf(Entry(cons[c].header, p)) = Key(Num(cons[c].index)))'
  <2>1. PICK h \in DOMAIN headers : h = cons[c].header
    BY <1>4 DEF Knows
  <2>2. PICK p \in Pos(h) : KeyOf(Entry(h, p)) = Key(Num(cons[c].index))
    BY <1>4, <2>1 DEF Knows
  <2>3. PICK e \in Entries : e = Entry(h, p)
    BY DEF Headers, Leads
  <2>4. KeyOf(e)' = Key(Num(cons[c].index)) /\ e = Entry(h, p)'
    BY <1>3, <1>4, <2>2, <2>3 DEF Gentle, Loading
  <2>5. h \in DOMAIN headers' /\ p \in Pos(h)'
    BY DEF Gentle
  <2>6. KeyOf(Entry(h, p))' = Key(Num(cons[c].index))
    BY <2>4 DEF KeyOf
  <2>7. h = cons'[c].header /\ cons'[c].index = cons[c].index
    BY <2>1
  <2> QED BY <2>1, <2>5, <2>6, <2>7 DEF Pos, Cap, Entry
<1>5. ASSUME cons[c].pc = "loadBase"
      PROVE  (/\ cons[c].indexTail \in Pos(cons[c].header)
              /\ Valid(Entry(cons[c].header, cons[c].indexTail)))'
  <2>1. PICK h \in DOMAIN headers : h = cons[c].header /\ h = cons'[c].header
    BY <1>5 DEF Knows
  <2>2. PICK q \in Pos(h) : q = cons[c].indexTail /\ q = cons'[c].indexTail /\ Valid(Entry(h, q))
    BY <1>5, <2>1 DEF Knows
  <2>3. PICK e \in Entries : e = Entry(h, q)
    BY DEF Headers, Leads
  <2>4. e = Entry(h, q)' /\ Valid(e)' /\ q \in Pos(h)'
    BY <2>2, <2>3 DEF Gentle
  <2>5. Valid(Entry(h, q))'
    BY <2>4 DEF Valid, KeyOf
  <2> QED BY <2>1, <2>2, <2>4, <2>5 DEF Pos, Cap, Entry, Valid, KeyOf
<1>6. ASSUME cons[c].pc = "read"
      PROVE  cons[c].entry \in Entries' /\ KeyOf(cons[c].entry)' = Key(Num(cons[c].index))
  <2>1. PICK e \in Entries : e = cons[c].entry /\ e = cons'[c].entry /\ KeyOf(e) = Key(Num(cons[c].index))
    BY <1>6 DEF Knows
  <2>2. KeyOf(e)' = KeyOf(e) /\ e \in Entries'
    BY <1>3, <1>6, <2>1 DEF Gentle, Loading
  <2> QED BY <2>1, <2>2 DEF KeyOf
<1>7. ASSUME cons[c].pc \in {"setEmpty", "unindex"}
      PROVE  (cons[c].block \in Nat /\ Has(cons[c].entry, cons[c].block))'
  <2>1. PICK e : e = cons[c].entry
    OBVIOUS
  <2>2. PICK b \in Nat : b = cons[c].block /\ Has(e, b)
    BY <1>7, <2>1 DEF Knows
  <2>3. Empties(c, e) \/ Unindexes(c, e)
    BY <1>7, <2>1 DEF Empties, Unindexes
  <2>4. Has(e, b)'
    BY <2>2, <2>3
  <2> QED BY <2>1, <2>2, <2>4 DEF Has, Entries, ValueOf
<1>8. ASSUME cons[c].pc = "unindex"
      PROVE  (Deq(cons[c].block) = BLOCK_SIZE)'
  <2>1. PICK e : e = cons[c].entry
    OBVIOUS
  <2>2. PICK b \in Nat : b = cons[c].block /\ Has(e, b)
    BY <1>8, <2>1 DEF Knows
  <2>3. Deq(b)' = Deq(b) /\ Deq(b) = BLOCK_SIZE
    BY <1>8, <2>1, <2>2 DEF Knows, Unindexes
  <2> QED BY <2>2, <2>3 DEF Deq
<1>9. cons[c].pc = "free" => cons[c].block \in Nat
  BY DEF Knows
<1> QED BY <1>1, <1>4, <1>5, <1>6, <1>7, <1>8, <1>9 DEF Knows

\* A step away from the index changes no entry.
LEMMA StillGentle ==
  ASSUME headers' = headers, entries' = entries
  PROVE  Gentle /\ SameValues
BY DEF Gentle, SameValues, Has, Entries, ValueOf, KeyOf, Valid, Pos, Cap, Entry

\* A block that no step moves has its one holder still.
LEMMA HoldersStay ==
  ASSUME OneHolder, \A b \in Nat : \A k, x : Held(k, x, b)' => Held(k, x, b),
         DOMAIN blocks \subseteq DOMAIN blocks'
  PROVE  OneHolder'
BY DEF OneHolder

\* A block in the index exists, and is in one entry.
LEMMA IndexHolds ==
  ASSUME OneHolder, NEW b \in Nat, NEW e, Has(e, b)
  PROVE  b \in DOMAIN blocks /\ (\A f : Has(f, b) => f = e)
BY DEF OneHolder, Held

\* A block that moves is where it moves to, and nowhere else.
LEMMA BlockMoves ==
  ASSUME OneHolder, NEW b0 \in Nat, NEW k0, NEW x0,
         \A b \in Nat : \A k, x :
           Held(k, x, b)' => Held(k, x, b) \/ (b = b0 /\ k = k0 /\ x = x0),
         \A k, x : Held(k, x, b0)' => k = k0 /\ x = x0,
         DOMAIN blocks \subseteq DOMAIN blocks', b0 \in DOMAIN blocks'
  PROVE  OneHolder'
<1>1. ASSUME NEW b \in Nat, NEW k, NEW x, NEW l, NEW y, Held(k, x, b)', Held(l, y, b)'
      PROVE  k = l /\ x = y
  <2>1. CASE b = b0
    BY <1>1, <2>1
  <2>2. CASE b # b0
    BY <1>1, <2>2 DEF OneHolder
  <2> QED BY <2>1, <2>2
<1>2. ASSUME NEW b \in Nat, NEW k, NEW x, Held(k, x, b)'
      PROVE  b \in DOMAIN blocks'
  BY <1>2 DEF OneHolder
<1> QED BY <1>1, <1>2 DEF OneHolder

-----------------------------------------------------------------------------
(* The steps of the consumers. *)

\* A step of one consumer leaves the work of the others.
LEMMA ConsTurn ==
  ASSUME BlockTypes, NEW c \in Consumers, NEW s, Goes(c, s)
  PROVE  /\ DOMAIN cons' = Consumers /\ cons'[c] = s
         /\ \A d \in Consumers : d # c => cons'[d] = cons[d]
         /\ \A d \in Consumers : d # c => SameWork(d)
<1>1. /\ DOMAIN cons' = Consumers /\ cons'[c] = s
      /\ \A d \in Consumers : d # c => cons'[d] = cons[d]
  BY DEF BlockTypes, Goes
<1>2. \A d \in Consumers : d # c => SameWork(d)
  BY <1>1, SameTurn
<1> QED BY <1>1, <1>2

\* Where no block and no entry changes.
CalmStep == UNCHANGED <<headIndex, memory, prodVars>>

\* What a step away from blocks and entries leaves.
LEMMA CalmFacts ==
  ASSUME CalmStep
  PROVE  /\ headers' = headers /\ entries' = entries /\ blocks' = blocks /\ headIndex' = headIndex
         /\ tailIndex' = tailIndex /\ prod' = prod /\ tailBlock' = tailBlock
         /\ freeList' = freeList /\ initialBlockPoolIndex' = initialBlockPoolIndex
         /\ Gentle /\ SameValues /\ (\A i : Sent(i)' <=> Sent(i))
<1>1. /\ headers' = headers /\ entries' = entries /\ blocks' = blocks /\ headIndex' = headIndex
      /\ tailIndex' = tailIndex /\ prod' = prod /\ tailBlock' = tailBlock
      /\ freeList' = freeList /\ initialBlockPoolIndex' = initialBlockPoolIndex
  BY DEF CalmStep, memory, prodVars
<1> QED BY <1>1, StillGentle DEF Sent

\* It keeps the invariant, if the consumer that takes it knows what it has to.
LEMMA CalmKeeps ==
  ASSUME ProducerAssumption, IndexInv, BlockInv, CalmStep,
         NEW c \in Consumers, NEW s, Goes(c, s), DOMAIN s = DOMAIN IdleCons,
         SameWork(c), cons[c].pc # "free", s.pc # "free", Knows(c)'
  PROVE  BlockInv'
<1>1. BlockTypes /\ IndexTypes /\ Headers /\ Window /\ Kept /\ Counted /\ Distinct /\ OneHolder
  BY DEF BlockInv, IndexInv
<1>2. /\ DOMAIN cons' = Consumers /\ cons'[c] = s
      /\ \A d \in Consumers : d # c => cons'[d] = cons[d]
      /\ \A d \in Consumers : SameWork(d)
  BY <1>1, ConsTurn
<1>3. BlockTypes'
  BY <1>1, <1>2, CalmFacts DEF BlockTypes
<1>4. Kept' /\ Counted' /\ Distinct'
  BY <1>1, <1>2, CalmFacts, QuietKeeps
<1>5. \A d \in Consumers : Knows(d)'
  <2> TAKE d \in Consumers
  <2>1. CASE d # c
    <3>1. headIndex' \in Nat /\ headIndex' >= headIndex
      BY <1>1, CalmFacts DEF IndexTypes
    <3>2. \A b \in Nat : \A e : Has(e, b) => Has(e, b)'
      BY CalmFacts DEF SameValues
    <3>3. \A b : Deq(b)' = Deq(b)
      BY CalmFacts DEF Deq
    <3>4. Knows(d)
      BY DEF BlockInv
    <3> QED BY <1>1, <1>2, <2>1, <3>1, <3>2, <3>3, <3>4, CalmFacts, StillKnows
  <2> QED BY <2>1
<1>6. TailKept'
  BY CalmFacts DEF BlockInv, TailKept, TailNum, Has, Entries, ValueOf, KeyOf
<1>7. OneHolder'
  <2>1. \A b \in Nat : \A e : Has(e, b)' => Has(e, b)
    BY CalmFacts DEF SameValues
  <2>2. \A x \in Consumers : cons'[x].pc = "free" => cons[x] = cons'[x]
    BY <1>2
  <2>3. \A b \in Nat : \A k, x : Held(k, x, b)' => Held(k, x, b)
    BY <2>1, <2>2, CalmFacts DEF Held
  <2> QED BY <1>1, <2>3, CalmFacts, HoldersStay
<1> QED BY <1>3, <1>4, <1>5, <1>6, <1>7 DEF BlockInv

\* Before a consumer has an index.
Early == {"idle", "loadOvercommit", "test", "claim", "retest", "release", "take"}

\* So does any such step of a consumer that has no index yet.
LEMMA EarlyKeeps ==
  ASSUME ProducerAssumption, IndexInv, BlockInv, CalmStep,
         NEW c \in Consumers, NEW s, Goes(c, s), DOMAIN s = DOMAIN IdleCons,
         cons[c].pc \in Early, s.pc \in Early
  PROVE  BlockInv'
<1>1. cons'[c] = s
  BY ConsTurn DEF BlockInv
<1>2. SameWork(c)
  BY <1>1 DEF SameWork, Loads, Empties, Unindexes, Early, Loading
<1>3. Knows(c)'
  BY <1>1 DEF Knows, Early, Loading
<1> QED BY <1>2, <1>3, CalmKeeps DEF Early

\* The newest header leads to the entry of every message that is pending.
LEMMA LoadIndexKeeps ==
  ASSUME ProducerAssumption, IndexInv, BlockInv, NEW c \in Consumers, LoadIndex(c)
  PROVE  BlockInv'
<1> DEFINE s == [cons[c] EXCEPT !.pc = "loadIndexTail", !.header = Len(headers)]
<1>1. BlockTypes /\ IndexTypes /\ Headers /\ Window /\ Kept
  BY DEF BlockInv, IndexInv
<1>2. cons[c].pc = "loadIndex" /\ Goes(c, s) /\ CalmStep
  BY DEF LoadIndex, At, CalmStep
<1>3. DOMAIN s = DOMAIN IdleCons /\ s.pc = "loadIndexTail" /\ s.header = Top /\ s.index = cons[c].index
  BY <1>1 DEF BlockTypes, IdleCons, Top
<1> HIDE DEF s
<1>4. cons'[c] = s
  BY <1>1, <1>2, ConsTurn
<1>5. SameWork(c)
  BY <1>2, <1>3, <1>4 DEF SameWork, Loads, Empties, Unindexes, Loading
<1>6. Knows(c)'
  <2>1. PICK i \in Nat : i = cons[c].index /\ i < headIndex /\ Pending(i)
    BY <1>2 DEF BlockInv, Knows, Loading, Pending, Loads
  <2>2. PICK e \in Entries : KeyOf(e) = Key(Num(i))
    BY <1>1, <2>1 DEF Kept, Stored
  <2>3. PICK p \in Pos(Top) : Entry(Top, p) = e
    BY <1>1 DEF Headers
  <2>4. KeyOf(Entry(Top, p))' = Key(Num(i)) /\ p \in Pos(Top)' /\ Top \in DOMAIN headers'
        /\ headIndex' = headIndex
    BY <1>1, <1>2, <2>2, <2>3, CalmFacts, IndexFacts DEF KeyOf, Pos, Cap, Entry, Top
  <2>5. PICK h : h = Top
    OBVIOUS
  <2>6. KeyOf(Entry(h, p))' = Key(Num(i)) /\ p \in Pos(h)' /\ h \in DOMAIN headers'
    BY <1>2, <2>4, <2>5, CalmFacts DEF KeyOf, Pos, Cap, Entry, Top
  <2>7. cons'[c].index = i /\ cons'[c].header = h /\ cons'[c].pc = "loadIndexTail"
    BY <1>3, <1>4, <2>1, <2>5
  <2> QED BY <2>1, <2>4, <2>6, <2>7 DEF Knows, Loading, KeyOf, Pos, Cap, Entry
<1> QED BY <1>2, <1>3, <1>5, <1>6, CalmKeeps

\* The tail of a header, however old, is an entry that was used.
LEMMA LoadIndexTailKeeps ==
  ASSUME ProducerAssumption, IndexInv, BlockInv, NEW c \in Consumers, LoadIndexTail(c)
  PROVE  BlockInv'
<1> DEFINE s == [cons[c] EXCEPT !.pc = "loadBase", !.indexTail = headers[cons[c].header].tail]
<1>1. BlockTypes /\ IndexTypes /\ Headers /\ Window /\ Kept
  BY DEF BlockInv, IndexInv
<1>2. cons[c].pc = "loadIndexTail" /\ Goes(c, s) /\ CalmStep
  BY DEF LoadIndexTail, At, CalmStep
<1>3. PICK h \in DOMAIN headers : h = cons[c].header
  BY <1>2 DEF BlockInv, Knows
<1>4. PICK p \in Pos(h) : KeyOf(Entry(h, p)) = Key(Num(cons[c].index))
  BY <1>2, <1>3 DEF BlockInv, Knows
<1>5. PICK i \in Nat : i = cons[c].index /\ i < headIndex
  BY <1>2 DEF BlockInv, Knows, Loading
<1>6. /\ DOMAIN s = DOMAIN IdleCons /\ s.pc = "loadBase" /\ s.header = h /\ s.index = i
      /\ s.indexTail = TailOf(h)
  BY <1>1, <1>3, <1>5 DEF BlockTypes, IdleCons, TailOf
<1> HIDE DEF s
<1>7. cons'[c] = s
  BY <1>1, <1>2, ConsTurn
<1>8. SameWork(c)
  BY <1>2, <1>5, <1>6, <1>7 DEF SameWork, Loads, Empties, Unindexes, Loading
<1>9. TailOf(h) \in Pos(h) /\ Valid(Entry(h, TailOf(h)))
  <2>1. TailOf(h) \in Pos(h)
    BY <1>1, HeaderFacts
  <2>2. CASE h = Top
    <3>1. headIndex \in Nat /\ tailIndex \in Nat /\ headIndex <= tailIndex
      BY <1>1 DEF IndexTypes
    <3>2. tailIndex - 1 \in Nat
      BY <1>5, <3>1
    <3>3. \A m \in Nat : Num(m) \in Nat
      BY NumNat
    <3>4. PICK m \in Nat : m = LastNum
      BY <3>1, <3>2, <3>3 DEF LastNum
    <3>5. KeyOf(Ago(0)) = Key(m - 0)
      BY <1>1, <3>4 DEF Window, InOrder
    <3>6. m - 0 = m /\ Key(m) >= 0
      BY KeyOrder
    <3>7. Valid(Ago(0))
      BY <3>5, <3>6 DEF Valid, INVALID_BLOCK_BASE
    <3>8. Ago(0) = Entry(Top, TailOf(Top))
      BY <1>1, BackFacts DEF Ago
    <3> QED BY <2>1, <2>2, <3>7, <3>8
  <2>3. CASE h # Top
    <3>1. h \in 1 .. Top - 1
      BY <1>1, <2>3, IndexFacts
    <3> QED BY <1>1, <2>1, <3>1 DEF Headers
  <2> QED BY <2>2, <2>3
<1>10. Knows(c)'
  <2>1. KeyOf(Entry(h, p))' = Key(Num(i)) /\ p \in Pos(h)' /\ h \in DOMAIN headers'
        /\ headIndex' = headIndex
    BY <1>2, <1>4, <1>5, CalmFacts DEF KeyOf, Pos, Cap, Entry
  <2>2. PICK q : q = TailOf(h)
    OBVIOUS
  <2>3. q \in Pos(h)' /\ Valid(Entry(h, q))'
    BY <1>2, <1>9, <2>2, CalmFacts DEF Valid, KeyOf, Pos, Cap, Entry
  <2>4. cons'[c].index = i /\ cons'[c].header = h /\ cons'[c].pc = "loadBase" /\ cons'[c].indexTail = q
    BY <1>6, <1>7, <2>2
  <2> QED BY <1>5, <2>1, <2>3, <2>4 DEF Knows, Loading, KeyOf, Pos, Cap, Entry, Valid
<1> QED BY <1>2, <1>6, <1>8, <1>10, CalmKeeps

\* From that entry, the one of the consumer's message is found.
LEMMA LoadBaseKeeps ==
  ASSUME ProducerAssumption, IndexInv, BlockInv, NEW c \in Consumers, LoadBase(c)
  PROVE  BlockInv'
<1> DEFINE found == EntryFor(cons[c].index, headers[cons[c].header], cons[c].indexTail)
           s == [IdleCons EXCEPT !.pc = "read", !.index = cons[c].index, !.entry = found]
<1>1. BlockTypes /\ IndexTypes /\ Headers /\ Window /\ Kept
  BY DEF BlockInv, IndexInv
<1>2. cons[c].pc = "loadBase" /\ Goes(c, s) /\ CalmStep
  BY DEF LoadBase, At, CalmStep
<1>3. PICK h \in DOMAIN headers : h = cons[c].header
  BY <1>2 DEF BlockInv, Knows
<1>4. PICK p \in Pos(h) : KeyOf(Entry(h, p)) = Key(Num(cons[c].index))
  BY <1>2, <1>3 DEF BlockInv, Knows
<1>5. PICK i \in Nat : i = cons[c].index /\ i < headIndex
  BY <1>2 DEF BlockInv, Knows, Loading
<1>6. PICK q \in Pos(h) : q = cons[c].indexTail /\ Valid(Entry(h, q))
  BY <1>2, <1>3 DEF BlockInv, Knows
<1>7. Entry(h, p) \in Entries /\ Entry(h, q) \in Entries
  BY <1>1 DEF Headers, Leads
<1>8. PICK n \in Int : n = Num(i)
  BY NumFacts
<1>9. Valid(Entry(h, p))
  <2>1. Key(Num(i)) \in Nat
    BY NumNat
  <2> QED BY <1>4, <1>5, <2>1 DEF Valid, INVALID_BLOCK_BASE
<1>10. Apart(h, p, q)
  <2>1. Aligned(h)
    <3>1. CASE h = Top
      BY <1>1, <3>1, TopAligned
    <3>2. CASE h # Top
      <4>1. h \in 1 .. Top - 1
        BY <1>1, <3>2, IndexFacts
      <4> QED BY <1>1, <4>1 DEF Headers
    <3> QED BY <3>1, <3>2
  <2> QED BY <1>6, <1>9, <2>1 DEF Aligned
<1>11. \E m \in Int : KeyOf(Entry(h, q)) = Key(m)
  <2>1. PICK j \in Pos(Top) : Ago(j) = Entry(h, q)
    BY <1>1, <1>7, AgoFacts
  <2>2. InOrder(j) \/ Rewound(j)
    BY <1>1, <1>6, <2>1 DEF Window
  <2>3. LastNum - j \in Int /\ LastNum + 1 \in Int
    <3>1. LastNum \in Int /\ Top \in DOMAIN headers
      BY <1>1, IndexFacts
    <3>2. j \in Int
      BY <1>1, <3>1, HeaderFacts DEF Pos
    <3> QED BY <3>1, <3>2
  <2> QED BY <2>1, <2>2, <2>3 DEF InOrder, Rewound
<1>12. found = Entry(h, p)
  <2>1. KeyOf(Entry(h, p)) = Key(Num(i))
    BY <1>4, <1>5
  <2> QED BY <1>1, <1>3, <1>5, <1>6, <1>10, <1>11, <2>1, FindsEntry
<1> HIDE DEF found
<1>13. DOMAIN s = DOMAIN IdleCons /\ s.pc = "read" /\ s.index = i /\ s.entry = found
  BY <1>5 DEF IdleCons
<1> HIDE DEF s
<1>14. cons'[c] = s
  BY <1>1, <1>2, ConsTurn
<1>15. SameWork(c)
  BY <1>2, <1>5, <1>13, <1>14 DEF SameWork, Loads, Empties, Unindexes, Loading
<1>16. Knows(c)'
  <2>1. PICK e \in Entries : e = found /\ KeyOf(e) = Key(Num(i))
    BY <1>4, <1>5, <1>7, <1>12
  <2>2. e \in Entries' /\ KeyOf(e)' = Key(Num(i)) /\ headIndex' = headIndex
    BY <1>2, <2>1, CalmFacts DEF KeyOf, Entries
  <2>3. cons'[c].index = i /\ cons'[c].entry = e /\ cons'[c].pc = "read"
    BY <1>13, <1>14, <2>1
  <2> QED BY <1>5, <2>2, <2>3 DEF Knows, Loading, KeyOf
<1> QED BY <1>2, <1>13, <1>15, <1>16, CalmKeeps

\* An entry that is in use has the key of a block.
LEMMA KeyIs ==
  ASSUME ProducerAssumption, IndexTypes, Headers, Window, NEW e \in Entries,
         Valid(e) \/ ValueOf(e) \in Nat
  PROVE  /\ Valid(e) /\ KeyOf(e) \in Nat
         /\ \E m \in Int : m <= LastNum + 1 /\ KeyOf(e) = Key(m)
         /\ ValueOf(e) \in Nat => \E m \in Int : m <= LastNum /\ KeyOf(e) = Key(m)
<1>1. Valid(e)
  BY DEF Window, ProducerAssumption
<1>2. KeyOf(e) \in Nat
  BY <1>1, IndexFacts DEF Valid
<1>3. PICK j \in Pos(Top) : Ago(j) = e
  BY AgoFacts
<1>4. InOrder(j) \/ (Rewound(j) /\ ValueOf(e) = Nothing)
  BY <1>1, <1>3 DEF Window, Rewound
<1>5. PICK last \in Int : last = LastNum
  BY IndexFacts
<1>6. j \in Nat
  <2>1. Top \in DOMAIN headers
    BY IndexFacts
  <2> QED BY <2>1, HeaderFacts DEF Pos
<1>7. last - j \in Int /\ last - j <= last /\ last + 1 \in Int
  BY <1>6
<1>8. CASE InOrder(j)
  <2>1. KeyOf(e) = Key(last - j)
    BY <1>3, <1>5, <1>8 DEF InOrder
  <2>2. last - j <= last + 1
    BY <1>6
  <2> QED BY <1>1, <1>2, <1>5, <1>7, <2>1, <2>2
<1>9. CASE Rewound(j) /\ ValueOf(e) = Nothing
  <2>1. KeyOf(e) = Key(last + 1)
    BY <1>3, <1>5, <1>9 DEF Rewound
  <2>2. ValueOf(e) \notin Nat
    BY <1>9 DEF ProducerAssumption
  <2> QED BY <1>1, <1>2, <1>5, <1>7, <2>1, <2>2
<1> QED BY <1>4, <1>8, <1>9

\* Two messages of one block are in two slots.
LEMMA SlotsDiffer ==
  ASSUME ProducerAssumption, NEW i \in Nat, NEW j \in Nat, Key(Num(i)) = Key(Num(j)),
         Slot(i) = Slot(j)
  PROVE  i = j
<1>1. PICK k \in Nat : k = Key(Num(i)) /\ k = Key(Num(j))
  BY NumNat
<1>2. Slot(i) = i - k
  BY <1>1, NumFacts
<1>3. Slot(j) = j - k
  BY <1>1, NumFacts
<1>4. i - k = j - k
  BY <1>2, <1>3
<1> QED BY <1>1, <1>4

\* The fields of a block have their types.
LEMMA BlockFacts ==
  ASSUME BlockTypes, NEW b \in DOMAIN blocks
  PROVE  /\ b \in Nat /\ blocks[b] \in BlockState /\ Deq(b) \in Nat
         /\ \A s \in 0 .. BLOCK_SIZE - 1 : Elem(b, s) \in Nat \cup {Nothing}
<1>1. blocks[b] \in BlockState /\ b \in Nat
  BY DEF BlockTypes
<1> QED BY <1>1 DEF BlockState, Deq, Elem

\* What one block becomes.
BlockGoes(b, block) ==
  /\ blocks' \in Seq(BlockState) /\ DOMAIN blocks' = DOMAIN blocks
  /\ blocks'[b] = block
  /\ \A x \in DOMAIN blocks : x # b => blocks'[x] = blocks[x]

\* What changing one block does to the blocks.
LEMMA BlockDoes ==
  ASSUME BlockTypes, NEW b \in DOMAIN blocks, NEW block \in BlockState,
         blocks' = [blocks EXCEPT ![b] = block]
  PROVE  BlockGoes(b, block)
BY DEF BlockTypes, BlockGoes

\* What setting one element does.
LEMMA ElemDoes ==
  ASSUME BlockTypes, NEW b \in DOMAIN blocks, NEW s \in 0 .. BLOCK_SIZE - 1,
         NEW v \in Nat \cup {Nothing}, blocks' = [blocks EXCEPT ![b].elements[s] = v]
  PROVE  /\ BlockGoes(b, [blocks[b] EXCEPT !.elements[s] = v])
         /\ Deq(b)' = Deq(b) /\ Elem(b, s)' = v
         /\ \A t \in 0 .. BLOCK_SIZE - 1 : t # s => Elem(b, t)' = Elem(b, t)
<1> DEFINE block == [blocks[b] EXCEPT !.elements[s] = v]
<1>1. blocks[b] \in BlockState
  BY BlockFacts
<1>2. blocks[b].elements \in [0 .. BLOCK_SIZE - 1 -> Nat \cup {Nothing}]
  BY <1>1 DEF BlockState
<1>3. /\ block \in BlockState /\ block.dequeued = blocks[b].dequeued
      /\ block.elements = [blocks[b].elements EXCEPT ![s] = v]
  BY <1>1, <1>2 DEF BlockState
<1>4. blocks' = [blocks EXCEPT ![b] = block]
  OBVIOUS
<1> HIDE DEF block
<1>5. BlockGoes(b, block)
  BY <1>3, <1>4, BlockDoes
<1>6. Deq(b)' = Deq(b)
  BY <1>3, <1>5 DEF BlockGoes, Deq
<1>7. \A t \in 0 .. BLOCK_SIZE - 1 : Elem(b, t)' = IF t = s THEN v ELSE Elem(b, t)
  <2>1. \A t : Elem(b, t)' = block.elements[t]
    BY <1>5 DEF BlockGoes, Elem
  <2>2. \A t \in 0 .. BLOCK_SIZE - 1 : block.elements[t] = IF t = s THEN v ELSE blocks[b].elements[t]
    BY <1>2, <1>3
  <2> QED BY <2>1, <2>2 DEF Elem
<1> QED BY <1>5, <1>6, <1>7 DEF block

\* What setting the count of a block does.
LEMMA DeqDoes ==
  ASSUME BlockTypes, NEW b \in DOMAIN blocks, NEW n \in Nat,
         blocks' = [blocks EXCEPT ![b].dequeued = n]
  PROVE  /\ BlockGoes(b, [blocks[b] EXCEPT !.dequeued = n])
         /\ Deq(b)' = n /\ \A t : Elem(b, t)' = Elem(b, t)
<1> DEFINE block == [blocks[b] EXCEPT !.dequeued = n]
<1>1. blocks[b] \in BlockState
  BY BlockFacts
<1>2. block \in BlockState /\ block.dequeued = n /\ block.elements = blocks[b].elements
  BY <1>1 DEF BlockState
<1>3. blocks' = [blocks EXCEPT ![b] = block]
  OBVIOUS
<1> HIDE DEF block
<1>4. BlockGoes(b, block)
  BY <1>2, <1>3, BlockDoes
<1>5. Deq(b)' = n /\ \A t : Elem(b, t)' = Elem(b, t)
  BY <1>2, <1>4 DEF BlockGoes, Deq, Elem
<1> QED BY <1>4, <1>5 DEF block

\* The consumers inside a block can be counted.
LEMMA InsideCount ==
  ASSUME ProducerAssumption, NEW S, S \subseteq Consumers
  PROVE  /\ IsFiniteSet(S) /\ Cardinality(S) \in Nat
         /\ \A x \in Consumers : /\ x \notin S => Cardinality(S \cup {x}) = Cardinality(S) + 1
                                 /\ x \in S => /\ Cardinality(S \ {x}) = Cardinality(S) - 1
                                               /\ Cardinality(S) >= 1
         /\ Cardinality(S) = 0 => S = {}
<1>1. IsFiniteSet(S) /\ Cardinality(S) \in Nat
  BY FS_Subset, FS_CardinalityType DEF ProducerAssumption
<1>2. \A x \in Consumers : /\ x \notin S => Cardinality(S \cup {x}) = Cardinality(S) + 1
                           /\ x \in S => Cardinality(S \ {x}) = Cardinality(S) - 1
  BY <1>1, FS_AddElement, FS_RemoveElement
<1>3. Cardinality(S) = 0 <=> S = {}
  BY <1>1, FS_EmptySet
<1>4. \A x \in S : Cardinality(S) >= 1
  BY <1>1, <1>3
<1> QED BY <1>1, <1>2, <1>3, <1>4

\* No more is taken from a block than it has.
LEMMA TakenFacts ==
  ASSUME ProducerAssumption, IndexTypes, NEW k \in Nat
  PROVE  /\ Taken(k) \in Nat /\ Taken(k) <= BLOCK_SIZE
         /\ Taken(k) = BLOCK_SIZE => headIndex >= k + BLOCK_SIZE
BY DEF Taken, ProducerAssumption, IndexTypes

\* The consumer that takes an index is inside its block from then on.
LEMMA TakeIndexKeeps ==
  ASSUME ProducerAssumption, IndexInv, BlockInv, NEW c \in Consumers, TakeIndex(c),
         headIndex < tailIndex
  PROVE  BlockInv'
<1> DEFINE s == [IdleCons EXCEPT !.pc = "loadIndex", !.index = headIndex]
<1>1. /\ BlockTypes /\ IndexTypes /\ Headers /\ Window /\ Kept /\ Counted /\ Distinct /\ OneHolder
      /\ TailKept
  BY DEF BlockInv, IndexInv
<1>2. PICK i \in Nat : i = headIndex
  BY <1>1 DEF IndexTypes
<1>3. /\ cons[c].pc = "take" /\ Goes(c, s) /\ headIndex' = i + 1
      /\ entries' = entries /\ blocks' = blocks /\ freeList' = freeList
      /\ tailIndex' = tailIndex /\ headers' = headers /\ tailBlock' = tailBlock
      /\ initialBlockPoolIndex' = initialBlockPoolIndex /\ prod' = prod
  BY <1>2 DEF TakeIndex, At, memory, prodVars
<1>4. DOMAIN s = DOMAIN IdleCons /\ s.pc = "loadIndex" /\ s.index = i
  BY <1>2 DEF IdleCons
<1> HIDE DEF s
<1>5. /\ DOMAIN cons' = Consumers /\ cons'[c] = s
      /\ \A d \in Consumers : d # c => cons'[d] = cons[d]
      /\ \A d \in Consumers : d # c => SameWork(d)
  BY <1>1, <1>3, ConsTurn
<1>6. Gentle /\ SameValues
  BY <1>3, StillGentle
<1>7. /\ \A x : ~Loads(c, x) /\ ~Empties(c, x) /\ ~Unindexes(c, x)
      /\ \A x : (Loads(c, x)' <=> x = i) /\ ~Empties(c, x)' /\ ~Unindexes(c, x)'
  BY <1>3, <1>4, <1>5 DEF Loads, Empties, Unindexes, Loading
<1>8. BlockTypes'
  BY <1>1, <1>3, <1>4, <1>5 DEF BlockTypes
<1>9. Kept'
  <2> SUFFICES ASSUME NEW j \in Nat, Pending(j)' PROVE Stored(j)'
    BY DEF Kept
  <2>1. Pending(j)
    <3>1. ASSUME Sent(j)' PROVE Sent(j)
      BY <1>2, <1>3, <3>1 DEF Sent
    <3>2. ASSUME NEW d \in Consumers, Loads(d, j)' PROVE Pending(j)
      <4>1. CASE d = c
        <5>1. Sent(j)
          BY <1>1, <1>2, <1>7, <3>2, <4>1 DEF Sent, IndexTypes
        <5> QED BY <5>1 DEF Pending
      <4>2. CASE d # c
        BY <1>5, <3>2, <4>2 DEF SameWork, Pending
      <4> QED BY <4>1, <4>2
    <3> QED BY <3>1, <3>2 DEF Pending
  <2>2. Stored(j)
    BY <1>1, <2>1 DEF Kept
  <2> QED BY <1>3, <2>2 DEF Stored, Has, Entries, ValueOf, KeyOf, Elem
<1>10. TailKept'
  BY <1>1, <1>3 DEF TailKept, TailNum, Has, Entries, ValueOf, KeyOf
<1>11. Counted'
  <2> SUFFICES ASSUME NEW e \in Entries, NEW b \in Nat, Has(e, b)
               PROVE  Deq(b)' + Cardinality(Inside(e)') = Taken(KeyOf(e))'
    BY <1>3 DEF Counted, Has, Entries, ValueOf
  <2>1. PICK m \in Int : KeyOf(e) = Key(m)
    BY <1>1, KeyIs DEF Has
  <2>2. PICK k \in Nat : k = KeyOf(e) /\ k = KeyOf(e)' /\ k = Key(m)
    BY <1>1, <1>3, <2>1, KeyIs DEF Has, KeyOf
  <2>3. PICK S : S = Inside(e)
    OBVIOUS
  <2>4. S \subseteq Consumers /\ c \notin S
    BY <1>7, <2>3 DEF Inside
  <2>5. PICK T : T = Inside(e)'
    OBVIOUS
  <2>6. T = IF Key(Num(i)) = k THEN S \cup {c} ELSE S
    <3>1. T \subseteq Consumers
      BY <2>5 DEF Inside
    <3>2. \A d \in Consumers : d # c => (d \in T <=> d \in S)
      BY <1>5, <2>2, <2>3, <2>5 DEF Inside, SameWork
    <3>3. c \in T <=> Key(Num(i)) = k
      BY <1>7, <2>2, <2>5 DEF Inside
    <3> QED BY <2>4, <3>1, <3>2, <3>3
  <2>7. Key(Num(i)) = k <=> k <= i /\ i < k + BLOCK_SIZE
    <3>1. Num(i) = m <=> Key(m) <= i /\ i < Key(m) + BLOCK_SIZE
      BY NumIs
    <3>2. Key(Num(i)) = Key(m) => Num(i) = m
      BY NumFacts, KeyOrder
    <3> QED BY <2>2, <3>1, <3>2
  <2>8. Deq(b) + Cardinality(S) = Taken(k) /\ Deq(b)' = Deq(b)
    BY <1>1, <1>3, <2>2, <2>3 DEF Counted, Deq
  <2>9. Taken(k)' = IF k <= i /\ i < k + BLOCK_SIZE THEN Taken(k) + 1 ELSE Taken(k)
    BY <1>2, <1>3 DEF Taken, ProducerAssumption
  <2>10. Deq(b) \in Nat /\ Taken(k) \in Nat /\ Cardinality(S) \in Nat
    <3>1. b \in DOMAIN blocks
      BY <1>1 DEF OneHolder, Held
    <3> QED BY <1>1, <2>4, <3>1, BlockFacts, TakenFacts, InsideCount
  <2>11. Cardinality(T) = IF Key(Num(i)) = k THEN Cardinality(S) + 1 ELSE Cardinality(S)
    BY <2>4, <2>6, InsideCount
  <2>12. PICK d \in Nat : d = Deq(b) /\ d = Deq(b)'
    BY <2>8, <2>10
  <2>13. PICK t \in Nat : t = Taken(k)
    BY <2>10
  <2>14. d + Cardinality(T) = Taken(k)'
    BY <2>7, <2>8, <2>9, <2>10, <2>11, <2>12, <2>13
  <2>15. Taken(KeyOf(e))' = Taken(k)'
    BY <2>2 DEF Taken
  <2> QED BY <2>5, <2>12, <2>14, <2>15
<1>12. \A d \in Consumers : Knows(d)'
  <2> TAKE d \in Consumers
  <2>1. CASE d # c
    <3>1. headIndex' \in Nat /\ headIndex' >= headIndex
      BY <1>2, <1>3
    <3>2. \A b \in Nat : \A e : Has(e, b) => Has(e, b)'
      BY <1>6 DEF SameValues
    <3>3. \A b : Deq(b)' = Deq(b)
      BY <1>3 DEF Deq
    <3>4. Knows(d)
      BY DEF BlockInv
    <3> QED BY <1>1, <1>5, <1>6, <2>1, <3>1, <3>2, <3>3, <3>4, StillKnows
  <2>2. CASE d = c
    BY <1>3, <1>4, <1>5, <2>2 DEF Knows, Loading
  <2> QED BY <2>1, <2>2
<1>13. Distinct'
  <2>1. ASSUME NEW d \in Consumers, d # c PROVE ~Loads(d, i)
    BY <1>2, <2>1 DEF BlockInv, Knows, Loads
  <2>2. ASSUME NEW d \in Consumers, NEW f \in Consumers, d # f, NEW x
        PROVE  ~(Loads(d, x) /\ Loads(f, x))' /\ ~(Unindexes(d, x) /\ Unindexes(f, x))'
    BY <1>1, <1>5, <1>7, <2>1, <2>2 DEF Distinct, SameWork
  <2> QED BY <2>2 DEF Distinct
<1>14. OneHolder'
  <2>1. \A b \in Nat : \A e : Has(e, b)' => Has(e, b)
    BY <1>6 DEF SameValues
  <2>2. \A x \in Consumers : cons'[x].pc = "free" => cons[x] = cons'[x]
    BY <1>4, <1>5
  <2>3. \A b \in Nat : \A k, x : Held(k, x, b)' => Held(k, x, b)
    BY <1>3, <2>1, <2>2 DEF Held
  <2> QED BY <1>1, <1>3, <2>3, HoldersStay
<1> QED BY <1>8, <1>9, <1>10, <1>11, <1>12, <1>13, <1>14 DEF BlockInv

\* The message read is in no other consumer's slot.
LEMMA ReadKeeps ==
  ASSUME ProducerAssumption, IndexInv, BlockInv, NEW c \in Consumers, Read(c)
  PROVE  BlockInv'
<1>1. /\ BlockTypes /\ IndexTypes /\ Headers /\ Window /\ Kept /\ Counted /\ Distinct /\ OneHolder
      /\ TailKept
  BY DEF BlockInv, IndexInv
<1>2. cons[c].pc = "read"
  BY DEF Read, At
<1>3. PICK i \in Nat : i = cons[c].index /\ i < headIndex
  BY <1>2 DEF BlockInv, Knows, Loading
<1>4. PICK e \in Entries : e = cons[c].entry /\ KeyOf(e) = Key(Num(i))
  BY <1>2, <1>3 DEF BlockInv, Knows
<1>5. Loads(c, i) /\ Pending(i)
  BY <1>2, <1>3 DEF Loads, Loading, Pending
<1>6. PICK b \in Nat : Has(e, b) /\ Elem(b, Slot(i)) = i
  BY <1>1, <1>4, <1>5, EntryKept
<1>7. b \in DOMAIN blocks /\ Slot(i) \in 0 .. BLOCK_SIZE - 1
  BY <1>1, <1>6, NumFacts, IndexHolds
<1> DEFINE s == [cons[c] EXCEPT !.pc = "setEmpty", !.index = 0, !.block = b,
                        !.got = blocks[b].elements[Slot(i)]]
<1>8. /\ Goes(c, s) /\ blocks' = [blocks EXCEPT ![b].elements[Slot(i)] = Nothing]
      /\ headIndex' = headIndex /\ entries' = entries /\ freeList' = freeList
      /\ tailIndex' = tailIndex /\ headers' = headers /\ tailBlock' = tailBlock
      /\ initialBlockPoolIndex' = initialBlockPoolIndex /\ prod' = prod
  <2>1. entries[cons[c].entry].value = b /\ cons[c].index = i
    BY <1>3, <1>4, <1>6 DEF Has, ValueOf
  <2> QED BY <2>1 DEF Read, prodVars
<1>9. DOMAIN s = DOMAIN IdleCons /\ s.pc = "setEmpty" /\ s.entry = e /\ s.block = b
  BY <1>1, <1>4 DEF BlockTypes, IdleCons
<1> HIDE DEF s
<1>10. /\ DOMAIN cons' = Consumers /\ cons'[c] = s
       /\ \A d \in Consumers : d # c => cons'[d] = cons[d]
       /\ \A d \in Consumers : d # c => SameWork(d)
  BY <1>1, <1>8, ConsTurn
<1>11. Gentle /\ SameValues
  BY <1>8, StillGentle
<1>12. /\ \A x : (Loads(c, x) <=> x = i) /\ ~Empties(c, x) /\ ~Unindexes(c, x)
       /\ \A x : ~Loads(c, x)' /\ (Empties(c, x)' <=> x = e) /\ ~Unindexes(c, x)'
  BY <1>2, <1>3, <1>9, <1>10 DEF Loads, Empties, Unindexes, Loading
<1>13. /\ blocks' \in Seq(BlockState) /\ DOMAIN blocks' = DOMAIN blocks
       /\ \A x \in DOMAIN blocks : x # b => blocks'[x] = blocks[x]
       /\ Deq(b)' = Deq(b)
       /\ \A t \in 0 .. BLOCK_SIZE - 1 : t # Slot(i) => Elem(b, t)' = Elem(b, t)
  BY <1>1, <1>7, <1>8, ElemDoes DEF BlockGoes
<1>14. \A x \in DOMAIN blocks : Deq(x)' = Deq(x)
  BY <1>13 DEF Deq
<1>15. BlockTypes'
  BY <1>1, <1>8, <1>9, <1>10, <1>13 DEF BlockTypes
<1>16. Kept'
  <2> SUFFICES ASSUME NEW j \in Nat, Pending(j)' PROVE Stored(j)'
    BY DEF Kept
  <2>1. Pending(j) /\ j # i
    <3>1. ASSUME Sent(j)' PROVE Sent(j) /\ j # i
      <4>1. headIndex \in Nat
        BY <1>1 DEF IndexTypes
      <4> QED BY <1>3, <1>8, <3>1, <4>1 DEF Sent
    <3>2. ASSUME NEW d \in Consumers, Loads(d, j)' PROVE Pending(j) /\ j # i
      <4>1. d # c
        BY <1>12, <3>2
      <4>2. Loads(d, j)
        BY <1>10, <3>2, <4>1 DEF SameWork
      <4> QED BY <1>1, <1>5, <4>1, <4>2 DEF Pending, Distinct
    <3> QED BY <3>1, <3>2 DEF Pending
  <2>2. PICK f \in Entries, x \in Nat :
          Has(f, x) /\ KeyOf(f) = Key(Num(j)) /\ Elem(x, Slot(j)) = j
    BY <1>1, <2>1 DEF Kept, Stored
  <2>3. Elem(x, Slot(j))' = j
    <3>1. CASE x = b
      <4>1. f = e
        BY <1>1, <1>6, <2>2, <3>1 DEF OneHolder, Held
      <4>2. Slot(j) # Slot(i)
        BY <1>4, <2>1, <2>2, <4>1, SlotsDiffer
      <4>3. Slot(j) \in 0 .. BLOCK_SIZE - 1
        BY NumFacts
      <4> QED BY <1>13, <2>2, <3>1, <4>2, <4>3
    <3>2. CASE x # b
      <4>1. x \in DOMAIN blocks
        BY <1>1, <2>2 DEF OneHolder, Held
      <4> QED BY <1>13, <2>2, <3>2, <4>1 DEF Elem
    <3> QED BY <3>1, <3>2
  <2>4. Has(f, x)' /\ KeyOf(f)' = Key(Num(j)) /\ f \in Entries'
    BY <1>8, <2>2 DEF Has, Entries, ValueOf, KeyOf
  <2> QED BY <2>3, <2>4 DEF Stored
<1>17. TailKept'
  BY <1>1, <1>8 DEF TailKept, TailNum, Has, Entries, ValueOf, KeyOf
<1>18. Counted'
  <2> SUFFICES ASSUME NEW f \in Entries, NEW x \in Nat, Has(f, x)
               PROVE  Deq(x)' + Cardinality(Inside(f)') = Taken(KeyOf(f))'
    BY <1>8 DEF Counted, Has, Entries, ValueOf
  <2>1. Deq(x)' = Deq(x)
    BY <1>1, <1>14 DEF OneHolder, Held
  <2>2. PICK k : k = KeyOf(f) /\ k = KeyOf(f)'
    BY <1>8 DEF KeyOf
  <2>3. Taken(KeyOf(f))' = Taken(KeyOf(f))
    BY <1>8, <2>2 DEF Taken
  <2>4. Valid(e)
    BY <1>1, <1>6, KeyIs DEF Has
  <2>5. c \in Inside(f) <=> f = e
    BY <1>1, <1>4, <1>12, <2>4, KeysDiffer DEF Inside
  <2>6. c \in Inside(f)' <=> f = e
    BY <1>12 DEF Inside
  <2>7. \A d \in Consumers : d # c => (d \in Inside(f)' <=> d \in Inside(f))
    BY <1>10, <2>2 DEF Inside, SameWork
  <2>8. Inside(f)' \subseteq Consumers /\ Inside(f) \subseteq Consumers
    BY DEF Inside
  <2>9. Inside(f)' = Inside(f)
    BY <2>5, <2>6, <2>7, <2>8
  <2> QED BY <1>1, <2>1, <2>3, <2>9 DEF Counted
<1>19. \A d \in Consumers : Knows(d)'
  <2> TAKE d \in Consumers
  <2>1. CASE d # c
    <3>1. headIndex' \in Nat /\ headIndex' >= headIndex
      BY <1>1, <1>8 DEF IndexTypes
    <3>2. \A y \in Nat : \A f : Has(f, y) => Has(f, y)'
      BY <1>11 DEF SameValues
    <3>3. \A y \in Nat : \A f : Has(f, y) => Deq(y)' = Deq(y)
      BY <1>1, <1>14 DEF OneHolder, Held
    <3>4. Knows(d)
      BY DEF BlockInv
    <3> QED BY <1>1, <1>10, <1>11, <2>1, <3>1, <3>2, <3>3, <3>4, StillKnows
  <2>2. CASE d = c
    <3>1. Has(e, b)'
      BY <1>6, <1>11 DEF SameValues
    <3>2. cons'[c].pc = "setEmpty" /\ cons'[c].entry = e /\ cons'[c].block = b
      BY <1>9, <1>10
    <3> QED BY <2>2, <3>1, <3>2 DEF Knows, Loading, Has, ValueOf, Entries
  <2> QED BY <2>1, <2>2
<1>20. Distinct'
  <2>1. ASSUME NEW d \in Consumers, NEW f \in Consumers, d # f, NEW x
        PROVE  ~(Loads(d, x) /\ Loads(f, x))' /\ ~(Unindexes(d, x) /\ Unindexes(f, x))'
    BY <1>1, <1>10, <1>12, <2>1 DEF Distinct, SameWork
  <2> QED BY <2>1 DEF Distinct
<1>21. OneHolder'
  <2>1. \A y \in Nat : \A f : Has(f, y)' => Has(f, y)
    BY <1>11 DEF SameValues
  <2>2. \A x \in Consumers : cons'[x].pc = "free" => cons[x] = cons'[x]
    BY <1>9, <1>10
  <2>3. \A y \in Nat : \A k, x : Held(k, x, y)' => Held(k, x, y)
    BY <1>8, <2>1, <2>2 DEF Held
  <2> QED BY <1>1, <1>13, <2>3, HoldersStay
<1> QED BY <1>15, <1>16, <1>17, <1>18, <1>19, <1>20, <1>21 DEF BlockInv

\* A consumer that is inside a block: it is not full, and nobody else returns it.
LEMMA EmptiesFacts ==
  ASSUME ProducerAssumption, IndexInv, BlockInv, NEW c \in Consumers, cons[c].pc = "setEmpty"
  PROVE  \E e \in Entries, b \in Nat :
           /\ e = cons[c].entry /\ b = cons[c].block /\ Has(e, b) /\ b \in DOMAIN blocks
           /\ Deq(b) \in Nat /\ Deq(b) < BLOCK_SIZE
           /\ \A d \in Consumers : ~Unindexes(d, e)
<1>1. BlockTypes /\ OneHolder /\ Counted /\ IndexTypes /\ Headers /\ Window
  BY DEF BlockInv, IndexInv
<1>2. PICK b \in Nat : b = cons[c].block /\ Has(cons[c].entry, b)
  BY DEF BlockInv, Knows
<1>3. PICK e \in Entries : e = cons[c].entry
  BY <1>2 DEF Has
<1>4. b \in DOMAIN blocks /\ Deq(b) \in Nat
  BY <1>1, <1>2, IndexHolds, BlockFacts
<1>5. Deq(b) < BLOCK_SIZE
  <2>1. PICK S : S = Inside(e)
    OBVIOUS
  <2>2. c \in S /\ S \subseteq Consumers
    BY <1>3, <2>1 DEF Inside, Empties
  <2>3. PICK k \in Nat : k = KeyOf(e)
    BY <1>1, <1>2, <1>3, KeyIs DEF Has
  <2>4. Deq(b) + Cardinality(S) = Taken(k)
    BY <1>1, <1>2, <1>3, <2>1, <2>3 DEF Counted
  <2>5. Taken(k) \in Nat /\ Taken(k) <= BLOCK_SIZE
    BY <1>1, TakenFacts
  <2>6. Cardinality(S) \in Nat /\ Cardinality(S) >= 1
    BY <2>2, InsideCount
  <2>7. BLOCK_SIZE \in Nat
    BY DEF ProducerAssumption
  <2> QED BY <1>4, <2>4, <2>5, <2>6, <2>7
<1>6. ASSUME NEW d \in Consumers, Unindexes(d, e) PROVE FALSE
  <2>1. Has(e, cons[d].block) /\ cons[d].block \in Nat /\ Deq(cons[d].block) = BLOCK_SIZE
    BY <1>6 DEF BlockInv, Knows, Unindexes
  <2>2. cons[d].block = b
    BY <1>2, <1>3, <2>1 DEF Has
  <2> QED BY <1>4, <1>5, <2>1, <2>2 DEF ProducerAssumption
<1> QED BY <1>2, <1>3, <1>4, <1>5, <1>6

\* The consumer that counts the last element is the only one left in the block.
LEMMA SetEmptyKeeps ==
  ASSUME ProducerAssumption, IndexInv, BlockInv, NEW c \in Consumers, SetEmpty(c)
  PROVE  BlockInv'
<1>1. /\ BlockTypes /\ IndexTypes /\ Headers /\ Window /\ Kept /\ Counted /\ Distinct /\ OneHolder
      /\ TailKept
  BY DEF BlockInv, IndexInv
<1>2. cons[c].pc = "setEmpty"
  BY DEF SetEmpty, At
<1>3. PICK e \in Entries, b \in Nat :
           /\ e = cons[c].entry /\ b = cons[c].block /\ Has(e, b) /\ b \in DOMAIN blocks
           /\ Deq(b) \in Nat /\ Deq(b) < BLOCK_SIZE
           /\ \A d \in Consumers : ~Unindexes(d, e)
  BY <1>2, EmptiesFacts
<1>4. PICK n \in Nat : n = Deq(b) + 1
  BY <1>3
<1>5. PICK s : /\ Goes(c, s) /\ DOMAIN s = DOMAIN IdleCons
               /\ \/ s.pc = "unindex" /\ n = BLOCK_SIZE /\ s.entry = e /\ s.block = b
                  \/ s.pc = "idle"
  <2>1. CASE Deq(b) = BLOCK_SIZE - 1
    <3>1. PICK s : s = [cons[c] EXCEPT !.pc = "unindex"]
      OBVIOUS
    <3>2. Goes(c, s)
      BY <1>3, <2>1, <3>1 DEF SetEmpty, Deq
    <3>3. DOMAIN s = DOMAIN IdleCons /\ s.pc = "unindex" /\ s.entry = e /\ s.block = b
      BY <1>1, <1>3, <3>1 DEF BlockTypes, IdleCons
    <3>4. n = BLOCK_SIZE
      BY <1>3, <1>4, <2>1 DEF ProducerAssumption
    <3> QED BY <3>2, <3>3, <3>4
  <2>2. CASE Deq(b) # BLOCK_SIZE - 1
    <3>1. Goes(c, IdleCons)
      BY <1>3, <2>2 DEF SetEmpty, Return, Deq
    <3>2. IdleCons.pc = "idle"
      BY DEF IdleCons
    <3> QED BY <3>1, <3>2
  <2> QED BY <2>1, <2>2
<1>6. /\ blocks' = [blocks EXCEPT ![b].dequeued = n]
      /\ headIndex' = headIndex /\ entries' = entries /\ freeList' = freeList
      /\ tailIndex' = tailIndex /\ headers' = headers /\ tailBlock' = tailBlock
      /\ initialBlockPoolIndex' = initialBlockPoolIndex /\ prod' = prod
  BY <1>3, <1>4 DEF SetEmpty, prodVars, Deq
<1>7. /\ DOMAIN cons' = Consumers /\ cons'[c] = s
      /\ \A d \in Consumers : d # c => cons'[d] = cons[d]
      /\ \A d \in Consumers : d # c => SameWork(d)
  BY <1>1, <1>5, ConsTurn
<1>8. Gentle /\ SameValues
  BY <1>6, StillGentle
<1>9. /\ \A x : ~Loads(c, x) /\ (Empties(c, x) <=> x = e) /\ ~Unindexes(c, x)
      /\ \A x : ~Loads(c, x)' /\ ~Empties(c, x)' /\ (Unindexes(c, x)' => x = e)
  BY <1>2, <1>3, <1>5, <1>7 DEF Loads, Empties, Unindexes, Loading
<1>10. /\ blocks' \in Seq(BlockState) /\ DOMAIN blocks' = DOMAIN blocks
       /\ \A x \in DOMAIN blocks : x # b => blocks'[x] = blocks[x]
       /\ Deq(b)' = n
       /\ \A t : Elem(b, t)' = Elem(b, t)
  BY <1>1, <1>3, <1>6, DeqDoes DEF BlockGoes
<1>11. \A x \in DOMAIN blocks : (x # b => Deq(x)' = Deq(x)) /\ \A t : Elem(x, t)' = Elem(x, t)
  BY <1>10 DEF Deq, Elem
<1>12. BlockTypes'
  BY <1>1, <1>5, <1>6, <1>7, <1>10 DEF BlockTypes
<1>13. Kept'
  <2> SUFFICES ASSUME NEW j \in Nat, Pending(j)' PROVE Stored(j)'
    BY DEF Kept
  <2>1. Sent(j)' => Sent(j)
    BY <1>6 DEF Sent
  <2>2. Pending(j)
    BY <1>7, <1>9, <2>1 DEF Pending, SameWork
  <2>3. PICK f \in Entries, x \in Nat :
          Has(f, x) /\ KeyOf(f) = Key(Num(j)) /\ Elem(x, Slot(j)) = j
    BY <1>1, <2>2 DEF Kept, Stored
  <2>4. Elem(x, Slot(j))' = j
    BY <1>1, <1>11, <2>3, IndexHolds
  <2>5. Has(f, x)' /\ KeyOf(f)' = Key(Num(j)) /\ f \in Entries'
    BY <1>6, <2>3 DEF Has, Entries, ValueOf, KeyOf
  <2> QED BY <2>4, <2>5 DEF Stored
<1>14. TailKept'
  BY <1>1, <1>6 DEF TailKept, TailNum, Has, Entries, ValueOf, KeyOf
<1>15. Counted'
  <2> SUFFICES ASSUME NEW f \in Entries, NEW x \in Nat, Has(f, x)
               PROVE  Deq(x)' + Cardinality(Inside(f)') = Taken(KeyOf(f))'
    BY <1>6 DEF Counted, Has, Entries, ValueOf
  <2>1. PICK k : k = KeyOf(f) /\ k = KeyOf(f)'
    BY <1>6 DEF KeyOf
  <2>2. Taken(KeyOf(f))' = Taken(k)
    BY <1>6, <2>1 DEF Taken
  <2>3. PICK S : S = Inside(f)
    OBVIOUS
  <2>4. S \subseteq Consumers /\ (c \in S <=> f = e)
    BY <1>9, <2>3 DEF Inside
  <2>5. Inside(f)' = S \ {c}
    <3>1. c \notin Inside(f)' /\ Inside(f)' \subseteq Consumers
      BY <1>9 DEF Inside
    <3>2. \A d \in Consumers : d # c => (d \in Inside(f)' <=> d \in S)
      BY <1>7, <2>1, <2>3 DEF Inside, SameWork
    <3> QED BY <2>4, <3>1, <3>2
  <2>6. Deq(x) + Cardinality(S) = Taken(k)
    BY <1>1, <2>1, <2>3 DEF Counted
  <2>7. CASE f = e
    <3>1. x = b
      BY <1>3, <2>7 DEF Has
    <3>2. Cardinality(S \ {c}) = Cardinality(S) - 1 /\ Cardinality(S) \in Nat
      BY <2>4, <2>7, InsideCount
    <3>3. PICK d \in Nat : d = Deq(b)
      BY <1>3
    <3>4. Deq(x)' = d + 1
      BY <1>4, <1>10, <3>1, <3>3
    <3>5. d + Cardinality(S) = Taken(k)
      BY <2>6, <3>1, <3>3
    <3>6. (d + 1) + Cardinality(S \ {c}) = Taken(k)
      BY <3>2, <3>5
    <3> QED BY <2>2, <2>5, <3>4, <3>6
  <2>8. CASE f # e
    <3>1. x # b /\ x \in DOMAIN blocks
      BY <1>1, <1>3, <2>8, IndexHolds
    <3>2. Deq(x)' = Deq(x)
      BY <1>11, <3>1
    <3>3. S \ {c} = S
      BY <2>4, <2>8
    <3> QED BY <2>2, <2>5, <2>6, <3>2, <3>3
  <2> QED BY <2>7, <2>8
<1>16. \A d \in Consumers : Knows(d)'
  <2> TAKE d \in Consumers
  <2>1. CASE d # c
    <3>1. headIndex' \in Nat /\ headIndex' >= headIndex
      BY <1>1, <1>6 DEF IndexTypes
    <3>2. \A y \in Nat : \A f : Has(f, y) => Has(f, y)'
      BY <1>8 DEF SameValues
    <3>3. \A y \in Nat : \A f : Unindexes(d, f) /\ Has(f, y) => Deq(y)' = Deq(y)
      BY <1>1, <1>3, <1>11, IndexHolds
    <3>4. Knows(d)
      BY DEF BlockInv
    <3> QED BY <1>1, <1>7, <1>8, <2>1, <3>1, <3>2, <3>3, <3>4, StillKnows
  <2>2. CASE d = c
    <3>1. CASE s.pc = "idle"
      BY <1>7, <2>2, <3>1 DEF Knows, Loading
    <3>2. CASE s.pc = "unindex" /\ n = BLOCK_SIZE /\ s.entry = e /\ s.block = b
      <4>1. Has(e, b)' /\ Deq(b)' = BLOCK_SIZE
        BY <1>3, <1>8, <1>10, <3>2 DEF SameValues
      <4>2. cons'[c].pc = "unindex" /\ cons'[c].entry = e /\ cons'[c].block = b
        BY <1>7, <3>2
      <4> QED BY <2>2, <4>1, <4>2 DEF Knows, Loading, Has, ValueOf, Entries, Deq
    <3> QED BY <1>5, <3>1, <3>2
  <2> QED BY <2>1, <2>2
<1>17. Distinct'
  <2>1. ASSUME NEW d \in Consumers, NEW f \in Consumers, d # f, NEW x
        PROVE  ~(Loads(d, x) /\ Loads(f, x))' /\ ~(Unindexes(d, x) /\ Unindexes(f, x))'
    BY <1>1, <1>3, <1>7, <1>9, <2>1 DEF Distinct, SameWork
  <2> QED BY <2>1 DEF Distinct
<1>18. OneHolder'
  <2>1. \A y \in Nat : \A f : Has(f, y)' => Has(f, y)
    BY <1>8 DEF SameValues
  <2>2. \A x \in Consumers : cons'[x].pc = "free" => cons[x] = cons'[x]
    BY <1>5, <1>7
  <2>3. \A y \in Nat : \A k, x : Held(k, x, y)' => Held(k, x, y)
    BY <1>6, <2>1, <2>2 DEF Held
  <2> QED BY <1>1, <1>10, <2>3, HoldersStay
<1> QED BY <1>12, <1>13, <1>14, <1>15, <1>16, <1>17, <1>18 DEF BlockInv

\* A block that is all taken out is of no message any more.
LEMMA UnindexFacts ==
  ASSUME ProducerAssumption, IndexInv, BlockInv, NEW c \in Consumers, cons[c].pc = "unindex"
  PROVE  \E e \in Entries, b \in Nat, k \in Nat :
           /\ e = cons[c].entry /\ b = cons[c].block /\ Has(e, b) /\ b \in DOMAIN blocks
           /\ k = KeyOf(e) /\ headIndex >= k + BLOCK_SIZE /\ Inside(e) = {}
<1>1. BlockTypes /\ OneHolder /\ Counted /\ IndexTypes /\ Headers /\ Window
  BY DEF BlockInv, IndexInv
<1>2. PICK b \in Nat : b = cons[c].block /\ Has(cons[c].entry, b) /\ Deq(b) = BLOCK_SIZE
  BY DEF BlockInv, Knows
<1>3. PICK e \in Entries : e = cons[c].entry
  BY <1>2 DEF Has
<1>4. b \in DOMAIN blocks
  BY <1>1, <1>2, IndexHolds
<1>5. PICK S : S = Inside(e)
  OBVIOUS
<1>6. S \subseteq Consumers
  BY <1>5 DEF Inside
<1>7. PICK k \in Nat : k = KeyOf(e)
  BY <1>1, <1>2, <1>3, KeyIs DEF Has
<1>8. BLOCK_SIZE + Cardinality(S) = Taken(k)
  BY <1>1, <1>2, <1>3, <1>5, <1>7 DEF Counted
<1>9. Taken(k) \in Nat /\ Taken(k) <= BLOCK_SIZE /\ Cardinality(S) \in Nat /\ BLOCK_SIZE \in Nat
  BY <1>1, <1>6, TakenFacts, InsideCount DEF ProducerAssumption
<1>10. Cardinality(S) = 0 /\ Taken(k) = BLOCK_SIZE
  BY <1>8, <1>9
<1>11. S = {} /\ headIndex >= k + BLOCK_SIZE
  BY <1>1, <1>6, <1>10, TakenFacts, InsideCount
<1> QED BY <1>2, <1>3, <1>4, <1>5, <1>7, <1>11

\* An entry is emptied when no message is left in its block.
LEMMA UnindexKeeps ==
  ASSUME ProducerAssumption, IndexInv, BlockInv, NEW c \in Consumers, Unindex(c)
  PROVE  BlockInv' /\ \E e \in Entries : ValueGoes(e, Nothing)
<1>1. /\ BlockTypes /\ IndexTypes /\ Headers /\ Window /\ Kept /\ Counted /\ Distinct /\ OneHolder
      /\ TailKept
  BY DEF BlockInv, IndexInv
<1>2. cons[c].pc = "unindex"
  BY DEF Unindex, At
<1>3. PICK e \in Entries, b \in Nat, k \in Nat :
           /\ e = cons[c].entry /\ b = cons[c].block /\ Has(e, b) /\ b \in DOMAIN blocks
           /\ k = KeyOf(e) /\ headIndex >= k + BLOCK_SIZE /\ Inside(e) = {}
  BY <1>2, UnindexFacts
<1> DEFINE s == [cons[c] EXCEPT !.pc = "free"]
<1>4. /\ Goes(c, s) /\ entries' = [entries EXCEPT ![e].value = Nothing] /\ blocks' = blocks
      /\ headIndex' = headIndex /\ freeList' = freeList
      /\ tailIndex' = tailIndex /\ headers' = headers /\ tailBlock' = tailBlock
      /\ initialBlockPoolIndex' = initialBlockPoolIndex /\ prod' = prod
  BY <1>3 DEF Unindex, prodVars
<1>5. DOMAIN s = DOMAIN IdleCons /\ s.pc = "free" /\ s.block = b
  BY <1>1, <1>3 DEF BlockTypes, IdleCons
<1> HIDE DEF s
<1>6. /\ DOMAIN cons' = Consumers /\ cons'[c] = s
      /\ \A d \in Consumers : d # c => cons'[d] = cons[d]
      /\ \A d \in Consumers : d # c => SameWork(d)
  BY <1>1, <1>4, ConsTurn
<1>7. ValueGoes(e, Nothing)
  BY <1>1, <1>3, <1>4, ValueDoes
<1>8. /\ Entries' = Entries
      /\ \A f \in Entries : KeyOf(f)' = KeyOf(f) /\ (Valid(f)' <=> Valid(f))
      /\ \A f \in Entries : ValueOf(f)' = IF f = e THEN Nothing ELSE ValueOf(f)
  BY <1>7 DEF ValueGoes, Valid
<1>9. \A f : \A y \in Nat : Has(f, y)' <=> Has(f, y) /\ f # e
  BY <1>8 DEF Has, ProducerAssumption
<1>10. Gentle
  BY <1>4, <1>8 DEF Gentle, Pos, Cap, Entry
<1>11. /\ \A x : ~Loads(c, x) /\ ~Empties(c, x) /\ (Unindexes(c, x) <=> x = e)
       /\ \A x : ~Loads(c, x)' /\ ~Empties(c, x)' /\ ~Unindexes(c, x)'
  BY <1>2, <1>3, <1>5, <1>6 DEF Loads, Empties, Unindexes, Loading
<1>12. BlockTypes'
  BY <1>1, <1>4, <1>5, <1>6 DEF BlockTypes
<1>13. Kept'
  <2> SUFFICES ASSUME NEW j \in Nat, Pending(j)' PROVE Stored(j)'
    BY DEF Kept
  <2>1. Sent(j)' => Sent(j)
    BY <1>4 DEF Sent
  <2>2. Pending(j)
    BY <1>6, <1>11, <2>1 DEF Pending, SameWork
  <2>3. PICK f \in Entries, x \in Nat :
          Has(f, x) /\ KeyOf(f) = Key(Num(j)) /\ Elem(x, Slot(j)) = j
    BY <1>1, <2>2 DEF Kept, Stored
  <2>4. f # e
    <3>1. ASSUME k = Key(Num(j)) PROVE FALSE
      <4>1. ASSUME NEW d \in Consumers, Loads(d, j) PROVE FALSE
        BY <1>3, <3>1, <4>1 DEF Inside
      <4>2. ASSUME Sent(j) PROVE FALSE
        <5>1. headIndex \in Nat /\ headIndex <= j /\ BLOCK_SIZE \in Nat
          BY <1>1, <4>2 DEF Sent, IndexTypes, ProducerAssumption
        <5>2. j < k + BLOCK_SIZE
          <6>1. Num(j) \in Int
            BY NumFacts
          <6>2. PICK m \in Int : m = Num(j)
            BY <6>1
          <6>3. j < Key(m) + BLOCK_SIZE
            BY <6>2, NumIs
          <6> QED BY <3>1, <6>2, <6>3
        <5> QED BY <1>3, <5>1, <5>2
      <4> QED BY <2>2, <4>1, <4>2 DEF Pending
    <3> QED BY <1>3, <2>3, <3>1
  <2>5. Has(f, x)' /\ KeyOf(f)' = Key(Num(j)) /\ f \in Entries' /\ Elem(x, Slot(j))' = j
    BY <1>4, <1>8, <1>9, <2>3, <2>4 DEF Elem
  <2> QED BY <2>5 DEF Stored
<1>14. TailKept'
  <2> SUFFICES ASSUME Slot(tailIndex) # 0 \/ prod.pc = "publish"
               PROVE  (tailBlock \in Nat /\ \E f \in Entries : Has(f, tailBlock) /\ KeyOf(f) = Key(TailNum))'
    BY <1>4 DEF TailKept
  <2>1. PICK f \in Entries : tailBlock \in Nat /\ Has(f, tailBlock) /\ KeyOf(f) = Key(TailNum)
    BY <1>1 DEF TailKept
  <2>2. tailIndex \in Nat /\ headIndex \in Nat /\ headIndex <= tailIndex /\ BLOCK_SIZE \in Nat
    BY <1>1 DEF IndexTypes, ProducerAssumption
  <2>3. TailNum = Num(tailIndex)
    BY <2>2, NumNext DEF TailNum
  <2>4. f # e
    <3>1. Num(tailIndex) \in Int
      BY <2>2, NumFacts
    <3>2. PICK m \in Int : m = Num(tailIndex)
      BY <3>1
    <3>3. tailIndex < Key(m) + BLOCK_SIZE
      BY <2>2, <3>2, NumIs
    <3>4. f = e => k = Key(m)
      BY <1>3, <2>1, <2>3, <3>2
    <3> QED BY <1>3, <2>2, <3>3, <3>4
  <2>5. PICK x : x = tailBlock /\ x = tailBlock'
    BY <1>4
  <2>6. Has(f, x)' /\ KeyOf(f)' = Key(TailNum) /\ f \in Entries' /\ TailNum' = TailNum
    BY <1>4, <1>8, <1>9, <2>1, <2>4, <2>5 DEF TailNum
  <2> QED BY <2>1, <2>5, <2>6 DEF Has, ValueOf, Entries
<1>15. Counted'
  <2> SUFFICES ASSUME NEW f \in Entries, NEW x \in Nat, Has(f, x), f # e
               PROVE  Deq(x)' + Cardinality(Inside(f)') = Taken(KeyOf(f))'
    BY <1>8, <1>9 DEF Counted
  <2>1. PICK y : y = KeyOf(f) /\ y = KeyOf(f)'
    BY <1>8
  <2>2. Taken(KeyOf(f))' = Taken(KeyOf(f)) /\ Deq(x)' = Deq(x)
    BY <1>4, <2>1 DEF Taken, Deq
  <2>3. \A d \in Consumers : d # c => (d \in Inside(f)' <=> d \in Inside(f))
    BY <1>6, <2>1 DEF Inside, SameWork
  <2>4. c \notin Inside(f)' /\ c \notin Inside(f)
    BY <1>11 DEF Inside
  <2>5. Inside(f)' = Inside(f)
    BY <2>3, <2>4 DEF Inside
  <2> QED BY <1>1, <2>2, <2>5 DEF Counted
<1>16. \A d \in Consumers : Knows(d)'
  <2> TAKE d \in Consumers
  <2>1. CASE d # c
    <3>1. headIndex' \in Nat /\ headIndex' >= headIndex
      BY <1>1, <1>4 DEF IndexTypes
    <3>2. ~Unindexes(d, e)
      BY <1>1, <1>11, <2>1 DEF Distinct
    <3>3. ~Empties(d, e)
      BY <1>3 DEF Inside
    <3>4. \A y \in Nat : \A f : (Empties(d, f) \/ Unindexes(d, f)) /\ Has(f, y) => Has(f, y)'
      BY <1>9, <3>2, <3>3
    <3>5. \A y : Deq(y)' = Deq(y)
      BY <1>4 DEF Deq
    <3>6. Knows(d)
      BY DEF BlockInv
    <3> QED BY <1>1, <1>6, <1>10, <2>1, <3>1, <3>4, <3>5, <3>6, StillKnows
  <2>2. CASE d = c
    BY <1>5, <1>6, <2>2 DEF Knows, Loading
  <2> QED BY <2>1, <2>2
<1>17. Distinct'
  <2>1. ASSUME NEW d \in Consumers, NEW f \in Consumers, d # f, NEW x
        PROVE  ~(Loads(d, x) /\ Loads(f, x))' /\ ~(Unindexes(d, x) /\ Unindexes(f, x))'
    BY <1>1, <1>6, <1>11, <2>1 DEF Distinct, SameWork
  <2> QED BY <2>1 DEF Distinct
<1>18. OneHolder'
  <2>1. \A x \in Consumers : x # c => cons'[x] = cons[x]
    BY <1>6
  <2>2. \A y \in Nat : \A l, x : Held(l, x, y)' => Held(l, x, y) \/ (y = b /\ l = "cons" /\ x = c)
    <3> TAKE y \in Nat
    <3> TAKE l, x
    <3>1. l = "index" /\ Has(x, y)' => Has(x, y)
      BY <1>9
    <3>2. l = "cons" /\ x \in Consumers /\ cons'[x].pc = "free" /\ cons'[x].block = y
            => Held(l, x, y) \/ (y = b /\ l = "cons" /\ x = c)
      BY <1>5, <1>6, <2>1 DEF Held
    <3> QED BY <1>4, <3>1, <3>2 DEF Held
  <2>3. \A l, x : Held(l, x, b)' => l = "cons" /\ x = c
    <3> TAKE l, x
    <3>1. HAVE Held(l, x, b)'
    <3>2. Held("index", e, b)
      BY <1>3 DEF Held
    <3>3. Held(l, x, b) => l = "index" /\ x = e
      BY <1>1, <3>2 DEF OneHolder
    <3>4. ~(l = "index" /\ x = e)
      BY <1>9, <3>1 DEF Held
    <3> QED BY <2>2, <3>1, <3>3, <3>4
  <2> QED BY <1>1, <1>3, <1>4, <2>2, <2>3, BlockMoves
<1> QED BY <1>7, <1>12, <1>13, <1>14, <1>15, <1>16, <1>17, <1>18 DEF BlockInv

\* The block that goes on the free list is in no entry any more.
LEMMA FreeBlockKeeps ==
  ASSUME ProducerAssumption, IndexInv, BlockInv, NEW c \in Consumers, FreeBlock(c)
  PROVE  BlockInv'
<1>1. /\ BlockTypes /\ IndexTypes /\ Headers /\ Window /\ Kept /\ Counted /\ Distinct /\ OneHolder
      /\ TailKept
  BY DEF BlockInv, IndexInv
<1>2. cons[c].pc = "free"
  BY DEF FreeBlock, At
<1>3. PICK b \in Nat : b = cons[c].block
  BY <1>2 DEF BlockInv, Knows
<1>4. /\ Goes(c, IdleCons) /\ freeList' = freeList \cup {b}
      /\ headIndex' = headIndex /\ entries' = entries /\ blocks' = blocks
      /\ tailIndex' = tailIndex /\ headers' = headers /\ tailBlock' = tailBlock
      /\ initialBlockPoolIndex' = initialBlockPoolIndex /\ prod' = prod
  BY <1>3 DEF FreeBlock, Return, prodVars
<1>5. /\ DOMAIN cons' = Consumers /\ cons'[c] = IdleCons
      /\ \A d \in Consumers : d # c => cons'[d] = cons[d]
      /\ \A d \in Consumers : d # c => SameWork(d)
  BY <1>1, <1>4, ConsTurn
<1>6. cons'[c].pc = "idle"
  BY <1>5 DEF IdleCons
<1>7. SameWork(c)
  BY <1>2, <1>6 DEF SameWork, Loads, Empties, Unindexes, Loading
<1>8. Gentle /\ SameValues
  BY <1>4, StillGentle
<1>9. BlockTypes'
  BY <1>1, <1>4, <1>5 DEF BlockTypes
<1>10. Kept' /\ Counted' /\ Distinct'
  <2>1. \A i : Sent(i)' <=> Sent(i)
    BY <1>4 DEF Sent
  <2>2. \A d \in Consumers : SameWork(d)
    BY <1>5, <1>7
  <2> QED BY <1>1, <1>4, <1>8, <2>1, <2>2, QuietKeeps
<1>11. TailKept'
  BY <1>1, <1>4 DEF TailKept, TailNum, Has, Entries, ValueOf, KeyOf
<1>12. \A d \in Consumers : Knows(d)'
  <2> TAKE d \in Consumers
  <2>1. CASE d # c
    <3>1. headIndex' \in Nat /\ headIndex' >= headIndex
      BY <1>1, <1>4 DEF IndexTypes
    <3>2. \A y \in Nat : \A f : Has(f, y) => Has(f, y)'
      BY <1>8 DEF SameValues
    <3>3. \A y : Deq(y)' = Deq(y)
      BY <1>4 DEF Deq
    <3>4. Knows(d)
      BY DEF BlockInv
    <3> QED BY <1>1, <1>5, <1>8, <2>1, <3>1, <3>2, <3>3, <3>4, StillKnows
  <2>2. CASE d = c
    BY <1>6, <2>2 DEF Knows, Loading
  <2> QED BY <2>1, <2>2
<1>13. OneHolder'
  <2>1. \A x \in Consumers : x # c => cons'[x] = cons[x]
    BY <1>5
  <2>2. \A y \in Nat : \A l, x : Held(l, x, y)' => Held(l, x, y) \/ (y = b /\ l = "list" /\ x = 0)
    <3> TAKE y \in Nat
    <3> TAKE l, x
    <3>1. l = "index" /\ Has(x, y)' => Has(x, y)
      BY <1>8 DEF SameValues
    <3>2. l = "cons" /\ x \in Consumers /\ cons'[x].pc = "free" /\ cons'[x].block = y
            => Held(l, x, y)
      BY <1>6, <2>1 DEF Held
    <3> QED BY <1>4, <3>1, <3>2 DEF Held
  <2>3. \A l, x : Held(l, x, b)' => l = "list" /\ x = 0
    <3> TAKE l, x
    <3>1. HAVE Held(l, x, b)'
    <3>2. Held("cons", c, b)
      BY <1>2, <1>3 DEF Held
    <3>3. Held(l, x, b) => l = "cons" /\ x = c
      BY <1>1, <3>2 DEF OneHolder
    <3>4. ~(l = "cons" /\ x = c)
      BY <1>6, <3>1 DEF Held
    <3> QED BY <2>2, <3>1, <3>3, <3>4
  <2>4. b \in DOMAIN blocks
    BY <1>1, <1>2, <1>3 DEF OneHolder, Held
  <2> QED BY <1>1, <1>4, <2>2, <2>3, <2>4, BlockMoves
<1> QED BY <1>9, <1>10, <1>11, <1>12, <1>13 DEF BlockInv

-----------------------------------------------------------------------------
(* The steps of the enqueuing thread in the blocks. *)

\* A step of the enqueuing thread leaves the consumers' work.
LEMMA ConsumersWait ==
  ASSUME cons' = cons
  PROVE  \A c \in Consumers : cons'[c] = cons[c] /\ SameWork(c)
BY SameTurn

\* Blocks that are in the index stay as they are.
LEMMA ProducerQuiet ==
  ASSUME ProducerAssumption, IndexInv, BlockInv, cons' = cons, headIndex' = headIndex,
         Gentle, SameValues, \A b \in Nat : \A e : Has(e, b) => blocks'[b] = blocks[b],
         \A i \in Nat : Sent(i)' <=> Sent(i), BlockTypes', TailKept', OneHolder'
  PROVE  BlockInv'
<1>1. /\ IndexTypes /\ Headers /\ Window /\ Kept /\ Counted /\ Distinct
  BY DEF BlockInv, IndexInv
<1>2. \A c \in Consumers : cons'[c] = cons[c] /\ SameWork(c)
  BY ConsumersWait
<1>3. Kept' /\ Counted' /\ Distinct'
  BY <1>1, <1>2, QuietKeeps
<1>4. \A c \in Consumers : Knows(c)'
  <2> TAKE c \in Consumers
  <2>1. headIndex' \in Nat /\ headIndex' >= headIndex
    BY <1>1 DEF IndexTypes
  <2>2. \A b \in Nat : \A e : Has(e, b) => Has(e, b)'
    BY DEF SameValues
  <2>3. \A b \in Nat : \A e : Has(e, b) => Deq(b)' = Deq(b)
    BY DEF Deq
  <2>4. Knows(c)
    BY DEF BlockInv
  <2> QED BY <1>1, <1>2, <2>1, <2>2, <2>3, <2>4, StillKnows
<1> QED BY <1>3, <1>4 DEF BlockInv

\* The tail block stays in the index while messages are put in it.
LEMMA TailStays ==
  ASSUME Gentle, SameValues, TailKept, tailBlock' = tailBlock, TailNum' = TailNum,
         Slot(tailIndex') # 0 \/ prod'.pc = "publish" => Slot(tailIndex) # 0 \/ prod.pc = "publish"
  PROVE  TailKept'
<1> SUFFICES ASSUME Slot(tailIndex) # 0 \/ prod.pc = "publish"
             PROVE  (tailBlock \in Nat /\ \E f \in Entries : Has(f, tailBlock) /\ KeyOf(f) = Key(TailNum))'
  BY DEF TailKept, Slot
<1>1. PICK f \in Entries : tailBlock \in Nat /\ Has(f, tailBlock) /\ KeyOf(f) = Key(TailNum)
  BY DEF TailKept
<1>2. PICK x \in Nat : x = tailBlock /\ x = tailBlock'
  BY <1>1
<1>3. Has(f, x)' /\ f \in Entries' /\ KeyOf(f)' = KeyOf(f)
  BY <1>1, <1>2 DEF Gentle, SameValues, Has
<1>4. KeyOf(f)' = Key(TailNum)'
  BY <1>1, <1>3 DEF Key
<1> QED BY <1>2, <1>3, <1>4 DEF Has, ValueOf, Entries

\* A step in the index alone.
LEMMA ProducerCalm ==
  ASSUME ProducerAssumption, IndexInv, BlockInv, cons' = cons, headIndex' = headIndex,
         Gentle, SameValues, UNCHANGED <<tailBlock, blocks, pools>>,
         \A i \in Nat : Sent(i)' <=> Sent(i), TailNum' = TailNum,
         Slot(tailIndex') # 0 \/ prod'.pc = "publish" => Slot(tailIndex) # 0 \/ prod.pc = "publish",
         prod'.pc \notin {"construct", "rewind"},
         prod'.pc \in Unentered \cup {"requisition"} => prod'.block = Nothing
  PROVE  BlockInv'
<1>1. BlockTypes /\ OneHolder /\ TailKept
  BY DEF BlockInv
<1>2. TailKept'
  BY <1>1, TailStays
<1>3. BlockTypes'
  BY <1>1 DEF BlockTypes, pools
<1>4. OneHolder'
  <2>1. \A y \in Nat : \A l, x : Held(l, x, y)' => Held(l, x, y)
    BY DEF Held, SameValues, pools
  <2> QED BY <1>1, <2>1, HoldersStay
<1> QED BY <1>2, <1>3, <1>4, ProducerQuiet

\* enqueue(), where a block is full.
LEMMA StartStep ==
  ASSUME ProducerAssumption, IndexInv, BlockInv, EnqueueStartsBlock
  PROVE  IndexInv' /\ BlockInv'
<1>1. IndexTypes /\ BlockTypes
  BY DEF IndexInv, BlockInv
<1>2. /\ prod.pc = "idle" /\ Slot(tailIndex) = 0 /\ prod' = [prod EXCEPT !.pc = "insert"]
      /\ headers' = headers /\ entries' = entries /\ cons' = cons /\ headIndex' = headIndex
      /\ tailIndex' = tailIndex /\ UNCHANGED <<tailBlock, blocks, pools>>
  BY DEF EnqueueStartsBlock, ProdGoes, index, consVars
<1>3. prod' \in ProdState /\ prod'.pc = "insert" /\ prod'.block = prod.block
  <2>1. prod \in ProdState
    BY <1>1 DEF IndexTypes
  <2>2. "insert" \in Unentered \cup Writing \cup {"publish"}
    BY DEF Unentered
  <2> QED BY <1>2, <2>1, <2>2 DEF ProdState
<1>4. IndexInv'
  BY <1>2, <1>3, EnqueueKeeps
<1>5. TailNum' = TailNum
  BY <1>2, <1>3 DEF TailNum
<1>6. \A i \in Nat : Sent(i)' <=> Sent(i)
  BY <1>2, <1>3 DEF Sent
<1>7. prod'.block = Nothing
  BY <1>1, <1>2, <1>3 DEF BlockTypes, Unentered
<1>8. BlockInv'
  BY <1>2, <1>3, <1>5, <1>6, <1>7, StillGentle, ProducerCalm
<1> QED BY <1>4, <1>8

\* The store to tailIndex.
LEMMA PublishStep ==
  ASSUME ProducerAssumption, IndexInv, BlockInv, Publish
  PROVE  IndexInv' /\ BlockInv'
<1>1. IndexTypes /\ BlockTypes
  BY DEF IndexInv, BlockInv
<1>2. /\ prod.pc = "publish" /\ prod' = IdleProd
      /\ headers' = headers /\ entries' = entries /\ cons' = cons /\ headIndex' = headIndex
      /\ tailIndex' = tailIndex + 1 /\ UNCHANGED <<tailBlock, blocks, pools>>
  BY DEF Publish, index, consVars
<1>3. prod' \in ProdState /\ prod'.pc = "idle" /\ prod'.block = Nothing
  BY <1>2 DEF IdleProd, ProdState, Unentered
<1>4. IndexInv'
  BY <1>2, <1>3, EnqueueKeeps
<1>5. PICK t \in Nat : t = tailIndex /\ tailIndex' = t + 1
  BY <1>1, <1>2 DEF IndexTypes
<1>6. TailNum' = TailNum
  <2>1. TailNum' = Num(tailIndex' - 1)
    BY <1>3 DEF TailNum
  <2>2. tailIndex' - 1 = t
    BY <1>5
  <2> QED BY <1>2, <1>5, <2>1, <2>2 DEF TailNum
<1>7. \A i \in Nat : Sent(i)' <=> Sent(i)
  BY <1>2, <1>3, <1>5 DEF Sent
<1>8. BlockInv'
  BY <1>2, <1>3, <1>6, <1>7, StillGentle, ProducerCalm
<1> QED BY <1>4, <1>8

\* enqueue() in the tail block: the element goes to a slot no message is in.
LEMMA InBlockStep ==
  ASSUME ProducerAssumption, IndexInv, BlockInv, EnqueueInBlock
  PROVE  IndexInv' /\ BlockInv'
<1>1. /\ BlockTypes /\ IndexTypes /\ Headers /\ Window /\ Kept /\ Counted /\ Distinct /\ OneHolder
      /\ TailKept
  BY DEF BlockInv, IndexInv
<1>2. PICK i \in Nat : i = tailIndex
  BY <1>1 DEF IndexTypes
<1>3. /\ prod.pc = "idle" /\ Slot(i) # 0 /\ prod' = [prod EXCEPT !.pc = "publish"]
      /\ blocks' = [blocks EXCEPT ![tailBlock].elements[Slot(i)] = i]
      /\ headers' = headers /\ entries' = entries /\ cons' = cons /\ headIndex' = headIndex
      /\ tailIndex' = i /\ UNCHANGED <<tailBlock, pools>>
  BY <1>2 DEF EnqueueInBlock, ProdGoes, index, consVars
<1>4. prod' \in ProdState /\ prod'.pc = "publish"
  <2>1. prod \in ProdState
    BY <1>1 DEF IndexTypes
  <2> QED BY <1>3, <2>1 DEF ProdState
<1>5. IndexInv'
  BY <1>2, <1>3, <1>4, EnqueueKeeps
<1>6. TailNum = Num(i) /\ TailNum' = Num(i)
  BY <1>2, <1>3, <1>4, NumNext DEF TailNum
<1>7. PICK e \in Entries, b \in Nat : b = tailBlock /\ Has(e, b) /\ KeyOf(e) = Key(Num(i))
  BY <1>1, <1>2, <1>3, <1>6 DEF TailKept
<1>8. b \in DOMAIN blocks /\ Slot(i) \in 0 .. BLOCK_SIZE - 1
  BY <1>1, <1>7, NumFacts, IndexHolds
<1>9. /\ blocks' \in Seq(BlockState) /\ DOMAIN blocks' = DOMAIN blocks
      /\ \A x \in DOMAIN blocks : x # b => blocks'[x] = blocks[x]
      /\ Deq(b)' = Deq(b) /\ Elem(b, Slot(i))' = i
      /\ \A t \in 0 .. BLOCK_SIZE - 1 : t # Slot(i) => Elem(b, t)' = Elem(b, t)
  BY <1>1, <1>3, <1>7, <1>8, ElemDoes DEF BlockGoes
<1>10. \A x \in DOMAIN blocks : Deq(x)' = Deq(x)
  BY <1>9 DEF Deq
<1>11. Gentle /\ SameValues
  BY <1>3, StillGentle
<1>12. \A c \in Consumers : cons'[c] = cons[c] /\ SameWork(c)
  BY <1>3, ConsumersWait
<1>13. BlockTypes'
  BY <1>1, <1>3, <1>4, <1>9 DEF BlockTypes, pools, Unentered
<1>14. Kept'
  <2> SUFFICES ASSUME NEW j \in Nat, Pending(j)' PROVE Stored(j)'
    BY DEF Kept
  <2>1. Pending(j) \/ j = i
    <3>1. Sent(j)' => Sent(j) \/ j = i
      BY <1>2, <1>3, <1>4 DEF Sent
    <3> QED BY <1>12, <3>1 DEF Pending, SameWork
  <2>2. CASE j = i
    <3>1. Has(e, b)' /\ KeyOf(e)' = Key(Num(j)) /\ e \in Entries' /\ Elem(b, Slot(j))' = j
      BY <1>3, <1>7, <1>9, <2>2 DEF Has, Entries, ValueOf, KeyOf
    <3> QED BY <3>1 DEF Stored
  <2>3. CASE Pending(j) /\ j # i
    <3>1. PICK f \in Entries, x \in Nat :
            Has(f, x) /\ KeyOf(f) = Key(Num(j)) /\ Elem(x, Slot(j)) = j
      BY <1>1, <2>3 DEF Kept, Stored
    <3>2. Elem(x, Slot(j))' = j
      <4>1. CASE x = b
        <5>1. f = e
          BY <1>1, <1>7, <3>1, <4>1, IndexHolds
        <5>2. Slot(j) # Slot(i)
          BY <1>7, <2>3, <3>1, <5>1, SlotsDiffer
        <5>3. Slot(j) \in 0 .. BLOCK_SIZE - 1
          BY NumFacts
        <5> QED BY <1>9, <3>1, <4>1, <5>2, <5>3
      <4>2. CASE x # b
        BY <1>1, <1>9, <3>1, <4>2, IndexHolds DEF Elem
      <4> QED BY <4>1, <4>2
    <3>3. Has(f, x)' /\ KeyOf(f)' = Key(Num(j)) /\ f \in Entries'
      BY <1>3, <3>1 DEF Has, Entries, ValueOf, KeyOf
    <3> QED BY <3>2, <3>3 DEF Stored
  <2> QED BY <2>1, <2>2, <2>3
<1>15. TailKept'
  <2>1. Slot(tailIndex) # 0
    BY <1>2, <1>3
  <2>2. TailNum' = TailNum
    BY <1>6
  <2> QED BY <1>1, <1>3, <1>11, <2>1, <2>2, TailStays
<1>16. Counted'
  <2> SUFFICES ASSUME NEW f \in Entries, NEW x \in Nat, Has(f, x)
               PROVE  Deq(x)' + Cardinality(Inside(f)') = Taken(KeyOf(f))'
    BY <1>3 DEF Counted, Has, Entries, ValueOf
  <2>1. Deq(x)' = Deq(x)
    BY <1>1, <1>10, IndexHolds
  <2>2. PICK k : k = KeyOf(f) /\ k = KeyOf(f)'
    BY <1>3 DEF KeyOf
  <2>3. Taken(KeyOf(f))' = Taken(KeyOf(f))
    BY <1>3, <2>2 DEF Taken
  <2>4. Inside(f)' = Inside(f)
    BY <1>12, <2>2 DEF Inside, SameWork
  <2> QED BY <1>1, <2>1, <2>3, <2>4 DEF Counted
<1>17. \A d \in Consumers : Knows(d)'
  <2> TAKE d \in Consumers
  <2>1. headIndex' \in Nat /\ headIndex' >= headIndex
    BY <1>1, <1>3 DEF IndexTypes
  <2>2. \A y \in Nat : \A f : Has(f, y) => Has(f, y)'
    BY <1>11 DEF SameValues
  <2>3. \A y \in Nat : \A f : Has(f, y) => Deq(y)' = Deq(y)
    BY <1>1, <1>10, IndexHolds
  <2>4. Knows(d)
    BY DEF BlockInv
  <2> QED BY <1>1, <1>11, <1>12, <2>1, <2>2, <2>3, <2>4, StillKnows
<1>18. Distinct'
  BY <1>1, <1>12 DEF Distinct, SameWork
<1>19. OneHolder'
  <2>1. \A y \in Nat : \A l, x : Held(l, x, y)' => Held(l, x, y)
    BY <1>3, <1>4, <1>11 DEF Held, SameValues, pools
  <2> QED BY <1>1, <1>9, <2>1, HoldersStay
<1> QED BY <1>5, <1>13, <1>14, <1>15, <1>16, <1>17, <1>18, <1>19 DEF BlockInv

\* A new key, for an entry that has no block, is noticed by no consumer.
LEMMA InsertGentle ==
  ASSUME ProducerAssumption, IndexTypes, NEW x \in Entries, NEW k \in Nat, NEW t,
         KeyGoes(x, k), ValueOf(x) = Nothing, TailGoes(t)
  PROVE  Gentle /\ SameValues
<1>1. \A e \in Entries : e \in Entries' /\ (Valid(e) => Valid(e)')
  BY DEF KeyGoes, Valid, INVALID_BLOCK_BASE
<1>2. \A e \in Entries : ValueOf(e) \in Nat => KeyOf(e)' = KeyOf(e)
  BY DEF KeyGoes, ProducerAssumption
<1>3. \A h \in DOMAIN headers : Pos(h)' = Pos(h) /\ \A p : Entry(h, p)' = Entry(h, p)
  BY DEF TailGoes, Pos
<1>4. Gentle
  BY <1>1, <1>2, <1>3 DEF Gentle, TailGoes
<1>5. SameValues
  BY DEF SameValues, Has, KeyGoes
<1> QED BY <1>4, <1>5

\* An entry that may be used is inserted.
LEMMA EntersStep ==
  ASSUME ProducerAssumption, IndexInv, BlockInv, prod.pc \in {"insert", "insertNew"},
         InsertEntry(NextEntry(Newest)), ValueOf(Ago(Oldest)) = Nothing,
         UNCHANGED <<tailIndex, tailBlock, blocks, pools, consVars>>
  PROVE  IndexInv' /\ BlockInv'
<1>1. IndexTypes /\ BlockTypes /\ Headers /\ Window
  BY DEF IndexInv, BlockInv
<1>2. headIndex' = headIndex /\ cons' = cons
  BY DEF consVars
<1>3. /\ IndexInv' /\ KeyGoes(Ago(Oldest), tailIndex) /\ TailGoes(Back(Oldest))
      /\ prod' = [prod EXCEPT !.pc = "requisition", !.entry = Ago(Oldest)]
  BY <1>2, InsertKeeps
<1>4. prod'.pc = "requisition" /\ prod'.block = Nothing
  <2>1. prod \in ProdState /\ prod.block = Nothing
    BY <1>1 DEF IndexTypes, BlockTypes, Unentered
  <2> QED BY <1>3, <2>1 DEF ProdState
<1>5. PICK x \in Entries : x = Ago(Oldest)
  BY <1>1, BackFacts, AgoFacts
<1>6. Gentle /\ SameValues
  BY <1>1, <1>3, <1>5, InsertGentle DEF IndexTypes
<1>7. TailNum' = TailNum
  BY <1>4 DEF TailNum
<1>8. \A i \in Nat : Sent(i)' <=> Sent(i)
  BY <1>2, <1>4 DEF Sent
<1>9. BlockInv'
  <2>1. Slot(tailIndex') = Slot(tailIndex)
    OBVIOUS
  <2> QED BY <1>2, <1>4, <1>6, <1>7, <1>8, <2>1, ProducerCalm
<1> QED BY <1>3, <1>9

\* insert_block_index_entry().
LEMMA InsertStep ==
  ASSUME ProducerAssumption, IndexInv, BlockInv, Insert
  PROVE  IndexInv' /\ BlockInv'
<1>1. IndexTypes /\ BlockTypes /\ Headers /\ Window
  BY DEF IndexInv, BlockInv
<1>2. prod.pc = "insert" /\ UNCHANGED <<tailIndex, tailBlock, blocks, pools, consVars>>
  BY DEF Insert
<1>3. NextEntry(Newest) = Ago(Oldest) /\ Ago(Oldest) \in Entries
  BY <1>1, NextIsOldest, BackFacts, AgoFacts
<1>4. CASE ~Valid(Ago(Oldest)) \/ ValueOf(Ago(Oldest)) = Nothing
  <2>1. ValueOf(Ago(Oldest)) = Nothing
    BY <1>1, <1>3, <1>4 DEF Window
  <2>2. InsertEntry(NextEntry(Newest))
    BY <1>3, <1>4 DEF Insert, Valid, KeyOf, ValueOf
  <2> QED BY <1>2, <2>1, <2>2, EntersStep
<1>5. CASE Valid(Ago(Oldest)) /\ ValueOf(Ago(Oldest)) # Nothing
  <2>1. /\ prod' = [prod EXCEPT !.pc = "grow"]
        /\ headers' = headers /\ entries' = entries /\ cons' = cons /\ headIndex' = headIndex
        /\ tailIndex' = tailIndex /\ UNCHANGED <<tailBlock, blocks, pools>>
    BY <1>3, <1>5 DEF Insert, Valid, KeyOf, ValueOf, ProdGoes, index, consVars
  <2>2. prod' \in ProdState /\ prod'.pc = "grow" /\ prod'.block = Nothing
    <3>1. prod \in ProdState /\ prod.block = Nothing
      BY <1>1, <1>2 DEF IndexTypes, BlockTypes, Unentered
    <3>2. "grow" \in Unentered \cup Writing \cup {"publish"}
      BY DEF Unentered
    <3> QED BY <2>1, <3>1, <3>2 DEF ProdState
  <2>3. IndexInv'
    BY <1>2, <1>5, <2>1, <2>2, EnqueueKeeps
  <2>4. TailNum' = TailNum
    BY <1>2, <2>1, <2>2 DEF TailNum
  <2>5. \A i \in Nat : Sent(i)' <=> Sent(i)
    BY <1>2, <2>1, <2>2 DEF Sent
  <2>6. BlockInv'
    BY <2>1, <2>2, <2>4, <2>5, StillGentle, ProducerCalm
  <2> QED BY <2>3, <2>6
<1> QED BY <1>4, <1>5

\* insert_block_index_entry(), after the index has grown.
LEMMA InsertNewStep ==
  ASSUME ProducerAssumption, IndexInv, BlockInv, InsertNew
  PROVE  IndexInv' /\ BlockInv'
<1>1. IndexTypes /\ Headers /\ Window /\ Enqueuing
  BY DEF IndexInv
<1>2. prod.pc = "insertNew" /\ InsertEntry(NextEntry(Newest))
      /\ UNCHANGED <<tailIndex, tailBlock, blocks, pools, consVars>>
  BY DEF InsertNew
<1>3. Ago(Oldest) \in Entries
  BY <1>1, BackFacts, AgoFacts
<1>4. ValueOf(Ago(Oldest)) = Nothing
  BY <1>1, <1>2, <1>3 DEF Window, Enqueuing
<1> QED BY <1>2, <1>4, EntersStep

\* new_block_index(), with memory or without.
LEMMA GrowStep ==
  ASSUME ProducerAssumption, IndexInv, BlockInv, Grow
  PROVE  IndexInv' /\ BlockInv'
<1>1. IndexTypes /\ BlockTypes /\ Headers /\ Window
  BY DEF IndexInv, BlockInv
<1>2. /\ prod.pc = "grow" /\ headIndex' = headIndex /\ cons' = cons
      /\ tailIndex' = tailIndex /\ UNCHANGED <<tailBlock, blocks, pools>>
  BY DEF Grow, consVars
<1>3. PICK n \in Nat : n = Cap(Top) /\ n = Newest.capacity
  BY <1>1, HeaderFacts, IndexFacts DEF Cap
<1>4. CASE prod' = IdleProd /\ UNCHANGED index
  <2>1. headers' = headers /\ entries' = entries
    BY <1>4 DEF index
  <2>2. prod' \in ProdState /\ prod'.pc = "idle" /\ prod'.block = Nothing
    BY <1>4 DEF IdleProd, ProdState, Unentered
  <2>3. IndexInv'
    BY <1>2, <2>1, <2>2, EnqueueKeeps
  <2>4. TailNum' = TailNum
    BY <1>2, <2>2 DEF TailNum
  <2>5. \A i \in Nat : Sent(i)' <=> Sent(i)
    BY <1>2, <2>2 DEF Sent
  <2>6. BlockInv'
    BY <1>2, <2>1, <2>2, <2>4, <2>5, StillGentle, ProducerCalm
  <2> QED BY <2>3, <2>6
<1>5. CASE /\ entries' = entries \o NewEntries(n)
           /\ headers' = Append(headers,
                [capacity |-> 2 * n, tail |-> n - 1,
                 index |-> [k \in 0 .. 2 * n - 1 |->
                    IF k < n THEN Newest.index[(Newest.tail + 1 + k) % n]
                    ELSE Len(entries) + 1 + k - n]])
           /\ ProdGoes("insertNew")
  <2>1. GrowsTo(n)
    BY <1>1, <1>3, <1>5, GrowDoes
  <2>2. prod' \in ProdState /\ prod'.pc = "insertNew" /\ prod'.block = Nothing
    <3>1. prod \in ProdState /\ prod.block = Nothing
      BY <1>1, <1>2 DEF IndexTypes, BlockTypes, Unentered
    <3>2. "insertNew" \in Unentered \cup Writing \cup {"publish"}
      BY DEF Unentered
    <3> QED BY <1>5, <3>1, <3>2 DEF ProdState, ProdGoes
  <2>3. IndexInv'
    BY <1>2, <1>3, <2>1, <2>2, GrowKeeps
  <2>4. TailNum' = TailNum
    BY <1>2, <2>2 DEF TailNum
  <2>5. \A i \in Nat : Sent(i)' <=> Sent(i)
    BY <1>2, <2>2 DEF Sent
  <2>6. Gentle
    <3>1. DOMAIN headers \subseteq DOMAIN headers'
      BY <1>1, <2>1, IndexFacts DEF GrowsTo
    <3>2. \A h \in DOMAIN headers : Pos(h)' = Pos(h) /\ \A p : Entry(h, p)' = Entry(h, p)
      BY <2>1 DEF GrowsTo, Pos, Cap, Entry
    <3>3. \A e \in Entries : e \in Entries' /\ (Valid(e) => Valid(e)') /\ KeyOf(e)' = KeyOf(e)
      <4>1. Entries = 1 .. n
        BY <1>1, <1>3, IndexFacts DEF Headers
      <4> QED BY <2>1, <4>1 DEF GrowsTo, Valid, KeyOf
    <3> QED BY <3>1, <3>2, <3>3 DEF Gentle
  <2>7. SameValues
    <3>1. Entries = 1 .. n
      BY <1>1, <1>3, IndexFacts DEF Headers
    <3>2. \A e \in Entries' : e \in Entries \/ ValueOf(e)' = Nothing
      BY <2>1, <3>1 DEF GrowsTo
    <3>3. \A e \in Entries : e \in Entries' /\ ValueOf(e)' = ValueOf(e)
      BY <2>1, <3>1 DEF GrowsTo, ValueOf
    <3> QED BY <3>2, <3>3 DEF SameValues, Has, ProducerAssumption
  <2>8. BlockInv'
    <3>1. Slot(tailIndex') = Slot(tailIndex)
      BY <1>2
    <3> QED BY <1>2, <2>2, <2>4, <2>5, <2>6, <2>7, <3>1, ProducerCalm
  <2> QED BY <2>3, <2>8
<1> QED BY <1>3, <1>4, <1>5 DEF Grow

\* The enqueuing thread has a block, or is to give up for want of one.
LEMMA ObtainStep ==
  ASSUME ProducerAssumption, IndexInv, BlockInv, prod.pc = "requisition", prod' \in ProdState,
         prod'.pc \in {"construct", "rewind"}, prod'.entry = prod.entry,
         prod'.pc = "construct" => prod'.block \in Nat,
         UNCHANGED <<tailIndex, index, tailBlock, consVars>>,
         initialBlockPoolIndex' \in Nat, freeList' \subseteq Nat, blocks' \in Seq(BlockState),
         \A b \in DOMAIN blocks : blocks'[b] = blocks[b], OneHolder'
  PROVE  IndexInv' /\ BlockInv'
<1>1. /\ headers' = headers /\ entries' = entries /\ cons' = cons /\ headIndex' = headIndex
      /\ tailIndex' = tailIndex /\ tailBlock' = tailBlock
  BY DEF index, consVars
<1>2. IndexInv'
  BY <1>1, EnqueueKeeps DEF Writing
<1>3. BlockTypes /\ OneHolder /\ TailKept
  BY DEF BlockInv
<1>4. Gentle /\ SameValues
  BY <1>1, StillGentle
<1>5. TailKept'
  <2>1. TailNum' = TailNum
    BY <1>1 DEF TailNum
  <2>2. Slot(tailIndex') = Slot(tailIndex)
    BY <1>1
  <2> QED BY <1>1, <1>3, <1>4, <2>1, <2>2, TailStays
<1>6. BlockTypes'
  BY <1>1, <1>3 DEF BlockTypes, Unentered
<1>7. \A i \in Nat : Sent(i)' <=> Sent(i)
  BY <1>1 DEF Sent
<1>8. \A b \in Nat : \A e : Has(e, b) => blocks'[b] = blocks[b]
  BY <1>3, IndexHolds
<1>9. BlockInv'
  BY <1>1, <1>4, <1>5, <1>6, <1>7, <1>8, ProducerQuiet
<1> QED BY <1>2, <1>9

\* The block that the enqueuing thread has obtained is in no other place any more.
LEMMA ObtainMoves ==
  ASSUME BlockTypes, OneHolder, NEW b \in Nat, prod.pc = "requisition",
         prod'.pc = "construct", prod'.block = b, entries' = entries, cons' = cons,
         initialBlockPoolIndex' \in Nat, initialBlockPoolIndex' >= initialBlockPoolIndex,
         freeList' \subseteq freeList, initialBlockPoolSize \in Nat,
         \/ Held("pool", 0, b) /\ initialBlockPoolIndex' >= b
         \/ Held("list", 0, b) /\ b \notin freeList'
         \/ b \notin DOMAIN blocks,
         DOMAIN blocks \subseteq DOMAIN blocks', b \in DOMAIN blocks'
  PROVE  OneHolder'
<1>1. \A y \in Nat : \A l, x : Has(x, y)' <=> Has(x, y)
  BY DEF Has, Entries, ValueOf
<1>2. \A y \in Nat : \A l, x : Held(l, x, y)' =>
        (l \in {"pool", "list", "index", "cons"} /\ Held(l, x, y)) \/ (y = b /\ l = "prod" /\ x = 0)
  <2> TAKE y \in Nat
  <2> TAKE l, x
  <2>1. HAVE Held(l, x, y)'
  <2>2. CASE l = "index"
    BY <1>1, <2>1, <2>2 DEF Held
  <2>3. CASE l = "pool"
    <3>1. x = 0 /\ initialBlockPoolIndex' < y /\ y <= initialBlockPoolSize
      BY <2>1, <2>3 DEF Held
    <3>2. initialBlockPoolIndex < y
      BY <3>1 DEF BlockTypes
    <3> QED BY <2>3, <3>1, <3>2 DEF Held
  <2>4. CASE l \notin {"index", "pool"}
    BY <2>1, <2>4 DEF Held
  <2> QED BY <2>2, <2>3, <2>4
<1>3. \A l, x : Held(l, x, b)' => l = "prod" /\ x = 0
  <2> TAKE l, x
  <2>1. HAVE Held(l, x, b)'
  <2>2. SUFFICES ASSUME Held(l, x, b) PROVE FALSE
    BY <1>2, <2>1
  <2>3. CASE Held("pool", 0, b) /\ initialBlockPoolIndex' >= b
    <3>1. l = "pool"
      BY <2>2, <2>3 DEF OneHolder
    <3>2. initialBlockPoolIndex' < b
      BY <2>1, <3>1 DEF Held
    <3> QED BY <2>3, <3>2
  <2>4. CASE Held("list", 0, b) /\ b \notin freeList'
    <3>1. l = "list"
      BY <2>2, <2>4 DEF OneHolder
    <3> QED BY <2>1, <2>4, <3>1 DEF Held
  <2>5. CASE b \notin DOMAIN blocks
    BY <2>2, <2>5 DEF OneHolder
  <2> QED BY <2>3, <2>4, <2>5
<1>4. \A y \in Nat : \A l, x : Held(l, x, y)' => Held(l, x, y) \/ (y = b /\ l = "prod" /\ x = 0)
  BY <1>2
<1> QED BY <1>3, <1>4, BlockMoves

\* requisition_block(), from the pool, the free list or the heap.
LEMMA RequisitionStep ==
  ASSUME ProducerAssumption, IndexInv, BlockInv, Requisition
  PROVE  IndexInv' /\ BlockInv'
<1>1. BlockTypes /\ OneHolder /\ prod \in ProdState
  BY DEF BlockInv, IndexInv, IndexTypes
<1>2. /\ prod.pc = "requisition" /\ UNCHANGED <<tailIndex, index, tailBlock, consVars>>
      /\ entries' = entries /\ cons' = cons
  BY DEF Requisition, index, consVars
<1>3. initialBlockPoolIndex \in Nat /\ freeList \subseteq Nat /\ blocks \in Seq(BlockState)
      /\ initialBlockPoolSize \in Nat
  BY <1>1 DEF BlockTypes, ProducerAssumption
<1>4. "construct" \in Writing /\ "rewind" \in Writing
  BY DEF Writing
<1>5. ASSUME NEW b \in Nat, Obtained(b)
      PROVE  /\ prod' \in ProdState /\ prod'.pc = "construct" /\ prod'.block = b
             /\ prod'.entry = prod.entry
  BY <1>1, <1>4, <1>5 DEF Obtained, ProdState
<1>6. CASE initialBlockPoolIndex < initialBlockPoolSize
  <2>1. PICK b \in Nat : b = initialBlockPoolIndex + 1
    BY <1>3
  <2>2. initialBlockPoolIndex' = b /\ Obtained(b) /\ freeList' = freeList /\ blocks' = blocks
    BY <1>6, <2>1 DEF Requisition
  <2>3. Held("pool", 0, b)
    BY <1>3, <1>6, <2>1 DEF Held
  <2>4. b \in DOMAIN blocks
    BY <1>1, <2>3 DEF OneHolder
  <2>5. initialBlockPoolIndex' >= initialBlockPoolIndex /\ initialBlockPoolIndex' >= b
    BY <1>3, <2>1, <2>2
  <2>6. /\ prod' \in ProdState /\ prod'.pc = "construct" /\ prod'.block = b
        /\ prod'.entry = prod.entry
    BY <1>5, <2>2
  <2>7. OneHolder'
    BY <1>1, <1>2, <1>3, <2>2, <2>3, <2>4, <2>5, <2>6, ObtainMoves
  <2> QED BY <1>2, <1>3, <2>2, <2>6, <2>7, ObtainStep
<1>7. CASE ~(initialBlockPoolIndex < initialBlockPoolSize)
  <2>1. initialBlockPoolIndex' = initialBlockPoolIndex
    BY <1>7 DEF Requisition
  <2>2. initialBlockPoolIndex' >= initialBlockPoolIndex /\ initialBlockPoolIndex' \in Nat
    BY <1>3, <2>1
  <2>3. ASSUME NEW b \in freeList, freeList' = freeList \ {b}, Obtained(b), blocks' = blocks
        PROVE  IndexInv' /\ BlockInv'
    <3>1. b \in Nat /\ Held("list", 0, b)
      BY <1>3, <2>3 DEF Held
    <3>2. b \in DOMAIN blocks
      BY <1>1, <3>1 DEF OneHolder
    <3>3. /\ prod' \in ProdState /\ prod'.pc = "construct" /\ prod'.block = b
          /\ prod'.entry = prod.entry
      BY <1>5, <2>3, <3>1
    <3>4. OneHolder'
      BY <1>1, <1>2, <1>3, <2>2, <2>3, <3>1, <3>2, <3>3, ObtainMoves
    <3> QED BY <1>2, <1>3, <2>2, <2>3, <3>1, <3>3, <3>4, ObtainStep
  <2>4. ASSUME blocks' = Append(blocks, NewBlock), Obtained(Len(blocks) + 1), freeList' = freeList
        PROVE  IndexInv' /\ BlockInv'
    <3>1. PICK b \in Nat : b = Len(blocks) + 1
      BY <1>3
    <3>2. NewBlock \in BlockState
      BY DEF NewBlock, BlockState
    <3>3. /\ blocks' \in Seq(BlockState) /\ DOMAIN blocks' = 1 .. b /\ DOMAIN blocks = 1 .. b - 1
          /\ \A x \in DOMAIN blocks : blocks'[x] = blocks[x]
      <4> HIDE DEF NewBlock
      <4> QED BY <1>3, <2>4, <3>1, <3>2
    <3>4. b \notin DOMAIN blocks /\ b \in DOMAIN blocks' /\ DOMAIN blocks \subseteq DOMAIN blocks'
      BY <3>1, <3>3
    <3>5. /\ prod' \in ProdState /\ prod'.pc = "construct" /\ prod'.block = b
          /\ prod'.entry = prod.entry
      BY <1>5, <2>4, <3>1
    <3>6. OneHolder'
      BY <1>1, <1>2, <1>3, <2>2, <2>4, <3>4, <3>5, ObtainMoves
    <3> QED BY <1>2, <1>3, <2>2, <2>4, <3>3, <3>5, <3>6, ObtainStep
  <2>5. ASSUME ProdGoes("rewind"), freeList' = freeList, blocks' = blocks
        PROVE  IndexInv' /\ BlockInv'
    <3>1. prod' \in ProdState /\ prod'.pc = "rewind" /\ prod'.entry = prod.entry
          /\ prod'.block = Nothing
      BY <1>1, <1>2, <1>4, <2>5 DEF ProdGoes, ProdState, BlockTypes
    <3>2. \A y \in Nat : \A l, x : Held(l, x, y)' => Held(l, x, y)
      <4>1. \A y \in Nat : ~(prod'.block = y)
        BY <3>1 DEF ProducerAssumption
      <4> QED BY <1>2, <2>1, <2>5, <4>1 DEF Held, Has, Entries, ValueOf
    <3>3. OneHolder'
      BY <1>1, <2>5, <3>2, HoldersStay
    <3> QED BY <1>2, <1>3, <2>2, <2>5, <3>1, <3>3, ObtainStep
  <2> QED BY <1>7, <2>3, <2>4, <2>5 DEF Requisition
<1> QED BY <1>6, <1>7

\* The block of a thread that holds it is in no entry.
LEMMA ProdHolds ==
  ASSUME IndexInv, BlockInv, prod.pc \in {"construct", "rewind"}, NEW b \in Nat, prod.block = b
  PROVE  /\ b \in DOMAIN blocks /\ Held("prod", 0, b)
         /\ \A l, x : Held(l, x, b) => l = "prod" /\ x = 0
         /\ \A x : ~Has(x, b)
<1>1. Held("prod", 0, b)
  BY DEF Held
<1>2. b \in DOMAIN blocks /\ \A l, x : Held(l, x, b) => l = "prod" /\ x = 0
  BY <1>1 DEF BlockInv, OneHolder
<1>3. \A x : ~Has(x, b)
  <2> TAKE x
  <2>1. Has(x, b) => Held("index", x, b)
    BY DEF Held
  <2>2. "index" # "prod"
    OBVIOUS
  <2> QED BY <1>2, <2>1, <2>2
<1> QED BY <1>1, <1>2, <1>3

\* The constructor of the element throws.
LEMMA ThrowStep ==
  ASSUME ProducerAssumption, IndexInv, BlockInv, prod.pc = "construct",
         blocks' = [blocks EXCEPT ![prod.block].dequeued = 0], ProdGoes("rewind"),
         UNCHANGED <<tailIndex, index, tailBlock, pools, consVars>>
  PROVE  IndexInv' /\ BlockInv'
<1>1. BlockTypes /\ OneHolder /\ TailKept /\ prod \in ProdState
  BY DEF BlockInv, IndexInv, IndexTypes
<1>2. /\ headers' = headers /\ entries' = entries /\ cons' = cons /\ headIndex' = headIndex
      /\ tailIndex' = tailIndex /\ tailBlock' = tailBlock
      /\ initialBlockPoolIndex' = initialBlockPoolIndex /\ freeList' = freeList
  BY DEF index, consVars, pools
<1>3. PICK b \in Nat : b = prod.block
  BY <1>1 DEF BlockTypes
<1>4. b \in DOMAIN blocks /\ \A x : ~Has(x, b)
  BY <1>3, ProdHolds
<1>5. BlockGoes(b, [blocks[b] EXCEPT !.dequeued = 0])
  BY <1>1, <1>3, <1>4, DeqDoes
<1>6. /\ prod' \in ProdState /\ prod'.pc = "rewind" /\ prod'.block = b
      /\ prod'.entry = prod.entry
  <2>1. "rewind" \in Unentered \cup Writing \cup {"publish"}
    BY DEF Writing
  <2> QED BY <1>1, <1>3, <2>1 DEF ProdGoes, ProdState
<1>7. IndexInv'
  BY <1>2, <1>6, EnqueueKeeps DEF Writing
<1>8. Gentle /\ SameValues
  BY <1>2, StillGentle
<1>9. TailKept'
  <2>1. TailNum' = TailNum
    BY <1>2, <1>6 DEF TailNum
  <2>2. Slot(tailIndex') = Slot(tailIndex)
    BY <1>2
  <2> QED BY <1>1, <1>2, <1>6, <1>8, <2>1, <2>2, TailStays
<1>10. BlockTypes'
  BY <1>1, <1>2, <1>5, <1>6 DEF BlockTypes, BlockGoes, Unentered
<1>11. \A i \in Nat : Sent(i)' <=> Sent(i)
  BY <1>2, <1>6 DEF Sent
<1>12. \A y \in Nat : \A e : Has(e, y) => blocks'[y] = blocks[y]
  BY <1>1, <1>4, <1>5, IndexHolds DEF BlockGoes
<1>13. OneHolder'
  <2>1. \A y \in Nat : \A l, x : Held(l, x, y)' => Held(l, x, y)
    BY <1>2, <1>3, <1>6 DEF Held, Has, Entries, ValueOf
  <2> QED BY <1>1, <1>5, <2>1, HoldersStay DEF BlockGoes
<1>14. BlockInv'
  BY <1>2, <1>8, <1>9, <1>10, <1>11, <1>12, <1>13, ProducerQuiet
<1> QED BY <1>7, <1>14

\* What the reset of a block and its first element do.
LEMMA ConstructDoes ==
  ASSUME ProducerAssumption, BlockTypes, NEW b \in DOMAIN blocks, NEW t \in Nat,
         blocks' = [blocks EXCEPT ![b].dequeued = 0, ![b].elements[0] = t]
  PROVE  /\ blocks' \in Seq(BlockState) /\ DOMAIN blocks' = DOMAIN blocks
         /\ \A x \in DOMAIN blocks : x # b => blocks'[x] = blocks[x]
         /\ Deq(b)' = 0 /\ Elem(b, 0)' = t
<1> DEFINE some == [blocks[b].elements EXCEPT ![0] = t]
           empty == [blocks[b] EXCEPT !.dequeued = 0]
           block == [empty EXCEPT !.elements = some]
<1>1. blocks[b] \in BlockState /\ 0 \in 0 .. BLOCK_SIZE - 1
  BY BlockFacts DEF ProducerAssumption
<1>2. some \in [0 .. BLOCK_SIZE - 1 -> Nat \cup {Nothing}] /\ some[0] = t
  BY <1>1 DEF BlockState
<1>3. blocks' = [blocks EXCEPT ![b] = block]
  <2>1. block = [blocks[b] EXCEPT !.dequeued = 0, !.elements[0] = t]
    BY <1>1 DEF BlockState
  <2>2. blocks' = [blocks EXCEPT ![b] = [blocks[b] EXCEPT !.dequeued = 0, !.elements[0] = t]]
    OBVIOUS
  <2> QED BY <2>1, <2>2
<1>4. empty \in BlockState /\ empty.dequeued = 0
  BY <1>1 DEF BlockState
<1> HIDE DEF some, empty
<1>5. block \in BlockState /\ block.elements = some /\ block.dequeued = 0
  BY <1>2, <1>4 DEF BlockState
<1> HIDE DEF block
<1>6. BlockGoes(b, block)
  BY <1>3, <1>5, BlockDoes
<1> QED BY <1>2, <1>5, <1>6 DEF BlockGoes, Deq, Elem

\* The entry that the enqueuing thread has, for the message it puts.
LEMMA EntryTaken ==
  ASSUME ProducerAssumption, IndexInv, prod.pc \in Writing
  PROVE  /\ prod.entry \in Entries /\ prod.entry = Ago(0) /\ ValueOf(prod.entry) = Nothing
         /\ tailIndex \in Nat /\ Slot(tailIndex) = 0 /\ LastNum = Num(tailIndex)
         /\ Key(Num(tailIndex)) = tailIndex /\ KeyOf(prod.entry) = tailIndex
<1>1. IndexTypes /\ Headers /\ Window /\ Enqueuing
  BY DEF IndexInv
<1>2. PICK t \in Nat : t = tailIndex
  BY <1>1 DEF IndexTypes
<1>3. /\ prod.entry = Ago(0) /\ ValueOf(prod.entry) = Nothing /\ Slot(t) = 0 /\ LastNum = Num(t)
  BY <1>1, <1>2 DEF Enqueuing, Writing, LastNum, Unentered
<1>4. prod.entry \in Entries
  BY <1>1, <1>3, BackFacts, AgoFacts
<1>5. Num(t) \in Nat /\ Key(Num(t)) \in Nat
  BY NumNat
<1>6. Slot(t) = t - Key(Num(t))
  BY NumFacts
<1>7. Key(Num(t)) = t
  BY <1>3, <1>5, <1>6
<1>8. PICK m \in Nat : m = Num(t)
  BY <1>5
<1>9. LastNum >= 0 /\ m - 0 = m
  BY <1>3, <1>8
<1>10. InOrder(0)
  BY <1>1, <1>9 DEF Window
<1>11. KeyOf(Ago(0)) = Key(m)
  BY <1>3, <1>8, <1>9, <1>10 DEF InOrder
<1> QED BY <1>2, <1>3, <1>4, <1>7, <1>8, <1>11

\* The new block enters the index with its first message.
LEMMA PutStep ==
  ASSUME ProducerAssumption, IndexInv, BlockInv, prod.pc = "construct",
         blocks' = [blocks EXCEPT ![prod.block].dequeued = 0,
                                  ![prod.block].elements[0] = tailIndex],
         entries' = [entries EXCEPT ![prod.entry].value = prod.block],
         tailBlock' = prod.block, ProdGoes("publish"),
         UNCHANGED <<tailIndex, headers, pools, consVars>>
  PROVE  IndexInv' /\ BlockInv'
<1>1. /\ BlockTypes /\ IndexTypes /\ Headers /\ Window /\ Kept /\ Counted /\ Distinct /\ OneHolder
      /\ TailKept
  BY DEF BlockInv, IndexInv
<1>2. PICK e \in Entries, t \in Nat :
        /\ e = prod.entry /\ t = tailIndex /\ ValueOf(e) = Nothing /\ Slot(t) = 0
        /\ Key(Num(t)) = t /\ KeyOf(e) = t
  BY EntryTaken DEF Writing
<1>3. PICK b \in Nat : b = prod.block
  BY <1>1 DEF BlockTypes
<1>4. /\ b \in DOMAIN blocks /\ (\A l, x : Held(l, x, b) => l = "prod" /\ x = 0)
      /\ \A x : ~Has(x, b)
  BY <1>3, ProdHolds
<1>5. /\ headers' = headers /\ cons' = cons /\ headIndex' = headIndex /\ tailIndex' = t
      /\ tailBlock' = b /\ initialBlockPoolIndex' = initialBlockPoolIndex /\ freeList' = freeList
  BY <1>2, <1>3 DEF consVars, pools
<1>6. prod' \in ProdState /\ prod'.pc = "publish"
  <2>1. prod \in ProdState
    BY <1>1 DEF IndexTypes
  <2> QED BY <2>1 DEF ProdGoes, ProdState
<1>7. ValueGoes(e, b)
  BY <1>1, <1>2, <1>3, ValueDoes
<1>8. IndexInv'
  BY <1>2, <1>5, <1>6, <1>7, ConstructKeeps
<1>9. /\ blocks' \in Seq(BlockState) /\ DOMAIN blocks' = DOMAIN blocks
      /\ (\A x \in DOMAIN blocks : x # b => blocks'[x] = blocks[x])
      /\ Deq(b)' = 0 /\ Elem(b, 0)' = t
  BY <1>1, <1>2, <1>3, <1>4, ConstructDoes
<1>10. \A y \in Nat : \A f : Has(f, y)' <=> Has(f, y) \/ (f = e /\ y = b)
  BY <1>2, <1>7 DEF Has, ValueGoes, ProducerAssumption
<1>11. \A y \in Nat : \A f : Has(f, y) => y # b /\ blocks'[y] = blocks[y] /\ f # e
  <2>1. \A y \in Nat : ~Has(e, y)
    BY <1>2 DEF Has, ProducerAssumption
  <2> TAKE y \in Nat
  <2> TAKE f
  <2>2. HAVE Has(f, y)
  <2>3. y # b /\ f # e
    BY <1>4, <2>1, <2>2
  <2>4. y \in DOMAIN blocks
    BY <1>1, <2>2, IndexHolds
  <2> QED BY <1>9, <2>3, <2>4
<1>12. /\ Entries' = Entries /\ \A f \in Entries : KeyOf(f)' = KeyOf(f)
  BY <1>7 DEF ValueGoes
<1>13. Gentle
  <2>1. \A f \in Entries : f \in Entries' /\ (Valid(f) => Valid(f)') /\ KeyOf(f)' = KeyOf(f)
    BY <1>12 DEF Valid
  <2> QED BY <1>5, <2>1 DEF Gentle, Pos, Cap, Entry
<1>14. \A d \in Consumers : cons'[d] = cons[d] /\ SameWork(d)
  BY <1>5, ConsumersWait
<1>15. BlockTypes'
  BY <1>1, <1>5, <1>6, <1>9 DEF BlockTypes, Unentered
<1>16. Kept'
  <2> SUFFICES ASSUME NEW j \in Nat, Pending(j)' PROVE Stored(j)'
    BY DEF Kept
  <2>1. Pending(j) \/ j = t
    <3>1. Sent(j)' => Sent(j) \/ j = t
      BY <1>2, <1>5, <1>6 DEF Sent
    <3> QED BY <1>14, <3>1 DEF Pending, SameWork
  <2>2. CASE j = t
    <3>1. Has(e, b)' /\ KeyOf(e)' = Key(Num(j)) /\ e \in Entries' /\ Elem(b, Slot(j))' = j
      BY <1>2, <1>9, <1>10, <1>12, <2>2
    <3> QED BY <3>1 DEF Stored
  <2>3. CASE Pending(j)
    <3>1. PICK f \in Entries, x \in Nat :
            Has(f, x) /\ KeyOf(f) = Key(Num(j)) /\ Elem(x, Slot(j)) = j
      BY <1>1, <2>3 DEF Kept, Stored
    <3>2. Has(f, x)' /\ KeyOf(f)' = Key(Num(j)) /\ f \in Entries' /\ Elem(x, Slot(j))' = j
      BY <1>10, <1>11, <1>12, <3>1 DEF Elem
    <3> QED BY <3>2 DEF Stored
  <2> QED BY <2>1, <2>2, <2>3
<1>17. TailKept'
  <2>1. TailNum' = Num(t)
    BY <1>5, <1>6 DEF TailNum
  <2>2. Has(e, b)' /\ KeyOf(e)' = Key(Num(t)) /\ e \in Entries'
    BY <1>2, <1>10, <1>12
  <2>3. Has(e, tailBlock)' /\ KeyOf(e)' = Key(TailNum)'
    BY <1>5, <2>1, <2>2 DEF Has, Key, Entries, ValueOf
  <2> QED BY <1>3, <1>5, <2>2, <2>3 DEF TailKept
<1>18. Counted'
  <2> SUFFICES ASSUME NEW f \in Entries, NEW x \in Nat, Has(f, x)'
               PROVE  Deq(x)' + Cardinality(Inside(f)') = Taken(KeyOf(f))'
    BY <1>12 DEF Counted
  <2>1. PICK k : k = KeyOf(f) /\ k = KeyOf(f)'
    BY <1>12
  <2>2. Taken(KeyOf(f))' = Taken(KeyOf(f))
    BY <1>5, <2>1 DEF Taken
  <2>3. Inside(f)' = Inside(f)
    BY <1>14, <2>1 DEF Inside, SameWork
  <2>4. CASE Has(f, x)
    <3>1. Deq(x)' = Deq(x)
      BY <1>11, <2>4 DEF Deq
    <3> QED BY <1>1, <2>2, <2>3, <2>4, <3>1 DEF Counted
  <2>5. CASE f = e /\ x = b
    <3>1. ASSUME NEW c \in Consumers, NEW i \in Nat, Loads(c, i), Key(Num(i)) = t
          PROVE  FALSE
      <4>1. i < headIndex
        BY <3>1 DEF BlockInv, Knows, Loads
      <4>2. headIndex \in Nat /\ headIndex <= t
        BY <1>1, <1>2 DEF IndexTypes
      <4>3. Slot(i) = i - t /\ Slot(i) \in 0 .. BLOCK_SIZE - 1
        BY <3>1, NumFacts
      <4>4. BLOCK_SIZE \in Nat
        BY DEF ProducerAssumption
      <4> QED BY <4>1, <4>2, <4>3, <4>4
    <3>2. ASSUME NEW c \in Consumers, Empties(c, e) PROVE FALSE
      <4>1. cons[c].block \in Nat /\ Has(e, cons[c].block)
        BY <3>2 DEF BlockInv, Knows, Empties
      <4> QED BY <1>2, <4>1 DEF Has, ProducerAssumption
    <3>3. Inside(e) = {}
      BY <1>2, <3>1, <3>2 DEF Inside
    <3>4. Cardinality({}) = 0
      BY FS_EmptySet
    <3>5. Taken(KeyOf(e)) = 0
      BY <1>1, <1>2 DEF Taken, IndexTypes
    <3> QED BY <1>9, <2>2, <2>3, <2>5, <3>3, <3>4, <3>5
  <2> QED BY <1>10, <2>4, <2>5
<1>19. \A d \in Consumers : Knows(d)'
  <2> TAKE d \in Consumers
  <2>1. headIndex' \in Nat /\ headIndex' >= headIndex
    BY <1>1, <1>5 DEF IndexTypes
  <2>2. \A y \in Nat : \A f : Has(f, y) => Has(f, y)' /\ Deq(y)' = Deq(y)
    BY <1>10, <1>11 DEF Deq
  <2>3. Knows(d)
    BY DEF BlockInv
  <2> QED BY <1>1, <1>13, <1>14, <2>1, <2>2, <2>3, StillKnows
<1>20. Distinct'
  BY <1>1, <1>14 DEF Distinct, SameWork
<1>21. OneHolder'
  <2>1. \A y \in Nat : \A l, x : Held(l, x, y)' =>
          l # "prod" /\ (Held(l, x, y) \/ (y = b /\ l = "index" /\ x = e))
    BY <1>5, <1>6, <1>10 DEF Held
  <2>2. \A l, x : Held(l, x, b)' => l = "index" /\ x = e
    BY <1>4, <2>1
  <2>3. \A y \in Nat : \A l, x : Held(l, x, y)' => Held(l, x, y) \/ (y = b /\ l = "index" /\ x = e)
    BY <2>1
  <2>4. DOMAIN blocks \subseteq DOMAIN blocks' /\ b \in DOMAIN blocks' /\ OneHolder
    BY <1>1, <1>4, <1>9
  <2> QED BY <2>2, <2>3, <2>4, BlockMoves
<1> QED BY <1>8, <1>15, <1>16, <1>17, <1>18, <1>19, <1>20, <1>21 DEF BlockInv

\* enqueue(), where it has an entry and a block.
LEMMA ConstructStep ==
  ASSUME ProducerAssumption, IndexInv, BlockInv, Construct
  PROVE  IndexInv' /\ BlockInv'
BY PutStep, ThrowStep DEF Construct, index

\* rewind_block_index_tail(), and the block goes back.
LEMMA RewindStep ==
  ASSUME ProducerAssumption, IndexInv, BlockInv, Rewind
  PROVE  IndexInv' /\ BlockInv'
<1>1. /\ BlockTypes /\ IndexTypes /\ Headers /\ OneHolder /\ TailKept
  BY DEF BlockInv, IndexInv
<1>2. /\ prod.pc = "rewind" /\ prod' = IdleProd /\ cons' = cons /\ headIndex' = headIndex
      /\ tailIndex' = tailIndex /\ tailBlock' = tailBlock /\ blocks' = blocks
      /\ initialBlockPoolIndex' = initialBlockPoolIndex
      /\ freeList' = freeList \cup ({prod.block} \ {Nothing})
  BY DEF Rewind, consVars
<1>3. PICK e \in Entries : e = prod.entry /\ ValueOf(e) = Nothing
  BY <1>2, EntryTaken DEF Writing
<1>4. ValueGoes(e, Nothing)
  BY <1>1, <1>3, ValueDoes DEF Rewind
<1>5. TailGoes(Before(TailOf(Top)))
  <2>1. PICK p \in Pos(Top) : p = Before(TailOf(Top))
    BY <1>1, NextIsOldest
  <2>2. p = (Newest.tail + Newest.capacity - 1) % Newest.capacity
    BY <1>1, <2>1, NextIsOldest
  <2>3. headers' = [headers EXCEPT ![Len(headers)].tail = p]
    BY <2>2 DEF Rewind, Newest
  <2> QED BY <1>1, <2>1, <2>3, TailDoes
<1>6. IndexInv'
  BY <1>2, <1>3, <1>4, <1>5, RewindKeeps
<1>7. prod' \in ProdState /\ prod'.pc = "idle" /\ prod'.block = Nothing
  BY <1>2 DEF IdleProd, ProdState, Unentered
<1>8. Gentle
  <2>1. \A f \in Entries : f \in Entries' /\ (Valid(f) => Valid(f)') /\ KeyOf(f)' = KeyOf(f)
    BY <1>4 DEF ValueGoes, Valid
  <2>2. \A h \in DOMAIN headers : Pos(h)' = Pos(h) /\ \A p : Entry(h, p)' = Entry(h, p)
    BY <1>5 DEF TailGoes, Pos
  <2> QED BY <1>5, <2>1, <2>2 DEF Gentle, TailGoes
<1>9. SameValues
  BY <1>3, <1>4 DEF SameValues, Has, ValueGoes
<1>10. TailKept'
  <2>1. TailNum' = TailNum
    BY <1>2, <1>7 DEF TailNum
  <2>2. Slot(tailIndex') = Slot(tailIndex)
    BY <1>2
  <2> QED BY <1>1, <1>2, <1>7, <1>8, <1>9, <2>1, <2>2, TailStays
<1>11. prod.block \in Nat \cup {Nothing}
  BY <1>1 DEF IndexTypes, ProdState
<1>12. BlockTypes'
  <2>1. freeList' \subseteq Nat
    BY <1>1, <1>2, <1>11 DEF BlockTypes
  <2> QED BY <1>1, <1>2, <1>7, <2>1 DEF BlockTypes
<1>13. \A i \in Nat : Sent(i)' <=> Sent(i)
  BY <1>2, <1>7 DEF Sent
<1>14. OneHolder'
  <2>1. ASSUME NEW y \in Nat, NEW l, NEW x, Held(l, x, y)'
        PROVE  l # "prod" /\ (Held(l, x, y) \/ (y = prod.block /\ l = "list" /\ x = 0))
    <3>1. l = "index" => Has(x, y)
      BY <1>9, <2>1 DEF Held, SameValues
    <3>2. y \in freeList' => y \in freeList \/ y = prod.block
      BY <1>2
    <3> QED BY <1>2, <1>7, <2>1, <3>1, <3>2 DEF Held
  <2>2. CASE prod.block = Nothing
    <3>1. \A y \in Nat : y # prod.block
      BY <2>2 DEF ProducerAssumption
    <3>2. \A y \in Nat : \A l, x : Held(l, x, y)' => Held(l, x, y)
      BY <2>1, <3>1
    <3> QED BY <1>1, <1>2, <3>2, HoldersStay
  <2>3. CASE prod.block \in Nat
    <3>1. PICK b \in Nat : b = prod.block
      BY <2>3
    <3>2. b \in DOMAIN blocks /\ \A l, x : Held(l, x, b) => l = "prod" /\ x = 0
      BY <1>2, <3>1, ProdHolds
    <3>3. \A l, x : Held(l, x, b)' => l = "list" /\ x = 0
      BY <2>1, <3>2
    <3>4. \A y \in Nat : \A l, x : Held(l, x, y)' => Held(l, x, y) \/ (y = b /\ l = "list" /\ x = 0)
      BY <2>1, <3>1
    <3>5. DOMAIN blocks \subseteq DOMAIN blocks' /\ b \in DOMAIN blocks' /\ OneHolder
      BY <1>1, <1>2, <3>2
    <3> QED BY <3>3, <3>4, <3>5, BlockMoves
  <2> QED BY <1>11, <2>2, <2>3
<1>15. BlockInv'
  BY <1>2, <1>8, <1>9, <1>10, <1>12, <1>13, <1>14, ProducerQuiet
<1> QED BY <1>6, <1>15

\* Every step of enqueue().
LEMMA ProducerSteps ==
  ASSUME ProducerAssumption, IndexInv, BlockInv, Producer
  PROVE  IndexInv' /\ BlockInv'
BY InBlockStep, StartStep, InsertStep, GrowStep, InsertNewStep, RequisitionStep, ConstructStep,
   RewindStep, PublishStep DEF Producer

-----------------------------------------------------------------------------
(* What the consumers do, and how it starts. *)

\* The steps of dequeue() up to the claim.
LEMMA EarlySteps ==
  ASSUME ProducerAssumption, IndexInv, BlockInv, NEW c \in Consumers,
         \/ CallDequeue(c) \/ LoadOvercommit(c) \/ Test(c) \/ Claim(c) \/ Retest(c) \/ Release(c)
  PROVE  BlockInv'
<1>1. DOMAIN cons[c] = DOMAIN IdleCons
  BY DEF BlockInv, BlockTypes
<1>2. ASSUME NEW s, DOMAIN s = DOMAIN IdleCons, Goes(c, s), s.pc \in Early,
             CalmStep, cons[c].pc \in Early
      PROVE  BlockInv'
  BY <1>2, EarlyKeeps
<1>3. IdleCons.pc = "idle" /\ "pc" \in DOMAIN IdleCons
  BY DEF IdleCons
<1> USE DEF Early, At, CalmStep
<1>4. CASE CallDequeue(c)
  <2> DEFINE s == [IdleCons EXCEPT !.pc = "loadOvercommit", !.tail = tailIndex]
  <2>1. DOMAIN s = DOMAIN IdleCons /\ s.pc = "loadOvercommit"
    BY DEF IdleCons
  <2> QED BY <1>2, <1>4, <2>1 DEF CallDequeue
<1>5. CASE LoadOvercommit(c)
  <2> DEFINE s == [cons[c] EXCEPT !.pc = "test", !.overcommit = dequeueOvercommit]
  <2>1. DOMAIN s = DOMAIN IdleCons /\ s.pc = "test"
    BY <1>1, <1>3
  <2> QED BY <1>2, <1>5, <2>1 DEF LoadOvercommit
<1>6. CASE Test(c)
  <2> DEFINE s == [cons[c] EXCEPT !.pc = "claim"]
  <2>1. DOMAIN s = DOMAIN IdleCons /\ s.pc = "claim"
    BY <1>1, <1>3
  <2>2. CalmStep /\ cons[c].pc \in Early /\ (Goes(c, s) \/ Goes(c, IdleCons))
    BY <1>6 DEF Test, Return
  <2> QED BY <1>2, <1>3, <2>1, <2>2
<1>7. CASE Claim(c)
  <2> DEFINE s == [cons[c] EXCEPT !.pc = "retest", !.count = dequeueOptimisticCount]
  <2>1. DOMAIN s = DOMAIN IdleCons /\ s.pc = "retest"
    BY <1>1, <1>3
  <2> QED BY <1>2, <1>7, <2>1 DEF Claim
<1>8. CASE Retest(c)
  <2> DEFINE pc == IF CircularLessThan(cons[c].count - cons[c].overcommit, tailIndex)
                   THEN "take" ELSE "release"
             s == [IdleCons EXCEPT !.pc = pc]
  <2>1. DOMAIN s = DOMAIN IdleCons /\ s.pc = pc
    BY DEF IdleCons
  <2> QED BY <1>2, <1>8, <2>1 DEF Retest
<1>9. CASE Release(c)
  <2>1. CalmStep /\ cons[c].pc \in Early /\ Goes(c, IdleCons)
    BY <1>9 DEF Release, Return
  <2> QED BY <1>2, <1>3, <2>1
<1> QED BY <1>4, <1>5, <1>6, <1>7, <1>8, <1>9

\* Every step of dequeue().
LEMMA ConsumerSteps ==
  ASSUME ProducerAssumption, IndexInv, BlockInv, headIndex' <= tailIndex',
         NEW c \in Consumers, Consumer(c)
  PROVE  IndexInv' /\ BlockInv'
<1>1. headIndex \in Nat /\ tailIndex \in Nat
  BY DEF IndexInv, IndexTypes
<1>2. UNCHANGED <<headers, tailIndex, prod>> /\ headIndex' \in {headIndex, headIndex + 1}
  BY DEF Consumer, CallDequeue, LoadOvercommit, Test, Claim, Retest, Release, TakeIndex,
         LoadIndex, LoadIndexTail, LoadBase, Read, SetEmpty, Unindex, FreeBlock, prodVars
<1>3. BlockInv'
  <2>1. TakeIndex(c) => headIndex < tailIndex
    BY <1>1, <1>2 DEF TakeIndex
  <2> QED BY <2>1, EarlySteps, TakeIndexKeeps, LoadIndexKeeps, LoadIndexTailKeeps, LoadBaseKeeps,
             ReadKeeps, SetEmptyKeeps, UnindexKeeps, FreeBlockKeeps DEF Consumer
<1>4. entries' = entries \/ \E x \in Entries : ValueGoes(x, Nothing)
  <2>1. CASE Unindex(c)
    BY <2>1, UnindexKeeps
  <2>2. CASE ~Unindex(c)
    BY <2>2 DEF Consumer, CallDequeue, LoadOvercommit, Test, Claim, Retest, Release, TakeIndex,
         LoadIndex, LoadIndexTail, LoadBase, Read, SetEmpty, FreeBlock, memory
  <2> QED BY <2>1, <2>2
<1>5. IndexInv'
  <2>1. headIndex' \in Nat
    BY <1>1, <1>2
  <2> QED BY <1>2, <1>4, <2>1, IndexQuiet
<1> QED BY <1>3, <1>5

\* A stuttering step.
LEMMA NothingHappens ==
  ASSUME ProducerAssumption, IndexInv, BlockInv, UNCHANGED vars
  PROVE  IndexInv' /\ BlockInv'
<1>1. /\ headers' = headers /\ entries' = entries /\ blocks' = blocks /\ headIndex' = headIndex
      /\ tailIndex' = tailIndex /\ prod' = prod /\ tailBlock' = tailBlock /\ cons' = cons
      /\ freeList' = freeList /\ initialBlockPoolIndex' = initialBlockPoolIndex
  BY DEF vars, index, pools
<1>2. IndexInv'
  <2>1. headIndex' \in Nat /\ headIndex' <= tailIndex'
    BY <1>1 DEF IndexInv, IndexTypes
  <2> QED BY <1>1, <2>1, IndexQuiet
<1>3. Gentle /\ SameValues
  BY <1>1, StillGentle
<1>4. BlockTypes' /\ OneHolder' /\ TailKept'
  <2>1. BlockTypes'
    BY <1>1 DEF BlockInv, BlockTypes
  <2>2. \A y \in Nat : \A l, x : Held(l, x, y)' => Held(l, x, y)
    BY <1>1 DEF Held, Has, Entries, ValueOf
  <2>3. OneHolder'
    BY <1>1, <2>2, HoldersStay DEF BlockInv
  <2>4. TailKept'
    BY <1>1 DEF BlockInv, TailKept, TailNum, Has, Entries, ValueOf, KeyOf
  <2> QED BY <2>1, <2>3, <2>4
<1>5. \A i \in Nat : Sent(i)' <=> Sent(i)
  BY <1>1 DEF Sent
<1>6. BlockInv'
  BY <1>1, <1>3, <1>4, <1>5, ProducerQuiet
<1> QED BY <1>2, <1>6

\* Every step, of any thread, keeps the invariant.
LEMMA BlocksNext ==
  ASSUME ProducerAssumption, IndexInv, BlockInv, headIndex' <= tailIndex', [Next]_vars
  PROVE  IndexInv' /\ BlockInv'
BY ProducerSteps, ConsumerSteps, NothingHappens DEF Next, Stopped

\* The constructor makes an index whose entries are all free.
LEMMA IndexStarts ==
  ASSUME ProducerAssumption, Init
  PROVE  IndexInv /\ (\A e \in Entries : ValueOf(e) = Nothing)
<1>1. PICK n \in Nat : n = IMPLICIT_INITIAL_INDEX_SIZE /\ n >= 2
  BY DEF ProducerAssumption
<1> DEFINE header == [capacity |-> n, tail |-> n - 1, index |-> [k \in 0 .. n - 1 |-> k + 1]]
<1>2. /\ headers = <<header>> /\ entries = NewEntries(n) /\ prod = IdleProd
      /\ tailIndex = 0 /\ headIndex = 0
  BY <1>1 DEF Init
<1>3. prod \in ProdState /\ prod.pc = "idle"
  BY <1>2 DEF IdleProd, ProdState, Unentered
<1>4. header \in HeaderState
  <2>1. header.index \in [0 .. n - 1 -> Nat]
    BY <1>1
  <2>2. header \in HeaderOf(n)
    BY <1>1, <2>1 DEF HeaderOf
  <2> QED BY <1>1, <2>2 DEF HeaderState
<1>5. Top = 1 /\ headers[1] = header /\ headers \in Seq(HeaderState) /\ headers # <<>>
      /\ DOMAIN headers = {1}
  <2> HIDE DEF header
  <2> QED BY <1>2, <1>4 DEF Top
<1>6. Cap(1) = n /\ Pos(1) = 0 .. n - 1 /\ \A p \in 0 .. n - 1 : Entry(1, p) = p + 1
  BY <1>1, <1>5 DEF Cap, Pos, Entry
<1> HIDE DEF header
<1>7. /\ entries \in Seq(EntryState) /\ Len(entries) = n /\ Entries = 1 .. n
      /\ \A e \in Entries : KeyOf(e) = INVALID_BLOCK_BASE /\ ValueOf(e) = Nothing
  <2>1. [key |-> INVALID_BLOCK_BASE, value |-> Nothing] \in EntryState
    BY DEF EntryState
  <2>2. entries = [k \in 1 .. n |-> [key |-> INVALID_BLOCK_BASE, value |-> Nothing]]
    BY <1>2 DEF NewEntries
  <2>3. DOMAIN entries = 1 .. n /\ \A k \in 1 .. n : entries[k] \in EntryState
    BY <2>1, <2>2
  <2>4. entries \in Seq(EntryState) /\ Len(entries) = n
    BY <1>1, <2>1, <2>2
  <2> QED BY <2>2, <2>4 DEF Entries, KeyOf, ValueOf
<1>8. IndexTypes
  BY <1>2, <1>3, <1>5, <1>7 DEF IndexTypes
<1>9. Headers
  <2>1. Leads(1)
    <3>1. n = 1 * n
      BY <1>1
    <3>2. \A p \in 0 .. n - 1 : p + 1 \in 1 .. n
      BY <1>1
    <3> QED BY <1>1, <1>5, <1>6, <1>7, <3>1, <3>2 DEF Leads
  <2>2. \A e \in Entries : \E p \in Pos(Top) : Entry(Top, p) = e
    <3> TAKE e \in Entries
    <3>1. e \in 1 .. n /\ e - 1 \in 0 .. n - 1 /\ (e - 1) + 1 = e
      BY <1>1, <1>7
    <3> QED BY <1>5, <1>6, <3>1
  <2>3. 1 .. Top - 1 = {}
    BY <1>5
  <2> QED BY <1>5, <1>6, <1>7, <2>1, <2>2, <2>3 DEF Headers
<1>10. LastNum = -1
  <2>1. Key(0) = 0 /\ Num(Key(0)) = 0 /\ Slot(Key(0)) = 0
    BY KeyNum DEF Key, ProducerAssumption
  <2>2. Num(0 - 1) = 0 - 1
    BY <2>1, NumNext
  <2>3. 0 - 1 = -1
    OBVIOUS
  <2> QED BY <1>2, <1>3, <2>2, <2>3 DEF LastNum, Unentered
<1>11. Window
  <2>1. \A j \in Pos(Top) : ~Valid(Ago(j)) /\ ~InOrder(j)
    <3> TAKE j \in Pos(Top)
    <3>1. Ago(j) \in Entries
      BY <1>8, <1>9, AgoFacts
    <3>2. j >= 0
      BY <1>5, <1>6
    <3> QED BY <1>1, <1>5, <1>6, <1>7, <1>10, <3>1, <3>2 DEF Valid, InOrder
  <2> QED BY <1>7, <1>10, <2>1 DEF Window
<1>12. Enqueuing
  BY <1>3 DEF Enqueuing, Writing
<1> QED BY <1>7, <1>8, <1>9, <1>11, <1>12 DEF IndexInv

\* At first, every block is in the pool.
LEMMA BlocksStart ==
  ASSUME ProducerAssumption, Init
  PROVE  IndexInv /\ BlockInv
<1>1. IndexInv /\ \A e \in Entries : ValueOf(e) = Nothing
  BY IndexStarts
<1>2. PICK n \in Nat : n = initialBlockPoolSize
  BY DEF ProducerAssumption
<1>3. /\ blocks = [k \in 1 .. n |-> NewBlock] /\ initialBlockPoolIndex = 0 /\ freeList = {}
      /\ tailBlock = Nothing /\ prod = IdleProd /\ tailIndex = 0 /\ headIndex = 0
      /\ cons = [c \in Consumers |-> IdleCons]
  BY <1>2 DEF Init, InitialBlocks
<1>4. prod.pc = "idle" /\ prod.block = Nothing
  BY <1>3 DEF IdleProd
<1>5. \A c \in Consumers : cons[c] = IdleCons /\ cons[c].pc = "idle"
  BY <1>3 DEF IdleCons
<1>6. \A y \in Nat : \A e : ~Has(e, y)
  BY <1>1 DEF Has, ProducerAssumption
<1>7. NewBlock \in BlockState
  BY DEF NewBlock, BlockState
<1>8. blocks \in Seq(BlockState) /\ DOMAIN blocks = 1 .. n
  <2> HIDE DEF NewBlock
  <2> QED BY <1>2, <1>3, <1>7
<1>9. BlockTypes
  BY <1>3, <1>4, <1>5, <1>8 DEF BlockTypes
<1>10. OneHolder
  <2>1. \A y \in Nat : \A l, x : Held(l, x, y) => l = "pool" /\ x = 0 /\ 0 < y /\ y <= n
    BY <1>2, <1>3, <1>4, <1>5, <1>6 DEF Held
  <2>2. \A y \in Nat : 0 < y /\ y <= n => y \in DOMAIN blocks
    BY <1>8
  <2> QED BY <2>1, <2>2 DEF OneHolder
<1>11. \A i, e : \A c \in Consumers : ~Loads(c, i) /\ ~Unindexes(c, e)
  BY <1>5 DEF Loads, Unindexes, Loading
<1>12. Kept
  BY <1>3, <1>4, <1>11 DEF Kept, Pending, Sent
<1>13. TailKept
  <2>1. Slot(0) = 0
    <3>1. Key(0) = 0 /\ Slot(Key(0)) = 0
      BY KeyNum DEF Key, ProducerAssumption
    <3> QED BY <3>1
  <2> QED BY <1>3, <1>4, <2>1 DEF TailKept
<1>14. Counted
  BY <1>6 DEF Counted
<1>15. \A c \in Consumers : Knows(c)
  BY <1>5 DEF Knows, Loading
<1>16. Distinct
  BY <1>11 DEF Distinct
<1> QED BY <1>1, <1>9, <1>10, <1>12, <1>13, <1>14, <1>15, <1>16 DEF BlockInv

\* The invariant says that consumers find their messages.
LEMMA BlocksFindIt ==
  ASSUME ProducerAssumption, IndexInv, BlockInv
  PROVE  FindsItsBlock
<1> SUFFICES ASSUME NEW c \in Consumers, cons[c].pc = "read"
             PROVE  LET me == cons[c]  entry == entries[me.entry] IN
                    /\ entry.key = BlockBase(me.index) /\ entry.value # Nothing
                    /\ blocks[entry.value].elements[Slot(me.index)] = me.index
  BY DEF FindsItsBlock, At
<1>1. IndexTypes /\ Headers /\ Window /\ Kept
  BY DEF IndexInv, BlockInv
<1>2. PICK i \in Nat, e \in Entries :
        i = cons[c].index /\ e = cons[c].entry /\ KeyOf(e) = Key(Num(i))
  BY DEF BlockInv, Knows, Loading
<1>3. Pending(i)
  BY <1>2 DEF Pending, Loads, Loading
<1>4. PICK b \in Nat : Has(e, b) /\ Elem(b, Slot(i)) = i
  BY <1>1, <1>2, <1>3, EntryKept
<1>5. BlockBase(i) = Key(Num(i))
  BY NumFacts
<1>6. ValueOf(e) = b /\ b # Nothing
  BY <1>4 DEF Has, ProducerAssumption
<1> QED BY <1>2, <1>4, <1>5, <1>6 DEF KeyOf, ValueOf, Elem

\* The index and the blocks are in order whatever the threads do, for any number of
\* consumers and of messages, and any size of the blocks, the index and the pool.
THEOREM BlocksInvariant == Spec => [](IndexInv /\ BlockInv)
<1>1. Init => IndexInv /\ BlockInv
  BY ProducerAssumption, BlocksStart
<1>2. IndexInv /\ BlockInv /\ NeverOverdrawn' /\ [Next]_vars => (IndexInv /\ BlockInv)'
  BY ProducerAssumption, BlocksNext DEF NeverOverdrawn
<1> QED BY <1>1, <1>2, NotOverdrawn, PTL DEF Spec

\* A consumer that has looked up its message in a copy of the index, however old, has found
\* the entry of the block that the message is in: assert(... key == index && ... value
\* != nullptr), concurrentqueue.h:2779.
THEOREM BlockIsFound == Spec => []FindsItsBlock
<1>1. IndexInv /\ BlockInv => FindsItsBlock
  BY ProducerAssumption, BlocksFindIt
<1> QED BY <1>1, BlocksInvariant, PTL

-----------------------------------------------------------------------------
(* The stream that a producer is: what its consumers' calls know. *)

\* A consumer's call until it has an index, and before it is certain to get one; and after
\* the message was moved out.
Testing == {"loadOvercommit", "test", "claim", "retest", "release"}
Asking == Testing \cup {"take"}
Emptying == {"setEmpty", "unindex", "free"}

\* Less than half of all indices are in use, so that they compare as numbers do.
Room ==
  /\ tailIndex - headIndex < HalfRange
  /\ prod.pc # "idle" \/ Slot(tailIndex) # 0 =>
       BlockBase(tailIndex) + BLOCK_SIZE - headIndex < HalfRange

NoOther(c) == \A d \in Consumers \ {c} : cons[d].pc = "idle"

\* The counters stand still for a call that no other overlaps, and there is a message for it.
LoneCall(c) ==
  ~mayMiss[c] /\ cons[c].pc \in Testing =>
    /\ NoOther(c) /\ cons[c].pc # "release"
    /\ cons[c].pc # "retest" => /\ cons[c].tail \in Nat
                                /\ headIndex < cons[c].tail /\ cons[c].tail <= tailIndex
    /\ cons[c].pc \in {"test", "claim"} => cons[c].overcommit = dequeueOvercommit
    /\ cons[c].pc = "retest" => /\ cons[c].count - cons[c].overcommit = headIndex
                                /\ headIndex < tailIndex

StreamInv == /\ Room /\ mayMiss \in [Consumers -> BOOLEAN]
             /\ \A c \in Consumers : LoneCall(c)

\* CallOf, of what a consumer knows.
CallIn(s) == CASE s.pc = "idle" -> <<"idle">>
               [] s.pc \in Asking -> <<"asking">>
               [] s.pc \in Loading -> <<"took", 0, s.index>>
               [] OTHER -> <<"took", 0, s.got>>

\* A consumer's call is seen in what it knows.
LEMMA CallSeen ==
  ASSUME NEW c \in Consumers
  PROVE  CallOf(c) = CallIn(cons[c]) /\ CallOf(c)' = CallIn(cons'[c])
BY DEF CallOf, CallIn, At, Asking, Testing, Loading

\* What is seen at each place of dequeue().
LEMMA CallIs ==
  ASSUME NEW s
  PROVE  /\ s.pc = "idle" => CallIn(s) = <<"idle">>
         /\ s.pc # "idle" => CallIn(s) # <<"idle">>
         /\ s.pc \in Asking => CallIn(s) = <<"asking">>
         /\ s.pc \in Loading => CallIn(s) = <<"took", 0, s.index>>
         /\ s.pc \in Emptying => CallIn(s) = <<"took", 0, s.got>>
         /\ s.pc \in Loading \cup Emptying => CallIn(s) # <<"idle">> /\ CallIn(s) # <<"asking">>
<1>1. \A x : <<"took", 0, x>> # <<"idle">> /\ <<"took", 0, x>> # <<"asking">>
  <2> TAKE x
  <2>1. <<"took", 0, x>>[1] = "took" /\ <<"idle">>[1] = "idle" /\ <<"asking">>[1] = "asking"
    OBVIOUS
  <2> QED BY <2>1
<1>2. <<"idle">> # <<"asking">>
  <2>1. <<"idle">>[1] = "idle" /\ <<"asking">>[1] = "asking"
    OBVIOUS
  <2> QED BY <2>1
<1>3. CASE s.pc = "idle"
  BY <1>3 DEF CallIn, Asking, Testing, Loading, Emptying
<1>4. CASE s.pc \in Asking
  <2>1. s.pc # "idle" /\ s.pc \notin Loading /\ s.pc \notin Emptying
    BY <1>4 DEF Asking, Testing, Loading, Emptying
  <2> QED BY <1>2, <1>4, <2>1 DEF CallIn
<1>5. CASE s.pc \in Loading
  <2>1. s.pc # "idle" /\ s.pc \notin Asking /\ s.pc \notin Emptying
    BY <1>5 DEF Asking, Testing, Loading, Emptying
  <2> QED BY <1>1, <1>5, <2>1 DEF CallIn
<1>6. CASE s.pc \notin Asking /\ s.pc \notin Loading /\ s.pc # "idle"
  BY <1>1, <1>6 DEF CallIn
<1> QED BY <1>3, <1>4, <1>5, <1>6

\* The stream is empty if the indices are the same.
LEMMA ItemsAre ==
  ASSUME tailIndex \in Nat, headIndex \in Nat, headIndex <= tailIndex
  PROVE  Items = <<>> <=> headIndex = tailIndex
<1>1. PICK n \in Nat : n = tailIndex - headIndex
  OBVIOUS
<1>2. PICK h \in Nat : h = headIndex
  OBVIOUS
<1>3. \A k \in 1 .. n : h + k - 1 \in Nat
  BY <1>2
<1>4. Items \in Seq(Nat) /\ Len(Items) = n
  BY <1>1, <1>2, <1>3 DEF Items
<1> QED BY <1>1, <1>4

\* Those that a call disturbs: all that are running, and itself if there are such, or if
\* there is nothing.
LEMMA OverlapIs ==
  ASSUME mayMiss \in [Consumers -> BOOLEAN], NEW c \in Consumers,
         tailIndex \in Nat, headIndex \in Nat, headIndex <= tailIndex
  PROVE  /\ Stream!Overlap(c) \in [Consumers -> BOOLEAN]
         /\ \A d \in Consumers \ {c} : Stream!Overlap(c)[d] <=> mayMiss[d] \/ cons[d].pc # "idle"
         /\ Stream!Overlap(c)[c] <=> mayMiss[c] \/ ~NoOther(c) \/ headIndex = tailIndex
<1> DEFINE call == [d \in Consumers |-> CallOf(d)]
           items == [p \in {0} |-> Items]
           others == {d \in Consumers \ {c} : call[d] # <<"idle">>}
<1>1. others = {d \in Consumers \ {c} : cons[d].pc # "idle"}
  BY CallIs, CallSeen
<1>2. (\A p \in {0} : items[p] = <<>>) <=> headIndex = tailIndex
  BY ItemsAre
<1> DEFINE M == [d \in Consumers |->
                   \/ mayMiss[d] \/ d \in others
                   \/ d = c /\ (others # {} \/ \A p \in {0} : items[p] = <<>>)]
<1>3. Stream!Overlap(c) = M
  BY DEF Stream!Overlap
<1>4. M = [d \in Consumers |->
             \/ mayMiss[d] \/ d \in others
             \/ d = c /\ (others # {} \/ headIndex = tailIndex)]
  BY <1>2
<1> HIDE DEF M, others
<1>5. others # {} <=> ~NoOther(c)
  BY <1>1 DEF NoOther
<1> QED BY <1>1, <1>3, <1>4, <1>5

\* A call that no other overlaps finds the counters in balance with headIndex.
LEMMA LoneBalance ==
  ASSUME ClaimsInv, NEW c \in Consumers, NoOther(c),
         cons[c].pc \in {"loadOvercommit", "test", "claim"}
  PROVE  dequeueOptimisticCount = headIndex + dequeueOvercommit
<1>1. Winners = {} /\ Losers = {} /\ Claimed = {}
  BY DEF NoOther, Winners, Losers, Claimed
<1>2. Cardinality(Winners) = 0 /\ Cardinality(Losers) = 0 /\ Cardinality(Claimed) = 0
  BY <1>1, FS_EmptySet
<1> QED BY <1>2 DEF ClaimsInv, ClaimsBalance, CountType, Won

\* So it passes its two tests.
LEMMA LoneTest ==
  ASSUME ProducerAssumption, ClaimsInv, StreamInv, NEW c \in Consumers, ~mayMiss[c]
  PROVE  /\ cons[c].pc = "test" =>
              CircularLessThan(dequeueOptimisticCount - cons[c].overcommit, cons[c].tail)
         /\ cons[c].pc = "retest" =>
              CircularLessThan(cons[c].count - cons[c].overcommit, tailIndex)
         /\ cons[c].pc # "release"
<1>1. /\ tailIndex \in Nat /\ headIndex \in Nat /\ dequeueOvercommit \in Nat /\ HalfRange \in Nat
      /\ tailIndex - headIndex < HalfRange /\ LoneCall(c)
  BY DEF ClaimsInv, CountType, ProducerAssumption, StreamInv, Room
<1>2. ASSUME cons[c].pc = "test"
      PROVE  CircularLessThan(dequeueOptimisticCount - cons[c].overcommit, cons[c].tail)
  <2>1. /\ NoOther(c) /\ cons[c].tail \in Nat /\ headIndex < cons[c].tail
        /\ cons[c].tail <= tailIndex /\ cons[c].overcommit = dequeueOvercommit
    BY <1>1, <1>2 DEF LoneCall, Testing
  <2>2. dequeueOptimisticCount - cons[c].overcommit = headIndex
    BY <1>1, <1>2, <2>1, LoneBalance
  <2> QED BY <1>1, <2>1, <2>2 DEF CircularLessThan
<1>3. ASSUME cons[c].pc = "retest"
      PROVE  CircularLessThan(cons[c].count - cons[c].overcommit, tailIndex)
  <2>1. cons[c].count - cons[c].overcommit = headIndex /\ headIndex < tailIndex
    BY <1>1, <1>3 DEF LoneCall, Testing
  <2> QED BY <1>1, <2>1 DEF CircularLessThan
<1>4. cons[c].pc # "release"
  BY <1>1 DEF LoneCall, Testing
<1> QED BY <1>2, <1>3, <1>4

-----------------------------------------------------------------------------
(* The steps keep it. *)

\* At first there is no call.
LEMMA StreamStarts == ASSUME ProducerAssumption, Init PROVE StreamInv
<1>1. Slot(0) = 0
  <2>1. Key(0) = 0 /\ Slot(Key(0)) = 0
    BY KeyNum DEF Key, ProducerAssumption
  <2> QED BY <2>1
<1>2. Room
  BY <1>1 DEF Room, Init, IdleProd, ProducerAssumption
<1>3. \A c \in Consumers : cons[c].pc = "idle"
  BY DEF Init, IdleCons
<1>4. \A c \in Consumers : LoneCall(c)
  BY <1>3 DEF LoneCall, Testing
<1> QED BY <1>2, <1>4 DEF StreamInv, Init

\* A step that leaves tailIndex keeps the room, unless enqueue() begins in it.
LEMMA RoomStays ==
  ASSUME ProducerAssumption, Room, tailIndex \in Nat, headIndex \in Nat, tailIndex' = tailIndex,
         headIndex' \in {headIndex, headIndex + 1}, prod.pc = "idle" => prod'.pc = "idle"
  PROVE  Room'
<1>1. BlockBase(tailIndex) \in Int /\ BLOCK_SIZE \in Nat /\ HalfRange \in Nat
  <2>1. Num(tailIndex) \in Int /\ BlockBase(tailIndex) = Key(Num(tailIndex))
    BY NumFacts
  <2> QED BY <2>1, KeyOrder DEF ProducerAssumption
<1>2. BlockBase(tailIndex)' = BlockBase(tailIndex) /\ Slot(tailIndex)' = Slot(tailIndex)
  BY DEF BlockBase, Slot
<1>3. PICK x \in Int, b \in Int, n \in Nat :
         x = HalfRange /\ b = BlockBase(tailIndex) /\ n = BLOCK_SIZE
  BY <1>1
<1>4. PICK h \in Int : h = headIndex
  OBVIOUS
<1>5. headIndex' \in Int
  OBVIOUS
<1>6. PICK k \in Int : k = headIndex'
  BY <1>5
<1>7. h <= k
  BY <1>4, <1>6
<1>8. tailIndex - k < x
  BY <1>3, <1>4, <1>7 DEF Room
<1>9. ASSUME prod'.pc # "idle" \/ Slot(tailIndex) # 0 PROVE b + n - k < x
  <2>1. prod.pc # "idle" \/ Slot(tailIndex) # 0
    BY <1>9
  <2>2. b + n - h < x
    BY <1>3, <1>4, <2>1 DEF Room
  <2> QED BY <1>7, <2>2
<1> QED BY <1>2, <1>3, <1>6, <1>8, <1>9 DEF Room

\* enqueue() keeps the room: it starts a block only where there is room for all of it.
LEMMA RoomKept ==
  ASSUME ProducerAssumption, Room, tailIndex \in Nat, headIndex \in Nat, prod \in ProdState,
         Producer
  PROVE  Room'
<1>1. headIndex' = headIndex
  BY DEF Producer, EnqueueInBlock, EnqueueStartsBlock, Insert, Grow, InsertNew, Requisition,
         Construct, Rewind, Publish, consVars
<1>2. PICK b \in Int, n \in Nat, x \in Nat : b = BlockBase(tailIndex) /\ n = BLOCK_SIZE /\ x = HalfRange
  <2>1. Num(tailIndex) \in Int /\ BlockBase(tailIndex) = Key(Num(tailIndex))
    BY NumFacts
  <2> QED BY <2>1, KeyOrder DEF ProducerAssumption
<1>3. n >= 2
  BY <1>2 DEF ProducerAssumption
<1>4. Slot(tailIndex) \in 0 .. n - 1 /\ b = tailIndex - Slot(tailIndex)
  BY <1>2, NumFacts DEF BlockBase
<1>5. ASSUME tailIndex' = tailIndex, b + n - headIndex < x PROVE Room'
  <2>1. BlockBase(tailIndex)' = b
    BY <1>2, <1>5 DEF BlockBase, Slot
  <2>2. tailIndex - headIndex < x
    BY <1>3, <1>4, <1>5
  <2> QED BY <1>1, <1>2, <1>5, <2>1, <2>2 DEF Room
<1>6. CASE EnqueueInBlock
  BY <1>2, <1>5, <1>6 DEF EnqueueInBlock, Room
<1>7. CASE EnqueueStartsBlock
  <2>1. b = tailIndex
    BY <1>4, <1>7 DEF EnqueueStartsBlock
  <2>2. CircularLessThan(headIndex, tailIndex + n) /\ tailIndex' = tailIndex
    BY <1>2, <1>7 DEF EnqueueStartsBlock
  <2>3. tailIndex + n - headIndex < x
    BY <1>2, <2>2 DEF CircularLessThan
  <2> QED BY <1>5, <2>1, <2>2, <2>3
<1>8. CASE Publish
  <2>1. tailIndex' = tailIndex + 1 /\ prod'.pc = "idle" /\ prod.pc = "publish"
    BY <1>8 DEF Publish, IdleProd
  <2>2. b + n - headIndex < x
    BY <1>2, <2>1 DEF Room
  <2>3. tailIndex' - headIndex < x
    BY <1>4, <2>1, <2>2
  <2>4. Slot(tailIndex + 1) # 0 => BlockBase(tailIndex + 1) = b
    <3>1. tailIndex + 1 \in Int /\ (tailIndex + 1) - 1 = tailIndex
      OBVIOUS
    <3>2. Slot(tailIndex + 1) # 0 => Num(tailIndex) = Num(tailIndex + 1)
      BY <3>1, NumNext
    <3>3. BlockBase(tailIndex + 1) = Key(Num(tailIndex + 1)) /\ b = Key(Num(tailIndex))
      BY <1>2, <3>1, NumFacts
    <3> QED BY <3>2, <3>3
  <2>5. BlockBase(tailIndex)' = BlockBase(tailIndex + 1) /\ Slot(tailIndex)' = Slot(tailIndex + 1)
    BY <2>1 DEF BlockBase, Slot
  <2> QED BY <1>1, <1>2, <2>1, <2>2, <2>3, <2>4, <2>5 DEF Room
<1>9. CASE Insert \/ Grow \/ InsertNew \/ Requisition \/ Construct \/ Rewind
  <2>1. tailIndex' = tailIndex /\ prod.pc # "idle"
    BY <1>9 DEF Insert, Grow, InsertNew, Requisition, Construct, Rewind
  <2> QED BY <1>1, <2>1, RoomStays
<1> QED BY <1>6, <1>7, <1>8, <1>9 DEF Producer

\* enqueue() leaves the consumers what they know, and there is a message as before.
LEMMA ProducerLeavesCalls ==
  ASSUME ProducerAssumption, ClaimsInv, StreamInv, prod \in ProdState, Producer
  PROVE  StreamInv'
<1>1. UNCHANGED consVars /\ tailIndex' \in {tailIndex, tailIndex + 1}
  BY DEF Producer, EnqueueInBlock, EnqueueStartsBlock, Insert, Grow, InsertNew, Requisition,
         Construct, Rewind, Publish
<1>2. /\ headIndex' = headIndex /\ cons' = cons /\ mayMiss' = mayMiss
      /\ dequeueOvercommit' = dequeueOvercommit
  BY <1>1 DEF consVars, counts
<1>3. tailIndex \in Nat /\ headIndex \in Nat /\ Room /\ mayMiss \in [Consumers -> BOOLEAN]
  BY DEF StreamInv, ClaimsInv, CountType
<1>4. Room'
  BY <1>3, RoomKept
<1>5. ASSUME NEW c \in Consumers PROVE LoneCall(c)'
  <2>1. LoneCall(c)
    BY DEF StreamInv
  <2>2. NoOther(c)' <=> NoOther(c)
    BY <1>2 DEF NoOther
  <2>3. tailIndex' \in Nat /\ tailIndex' >= tailIndex
    BY <1>1, <1>3
  <2> QED BY <1>2, <1>3, <2>1, <2>2, <2>3 DEF LoneCall
<1> QED BY <1>2, <1>3, <1>4, <1>5 DEF StreamInv

\* What remains to show of a consumer's step: what it knows of its own call.
LEMMA ConsumerLeavesCalls ==
  ASSUME ProducerAssumption, ClaimsInv, StreamInv, NEW c \in Consumers, NEW s, Goes(c, s),
         cons[c].pc # "idle", UNCHANGED <<tailIndex, prod>>,
         headIndex' \in {headIndex, headIndex + 1},
         \/ mayMiss' = mayMiss /\ LoneCall(c)'
         \/ mayMiss' = [mayMiss EXCEPT ![c] = FALSE] /\ s.pc = "idle"
  PROVE  StreamInv'
<1>1. tailIndex \in Nat /\ headIndex \in Nat /\ Room /\ mayMiss \in [Consumers -> BOOLEAN]
  BY DEF StreamInv, ClaimsInv, CountType
<1>2. cons'[c] = s /\ \A d \in Consumers \ {c} : cons'[d] = cons[d]
  BY OneGoes DEF ClaimsInv
<1>3. Room'
  BY <1>1, RoomStays
<1>4. ASSUME NEW d \in Consumers, d # c PROVE LoneCall(d)'
  <2>1. mayMiss'[d] = mayMiss[d] /\ cons'[d] = cons[d]
    BY <1>1, <1>2, <1>4
  <2>2. LoneCall(d) /\ ~NoOther(d)
    BY <1>4 DEF StreamInv, NoOther
  <2> QED BY <2>1, <2>2 DEF LoneCall
<1>5. LoneCall(c)'
  BY <1>2 DEF LoneCall, Testing
<1>6. mayMiss' \in [Consumers -> BOOLEAN]
  BY <1>1
<1> QED BY <1>3, <1>4, <1>5, <1>6 DEF StreamInv

\* A call begins: what it knows of the counters holds if no other runs.
LEMMA AskKeeps ==
  ASSUME ProducerAssumption, ClaimsInv, StreamInv, NeverOverdrawn, NEW c \in Consumers,
         CallDequeue(c)
  PROVE  StreamInv'
<1> DEFINE s == [IdleCons EXCEPT !.pc = "loadOvercommit", !.tail = tailIndex]
<1>1. /\ tailIndex \in Nat /\ headIndex \in Nat /\ headIndex <= tailIndex /\ Room
      /\ mayMiss \in [Consumers -> BOOLEAN]
  BY DEF StreamInv, ClaimsInv, CountType, NeverOverdrawn
<1>2. /\ Goes(c, s) /\ mayMiss' = Stream!Overlap(c) /\ tailIndex' = tailIndex
      /\ headIndex' = headIndex /\ prod' = prod
  BY DEF CallDequeue, prodVars
<1>3. s.pc = "loadOvercommit" /\ s.tail = tailIndex
  BY DEF IdleCons
<1> HIDE DEF s
<1>4. cons'[c] = s /\ \A d \in Consumers \ {c} : cons'[d] = cons[d]
  BY <1>2, OneGoes DEF ClaimsInv
<1>5. Room'
  BY <1>1, <1>2, RoomStays
<1>6. /\ mayMiss' \in [Consumers -> BOOLEAN]
      /\ \A d \in Consumers \ {c} : mayMiss'[d] <=> mayMiss[d] \/ cons[d].pc # "idle"
      /\ mayMiss'[c] <=> mayMiss[c] \/ ~NoOther(c) \/ headIndex = tailIndex
  BY <1>1, <1>2, OverlapIs
<1>7. ASSUME NEW d \in Consumers, d # c PROVE LoneCall(d)'
  BY <1>4, <1>6, <1>7 DEF LoneCall, Testing
<1>8. LoneCall(c)'
  <2> SUFFICES ASSUME ~mayMiss'[c] PROVE LoneCall(c)'
    BY DEF LoneCall
  <2>1. NoOther(c) /\ headIndex < tailIndex
    BY <1>1, <1>6
  <2>2. NoOther(c)'
    BY <1>4, <2>1 DEF NoOther
  <2> QED BY <1>1, <1>2, <1>3, <1>4, <2>1, <2>2 DEF LoneCall
<1> QED BY <1>5, <1>6, <1>7, <1>8 DEF StreamInv

\* The tests of a call that no other overlaps are passed, so that it gets on.
LEMMA TestingKeeps ==
  ASSUME ProducerAssumption, ClaimsInv, StreamInv, NEW c \in Consumers,
         LoadOvercommit(c) \/ Test(c) \/ Claim(c) \/ Retest(c)
  PROVE  StreamInv'
<1>1. /\ headIndex' = headIndex /\ UNCHANGED <<tailIndex, prod>> /\ cons[c].pc # "idle"
      /\ dequeueOvercommit' = dequeueOvercommit /\ headIndex \in Nat
  BY DEF LoadOvercommit, Test, Claim, Retest, At, counts, prodVars, ClaimsInv, CountType
<1>2. ASSUME NEW s, Goes(c, s), mayMiss' = mayMiss,
             ~mayMiss[c] /\ NoOther(c) /\ s.pc \in Testing =>
               /\ s.pc # "release"
               /\ s.pc # "retest" => s.tail \in Nat /\ headIndex < s.tail /\ s.tail <= tailIndex
               /\ s.pc \in {"test", "claim"} => s.overcommit = dequeueOvercommit
               /\ s.pc = "retest" => s.count - s.overcommit = headIndex /\ headIndex < tailIndex,
             ~mayMiss[c] => NoOther(c)
      PROVE  StreamInv'
  <2>1. cons'[c] = s /\ \A d \in Consumers \ {c} : cons'[d] = cons[d]
    BY <1>2, OneGoes DEF ClaimsInv
  <2>2. NoOther(c)' <=> NoOther(c)
    BY <2>1 DEF NoOther
  <2>3. LoneCall(c)'
    BY <1>1, <1>2, <2>1, <2>2 DEF LoneCall
  <2> QED BY <1>1, <1>2, <2>3, ConsumerLeavesCalls
<1>3. cons[c].pc \in Testing
  BY DEF LoadOvercommit, Test, Claim, Retest, At, Testing
<1>4. LoneCall(c) /\ IsConsumer(cons[c])
  BY DEF StreamInv, ClaimsInv, CountType
<1>5. ~mayMiss[c] => NoOther(c)
  BY <1>3, <1>4 DEF LoneCall
<1>6. "pc" \in DOMAIN cons[c] /\ "overcommit" \in DOMAIN cons[c] /\ "count" \in DOMAIN cons[c]
  BY <1>4 DEF IsConsumer, IdleCons
<1>7. CASE LoadOvercommit(c)
  <2> DEFINE s == [cons[c] EXCEPT !.pc = "test", !.overcommit = dequeueOvercommit]
  <2>1. Goes(c, s) /\ mayMiss' = mayMiss /\ cons[c].pc = "loadOvercommit"
    BY <1>7 DEF LoadOvercommit, At
  <2>2. s.pc = "test" /\ s.overcommit = dequeueOvercommit /\ s.tail = cons[c].tail
    BY <1>6
  <2> HIDE DEF s
  <2> QED BY <1>2, <1>3, <1>4, <1>5, <2>1, <2>2 DEF LoneCall
<1>8. CASE Test(c)
  <2> DEFINE s == [cons[c] EXCEPT !.pc = "claim"]
  <2>1. /\ \/ Goes(c, s) /\ mayMiss' = mayMiss
           \/ Goes(c, IdleCons) /\ mayMiss' = [mayMiss EXCEPT ![c] = FALSE]
        /\ cons[c].pc = "test"
    BY <1>8 DEF Test, Return, At
  <2>2. s.pc = "claim" /\ s.overcommit = cons[c].overcommit /\ s.tail = cons[c].tail
    BY <1>6
  <2> HIDE DEF s
  <2>3. ASSUME Goes(c, s), mayMiss' = mayMiss PROVE StreamInv'
    BY <1>2, <1>3, <1>4, <1>5, <2>1, <2>2, <2>3 DEF LoneCall
  <2>4. IdleCons.pc = "idle"
    BY DEF IdleCons
  <2> QED BY <1>1, <2>1, <2>3, <2>4, ConsumerLeavesCalls
<1>9. CASE Claim(c)
  <2> DEFINE s == [cons[c] EXCEPT !.pc = "retest", !.count = dequeueOptimisticCount]
  <2>1. Goes(c, s) /\ mayMiss' = mayMiss /\ cons[c].pc = "claim"
    BY <1>9 DEF Claim, At
  <2>2. s.pc = "retest" /\ s.overcommit = cons[c].overcommit /\ s.count = dequeueOptimisticCount
    BY <1>6
  <2> HIDE DEF s
  <2>3. ~mayMiss[c] => s.count - s.overcommit = headIndex /\ headIndex < tailIndex
    <3> SUFFICES ASSUME ~mayMiss[c] PROVE s.count - s.overcommit = headIndex /\ headIndex < tailIndex
      OBVIOUS
    <3>1. /\ NoOther(c) /\ cons[c].overcommit = dequeueOvercommit
          /\ cons[c].tail \in Nat /\ headIndex < cons[c].tail /\ cons[c].tail <= tailIndex
      BY <1>3, <1>4, <2>1 DEF LoneCall
    <3>2. dequeueOptimisticCount = headIndex + dequeueOvercommit
      BY <2>1, <3>1, LoneBalance
    <3>3. tailIndex \in Nat /\ dequeueOvercommit \in Nat
      BY DEF ClaimsInv, CountType
    <3> QED BY <1>1, <2>2, <3>1, <3>2, <3>3
  <2> QED BY <1>2, <1>5, <2>1, <2>2, <2>3
<1>10. CASE Retest(c)
  <2> DEFINE pc == IF CircularLessThan(cons[c].count - cons[c].overcommit, tailIndex)
                   THEN "take" ELSE "release"
             s == [IdleCons EXCEPT !.pc = pc]
  <2>1. Goes(c, s) /\ mayMiss' = mayMiss /\ cons[c].pc = "retest"
    BY <1>10 DEF Retest, At
  <2>2. ~mayMiss[c] => pc = "take"
    BY <2>1, LoneTest
  <2> HIDE DEF pc
  <2>3. s.pc = pc
    BY DEF IdleCons
  <2> HIDE DEF s
  <2>4. ~mayMiss[c] => s.pc \notin Testing
    BY <2>2, <2>3 DEF Testing
  <2> QED BY <1>2, <1>5, <2>1, <2>4
<1> QED BY <1>7, <1>8, <1>9, <1>10

\* The other steps of dequeue() are those of calls that have got what they wanted, or not.
LEMMA TakingKeeps ==
  ASSUME ProducerAssumption, ClaimsInv, StreamInv, NEW c \in Consumers,
         \/ Release(c) \/ TakeIndex(c) \/ LoadIndex(c) \/ LoadIndexTail(c) \/ LoadBase(c)
         \/ Read(c) \/ SetEmpty(c) \/ Unindex(c) \/ FreeBlock(c)
  PROVE  StreamInv'
<1>1. /\ headIndex' \in {headIndex, headIndex + 1} /\ UNCHANGED <<tailIndex, prod>>
      /\ cons[c].pc # "idle"
  BY DEF Release, TakeIndex, LoadIndex, LoadIndexTail, LoadBase, Read, SetEmpty, Unindex,
         FreeBlock, At, prodVars
<1>2. ASSUME NEW s, Goes(c, s), mayMiss' = mayMiss, s.pc \in Loading \cup Emptying
      PROVE  StreamInv'
  <2>1. cons'[c].pc \notin Testing
    BY <1>2, OneGoes DEF ClaimsInv, Testing, Loading, Emptying
  <2>2. LoneCall(c)'
    BY <2>1 DEF LoneCall
  <2> QED BY <1>1, <1>2, <2>2, ConsumerLeavesCalls
<1>3. Return(c) => StreamInv'
  <2>1. IdleCons.pc = "idle"
    BY DEF IdleCons
  <2> QED BY <1>1, <2>1, ConsumerLeavesCalls DEF Return
<1>4. DOMAIN cons[c] = DOMAIN IdleCons /\ "pc" \in DOMAIN IdleCons
  BY DEF ClaimsInv, CountType, IsConsumer, IdleCons
<1> USE DEF Loading, Emptying
<1>5. CASE Release(c) \/ FreeBlock(c)
  BY <1>3, <1>5 DEF Release, FreeBlock
<1>6. CASE TakeIndex(c)
  <2> DEFINE s == [IdleCons EXCEPT !.pc = "loadIndex", !.index = headIndex]
  <2>1. s.pc = "loadIndex"
    BY DEF IdleCons
  <2> QED BY <1>2, <1>6, <2>1 DEF TakeIndex
<1>7. CASE LoadIndex(c)
  <2> DEFINE s == [cons[c] EXCEPT !.pc = "loadIndexTail", !.header = Len(headers)]
  <2>1. s.pc = "loadIndexTail"
    BY <1>4
  <2> QED BY <1>2, <1>7, <2>1 DEF LoadIndex
<1>8. CASE LoadIndexTail(c)
  <2> DEFINE s == [cons[c] EXCEPT !.pc = "loadBase", !.indexTail = headers[cons[c].header].tail]
  <2>1. s.pc = "loadBase"
    BY <1>4
  <2> QED BY <1>2, <1>8, <2>1 DEF LoadIndexTail
<1>9. CASE LoadBase(c)
  <2> DEFINE s == [IdleCons EXCEPT !.pc = "read", !.index = cons[c].index,
                     !.entry = EntryFor(cons[c].index, headers[cons[c].header], cons[c].indexTail)]
  <2>1. s.pc = "read"
    BY DEF IdleCons
  <2> QED BY <1>2, <1>9, <2>1 DEF LoadBase
<1>10. CASE Read(c)
  <2> DEFINE b == entries[cons[c].entry].value
             s == [cons[c] EXCEPT !.pc = "setEmpty", !.index = 0, !.block = b,
                     !.got = blocks[b].elements[Slot(cons[c].index)]]
  <2>1. s.pc = "setEmpty"
    BY <1>4
  <2> QED BY <1>2, <1>10, <2>1 DEF Read
<1>11. CASE SetEmpty(c)
  <2> DEFINE s == [cons[c] EXCEPT !.pc = "unindex"]
  <2>1. s.pc = "unindex"
    BY <1>4
  <2>2. Return(c) \/ (Goes(c, s) /\ mayMiss' = mayMiss)
    BY <1>11 DEF SetEmpty
  <2> HIDE DEF s
  <2> QED BY <1>2, <1>3, <2>1, <2>2
<1>12. CASE Unindex(c)
  <2> DEFINE s == [cons[c] EXCEPT !.pc = "free"]
  <2>1. s.pc = "free"
    BY <1>4
  <2> QED BY <1>2, <1>12, <2>1 DEF Unindex
<1> QED BY <1>5, <1>6, <1>7, <1>8, <1>9, <1>10, <1>11, <1>12

\* Every step of any thread.
LEMMA StreamNext ==
  ASSUME ProducerAssumption, ClaimsInv, StreamInv, NeverOverdrawn, prod \in ProdState, [Next]_vars
  PROVE  StreamInv'
<1>1. CASE UNCHANGED vars
  <2>1. /\ headIndex' = headIndex /\ tailIndex' = tailIndex /\ cons' = cons /\ mayMiss' = mayMiss
        /\ dequeueOvercommit' = dequeueOvercommit /\ prod' = prod
    BY <1>1 DEF vars, counts
  <2>2. Room' /\ mayMiss' \in [Consumers -> BOOLEAN]
    BY <2>1, RoomStays DEF StreamInv, ClaimsInv, CountType
  <2>3. ASSUME NEW c \in Consumers PROVE LoneCall(c)'
    <3>1. NoOther(c)' <=> NoOther(c)
      BY <2>1 DEF NoOther
    <3>2. LoneCall(c)
      BY DEF StreamInv
    <3> QED BY <2>1, <3>1, <3>2 DEF LoneCall
  <2> QED BY <2>2, <2>3 DEF StreamInv
<1>2. CASE Producer
  BY <1>2, ProducerLeavesCalls
<1>3. ASSUME NEW c \in Consumers, Consumer(c) PROVE StreamInv'
  BY <1>3, AskKeeps, TestingKeeps, TakingKeeps DEF Consumer
<1> QED BY <1>1, <1>2, <1>3 DEF Next, Stopped

-----------------------------------------------------------------------------
(* The steps are those of a stream. *)

\* What a stream has after a message was put in, and after one was taken.
LEMMA ItemsPut ==
  ASSUME NEW h \in Nat, NEW t \in Nat, h <= t
  PROVE  [k \in 1 .. (t + 1) - h |-> h + k - 1]
           = Append([k \in 1 .. t - h |-> h + k - 1], t)
<1>1. PICK n \in Nat : n = t - h
  OBVIOUS
<1>2. (t + 1) - h = n + 1 /\ t = h + (n + 1) - 1
  BY <1>1
<1> DEFINE s == [k \in 1 .. n |-> h + k - 1]
           r == [k \in 1 .. n + 1 |-> h + k - 1]
<1>3. s \in Seq(Nat) /\ Len(s) = n /\ r \in Seq(Nat) /\ Len(r) = n + 1
  OBVIOUS
<1>4. \A k \in 1 .. n + 1 : r[k] = Append(s, t)[k]
  BY <1>2, <1>3
<1>5. Append(s, t) \in Seq(Nat) /\ Len(Append(s, t)) = n + 1
  BY <1>3
<1> HIDE DEF s, r
<1>6. r = Append(s, t)
  BY <1>3, <1>4, <1>5, SeqEqual
<1> QED BY <1>1, <1>2, <1>6 DEF s, r

\* Its first message is the next to be taken.
LEMMA ItemsTaken ==
  ASSUME NEW h \in Nat, NEW t \in Nat, h < t
  PROVE  LET s == [k \in 1 .. t - h |-> h + k - 1] IN
         /\ s # <<>> /\ Head(s) = h
         /\ [k \in 1 .. t - (h + 1) |-> (h + 1) + k - 1] = Tail(s)
<1>1. PICK n \in Nat : n = t - (h + 1)
  OBVIOUS
<1>2. t - h = n + 1
  BY <1>1
<1> DEFINE s == [k \in 1 .. n + 1 |-> h + k - 1]
           r == [k \in 1 .. n |-> (h + 1) + k - 1]
<1>3. s \in Seq(Nat) /\ Len(s) = n + 1 /\ r \in Seq(Nat) /\ Len(r) = n /\ s[1] = h
  OBVIOUS
<1>4. /\ s # <<>> /\ Head(s) = h /\ Tail(s) \in Seq(Nat) /\ Len(Tail(s)) = n
      /\ \A k \in 1 .. n : Tail(s)[k] = s[k + 1]
  <2> HIDE DEF s
  <2> QED BY <1>3
<1>5. \A k \in 1 .. n : r[k] = Tail(s)[k]
  BY <1>4
<1> HIDE DEF s, r
<1>6. r = Tail(s)
  BY <1>3, <1>4, <1>5, SeqEqual
<1> QED BY <1>1, <1>2, <1>4, <1>6 DEF s, r

\* What is seen of the producer from outside.
items == [p \in {0} |-> Items]
puts == [p \in {0} |-> tailIndex]
call == [c \in Consumers |-> CallOf(c)]

\* At first the stream is empty.
LEMMA StreamBegins == ASSUME Init PROVE Stream!Init
<1>1. Items = <<>>
  BY ItemsAre DEF Init
<1>2. \A c \in Consumers : CallOf(c) = <<"idle">>
  BY CallSeen, CallIs DEF Init, IdleCons
<1>3. items = [p \in {0} |-> <<>>] /\ call = [c \in Consumers |-> <<"idle">>]
      /\ puts = [p \in {0} |-> 0]
  BY <1>1, <1>2 DEF items, call, puts, Init
<1> QED BY <1>3 DEF Stream!Init, items, call, puts, Init

\* A step of enqueue() that publishes nothing is not seen.
LEMMA EnqueueUnseen ==
  ASSUME UNCHANGED <<tailIndex, headIndex, cons, mayMiss>>
  PROVE  UNCHANGED Stream!vars
<1>1. items' = items /\ puts' = puts /\ call' = call
  BY DEF items, puts, call, Items, CallOf, At
<1> QED BY <1>1 DEF Stream!vars, items, puts, call

\* The message that is published is put into the stream.
LEMMA PublishPuts ==
  ASSUME tailIndex \in Nat, headIndex \in Nat, headIndex <= tailIndex, Publish
  PROVE  Stream!Put(0)
<1>1. tailIndex' = tailIndex + 1 /\ headIndex' = headIndex /\ cons' = cons /\ mayMiss' = mayMiss
  BY DEF Publish, consVars
<1>2. Items' = Append(Items, tailIndex)
  <2>1. [k \in 1 .. (tailIndex + 1) - headIndex |-> headIndex + k - 1]
          = Append([k \in 1 .. tailIndex - headIndex |-> headIndex + k - 1], tailIndex)
    BY ItemsPut
  <2> QED BY <1>1, <2>1 DEF Items
<1>3. items' = [items EXCEPT ![0] = Append(@, puts[0])]
  BY <1>2 DEF items, puts
<1>4. puts' = [puts EXCEPT ![0] = @ + 1]
  BY <1>1 DEF puts
<1>5. call' = call
  BY <1>1 DEF call, CallOf, At
<1> QED BY <1>1, <1>3, <1>4, <1>5 DEF Stream!Put, items, puts, call

\* A consumer's step is seen in its own call.
LEMMA CallTurns ==
  ASSUME CountType, NEW c \in Consumers, NEW s, Goes(c, s)
  PROVE  call' = [call EXCEPT ![c] = CallIn(s)] /\ call[c] = CallIn(cons[c])
<1>1. cons'[c] = s /\ \A d \in Consumers \ {c} : cons'[d] = cons[d]
  BY OneGoes
<1>2. CallOf(c)' = CallIn(s) /\ CallOf(c) = CallIn(cons[c])
  BY <1>1, CallSeen
<1>3. \A d \in Consumers \ {c} : CallOf(d)' = CallOf(d)
  BY <1>1 DEF CallOf, At
<1> QED BY <1>2, <1>3 DEF call

\* If that is the same, the step is not.
LEMMA ConsumerUnseen ==
  ASSUME CountType, NEW c \in Consumers, NEW s, Goes(c, s), CallIn(s) = CallIn(cons[c]),
         UNCHANGED <<tailIndex, headIndex, mayMiss>>
  PROVE  UNCHANGED Stream!vars
<1>1. call' = call
  <2>1. call' = [call EXCEPT ![c] = CallIn(s)] /\ call[c] = CallIn(s)
    BY CallTurns
  <2> QED BY <2>1 DEF call
<1>2. items' = items /\ puts' = puts
  BY DEF items, puts, Items
<1> QED BY <1>1, <1>2 DEF Stream!vars, items, puts, call

\* A call begins.
LEMMA CallDequeueAsks ==
  ASSUME CountType, NEW c \in Consumers, CallDequeue(c)
  PROVE  Stream!Ask(c)
<1> DEFINE s == [IdleCons EXCEPT !.pc = "loadOvercommit", !.tail = tailIndex]
<1>1. /\ cons[c].pc = "idle" /\ tailIndex' = tailIndex /\ headIndex' = headIndex /\ Goes(c, s)
      /\ mayMiss' = Stream!Overlap(c)
  BY DEF CallDequeue, At, prodVars
<1>2. s.pc \in Asking
  BY DEF IdleCons, Asking, Testing
<1> HIDE DEF s
<1>3. CallIn(s) = <<"asking">> /\ CallIn(cons[c]) = <<"idle">>
  BY <1>1, <1>2, CallIs
<1>4. call' = [call EXCEPT ![c] = <<"asking">>] /\ call[c] = <<"idle">>
  BY <1>1, <1>3, CallTurns
<1>5. items' = items /\ puts' = puts
  BY <1>1 DEF items, puts, Items
<1> QED BY <1>1, <1>4, <1>5 DEF Stream!Ask, items, puts, call

\* The index that is taken is that of the first message.
LEMMA TakeIndexTakes ==
  ASSUME CountType, headIndex' <= tailIndex', NEW c \in Consumers, TakeIndex(c)
  PROVE  Stream!Take(c, 0)
<1> DEFINE s == [IdleCons EXCEPT !.pc = "loadIndex", !.index = headIndex]
<1>1. /\ cons[c].pc = "take" /\ tailIndex' = tailIndex /\ headIndex' = headIndex + 1
      /\ mayMiss' = mayMiss /\ Goes(c, s)
  BY DEF TakeIndex, At, prodVars
<1>2. tailIndex \in Nat /\ headIndex \in Nat /\ headIndex < tailIndex
  BY <1>1 DEF CountType
<1>3. s.pc \in Loading /\ s.index = headIndex /\ cons[c].pc \in Asking
  BY <1>1 DEF IdleCons, Loading, Asking
<1> HIDE DEF s
<1>4. CallIn(s) = <<"took", 0, headIndex>> /\ CallIn(cons[c]) = <<"asking">>
  BY <1>3, CallIs
<1>5. Items # <<>> /\ Head(Items) = headIndex /\ Items' = Tail(Items)
  <2>1. LET r == [k \in 1 .. tailIndex - headIndex |-> headIndex + k - 1] IN
        /\ r # <<>> /\ Head(r) = headIndex
        /\ [k \in 1 .. tailIndex - (headIndex + 1) |-> (headIndex + 1) + k - 1] = Tail(r)
    BY <1>2, ItemsTaken
  <2> QED BY <1>1, <2>1 DEF Items
<1>6. items[0] # <<>> /\ Head(items[0]) = headIndex /\ items' = [items EXCEPT ![0] = Tail(@)]
  BY <1>5 DEF items
<1>7. call' = [call EXCEPT ![c] = <<"took", 0, Head(items[0])>>] /\ call[c] = <<"asking">>
  BY <1>1, <1>4, <1>6, CallTurns
<1>8. puts' = puts
  BY <1>1 DEF puts
<1> QED BY <1>1, <1>6, <1>7, <1>8 DEF Stream!Take, items, puts, call

\* A call ends.
LEMMA ReturnReturns ==
  ASSUME CountType, NEW c \in Consumers, Return(c), UNCHANGED <<tailIndex, headIndex>>
  PROVE  Stream!Returns(c) /\ call[c] = CallIn(cons[c])
<1>1. IdleCons.pc = "idle"
  BY DEF IdleCons
<1>2. CallIn(IdleCons) = <<"idle">>
  BY <1>1, CallIs
<1>3. Goes(c, IdleCons) /\ mayMiss' = [mayMiss EXCEPT ![c] = FALSE]
  BY DEF Return
<1>4. call' = [call EXCEPT ![c] = <<"idle">>] /\ call[c] = CallIn(cons[c])
  BY <1>2, <1>3, CallTurns
<1>5. items' = items /\ puts' = puts
  BY DEF items, puts, Items
<1> QED BY <1>3, <1>4, <1>5 DEF Stream!Returns, items, puts, call

\* It ends with a message once that has been moved out of its block.
LEMMA ReturnAnswers ==
  ASSUME CountType, NEW c \in Consumers, Return(c), UNCHANGED <<tailIndex, headIndex>>,
         cons[c].pc \in Emptying
  PROVE  Stream!Answer(c)
<1>1. Stream!Returns(c) /\ call[c] = CallIn(cons[c])
  BY ReturnReturns
<1>2. CallIn(cons[c]) # <<"idle">> /\ CallIn(cons[c]) # <<"asking">>
  BY CallIs
<1> QED BY <1>1, <1>2 DEF Stream!Answer, call

\* It ends without one only if it may.
LEMMA ReturnMisses ==
  ASSUME CountType, NEW c \in Consumers, Return(c), UNCHANGED <<tailIndex, headIndex>>,
         cons[c].pc \in Asking, mayMiss[c]
  PROVE  Stream!Miss(c)
<1>1. Stream!Returns(c) /\ call[c] = CallIn(cons[c])
  BY ReturnReturns
<1>2. CallIn(cons[c]) = <<"asking">>
  BY CallIs
<1> QED BY <1>1, <1>2 DEF Stream!Miss, call

\* The steps up to where a message is certain.
LEMMA TestingSeen ==
  ASSUME ProducerAssumption, ClaimsInv, StreamInv, NEW c \in Consumers,
         LoadOvercommit(c) \/ Test(c) \/ Claim(c) \/ Retest(c) \/ Release(c)
  PROVE  Stream!Miss(c) \/ UNCHANGED Stream!vars
<1>1. CountType /\ DOMAIN cons[c] = DOMAIN IdleCons /\ "pc" \in DOMAIN IdleCons
  BY DEF ClaimsInv, CountType, IsConsumer, IdleCons
<1>2. UNCHANGED <<tailIndex, headIndex>> /\ cons[c].pc \in Testing
  BY DEF LoadOvercommit, Test, Claim, Retest, Release, At, Testing, prodVars
<1>3. ASSUME NEW s, Goes(c, s), s.pc \in Asking, mayMiss' = mayMiss
      PROVE  UNCHANGED Stream!vars
  <2>1. CallIn(s) = <<"asking">> /\ CallIn(cons[c]) = <<"asking">>
    BY <1>2, <1>3, CallIs DEF Asking
  <2> QED BY <1>1, <1>2, <1>3, <2>1, ConsumerUnseen
<1>4. Return(c) /\ mayMiss[c] => Stream!Miss(c)
  BY <1>1, <1>2, ReturnMisses DEF Asking
<1> USE DEF Asking, Testing
<1>5. CASE LoadOvercommit(c)
  <2> DEFINE s == [cons[c] EXCEPT !.pc = "test", !.overcommit = dequeueOvercommit]
  <2>1. s.pc = "test"
    BY <1>1
  <2> QED BY <1>3, <1>5, <2>1 DEF LoadOvercommit
<1>6. CASE Test(c)
  <2> DEFINE s == [cons[c] EXCEPT !.pc = "claim"]
             passed == CircularLessThan(dequeueOptimisticCount - cons[c].overcommit, cons[c].tail)
  <2>1. s.pc = "claim"
    BY <1>1
  <2>2. /\ passed => Goes(c, s) /\ mayMiss' = mayMiss
        /\ ~passed => Return(c)
        /\ cons[c].pc = "test"
    BY <1>6 DEF Test, At
  <2>3. ~mayMiss[c] => passed
    BY <2>2, LoneTest
  <2> HIDE DEF s, passed
  <2> QED BY <1>3, <1>4, <2>1, <2>2, <2>3
<1>7. CASE Claim(c)
  <2> DEFINE s == [cons[c] EXCEPT !.pc = "retest", !.count = dequeueOptimisticCount]
  <2>1. s.pc = "retest"
    BY <1>1
  <2> QED BY <1>3, <1>7, <2>1 DEF Claim
<1>8. CASE Retest(c)
  <2> DEFINE pc == IF CircularLessThan(cons[c].count - cons[c].overcommit, tailIndex)
                   THEN "take" ELSE "release"
             s == [IdleCons EXCEPT !.pc = pc]
  <2>1. s.pc = pc /\ pc \in {"take", "release"}
    BY DEF IdleCons
  <2> QED BY <1>3, <1>8, <2>1 DEF Retest
<1>9. CASE Release(c)
  <2>1. Return(c) /\ cons[c].pc = "release"
    BY <1>9 DEF Release, At
  <2>2. mayMiss[c]
    BY <2>1, LoneTest
  <2> QED BY <1>4, <2>1, <2>2
<1> QED BY <1>5, <1>6, <1>7, <1>8, <1>9

\* The steps that find the message and leave its block; what is moved out of the block is the
\* message with the index that was taken.
LEMMA TakingSeen ==
  ASSUME ClaimsInv, FindsItsBlock, NEW c \in Consumers,
         \/ LoadIndex(c) \/ LoadIndexTail(c) \/ LoadBase(c) \/ Read(c) \/ SetEmpty(c)
         \/ Unindex(c) \/ FreeBlock(c)
  PROVE  Stream!Answer(c) \/ UNCHANGED Stream!vars
<1>1. /\ CountType /\ DOMAIN cons[c] = DOMAIN IdleCons
      /\ "pc" \in DOMAIN IdleCons /\ "index" \in DOMAIN IdleCons /\ "got" \in DOMAIN IdleCons
  BY DEF ClaimsInv, CountType, IsConsumer, IdleCons
<1>2. UNCHANGED <<tailIndex, headIndex>>
  BY DEF LoadIndex, LoadIndexTail, LoadBase, Read, SetEmpty, Unindex, FreeBlock, prodVars
<1>3. ASSUME NEW s, Goes(c, s), mayMiss' = mayMiss,
             \/ cons[c].pc \in Loading /\ s.pc \in Loading /\ s.index = cons[c].index
             \/ cons[c].pc \in Loading /\ s.pc \in Emptying /\ s.got = cons[c].index
             \/ cons[c].pc \in Emptying /\ s.pc \in Emptying /\ s.got = cons[c].got
      PROVE  UNCHANGED Stream!vars
  <2>1. CallIn(s) = CallIn(cons[c])
    BY <1>3, CallIs
  <2> QED BY <1>1, <1>2, <1>3, <2>1, ConsumerUnseen
<1>4. Return(c) /\ cons[c].pc \in Emptying => Stream!Answer(c)
  BY <1>1, <1>2, ReturnAnswers
<1> USE DEF Loading, Emptying, At
<1>5. CASE LoadIndex(c)
  <2> DEFINE s == [cons[c] EXCEPT !.pc = "loadIndexTail", !.header = Len(headers)]
  <2>1. s.pc = "loadIndexTail" /\ s.index = cons[c].index
    BY <1>1
  <2> QED BY <1>3, <1>5, <2>1 DEF LoadIndex
<1>6. CASE LoadIndexTail(c)
  <2> DEFINE s == [cons[c] EXCEPT !.pc = "loadBase", !.indexTail = headers[cons[c].header].tail]
  <2>1. s.pc = "loadBase" /\ s.index = cons[c].index
    BY <1>1
  <2> QED BY <1>3, <1>6, <2>1 DEF LoadIndexTail
<1>7. CASE LoadBase(c)
  <2> DEFINE s == [IdleCons EXCEPT !.pc = "read", !.index = cons[c].index,
                     !.entry = EntryFor(cons[c].index, headers[cons[c].header], cons[c].indexTail)]
  <2>1. s.pc = "read" /\ s.index = cons[c].index
    BY DEF IdleCons
  <2> QED BY <1>3, <1>7, <2>1 DEF LoadBase
<1>8. CASE Read(c)
  <2> DEFINE b == entries[cons[c].entry].value
             s == [cons[c] EXCEPT !.pc = "setEmpty", !.index = 0, !.block = b,
                     !.got = blocks[b].elements[Slot(cons[c].index)]]
  <2>1. s.pc = "setEmpty" /\ s.got = blocks[b].elements[Slot(cons[c].index)]
    BY <1>1
  <2>2. blocks[b].elements[Slot(cons[c].index)] = cons[c].index
    BY <1>8 DEF FindsItsBlock, Read
  <2>3. Goes(c, s) /\ mayMiss' = mayMiss /\ cons[c].pc = "read"
    BY <1>8 DEF Read
  <2> HIDE DEF s
  <2> QED BY <1>3, <2>1, <2>2, <2>3
<1>9. CASE SetEmpty(c)
  <2> DEFINE s == [cons[c] EXCEPT !.pc = "unindex"]
  <2>1. s.pc = "unindex" /\ s.got = cons[c].got
    BY <1>1
  <2>2. (Return(c) \/ (Goes(c, s) /\ mayMiss' = mayMiss)) /\ cons[c].pc = "setEmpty"
    BY <1>9 DEF SetEmpty
  <2> HIDE DEF s
  <2> QED BY <1>3, <1>4, <2>1, <2>2
<1>10. CASE Unindex(c)
  <2> DEFINE s == [cons[c] EXCEPT !.pc = "free"]
  <2>1. s.pc = "free" /\ s.got = cons[c].got
    BY <1>1
  <2> QED BY <1>3, <1>10, <2>1 DEF Unindex
<1>11. CASE FreeBlock(c)
  BY <1>4, <1>11 DEF FreeBlock
<1> QED BY <1>5, <1>6, <1>7, <1>8, <1>9, <1>10, <1>11

\* The steps in between are not seen.
LEMMA StreamGoesOn ==
  ASSUME ProducerAssumption, ClaimsInv, StreamInv, FindsItsBlock, NeverOverdrawn,
         NeverOverdrawn', [Next]_vars
  PROVE  [Stream!Next]_Stream!vars
<1> SUFFICES Stream!Next \/ UNCHANGED Stream!vars
  OBVIOUS
<1>1. CountType /\ tailIndex \in Nat /\ headIndex \in Nat /\ headIndex <= tailIndex
      /\ headIndex' <= tailIndex'
  BY DEF ClaimsInv, CountType, NeverOverdrawn
<1>2. CASE Publish
  BY <1>1, <1>2, PublishPuts DEF Stream!Next
<1>3. CASE \/ EnqueueInBlock \/ EnqueueStartsBlock \/ Insert \/ Grow \/ InsertNew \/ Requisition
           \/ Construct \/ Rewind
  <2>1. UNCHANGED <<tailIndex, headIndex, cons, mayMiss>>
    BY <1>3 DEF EnqueueInBlock, EnqueueStartsBlock, Insert, Grow, InsertNew, Requisition,
                Construct, Rewind, consVars
  <2> QED BY <2>1, EnqueueUnseen
<1>4. ASSUME NEW c \in Consumers, Consumer(c)
      PROVE  \/ Stream!Ask(c) \/ Stream!Answer(c) \/ Stream!Miss(c) \/ Stream!Take(c, 0)
             \/ UNCHANGED Stream!vars
  BY <1>1, <1>4, CallDequeueAsks, TestingSeen, TakeIndexTakes, TakingSeen DEF Consumer
<1>5. ASSUME NEW c \in Consumers, Consumer(c) PROVE Stream!Next \/ UNCHANGED Stream!vars
  BY <1>4, <1>5 DEF Stream!Next
<1>6. CASE UNCHANGED vars
  BY <1>6, EnqueueUnseen DEF vars
<1> QED BY <1>2, <1>3, <1>5, <1>6 DEF Next, Producer, Stopped

\* A call that no other overlaps passes its tests, whatever the producer does.
THEOREM LoneCallsPass == Spec => []StreamInv
<1>1. Init => StreamInv
  BY ProducerAssumption, StreamStarts
<1>2. ClaimsInv /\ StreamInv /\ NeverOverdrawn /\ IndexInv /\ [Next]_vars => StreamInv'
  BY ProducerAssumption, StreamNext DEF IndexInv, IndexTypes
<1> QED BY <1>1, <1>2, ClaimsInvariant, NotOverdrawn, BlocksInvariant, PTL DEF Spec

\* A producer is the stream that ConcurrentQueue takes it for: each message is taken once and
\* in order, out of the block it was put into, and a call of dequeue() that no other overlaps
\* returns false only if there was nothing when it was made.
THEOREM ProducerImplementsStream == Spec => ImplementsStream
<1>1. Init => Stream!Init
  BY StreamBegins
<1>2. ClaimsInv /\ StreamInv /\ FindsItsBlock /\ NeverOverdrawn /\ NeverOverdrawn' /\ [Next]_vars
        => [Stream!Next]_Stream!vars
  BY ProducerAssumption, StreamGoesOn
<1> QED BY <1>1, <1>2, ClaimsInvariant, NotOverdrawn, BlockIsFound, LoneCallsPass, PTL
        DEF Spec, ImplementsStream, Stream!Spec

-----------------------------------------------------------------------------
(* The inductive invariant. *)

LinkingPcs == {"loadHead", "storeNext", "storeRefs"}
PushingPcs == {"pushHead", "giveUp"}
HoldingPcs == {"loadNext", "popHead", "take"}
Pcs == {"idle", "reload", "loadRefs", "refer", "drop"}
         \cup LinkingPcs \cup PushingPcs \cup HoldingPcs

NodeOrNull == Nodes \cup {Null}
State == [pc : Pcs, node : NodeOrNull, top : NodeOrNull, refs : Int, next : NodeOrNull]

\* Every variable has its type, and a thread the nodes its place calls for; only those
\* that call try_get have more to do than to link a node.
TypeOK ==
  /\ freeListHead \in NodeOrNull /\ freeListNext \in [Nodes -> NodeOrNull]
  /\ freeListRefs \in [Nodes -> Int] /\ used \subseteq Nodes
  /\ thread \in [Threads -> State]
  /\ \A t \in Threads :
       /\ thread[t].pc \in {"drop"} \cup LinkingPcs \cup PushingPcs => thread[t].node \in Nodes
       /\ thread[t].pc \in {"loadRefs", "refer"} \cup HoldingPcs => thread[t].top \in Nodes
       /\ t \notin Getters => /\ thread[t].pc \in {"idle"} \cup LinkingPcs \cup PushingPcs
                              /\ thread[t].top = Null

\* A reference of thread t to node n.
Holds(t, n) == \/ thread[t].pc \in HoldingPcs /\ thread[t].top = n
               \/ thread[t].pc = "drop" /\ thread[t].node = n

\* Thread t is the one that node n depends on: to get on the list, or into use.
Links(t, n) == thread[t].pc \in LinkingPcs /\ thread[t].node = n
Owns(t, n) == \/ Links(t, n)
              \/ thread[t].pc \in PushingPcs /\ thread[t].node = n
              \/ thread[t].pc = "take" /\ thread[t].top = n

Holders(n) == {t \in Threads : Holds(t, n)}
Linked(n) == \E t \in Threads : Links(t, n)
Owned(n) == \E t \in Threads : Owns(t, n)

\* Of a node that should be on the list L, nobody takes care but those who have a
\* reference to it.
Waiting(L, n) == n \notin used /\ n \notin L /\ ~Owned(n)

\* freeListRefs but for the references of the threads.
Base(L, n) == IF n \in used THEN 0
              ELSE IF Linked(n) \/ Waiting(L, n) THEN SHOULD_BE_ON_FREELIST ELSE 1

\* Every node is in one place, and its word says in which.
Placed(L, n) ==
  /\ \A t, u \in Threads : Owns(t, n) /\ Owns(u, n) => t = u
  /\ n \in L => n \notin used
  /\ Owned(n) => n \notin used /\ n \notin L
  /\ freeListRefs[n] = Base(L, n) + Cardinality(Holders(n))
  /\ Linked(n) => Holders(n) = {}
  /\ Waiting(L, n) => Holders(n) # {}

\* What a thread has read is still true: a word that would be 0 is not referred to, and
\* the next of a node does not change while there are references to it.
Locals ==
  \A t \in Threads :
    /\ thread[t].pc = "refer" => Refs(thread[t].refs) # 0
    /\ thread[t].pc = "popHead" => thread[t].next = freeListNext[thread[t].top]
    /\ thread[t].pc \in {"storeRefs", "pushHead"} =>
         freeListNext[thread[t].node] = thread[t].next

\* The list is s, from the head on, and no node is in it twice.
Nth(s, k) == IF k \in 1 .. Len(s) THEN s[k] ELSE Null
Listed(s) == {s[k] : k \in 1 .. Len(s)}

IsList(s) ==
  /\ \A j, k \in 1 .. Len(s) : s[j] = s[k] => j = k
  /\ freeListHead = Nth(s, 1)
  /\ \A k \in 1 .. Len(s) : freeListNext[s[k]] = Nth(s, k + 1)

ListIs(s) == IsList(s) /\ \A n \in Nodes : Placed(Listed(s), n)

ListInv == TypeOK /\ Locals /\ \E s \in Seq(Nodes) : ListIs(s)

-----------------------------------------------------------------------------
(* The threads. *)

\* What the assumption says of the numbers.
LEMMA Sizes ==
  /\ SHOULD_BE_ON_FREELIST \in Nat /\ Cardinality(Getters) \in Nat
  /\ SHOULD_BE_ON_FREELIST > Cardinality(Getters) + 1
  /\ Null \notin Nodes
BY FreeListAssumption, FS_CardinalityType

\* Only callers of try_get have references.
LEMMA FewHolders ==
  TypeOK => \A n \in Nodes : /\ IsFiniteSet(Holders(n))
                             /\ Cardinality(Holders(n)) \in Nat
                             /\ Cardinality(Holders(n)) <= Cardinality(Getters)
                             /\ Cardinality(Holders(n)) = 0 <=> Holders(n) = {}
<1> SUFFICES ASSUME TypeOK, NEW n \in Nodes
             PROVE  /\ IsFiniteSet(Holders(n))
                    /\ Cardinality(Holders(n)) \in Nat
                    /\ Cardinality(Holders(n)) <= Cardinality(Getters)
                    /\ Cardinality(Holders(n)) = 0 <=> Holders(n) = {}
  OBVIOUS
<1>1. Holders(n) \subseteq Getters
  BY DEF TypeOK, Holders, Holds, HoldingPcs, LinkingPcs, PushingPcs
<1>2. IsFiniteSet(Getters)
  BY FreeListAssumption
<1> QED BY <1>1, <1>2, FS_Subset, FS_CardinalityType, FS_EmptySet

\* A step of one thread adds its reference to a node, or takes it back.
LEMMA HoldersStep ==
  ASSUME TypeOK, TypeOK', NEW n \in Nodes, NEW t \in Threads,
         \A u \in Threads \ {t} : Holds(u, n)' <=> Holds(u, n)
  PROVE  /\ (Holds(t, n)' <=> Holds(t, n)) => Holders(n)' = Holders(n)
         /\ ~Holds(t, n) /\ Holds(t, n)' =>
              Cardinality(Holders(n))' = Cardinality(Holders(n)) + 1
         /\ Holds(t, n) /\ ~Holds(t, n)' =>
              Cardinality(Holders(n))' = Cardinality(Holders(n)) - 1
<1>1. IsFiniteSet(Holders(n)) /\ Cardinality(Holders(n)) \in Nat
  BY FewHolders
<1>2. (Holds(t, n)' <=> Holds(t, n)) => Holders(n)' = Holders(n)
  BY DEF Holders
<1>3. ~Holds(t, n) /\ Holds(t, n)' => Holders(n)' = Holders(n) \cup {t} /\ t \notin Holders(n)
  BY DEF Holders
<1>4. Holds(t, n) /\ ~Holds(t, n)' => Holders(n)' = Holders(n) \ {t} /\ t \in Holders(n)
  BY DEF Holders
<1> QED BY <1>1, <1>2, <1>3, <1>4, FS_AddElement, FS_RemoveElement

\* A node a step has nothing to do with.
LEMMA NodeStays ==
  ASSUME NEW L, NEW M, NEW n \in Nodes, Placed(L, n), n \in M <=> n \in L,
         n \in used' <=> n \in used, freeListRefs'[n] = freeListRefs[n],
         \A u \in Threads : /\ Holds(u, n)' <=> Holds(u, n)
                            /\ Links(u, n)' <=> Links(u, n)
                            /\ Owns(u, n)' <=> Owns(u, n)
  PROVE  Placed(M, n)'
<1>1. Holders(n)' = Holders(n)
  BY DEF Holders
<1>2. (Linked(n)' <=> Linked(n)) /\ (Owned(n)' <=> Owned(n))
  BY DEF Linked, Owned
<1>3. Waiting(M, n)' <=> Waiting(L, n)
  BY <1>2 DEF Waiting
<1>4. Base(M, n)' = Base(L, n)
  BY <1>2, <1>3 DEF Base
<1> QED BY <1>1, <1>2, <1>3, <1>4 DEF Placed

-----------------------------------------------------------------------------
(* The states a thread goes to, field by field. *)

IsAt(state, pc, node, top, refs, next) ==
  /\ state \in State
  /\ state.pc = pc /\ state.node = node /\ state.top = top
  /\ state.refs = refs /\ state.next = next

\* Idle is a state, and has no node.
LEMMA IdleState ==
  /\ Idle \in State /\ Null \in NodeOrNull
  /\ \A n \in Nodes : n \in NodeOrNull
BY DEF Idle, State, Pcs, NodeOrNull

\* The same but for the place.
LEMMA GoTo ==
  ASSUME NEW r \in State, NEW at \in Pcs
  PROVE  IsAt([r EXCEPT !.pc = at], at, r.node, r.top, r.refs, r.next)
<1> DEFINE state == [r EXCEPT !.pc = at]
<1>1. state \in State  BY DEF State
<1>2. state.pc = at  BY DEF State
<1>3. state.node = r.node  BY DEF State
<1>4. state.top = r.top  BY DEF State
<1>5. state.refs = r.refs  BY DEF State
<1>6. state.next = r.next  BY DEF State
<1> HIDE DEF state
<1>7. IsAt(state, at, r.node, r.top, r.refs, r.next)
  BY <1>1, <1>2, <1>3, <1>4, <1>5, <1>6 DEF IsAt
<1> QED BY <1>7 DEF state

\* The same but for the place and a node that was read.
LEMMA GoWith ==
  ASSUME NEW r \in State, NEW at \in Pcs, NEW n \in NodeOrNull
  PROVE  IsAt([r EXCEPT !.pc = at, !.next = n], at, r.node, r.top, r.refs, n)
<1> DEFINE state == [r EXCEPT !.pc = at, !.next = n]
<1>1. state \in State  BY DEF State
<1>2. state.pc = at  BY DEF State
<1>3. state.node = r.node  BY DEF State
<1>4. state.top = r.top  BY DEF State
<1>5. state.refs = r.refs  BY DEF State
<1>6. state.next = n  BY DEF State
<1> HIDE DEF state
<1>7. IsAt(state, at, r.node, r.top, r.refs, n)
  BY <1>1, <1>2, <1>3, <1>4, <1>5, <1>6 DEF IsAt
<1> QED BY <1>7 DEF state

\* The same but for the place and a word that was read.
LEMMA GoKnowing ==
  ASSUME NEW r \in State, NEW at \in Pcs, NEW word \in Int
  PROVE  IsAt([r EXCEPT !.pc = at, !.refs = word], at, r.node, r.top, word, r.next)
<1> DEFINE state == [r EXCEPT !.pc = at, !.refs = word]
<1>1. state \in State  BY DEF State
<1>2. state.pc = at  BY DEF State
<1>3. state.node = r.node  BY DEF State
<1>4. state.top = r.top  BY DEF State
<1>5. state.refs = word  BY DEF State
<1>6. state.next = r.next  BY DEF State
<1> HIDE DEF state
<1>7. IsAt(state, at, r.node, r.top, word, r.next)
  BY <1>1, <1>2, <1>3, <1>4, <1>5, <1>6 DEF IsAt
<1> QED BY <1>7 DEF state

\* A thread with nothing but its place.
LEMMA GoFree ==
  ASSUME NEW at \in Pcs
  PROVE  IsAt([Idle EXCEPT !.pc = at], at, Null, Null, 0, Null)
<1> DEFINE state == [Idle EXCEPT !.pc = at]
<1>1. state \in State  BY IdleState DEF Idle, State
<1>2. state.pc = at  BY IdleState DEF Idle, State
<1>3. state.node = Null  BY IdleState DEF Idle, State
<1>4. state.top = Null  BY IdleState DEF Idle, State
<1>5. state.refs = 0  BY IdleState DEF Idle, State
<1>6. state.next = Null  BY IdleState DEF Idle, State
<1> HIDE DEF state
<1>7. IsAt(state, at, Null, Null, 0, Null)
  BY <1>1, <1>2, <1>3, <1>4, <1>5, <1>6 DEF IsAt
<1> QED BY <1>7 DEF state

\* A thread with a node to look at.
LEMMA GoHolding ==
  ASSUME NEW at \in Pcs, NEW n \in NodeOrNull
  PROVE  IsAt([Idle EXCEPT !.pc = at, !.top = n], at, Null, n, 0, Null)
<1> DEFINE state == [Idle EXCEPT !.pc = at, !.top = n]
<1>1. state \in State  BY IdleState DEF Idle, State
<1>2. state.pc = at  BY IdleState DEF Idle, State
<1>3. state.node = Null  BY IdleState DEF Idle, State
<1>4. state.top = n  BY IdleState DEF Idle, State
<1>5. state.refs = 0  BY IdleState DEF Idle, State
<1>6. state.next = Null  BY IdleState DEF Idle, State
<1> HIDE DEF state
<1>7. IsAt(state, at, Null, n, 0, Null)
  BY <1>1, <1>2, <1>3, <1>4, <1>5, <1>6 DEF IsAt
<1> QED BY <1>7 DEF state

\* A thread with a node, and the head to go on with.
LEMMA GoDropping ==
  ASSUME NEW at \in Pcs, NEW n \in NodeOrNull, NEW head \in NodeOrNull
  PROVE  IsAt([Idle EXCEPT !.pc = at, !.node = n, !.top = head], at, n, head, 0, Null)
<1> DEFINE state == [Idle EXCEPT !.pc = at, !.node = n, !.top = head]
<1>1. state \in State  BY IdleState DEF Idle, State
<1>2. state.pc = at  BY IdleState DEF Idle, State
<1>3. state.node = n  BY IdleState DEF Idle, State
<1>4. state.top = head  BY IdleState DEF Idle, State
<1>5. state.refs = 0  BY IdleState DEF Idle, State
<1>6. state.next = Null  BY IdleState DEF Idle, State
<1> HIDE DEF state
<1>7. IsAt(state, at, n, head, 0, Null)
  BY <1>1, <1>2, <1>3, <1>4, <1>5, <1>6 DEF IsAt
<1> QED BY <1>7 DEF state

\* A thread whose call is over.
LEMMA GoIdle == IsAt(Idle, "idle", Null, Null, 0, Null)
BY IdleState DEF IsAt, Idle

\* The loop of try_get ends where the list does.
LEMMA GoLoop ==
  ASSUME NEW head \in NodeOrNull
  PROVE  /\ head = Null => IsAt(Loop(head), "idle", Null, Null, 0, Null)
         /\ head # Null => IsAt(Loop(head), "loadRefs", Null, head, 0, Null)
<1>1. head = Null => IsAt(Loop(head), "idle", Null, Null, 0, Null)
  BY GoIdle DEF Loop
<1>2. "loadRefs" \in Pcs
  BY DEF Pcs
<1>3. IsAt([Idle EXCEPT !.pc = "loadRefs", !.top = head], "loadRefs", Null, head, 0, Null)
  BY <1>2, GoHolding, Zenon
<1> QED BY <1>1, <1>3 DEF Loop

\* A thread that is to link a node.
LEMMA GoLinking ==
  ASSUME NEW n \in Nodes, NEW head \in NodeOrNull
  PROVE  IsAt(Linking(n, head), "loadHead", n, head, 0, Null)
<1>1. "loadHead" \in Pcs /\ n \in NodeOrNull
  BY IdleState DEF Pcs, LinkingPcs
<1>2. IsAt([Idle EXCEPT !.pc = "loadHead", !.node = n, !.top = head], "loadHead", n, head, 0,
           Null)
  BY <1>1, GoDropping, Zenon
<1> QED BY <1>2 DEF Linking
-----------------------------------------------------------------------------
(* Types, and what each action does to the thread that takes it. *)

\* What a thread must have where it is.
Fits(t, pc, node, top) ==
  /\ pc \in {"drop"} \cup LinkingPcs \cup PushingPcs => node \in Nodes
  /\ pc \in {"loadRefs", "refer"} \cup HoldingPcs => top \in Nodes
  /\ t \notin Getters => pc \in {"idle"} \cup LinkingPcs \cup PushingPcs /\ top = Null

\* Thread t goes there, and no other moves.
Turns(t, pc, node, top, refs, next) ==
  /\ IsAt(thread'[t], pc, node, top, refs, next)
  /\ \A u \in Threads \ {t} : thread'[u] = thread[u]

\* The types after a step, from those of what it writes.
LEMMA TypeBack ==
  ASSUME TypeOK, NEW t \in Threads, NEW state, Moves(t, state),
         NEW pc, NEW node, NEW top, NEW refs, NEW next,
         IsAt(state, pc, node, top, refs, next), Fits(t, pc, node, top),
         freeListHead' \in NodeOrNull, freeListNext' \in [Nodes -> NodeOrNull],
         freeListRefs' \in [Nodes -> Int], used' \subseteq Nodes
  PROVE  TypeOK' /\ Turns(t, pc, node, top, refs, next)
<1>1. state \in State
  BY DEF IsAt
<1>2. thread' \in [Threads -> State] /\ thread'[t] = state
      /\ \A u \in Threads \ {t} : thread'[u] = thread[u]
  BY <1>1 DEF TypeOK, Moves
<1>3. ASSUME NEW u \in Threads
      PROVE  /\ thread'[u].pc \in {"drop"} \cup LinkingPcs \cup PushingPcs =>
                  thread'[u].node \in Nodes
             /\ thread'[u].pc \in {"loadRefs", "refer"} \cup HoldingPcs => thread'[u].top \in Nodes
             /\ u \notin Getters =>
                  /\ thread'[u].pc \in {"idle"} \cup LinkingPcs \cup PushingPcs
                  /\ thread'[u].top = Null
  <2>1. CASE u = t
    BY <1>2, <2>1 DEF Fits, IsAt
  <2>2. CASE u # t
    BY <1>2, <2>2 DEF TypeOK
  <2> QED BY <2>1, <2>2
<1>4. TypeOK'
  BY <1>2, <1>3 DEF TypeOK
<1> QED BY <1>2, <1>4 DEF Turns

\* What is known of the thread that takes the step.
LEMMA Own ==
  ASSUME TypeOK, NEW t \in Threads
  PROVE  /\ thread[t] \in State /\ thread[t].pc \in Pcs /\ thread[t].node \in NodeOrNull
         /\ thread[t].top \in NodeOrNull /\ thread[t].refs \in Int
         /\ thread[t].next \in NodeOrNull
         /\ Fits(t, thread[t].pc, thread[t].node, thread[t].top)
<1>1. thread[t] \in State
  BY DEF TypeOK
<1>2. /\ thread[t].pc \in Pcs /\ thread[t].node \in NodeOrNull
      /\ thread[t].top \in NodeOrNull /\ thread[t].refs \in Int
      /\ thread[t].next \in NodeOrNull
  BY <1>1 DEF State
<1> QED BY <1>1, <1>2 DEF TypeOK, Fits

\* Where a thread may be: the tests of Fits, decided.
LEMMA Places ==
  ASSUME NEW t, NEW node, NEW top
  PROVE  /\ \A pc \in {"loadHead", "storeNext", "storeRefs", "pushHead", "giveUp"} :
              pc \in Pcs /\ (Fits(t, pc, node, top) <=>
                               node \in Nodes /\ (t \notin Getters => top = Null))
         /\ \A pc \in {"loadRefs", "refer", "loadNext", "popHead", "take"} :
              pc \in Pcs /\ (Fits(t, pc, node, top) <=> top \in Nodes /\ t \in Getters)
         /\ "idle" \in Pcs /\ (Fits(t, "idle", node, top) <=> (t \notin Getters => top = Null))
         /\ "reload" \in Pcs /\ (Fits(t, "reload", node, top) <=> t \in Getters)
         /\ "drop" \in Pcs /\ (Fits(t, "drop", node, top) <=> node \in Nodes /\ t \in Getters)
BY DEF Fits, Pcs, LinkingPcs, PushingPcs, HoldingPcs

\* One word is replaced.
LEMMA Word ==
  ASSUME TypeOK, NEW n \in Nodes, NEW k \in Int
  PROVE  /\ [freeListRefs EXCEPT ![n] = k] \in [Nodes -> Int]
         /\ [freeListRefs EXCEPT ![n] = k][n] = k
         /\ \A m \in Nodes \ {n} : [freeListRefs EXCEPT ![n] = k][m] = freeListRefs[m]
BY DEF TypeOK

\* Only the word of node n changes, and to k.
WordBecomes(n, k) == /\ freeListRefs'[n] = k
                     /\ \A m \in Nodes \ {n} : freeListRefs'[m] = freeListRefs[m]

\* What an action changes of the words.
LEMMA WordStep ==
  ASSUME TypeOK, NEW n \in Nodes, NEW k \in Int, freeListRefs' = [freeListRefs EXCEPT ![n] = k]
  PROVE  freeListRefs' \in [Nodes -> Int] /\ WordBecomes(n, k)
BY Word DEF WordBecomes

\* add() takes the node from its caller; whoever finds no reference links it.
LEMMA AddDoes ==
  ASSUME TypeOK, NEW t \in Threads, NEW n \in Nodes, Add(t, n)
  PROVE  /\ TypeOK' /\ thread[t].pc = "idle" /\ n \in used /\ used' = used \ {n}
         /\ WordBecomes(n, freeListRefs[n] + SHOULD_BE_ON_FREELIST)
         /\ freeListRefs[n] = 0 => Turns(t, "loadHead", n, Null, 0, Null)
         /\ freeListRefs[n] # 0 => Turns(t, "idle", Null, Null, 0, Null)
         /\ UNCHANGED <<freeListHead, freeListNext>>
<1> DEFINE k == freeListRefs[n] + SHOULD_BE_ON_FREELIST
<1>1. freeListRefs[n] \in Int /\ k \in Int
  BY Sizes DEF TypeOK
<1>2. freeListRefs' = [freeListRefs EXCEPT ![n] = k]
  BY DEF Add, Adds
<1>3. freeListRefs' \in [Nodes -> Int] /\ WordBecomes(n, k)
  BY <1>1, <1>2, WordStep
<1>4. /\ freeListHead' \in NodeOrNull /\ used' \subseteq Nodes
      /\ freeListNext' \in [Nodes -> NodeOrNull]
  BY DEF Add, TypeOK
<1>5. CASE freeListRefs[n] = 0
  <2>1. Moves(t, Linking(n, Null))
    BY <1>5 DEF Add
  <2>2. IsAt(Linking(n, Null), "loadHead", n, Null, 0, Null)
    BY IdleState, GoLinking
  <2>3. Fits(t, "loadHead", n, Null)
    BY Places
  <2>4. TypeOK' /\ Turns(t, "loadHead", n, Null, 0, Null)
    BY <1>3, <1>4, <2>1, <2>2, <2>3, TypeBack
  <2> QED BY <1>3, <1>5, <2>4 DEF Add, AtPc
<1>6. CASE freeListRefs[n] # 0
  <2>1. Moves(t, Idle)
    BY <1>6 DEF Add
  <2>2. Fits(t, "idle", Null, Null)
    BY Places
  <2>3. TypeOK' /\ Turns(t, "idle", Null, Null, 0, Null)
    BY <1>3, <1>4, <2>1, <2>2, GoIdle, TypeBack
  <2> QED BY <1>3, <1>6, <2>3 DEF Add, AtPc
<1> QED BY <1>5, <1>6

\* The head is read, to be the next of the node.
LEMMA LoadHeadDoes ==
  ASSUME TypeOK, NEW t \in Threads, LoadHead(t)
  PROVE  /\ TypeOK' /\ thread[t].pc = "loadHead"
         /\ Turns(t, "storeNext", thread[t].node, thread[t].top, thread[t].refs, freeListHead)
         /\ UNCHANGED <<freeListHead, freeListNext, freeListRefs, used>>
<1>1. thread[t].pc = "loadHead" /\ UNCHANGED <<freeListHead, freeListNext, freeListRefs, used>>
  BY DEF LoadHead, AtPc
<1>2. Moves(t, [thread[t] EXCEPT !.pc = "storeNext", !.next = freeListHead])
  BY DEF LoadHead
<1>3. freeListHead \in NodeOrNull /\ thread[t] \in State
      /\ "storeNext" \in Pcs /\ Fits(t, "storeNext", thread[t].node, thread[t].top)
  BY <1>1, Own, Places DEF TypeOK
<1>4. IsAt([thread[t] EXCEPT !.pc = "storeNext", !.next = freeListHead], "storeNext",
           thread[t].node, thread[t].top, thread[t].refs, freeListHead)
  BY <1>3, GoWith, Zenon
<1>5. freeListHead' \in NodeOrNull /\ freeListNext' \in [Nodes -> NodeOrNull]
      /\ freeListRefs' \in [Nodes -> Int] /\ used' \subseteq Nodes
  BY <1>1 DEF TypeOK
<1>6. TypeOK' /\ Turns(t, "storeNext", thread[t].node, thread[t].top, thread[t].refs, freeListHead)
  BY <1>2, <1>3, <1>4, <1>5, TypeBack
<1> QED BY <1>1, <1>6

\* The node that is being linked gets the head it was read for its next.
LEMMA StoreNextDoes ==
  ASSUME TypeOK, NEW t \in Threads, StoreNext(t)
  PROVE  /\ TypeOK' /\ thread[t].pc = "storeNext" /\ thread[t].node \in Nodes
         /\ freeListNext'[thread[t].node] = thread[t].next
         /\ \A m \in Nodes \ {thread[t].node} : freeListNext'[m] = freeListNext[m]
         /\ Turns(t, "storeRefs", thread[t].node, thread[t].top, thread[t].refs, thread[t].next)
         /\ UNCHANGED <<freeListHead, freeListRefs, used>>
<1>1. thread[t].pc = "storeNext" /\ UNCHANGED <<freeListHead, freeListRefs, used>>
  BY DEF StoreNext, AtPc
<1>2. Moves(t, [thread[t] EXCEPT !.pc = "storeRefs"])
  BY DEF StoreNext
<1>3. /\ thread[t] \in State /\ thread[t].node \in Nodes /\ thread[t].next \in NodeOrNull
      /\ "storeRefs" \in Pcs /\ Fits(t, "storeRefs", thread[t].node, thread[t].top)
  BY <1>1, Own, Places
<1>4. IsAt([thread[t] EXCEPT !.pc = "storeRefs"], "storeRefs", thread[t].node, thread[t].top,
           thread[t].refs, thread[t].next)
  BY <1>3, GoTo, Zenon
<1>5. freeListNext' = [freeListNext EXCEPT ![thread[t].node] = thread[t].next]
  BY DEF StoreNext
<1>6. /\ freeListNext' \in [Nodes -> NodeOrNull]
      /\ freeListNext'[thread[t].node] = thread[t].next
      /\ \A m \in Nodes \ {thread[t].node} : freeListNext'[m] = freeListNext[m]
  BY <1>3, <1>5 DEF TypeOK
<1>7. freeListHead' \in NodeOrNull /\ freeListRefs' \in [Nodes -> Int] /\ used' \subseteq Nodes
  BY <1>1 DEF TypeOK
<1>8. TypeOK' /\ Turns(t, "storeRefs", thread[t].node, thread[t].top, thread[t].refs, thread[t].next)
  BY <1>2, <1>3, <1>4, <1>6, <1>7, TypeBack
<1> QED BY <1>1, <1>3, <1>6, <1>8

\* The node's word becomes 1, the reference of the list.
LEMMA StoreRefsDoes ==
  ASSUME TypeOK, NEW t \in Threads, StoreRefs(t)
  PROVE  /\ TypeOK' /\ thread[t].pc = "storeRefs" /\ thread[t].node \in Nodes
         /\ WordBecomes(thread[t].node, 1)
         /\ Turns(t, "pushHead", thread[t].node, thread[t].top, thread[t].refs, thread[t].next)
         /\ UNCHANGED <<freeListHead, freeListNext, used>>
<1>1. thread[t].pc = "storeRefs" /\ UNCHANGED <<freeListHead, freeListNext, used>>
  BY DEF StoreRefs, AtPc
<1>2. Moves(t, [thread[t] EXCEPT !.pc = "pushHead"])
  BY DEF StoreRefs
<1>3. /\ thread[t] \in State /\ thread[t].node \in Nodes
      /\ "pushHead" \in Pcs /\ Fits(t, "pushHead", thread[t].node, thread[t].top)
  BY <1>1, Own, Places
<1>4. IsAt([thread[t] EXCEPT !.pc = "pushHead"], "pushHead", thread[t].node, thread[t].top,
           thread[t].refs, thread[t].next)
  BY <1>3, GoTo, Zenon
<1>5. freeListRefs' = [freeListRefs EXCEPT ![thread[t].node] = 1]
  BY DEF StoreRefs
<1>6. freeListRefs' \in [Nodes -> Int] /\ WordBecomes(thread[t].node, 1)
  BY <1>3, <1>5 DEF TypeOK, WordBecomes
<1>7. /\ freeListHead' \in NodeOrNull /\ used' \subseteq Nodes
      /\ freeListNext' \in [Nodes -> NodeOrNull]
  BY <1>1 DEF TypeOK
<1>8. TypeOK' /\ Turns(t, "pushHead", thread[t].node, thread[t].top, thread[t].refs, thread[t].next)
  BY <1>2, <1>3, <1>4, <1>6, <1>7, TypeBack
<1> QED BY <1>1, <1>3, <1>6, <1>8

\* Back to the loop of try_get, or out of it.
Returns(t, head) == /\ head = Null => Turns(t, "idle", Null, Null, 0, Null)
                    /\ head # Null => Turns(t, "loadRefs", Null, head, 0, Null)

\* The types after a step that goes back to the loop of try_get.
LEMMA LoopBack ==
  ASSUME TypeOK, NEW t \in Threads, NEW head \in NodeOrNull, Moves(t, Loop(head)),
         t \notin Getters => head = Null,
         freeListHead' \in NodeOrNull, freeListNext' \in [Nodes -> NodeOrNull],
         freeListRefs' \in [Nodes -> Int], used' \subseteq Nodes
  PROVE  TypeOK' /\ Returns(t, head)
<1>1. CASE head = Null
  <2>1. IsAt(Loop(head), "idle", Null, Null, 0, Null) /\ Fits(t, "idle", Null, Null)
    BY <1>1, GoLoop, Places
  <2>2. TypeOK' /\ Turns(t, "idle", Null, Null, 0, Null)
    BY <2>1, TypeBack
  <2> QED BY <1>1, <2>2 DEF Returns
<1>2. CASE head # Null
  <2>1. head \in Nodes /\ t \in Getters
    BY <1>2 DEF NodeOrNull
  <2>2. IsAt(Loop(head), "loadRefs", Null, head, 0, Null) /\ Fits(t, "loadRefs", Null, head)
    BY <1>2, <2>1, GoLoop, Places
  <2>3. TypeOK' /\ Turns(t, "loadRefs", Null, head, 0, Null)
    BY <2>2, TypeBack
  <2> QED BY <1>2, <2>3 DEF Returns
<1> QED BY <1>1, <1>2

\* The node becomes the head, or the head has changed.
LEMMA PushHeadDoes ==
  ASSUME TypeOK, NEW t \in Threads, PushHead(t)
  PROVE  /\ TypeOK' /\ thread[t].pc = "pushHead" /\ thread[t].node \in Nodes
         /\ freeListHead = thread[t].next =>
              freeListHead' = thread[t].node /\ Returns(t, thread[t].top)
         /\ freeListHead # thread[t].next =>
              /\ freeListHead' = freeListHead
              /\ Turns(t, "giveUp", thread[t].node, thread[t].top, thread[t].refs, freeListHead)
         /\ UNCHANGED <<freeListNext, freeListRefs, used>>
<1>1. thread[t].pc = "pushHead" /\ UNCHANGED <<freeListNext, freeListRefs, used>>
  BY DEF PushHead, AtPc
<1>2. /\ thread[t] \in State /\ thread[t].node \in Nodes /\ thread[t].top \in NodeOrNull
      /\ t \notin Getters => thread[t].top = Null
      /\ "giveUp" \in Pcs /\ Fits(t, "giveUp", thread[t].node, thread[t].top)
  BY <1>1, Own, Places
<1>3. freeListNext' \in [Nodes -> NodeOrNull] /\ freeListRefs' \in [Nodes -> Int]
      /\ used' \subseteq Nodes /\ freeListHead \in NodeOrNull
  BY <1>1 DEF TypeOK
<1>4. CASE freeListHead = thread[t].next
  <2>1. freeListHead' = thread[t].node /\ Moves(t, Loop(thread[t].top))
    BY <1>4 DEF PushHead
  <2>2. freeListHead' \in NodeOrNull
    BY <1>2, <2>1, IdleState
  <2>3. TypeOK' /\ Returns(t, thread[t].top)
    BY <1>2, <1>3, <2>1, <2>2, LoopBack
  <2> QED BY <1>1, <1>2, <1>4, <2>1, <2>3
<1>5. CASE freeListHead # thread[t].next
  <2>1. /\ freeListHead' = freeListHead
        /\ Moves(t, [thread[t] EXCEPT !.pc = "giveUp", !.next = freeListHead])
    BY <1>5 DEF PushHead
  <2>2. IsAt([thread[t] EXCEPT !.pc = "giveUp", !.next = freeListHead], "giveUp",
             thread[t].node, thread[t].top, thread[t].refs, freeListHead)
    BY <1>2, <1>3, GoWith, Zenon
  <2>3. TypeOK' /\ Turns(t, "giveUp", thread[t].node, thread[t].top, thread[t].refs, freeListHead)
    BY <1>2, <1>3, <2>1, <2>2, TypeBack
  <2> QED BY <1>1, <1>2, <1>5, <2>1, <2>3
<1> QED BY <1>4, <1>5

\* A node that could not be pushed should be on the list; it is linked again if nobody has a
\* reference.
LEMMA GiveUpDoes ==
  ASSUME TypeOK, NEW t \in Threads, GiveUp(t)
  PROVE  /\ TypeOK' /\ thread[t].pc = "giveUp" /\ thread[t].node \in Nodes
         /\ WordBecomes(thread[t].node,
                        freeListRefs[thread[t].node] + SHOULD_BE_ON_FREELIST - 1)
         /\ freeListRefs[thread[t].node] = 1 =>
              Turns(t, "storeNext", thread[t].node, thread[t].top, thread[t].refs, thread[t].next)
         /\ freeListRefs[thread[t].node] # 1 => Returns(t, thread[t].top)
         /\ UNCHANGED <<freeListHead, freeListNext, used>>
<1> DEFINE n == thread[t].node
           k == freeListRefs[n] + SHOULD_BE_ON_FREELIST - 1
<1>1. thread[t].pc = "giveUp" /\ UNCHANGED <<freeListHead, freeListNext, used>>
  BY DEF GiveUp, AtPc
<1>2. /\ thread[t] \in State /\ n \in Nodes /\ thread[t].top \in NodeOrNull
      /\ t \notin Getters => thread[t].top = Null
      /\ "storeNext" \in Pcs /\ Fits(t, "storeNext", n, thread[t].top)
  BY <1>1, Own, Places
<1>3. freeListRefs[n] \in Int /\ k \in Int /\ k = freeListRefs[n] + (SHOULD_BE_ON_FREELIST - 1)
  BY <1>2, Sizes DEF TypeOK
<1>4. freeListRefs' = [freeListRefs EXCEPT ![n] = k]
  BY <1>3 DEF GiveUp, Adds
<1>5. freeListRefs' \in [Nodes -> Int] /\ WordBecomes(n, k)
  BY <1>2, <1>3, <1>4, WordStep
<1>6. /\ freeListHead' \in NodeOrNull /\ used' \subseteq Nodes
      /\ freeListNext' \in [Nodes -> NodeOrNull]
  BY <1>1 DEF TypeOK
<1>7. CASE freeListRefs[n] = 1
  <2>1. Moves(t, [thread[t] EXCEPT !.pc = "storeNext"])
    BY <1>7 DEF GiveUp
  <2>2. IsAt([thread[t] EXCEPT !.pc = "storeNext"], "storeNext", n, thread[t].top,
             thread[t].refs, thread[t].next)
    BY <1>2, GoTo, Zenon
  <2>3. TypeOK' /\ Turns(t, "storeNext", n, thread[t].top, thread[t].refs, thread[t].next)
    BY <1>2, <1>5, <1>6, <2>1, <2>2, TypeBack
  <2> QED BY <1>1, <1>2, <1>5, <1>7, <2>3
<1>8. CASE freeListRefs[n] # 1
  <2>1. Moves(t, Loop(thread[t].top))
    BY <1>8 DEF GiveUp
  <2>2. TypeOK' /\ Returns(t, thread[t].top)
    BY <1>2, <1>5, <1>6, <2>1, LoopBack
  <2> QED BY <1>1, <1>2, <1>5, <1>8, <2>2
<1> QED BY <1>7, <1>8

\* try_get begins with the head, and does so again.
LEMMA GetDoes ==
  ASSUME TypeOK, NEW t \in Threads, Get(t) \/ Reload(t)
  PROVE  /\ TypeOK' /\ thread[t].pc \in {"idle", "reload"}
         /\ Returns(t, freeListHead)
         /\ UNCHANGED <<freeListHead, freeListNext, freeListRefs, used>>
<1>1. /\ UNCHANGED <<freeListHead, freeListNext, freeListRefs, used>>
      /\ Moves(t, Loop(freeListHead)) /\ thread[t].pc \in {"idle", "reload"}
  BY DEF Get, Reload, AtPc
<1>2. t \in Getters
  BY Own, Places DEF Get, Reload, AtPc
<1>3. /\ freeListHead \in NodeOrNull /\ freeListHead' \in NodeOrNull
      /\ freeListNext' \in [Nodes -> NodeOrNull]
      /\ freeListRefs' \in [Nodes -> Int] /\ used' \subseteq Nodes
  BY <1>1 DEF TypeOK
<1>4. TypeOK' /\ Returns(t, freeListHead)
  BY <1>1, <1>2, <1>3, LoopBack
<1> QED BY <1>1, <1>4

\* A word without references is not worth a try.
LEMMA LoadRefsDoes ==
  ASSUME TypeOK, NEW t \in Threads, LoadRefs(t)
  PROVE  /\ TypeOK' /\ thread[t].pc = "loadRefs" /\ thread[t].top \in Nodes
         /\ Refs(freeListRefs[thread[t].top]) = 0 => Turns(t, "reload", Null, Null, 0, Null)
         /\ Refs(freeListRefs[thread[t].top]) # 0 =>
              Turns(t, "refer", thread[t].node, thread[t].top, freeListRefs[thread[t].top],
                    thread[t].next)
         /\ UNCHANGED <<freeListHead, freeListNext, freeListRefs, used>>
<1> DEFINE word == freeListRefs[thread[t].top]
<1>1. /\ UNCHANGED <<freeListHead, freeListNext, freeListRefs, used>>
      /\ thread[t].pc = "loadRefs"
      /\ Moves(t, IF Refs(word) = 0 THEN [Idle EXCEPT !.pc = "reload"]
                 ELSE [thread[t] EXCEPT !.pc = "refer", !.refs = word])
  BY DEF LoadRefs, AtPc
<1>2. /\ thread[t] \in State /\ thread[t].top \in Nodes
      /\ "reload" \in Pcs /\ Fits(t, "reload", Null, Null)
      /\ "refer" \in Pcs /\ Fits(t, "refer", thread[t].node, thread[t].top)
  BY <1>1, Own, Places
<1>3. word \in Int
  BY <1>2 DEF TypeOK
<1>4. /\ freeListHead' \in NodeOrNull /\ freeListNext' \in [Nodes -> NodeOrNull]
      /\ freeListRefs' \in [Nodes -> Int] /\ used' \subseteq Nodes
  BY <1>1 DEF TypeOK
<1>5. IsAt([Idle EXCEPT !.pc = "reload"], "reload", Null, Null, 0, Null)
  BY <1>2, GoFree, Zenon
<1>6. IsAt([thread[t] EXCEPT !.pc = "refer", !.refs = word], "refer", thread[t].node,
           thread[t].top, word, thread[t].next)
  BY <1>2, <1>3, GoKnowing, Zenon
<1>7. CASE Refs(word) = 0
  <2>1. Moves(t, [Idle EXCEPT !.pc = "reload"])
    BY <1>1, <1>7
  <2>2. TypeOK' /\ Turns(t, "reload", Null, Null, 0, Null)
    BY <1>2, <1>4, <1>5, <2>1, TypeBack
  <2> QED BY <1>1, <1>2, <1>7, <2>2
<1>8. CASE Refs(word) # 0
  <2>1. Moves(t, [thread[t] EXCEPT !.pc = "refer", !.refs = word])
    BY <1>1, <1>8
  <2>2. TypeOK' /\ Turns(t, "refer", thread[t].node, thread[t].top, word, thread[t].next)
    BY <1>2, <1>4, <1>6, <2>1, TypeBack
  <2> QED BY <1>1, <1>2, <1>8, <2>2
<1> QED BY <1>7, <1>8

\* One reference more, if the word has not changed.
LEMMA ReferDoes ==
  ASSUME TypeOK, NEW t \in Threads, Refer(t)
  PROVE  /\ TypeOK' /\ thread[t].pc = "refer" /\ thread[t].top \in Nodes
         /\ freeListRefs[thread[t].top] = thread[t].refs =>
              /\ WordBecomes(thread[t].top, freeListRefs[thread[t].top] + 1)
              /\ Turns(t, "loadNext", Null, thread[t].top, 0, Null)
         /\ freeListRefs[thread[t].top] # thread[t].refs =>
              freeListRefs' = freeListRefs /\ Turns(t, "reload", Null, Null, 0, Null)
         /\ UNCHANGED <<freeListHead, freeListNext, used>>
<1> DEFINE n == thread[t].top
<1>1. UNCHANGED <<freeListHead, freeListNext, used>> /\ thread[t].pc = "refer"
  BY DEF Refer, AtPc
<1>2. /\ n \in Nodes /\ n \in NodeOrNull
      /\ "reload" \in Pcs /\ Fits(t, "reload", Null, Null)
      /\ "loadNext" \in Pcs /\ Fits(t, "loadNext", Null, n)
  BY <1>1, Own, Places
<1>3. freeListRefs[n] + 1 \in Int
  BY <1>2 DEF TypeOK
<1>4. /\ freeListHead' \in NodeOrNull /\ freeListNext' \in [Nodes -> NodeOrNull]
      /\ freeListRefs \in [Nodes -> Int] /\ used' \subseteq Nodes
  BY <1>1 DEF TypeOK
<1>5. IsAt([Idle EXCEPT !.pc = "reload"], "reload", Null, Null, 0, Null)
  BY <1>2, GoFree, Zenon
<1>6. IsAt([Idle EXCEPT !.pc = "loadNext", !.top = n], "loadNext", Null, n, 0, Null)
  BY <1>2, GoHolding, Zenon
<1>7. CASE freeListRefs[n] = thread[t].refs
  <2>1. /\ freeListRefs' = [freeListRefs EXCEPT ![n] = freeListRefs[n] + 1]
        /\ Moves(t, [Idle EXCEPT !.pc = "loadNext", !.top = n])
    BY <1>7 DEF Refer, Adds
  <2>2. freeListRefs' \in [Nodes -> Int] /\ WordBecomes(n, freeListRefs[n] + 1)
    BY <1>2, <1>3, <2>1, WordStep
  <2>3. TypeOK' /\ Turns(t, "loadNext", Null, n, 0, Null)
    BY <1>2, <1>4, <1>6, <2>1, <2>2, TypeBack
  <2> QED BY <1>1, <1>2, <1>7, <2>2, <2>3
<1>8. CASE freeListRefs[n] # thread[t].refs
  <2>1. freeListRefs' = freeListRefs /\ Moves(t, [Idle EXCEPT !.pc = "reload"])
    BY <1>8 DEF Refer
  <2>2. TypeOK' /\ Turns(t, "reload", Null, Null, 0, Null)
    BY <1>2, <1>4, <1>5, <2>1, TypeBack
  <2> QED BY <1>1, <1>2, <1>8, <2>1, <2>2
<1> QED BY <1>7, <1>8

\* The next of a node the thread has a reference to.
LEMMA LoadNextDoes ==
  ASSUME TypeOK, NEW t \in Threads, LoadNext(t)
  PROVE  /\ TypeOK' /\ thread[t].pc = "loadNext" /\ thread[t].top \in Nodes
         /\ Turns(t, "popHead", thread[t].node, thread[t].top, thread[t].refs,
                  freeListNext[thread[t].top])
         /\ UNCHANGED <<freeListHead, freeListNext, freeListRefs, used>>
<1> DEFINE n == freeListNext[thread[t].top]
<1>1. /\ UNCHANGED <<freeListHead, freeListNext, freeListRefs, used>>
      /\ thread[t].pc = "loadNext"
      /\ Moves(t, [thread[t] EXCEPT !.pc = "popHead", !.next = n])
  BY DEF LoadNext, AtPc
<1>2. /\ thread[t] \in State /\ thread[t].top \in Nodes
      /\ "popHead" \in Pcs /\ Fits(t, "popHead", thread[t].node, thread[t].top)
  BY <1>1, Own, Places
<1>3. n \in NodeOrNull
  BY <1>2 DEF TypeOK
<1>4. /\ freeListHead' \in NodeOrNull /\ freeListNext' \in [Nodes -> NodeOrNull]
      /\ freeListRefs' \in [Nodes -> Int] /\ used' \subseteq Nodes
  BY <1>1 DEF TypeOK
<1>5. IsAt([thread[t] EXCEPT !.pc = "popHead", !.next = n], "popHead", thread[t].node,
           thread[t].top, thread[t].refs, n)
  BY <1>2, <1>3, GoWith, Zenon
<1>6. TypeOK' /\ Turns(t, "popHead", thread[t].node, thread[t].top, thread[t].refs, n)
  BY <1>1, <1>2, <1>4, <1>5, TypeBack
<1> QED BY <1>1, <1>2, <1>6

\* The head is replaced by its next, or it was another.
LEMMA PopHeadDoes ==
  ASSUME TypeOK, NEW t \in Threads, PopHead(t)
  PROVE  /\ TypeOK' /\ thread[t].pc = "popHead" /\ thread[t].top \in Nodes
         /\ freeListHead = thread[t].top =>
              freeListHead' = thread[t].next /\ Turns(t, "take", Null, thread[t].top, 0, Null)
         /\ freeListHead # thread[t].top =>
              /\ freeListHead' = freeListHead
              /\ Turns(t, "drop", thread[t].top, freeListHead, 0, Null)
         /\ UNCHANGED <<freeListNext, freeListRefs, used>>
<1> DEFINE n == thread[t].top
<1>1. UNCHANGED <<freeListNext, freeListRefs, used>> /\ thread[t].pc = "popHead"
  BY DEF PopHead, AtPc
<1>2. /\ n \in Nodes /\ n \in NodeOrNull /\ thread[t].next \in NodeOrNull
      /\ "take" \in Pcs /\ Fits(t, "take", Null, n)
      /\ "drop" \in Pcs /\ Fits(t, "drop", n, freeListHead)
  BY <1>1, Own, Places
<1>3. /\ freeListHead \in NodeOrNull /\ freeListNext' \in [Nodes -> NodeOrNull]
      /\ freeListRefs' \in [Nodes -> Int] /\ used' \subseteq Nodes
  BY <1>1 DEF TypeOK
<1>4. IsAt([Idle EXCEPT !.pc = "take", !.top = n], "take", Null, n, 0, Null)
  BY <1>2, GoHolding, Zenon
<1>5. IsAt([Idle EXCEPT !.pc = "drop", !.node = n, !.top = freeListHead], "drop", n,
           freeListHead, 0, Null)
  BY <1>2, <1>3, GoDropping, Zenon
<1>6. CASE freeListHead = n
  <2>1. freeListHead' = thread[t].next /\ Moves(t, [Idle EXCEPT !.pc = "take", !.top = n])
    BY <1>6 DEF PopHead
  <2>2. TypeOK' /\ Turns(t, "take", Null, n, 0, Null)
    BY <1>2, <1>3, <1>4, <2>1, TypeBack
  <2> QED BY <1>1, <1>2, <1>6, <2>1, <2>2
<1>7. CASE freeListHead # n
  <2>1. /\ freeListHead' = freeListHead
        /\ Moves(t, [Idle EXCEPT !.pc = "drop", !.node = n, !.top = freeListHead])
    BY <1>7 DEF PopHead
  <2>2. TypeOK' /\ Turns(t, "drop", n, freeListHead, 0, Null)
    BY <1>2, <1>3, <1>5, <2>1, TypeBack
  <2> QED BY <1>1, <1>2, <1>7, <2>1, <2>2
<1> QED BY <1>6, <1>7

\* The caller's node has neither the thread's reference nor the list's.
LEMMA TakeDoes ==
  ASSUME TypeOK, NEW t \in Threads, Take(t)
  PROVE  /\ TypeOK' /\ thread[t].pc = "take" /\ thread[t].top \in Nodes
         /\ WordBecomes(thread[t].top, freeListRefs[thread[t].top] - 2)
         /\ used' = used \cup {thread[t].top}
         /\ Turns(t, "idle", Null, Null, 0, Null)
         /\ UNCHANGED <<freeListHead, freeListNext>>
<1> DEFINE n == thread[t].top
<1>1. /\ UNCHANGED <<freeListHead, freeListNext>> /\ thread[t].pc = "take"
      /\ used' = used \cup {n} /\ Moves(t, Idle)
  BY DEF Take, AtPc
<1>2. n \in Nodes /\ Fits(t, "idle", Null, Null)
  BY <1>1, Own, Places
<1>3. freeListRefs[n] - 2 \in Int
  BY <1>2 DEF TypeOK
<1>4. freeListRefs' = [freeListRefs EXCEPT ![n] = freeListRefs[n] - 2]
  BY DEF Take
<1>5. freeListRefs' \in [Nodes -> Int] /\ WordBecomes(n, freeListRefs[n] - 2)
  BY <1>2, <1>3, <1>4, WordStep
<1>6. /\ freeListHead' \in NodeOrNull /\ used' \subseteq Nodes
      /\ freeListNext' \in [Nodes -> NodeOrNull]
  BY <1>1, <1>2 DEF TypeOK
<1>7. TypeOK' /\ Turns(t, "idle", Null, Null, 0, Null)
  BY <1>1, <1>2, <1>5, <1>6, GoIdle, TypeBack
<1> QED BY <1>1, <1>2, <1>5, <1>7

\* One reference less; who drops the last one of a node that should be on the list links it.
LEMMA DropDoes ==
  ASSUME TypeOK, NEW t \in Threads, Drop(t)
  PROVE  /\ TypeOK' /\ thread[t].pc = "drop" /\ thread[t].node \in Nodes
         /\ WordBecomes(thread[t].node, freeListRefs[thread[t].node] - 1)
         /\ freeListRefs[thread[t].node] = SHOULD_BE_ON_FREELIST + 1 =>
              Turns(t, "loadHead", thread[t].node, thread[t].top, 0, Null)
         /\ freeListRefs[thread[t].node] # SHOULD_BE_ON_FREELIST + 1 =>
              Returns(t, thread[t].top)
         /\ UNCHANGED <<freeListHead, freeListNext, used>>
<1> DEFINE n == thread[t].node
           head == thread[t].top
<1>1. UNCHANGED <<freeListHead, freeListNext, used>> /\ thread[t].pc = "drop"
  BY DEF Drop, AtPc
<1>2. /\ n \in Nodes /\ head \in NodeOrNull /\ t \in Getters /\ Fits(t, "loadHead", n, head)
  BY <1>1, Own, Places
<1>3. freeListRefs[n] - 1 \in Int
  BY <1>2 DEF TypeOK
<1>4. freeListRefs' = [freeListRefs EXCEPT ![n] = freeListRefs[n] - 1]
  BY DEF Drop
<1>5. freeListRefs' \in [Nodes -> Int] /\ WordBecomes(n, freeListRefs[n] - 1)
  BY <1>2, <1>3, <1>4, WordStep
<1>6. /\ freeListHead' \in NodeOrNull /\ used' \subseteq Nodes
      /\ freeListNext' \in [Nodes -> NodeOrNull]
  BY <1>1 DEF TypeOK
<1>7. CASE freeListRefs[n] = SHOULD_BE_ON_FREELIST + 1
  <2>1. Moves(t, Linking(n, head))
    BY <1>7 DEF Drop
  <2>2. IsAt(Linking(n, head), "loadHead", n, head, 0, Null)
    BY <1>2, GoLinking
  <2>3. TypeOK' /\ Turns(t, "loadHead", n, head, 0, Null)
    BY <1>2, <1>5, <1>6, <2>1, <2>2, TypeBack
  <2> QED BY <1>1, <1>2, <1>5, <1>7, <2>3
<1>8. CASE freeListRefs[n] # SHOULD_BE_ON_FREELIST + 1
  <2>1. Moves(t, Loop(head))
    BY <1>8 DEF Drop
  <2>2. TypeOK' /\ Returns(t, head)
    BY <1>2, <1>5, <1>6, <2>1, LoopBack
  <2> QED BY <1>1, <1>2, <1>5, <1>8, <2>2
<1> QED BY <1>7, <1>8

-----------------------------------------------------------------------------
(* A step, as a node sees it. *)

\* What the thread that moves has to do with a node where it gets to.
LEMMA NewRoles ==
  ASSUME NEW t, NEW pc, NEW node, NEW top, NEW refs, NEW next,
         Turns(t, pc, node, top, refs, next), NEW n
  PROVE  /\ Holds(t, n)' <=> \/ pc \in HoldingPcs /\ top = n
                             \/ pc = "drop" /\ node = n
         /\ Links(t, n)' <=> pc \in LinkingPcs /\ node = n
         /\ Owns(t, n)' <=> \/ pc \in LinkingPcs \cup PushingPcs /\ node = n
                            \/ pc = "take" /\ top = n
BY DEF Turns, IsAt, Holds, Links, Owns

\* What a thread has to do with a node where it is.
LEMMA OldRoles ==
  ASSUME NEW t, NEW n
  PROVE  /\ Holds(t, n) <=> \/ thread[t].pc \in HoldingPcs /\ thread[t].top = n
                            \/ thread[t].pc = "drop" /\ thread[t].node = n
         /\ Links(t, n) <=> thread[t].pc \in LinkingPcs /\ thread[t].node = n
         /\ Owns(t, n) <=> \/ thread[t].pc \in LinkingPcs \cup PushingPcs /\ thread[t].node = n
                           \/ thread[t].pc = "take" /\ thread[t].top = n
BY DEF Holds, Links, Owns

\* No thread but t moves.
Alone(t) == \A u \in Threads \ {t} : thread'[u] = thread[u]

\* What thread t has to do with node n does not change.
SameRole(t, n) == /\ Holds(t, n)' <=> Holds(t, n)
                  /\ Links(t, n)' <=> Links(t, n)
                  /\ Owns(t, n)' <=> Owns(t, n)

\* The other threads keep what they have to do with a node.
LEMMA OtherRoles ==
  ASSUME NEW t \in Threads, Alone(t), NEW u \in Threads \ {t}, NEW n
  PROVE  SameRole(u, n)
BY DEF Alone, SameRole, Holds, Links, Owns

\* The nodes that the step has nothing to do with.
Untouched(t, L, M, n) == /\ SameRole(t, n) /\ (n \in M <=> n \in L)
                         /\ (n \in used' <=> n \in used) /\ freeListRefs'[n] = freeListRefs[n]

\* A node that a step has nothing to do with stays in its place.
LEMMA UntouchedStays ==
  ASSUME NEW t \in Threads, Alone(t), NEW L, NEW M, NEW n \in Nodes, Placed(L, n),
         Untouched(t, L, M, n)
  PROVE  Placed(M, n)'
<1>1. ASSUME NEW u \in Threads PROVE SameRole(u, n)
  BY OtherRoles DEF Untouched
<1>2. \A u \in Threads : /\ Holds(u, n)' <=> Holds(u, n)
                         /\ Links(u, n)' <=> Links(u, n)
                         /\ Owns(u, n)' <=> Owns(u, n)
  BY <1>1 DEF SameRole
<1> QED BY <1>2, NodeStays DEF Untouched

\* How many hold a node after a step, and who has it.
LEMMA OneRole ==
  ASSUME TypeOK, TypeOK', NEW t \in Threads, Alone(t), NEW n \in Nodes
  PROVE  /\ (Holds(t, n)' <=> Holds(t, n)) => Holders(n)' = Holders(n)
         /\ ~Holds(t, n) /\ Holds(t, n)' =>
              Cardinality(Holders(n))' = Cardinality(Holders(n)) + 1
         /\ Holds(t, n) /\ ~Holds(t, n)' =>
              Cardinality(Holders(n))' = Cardinality(Holders(n)) - 1
         /\ Links(t, n)' => Linked(n)'
         /\ (Links(t, n)' <=> Links(t, n)) => (Linked(n)' <=> Linked(n))
         /\ Owns(t, n)' => Owned(n)'
         /\ (Owns(t, n)' <=> Owns(t, n)) => (Owned(n)' <=> Owned(n))
<1>1. \A u \in Threads \ {t} : /\ Holds(u, n)' <=> Holds(u, n)
                               /\ Links(u, n)' <=> Links(u, n)
                               /\ Owns(u, n)' <=> Owns(u, n)
  BY OtherRoles DEF SameRole
<1>2. /\ (Holds(t, n)' <=> Holds(t, n)) => Holders(n)' = Holders(n)
      /\ ~Holds(t, n) /\ Holds(t, n)' =>
           Cardinality(Holders(n))' = Cardinality(Holders(n)) + 1
      /\ Holds(t, n) /\ ~Holds(t, n)' =>
           Cardinality(Holders(n))' = Cardinality(Holders(n)) - 1
  BY <1>1, HoldersStep
<1>3. /\ Links(t, n)' => Linked(n)'
      /\ (Links(t, n)' <=> Links(t, n)) => (Linked(n)' <=> Linked(n))
  BY <1>1 DEF Linked
<1>4. /\ Owns(t, n)' => Owned(n)'
      /\ (Owns(t, n)' <=> Owns(t, n)) => (Owned(n)' <=> Owned(n))
  BY <1>1 DEF Owned
<1> QED BY <1>2, <1>3, <1>4

\* A node has one owner: if nobody had it, t may be the one; if t had it, nobody has it
\* when t lets go.
LEMMA OneOwner ==
  ASSUME NEW t \in Threads, Alone(t), NEW n \in Nodes, NEW L, Placed(L, n),
         Owned(n) => Owns(t, n)
  PROVE  /\ \A u, v \in Threads : Owns(u, n)' /\ Owns(v, n)' => u = v
         /\ ~Owns(t, n)' => ~Owned(n)' /\ ~Linked(n)'
         /\ Owns(t, n)' /\ ~Links(t, n)' => ~Linked(n)'
<1>1. \A u \in Threads \ {t} : Owns(u, n)' <=> Owns(u, n)
  BY OtherRoles DEF SameRole
<1>2. \A u \in Threads : Owns(u, n) => u = t
  BY DEF Owned, Placed
<1>3. \A u \in Threads : Owns(u, n)' => u = t
  BY <1>1, <1>2
<1>4. \A u \in Threads : Links(u, n)' => Owns(u, n)'
  BY DEF Owns
<1> QED BY <1>3, <1>4 DEF Owned, Linked

\* What the word of a node says.
LEMMA WordSays ==
  ASSUME TypeOK, NEW L, NEW n \in Nodes, Placed(L, n)
  PROVE  /\ Base(L, n) \in {0, 1, SHOULD_BE_ON_FREELIST}
         /\ Cardinality(Holders(n)) \in 0 .. Cardinality(Getters)
         /\ freeListRefs[n] = Base(L, n) + Cardinality(Holders(n))
         /\ Cardinality(Holders(n)) = 0 <=> Holders(n) = {}
BY FewHolders, Sizes DEF Base, Placed

-----------------------------------------------------------------------------
(* What the threads know, and the list. *)

\* What the threads know stays true if the step writes no next they rely on.
LEMMA LocalsStep ==
  ASSUME Locals, NEW t \in Threads,
         NEW pc, NEW node, NEW top, NEW refs, NEW next, Turns(t, pc, node, top, refs, next),
         \A u \in Threads \ {t} :
           /\ thread[u].pc = "popHead" =>
                freeListNext'[thread[u].top] = freeListNext[thread[u].top]
           /\ thread[u].pc \in {"storeRefs", "pushHead"} =>
                freeListNext'[thread[u].node] = freeListNext[thread[u].node],
         pc = "refer" => Refs(refs) # 0,
         pc = "popHead" => next = freeListNext'[top],
         pc \in {"storeRefs", "pushHead"} => freeListNext'[node] = next
  PROVE  Locals'
<1>1. ASSUME NEW u \in Threads
      PROVE  /\ thread'[u].pc = "refer" => Refs(thread'[u].refs) # 0
             /\ thread'[u].pc = "popHead" => thread'[u].next = freeListNext'[thread'[u].top]
             /\ thread'[u].pc \in {"storeRefs", "pushHead"} =>
                  freeListNext'[thread'[u].node] = thread'[u].next
  <2>1. CASE u = t
    BY <2>1 DEF Turns, IsAt
  <2>2. CASE u # t
    BY <2>2 DEF Turns, Locals
  <2> QED BY <2>1, <2>2
<1> QED BY <1>1 DEF Locals, Refs

\* The list is the same if the head and the nexts of its nodes are.
LEMMA ListStays ==
  ASSUME NEW s \in Seq(Nodes), IsList(s), freeListHead' = freeListHead,
         \A n \in Listed(s) : freeListNext'[n] = freeListNext[n]
  PROVE  IsList(s)'
BY DEF IsList, Listed

\* A node in front of the list.
LEMMA ListPush ==
  ASSUME NEW s \in Seq(Nodes), IsList(s), NEW n \in Nodes \ Listed(s),
         freeListHead' = n, freeListNext' = freeListNext, freeListNext[n] = freeListHead
  PROVE  /\ <<n>> \o s \in Seq(Nodes) /\ Listed(<<n>> \o s) = Listed(s) \cup {n}
         /\ IsList(<<n>> \o s)'
<1> DEFINE r == <<n>> \o s
<1>1. /\ r \in Seq(Nodes) /\ Len(s) \in Nat /\ Len(r) = Len(s) + 1 /\ r[1] = n
      /\ \A k \in 2 .. Len(r) : k - 1 \in 1 .. Len(s) /\ r[k] = s[k - 1]
      /\ \A k \in 1 .. Len(s) : k + 1 \in 2 .. Len(r) /\ r[k + 1] = s[k]
  OBVIOUS
<1> HIDE DEF r
<1>2. Listed(r) = Listed(s) \cup {n}
  <2>1. \A k \in 1 .. Len(r) : k = 1 \/ k \in 2 .. Len(r)
    BY <1>1
  <2>2. 1 \in 1 .. Len(r) /\ \A k \in 2 .. Len(r) : k \in 1 .. Len(r)
    BY <1>1
  <2> QED BY <1>1, <2>1, <2>2 DEF Listed
<1>3. \A j, k \in 1 .. Len(r) : r[j] = r[k] => j = k
  <2> SUFFICES ASSUME NEW j \in 1 .. Len(r), NEW k \in 1 .. Len(r), r[j] = r[k] PROVE j = k
    OBVIOUS
  <2>1. \A i \in 2 .. Len(r) : r[i] # n
    BY <1>1 DEF Listed
  <2>2. CASE j = 1 \/ k = 1
    BY <1>1, <2>1, <2>2
  <2>3. CASE j # 1 /\ k # 1
    <3>1. j - 1 \in 1 .. Len(s) /\ k - 1 \in 1 .. Len(s) /\ s[j - 1] = s[k - 1]
      BY <1>1, <2>3
    <3>2. j - 1 = k - 1
      BY <3>1 DEF IsList
    <3> QED BY <3>2
  <2> QED BY <2>2, <2>3
<1>4. Nth(r, 1) = n
  BY <1>1 DEF Nth
<1>5. \A k \in 1 .. Len(r) : freeListNext[r[k]] = Nth(r, k + 1)
  <2> SUFFICES ASSUME NEW k \in 1 .. Len(r) PROVE freeListNext[r[k]] = Nth(r, k + 1)
    OBVIOUS
  <2>1. \A i \in Nat : Nth(s, i) = Nth(r, i + 1) \/ i = 0
    BY <1>1 DEF Nth
  <2>2. CASE k = 1
    <3>1. freeListNext[r[k]] = Nth(s, 1)
      BY <1>1, <2>2 DEF IsList
    <3> QED BY <2>1, <2>2, <3>1
  <2>3. CASE k # 1
    <3>1. k - 1 \in 1 .. Len(s) /\ r[k] = s[k - 1] /\ k - 1 + 1 = k
      BY <1>1, <2>3
    <3>2. freeListNext[s[k - 1]] = Nth(s, k)
      BY <3>1 DEF IsList
    <3> QED BY <2>1, <2>3, <3>1, <3>2
  <2> QED BY <2>2, <2>3
<1>6. IsList(r)'
  BY <1>3, <1>4, <1>5 DEF IsList
<1> QED BY <1>1, <1>2, <1>6 DEF r

\* The list without its head.
LEMMA ListPop ==
  ASSUME NEW s \in Seq(Nodes), IsList(s), NEW n \in Nodes, freeListHead = n,
         freeListHead' = freeListNext[n], freeListNext' = freeListNext
  PROVE  /\ Tail(s) \in Seq(Nodes) /\ n \in Listed(s) /\ Listed(Tail(s)) = Listed(s) \ {n}
         /\ IsList(Tail(s))'
<1>1. Len(s) \in Nat /\ 1 \in 1 .. Len(s) /\ s[1] = n
  BY FreeListAssumption DEF IsList, Nth
<1>2. s # << >>
  BY <1>1
<1>3. PICK r : r = Tail(s)
  OBVIOUS
<1>4. /\ r \in Seq(Nodes) /\ Len(r) = Len(s) - 1
      /\ \A k \in 1 .. Len(r) : k + 1 \in 2 .. Len(s) /\ r[k] = s[k + 1]
      /\ \A k \in 2 .. Len(s) : k - 1 \in 1 .. Len(r) /\ r[k - 1] = s[k]
  BY <1>1, <1>2, <1>3
<1>5. \A j, k \in 1 .. Len(s) : s[j] = s[k] => j = k
  BY DEF IsList
<1>6. Listed(r) = Listed(s) \ {n}
  <2>1. ASSUME NEW m, m \in Listed(r) PROVE m \in Listed(s) \ {n}
    <3>1. PICK k \in 1 .. Len(r) : m = r[k]
      BY <2>1 DEF Listed
    <3>2. m = s[k + 1] /\ k + 1 \in 1 .. Len(s) /\ k + 1 # 1
      BY <1>1, <1>4, <3>1
    <3> QED BY <1>1, <1>5, <3>2 DEF Listed
  <2>2. ASSUME NEW m, m \in Listed(s) \ {n} PROVE m \in Listed(r)
    <3>1. PICK k \in 1 .. Len(s) : m = s[k]
      BY <2>2 DEF Listed
    <3>2. k \in 2 .. Len(s)
      BY <1>1, <2>2, <3>1
    <3> QED BY <1>4, <3>1, <3>2 DEF Listed
  <2> QED BY <2>1, <2>2
<1>7. \A j, k \in 1 .. Len(r) : r[j] = r[k] => j = k
  <2> SUFFICES ASSUME NEW j \in 1 .. Len(r), NEW k \in 1 .. Len(r), r[j] = r[k] PROVE j = k
    OBVIOUS
  <2>1. j + 1 \in 1 .. Len(s) /\ k + 1 \in 1 .. Len(s) /\ s[j + 1] = s[k + 1]
    BY <1>1, <1>4
  <2>2. j + 1 = k + 1
    BY <1>5, <2>1
  <2> QED BY <2>2
<1>8. \A k \in Nat : k >= 1 => Nth(r, k) = Nth(s, k + 1)
  BY <1>1, <1>4 DEF Nth
<1>9. freeListNext[n] = Nth(r, 1)
  <2>1. freeListNext[n] = Nth(s, 1 + 1)
    BY <1>1 DEF IsList
  <2> QED BY <1>8, <2>1
<1>10. \A k \in 1 .. Len(r) : freeListNext[r[k]] = Nth(r, k + 1)
  <2> SUFFICES ASSUME NEW k \in 1 .. Len(r) PROVE freeListNext[r[k]] = Nth(r, k + 1)
    OBVIOUS
  <2>1. k + 1 \in 1 .. Len(s) /\ r[k] = s[k + 1] /\ k + 1 \in Nat /\ k + 1 >= 1
    BY <1>1, <1>4
  <2>2. freeListNext[s[k + 1]] = Nth(s, (k + 1) + 1)
    BY <2>1 DEF IsList
  <2> QED BY <1>8, <2>1, <2>2
<1>11. IsList(r)'
  BY <1>7, <1>9, <1>10 DEF IsList
<1>12. n \in Listed(s)
  BY <1>1 DEF Listed
<1> QED BY <1>3, <1>4, <1>6, <1>11, <1>12

-----------------------------------------------------------------------------
(* The steps that change nothing but what the thread knows. *)

\* The invariant after a step that has to do with one node, from what becomes of that.
LEMMA OneTouched ==
  ASSUME TypeOK', Locals', NEW t \in Threads, Alone(t),
         NEW s \in Seq(Nodes), ListIs(s), NEW r \in Seq(Nodes), IsList(r)',
         NEW n \in Nodes, Placed(Listed(r), n)',
         \A m \in Nodes \ {n} : Untouched(t, Listed(s), Listed(r), m)
  PROVE  ListInv'
<1>1. ASSUME NEW m \in Nodes PROVE Placed(Listed(r), m)'
  <2>1. CASE m = n
    BY <2>1
  <2>2. CASE m # n
    <3>1. Placed(Listed(s), m) /\ Untouched(t, Listed(s), Listed(r), m)
      BY <2>2 DEF ListIs
    <3> QED BY <3>1, UntouchedStays
  <2> QED BY <2>1, <2>2
<1>2. ListIs(r)'
  BY <1>1 DEF ListIs
<1> QED BY <1>2 DEF ListInv

\* The invariant after a step that has to do with no node.
LEMMA NoneTouched ==
  ASSUME TypeOK', Locals', NEW t \in Threads, Alone(t), NEW s \in Seq(Nodes), ListIs(s),
         freeListHead' = freeListHead,
         \A n \in Listed(s) : freeListNext'[n] = freeListNext[n],
         \A n \in Nodes : SameRole(t, n), UNCHANGED <<freeListRefs, used>>
  PROVE  ListInv'
<1>1. IsList(s)'
  BY ListStays DEF ListIs
<1>2. ASSUME NEW n \in Nodes PROVE Placed(Listed(s), n)'
  <2>1. Placed(Listed(s), n) /\ Untouched(t, Listed(s), Listed(s), n)
    BY DEF ListIs, Untouched
  <2> QED BY <2>1, UntouchedStays
<1>3. ListIs(s)'
  BY <1>1, <1>2 DEF ListIs
<1> QED BY <1>3 DEF ListInv

\* A thread that only reads.
LEMMA Reads ==
  ASSUME TypeOK', Locals, NEW t \in Threads, NEW s \in Seq(Nodes), ListIs(s),
         UNCHANGED <<freeListHead, freeListNext, freeListRefs, used>>,
         NEW pc, NEW node, NEW top, NEW refs, NEW next, Turns(t, pc, node, top, refs, next),
         \A n \in Nodes : SameRole(t, n),
         pc = "refer" => Refs(refs) # 0,
         pc = "popHead" => next = freeListNext[top],
         pc \notin {"storeRefs", "pushHead"}
  PROVE  ListInv'
<1>1. Locals'
  BY LocalsStep
<1>2. Alone(t)
  BY DEF Turns, Alone
<1> QED BY <1>1, <1>2, NoneTouched

\* A thread without a node.
Bare(t) == thread[t].pc \in {"idle", "reload", "loadRefs", "refer"}

\* Such a thread has nothing to do with any node.
LEMMA BareRole ==
  ASSUME NEW t, NEW n
  PROVE  /\ Bare(t) => ~Holds(t, n) /\ ~Links(t, n) /\ ~Owns(t, n)
         /\ Bare(t)' => ~(Holds(t, n)') /\ ~(Links(t, n)') /\ ~(Owns(t, n)')
BY DEF Bare, Holds, Links, Owns, LinkingPcs, PushingPcs, HoldingPcs

\* Nor does it get to by a step that leaves it without one.
LEMMA BareSame ==
  ASSUME NEW t, Bare(t), Bare(t)', NEW n
  PROVE  SameRole(t, n)
BY BareRole DEF SameRole

\* The places without a node.
LEMMA TurnsBare ==
  ASSUME NEW t, NEW pc \in {"idle", "reload", "loadRefs", "refer"}, NEW node, NEW top,
         NEW refs, NEW next, Turns(t, pc, node, top, refs, next)
  PROVE  Bare(t)'
BY DEF Turns, IsAt, Bare

\* One thread moves at a time.
LEMMA TurnsAlone ==
  ASSUME NEW t, NEW pc, NEW node, NEW top, NEW refs, NEW next,
         Turns(t, pc, node, top, refs, next)
  PROVE  Alone(t)
BY DEF Turns, Alone

\* The loop begins, and ends, without a node.
LEMMA ReturnsBare ==
  ASSUME NEW t, NEW head, Returns(t, head)
  PROVE  Bare(t)' /\ Alone(t)
<1>1. CASE head = Null
  BY <1>1 DEF Returns, Turns, IsAt, Bare, Alone
<1>2. CASE head # Null
  BY <1>2 DEF Returns, Turns, IsAt, Bare, Alone
<1> QED BY <1>1, <1>2

\* What the threads know is not changed by one that goes back to the loop.
LEMMA ReturnsLocals ==
  ASSUME Locals, NEW t \in Threads, NEW head, Returns(t, head), freeListNext' = freeListNext
  PROVE  Locals'
<1>1. CASE head = Null
  <2>1. Turns(t, "idle", Null, Null, 0, Null)
    BY <1>1 DEF Returns
  <2> QED BY <2>1, LocalsStep
<1>2. CASE head # Null
  <2>1. Turns(t, "loadRefs", Null, head, 0, Null)
    BY <1>2 DEF Returns
  <2> QED BY <2>1, LocalsStep
<1> QED BY <1>1, <1>2

\* try_get begins, or begins again: no node is concerned.
LEMMA GetKeeps ==
  ASSUME TypeOK, Locals, NEW s \in Seq(Nodes), ListIs(s), NEW t \in Threads, Get(t) \/ Reload(t)
  PROVE  ListInv'
<1>1. /\ TypeOK' /\ thread[t].pc \in {"idle", "reload"} /\ Returns(t, freeListHead)
      /\ UNCHANGED <<freeListHead, freeListNext, freeListRefs, used>>
  BY GetDoes
<1>2. Bare(t) /\ Bare(t)' /\ Alone(t) /\ Locals'
  BY <1>1, ReturnsBare, ReturnsLocals DEF Bare
<1>3. \A n \in Nodes : SameRole(t, n)
  BY <1>2, BareSame
<1> QED BY <1>1, <1>2, <1>3, NoneTouched

\* The thread still has the node to link, and knows the head.
LEMMA LoadHeadKeeps ==
  ASSUME TypeOK, Locals, NEW s \in Seq(Nodes), ListIs(s), NEW t \in Threads, LoadHead(t)
  PROVE  ListInv'
<1>1. /\ TypeOK' /\ thread[t].pc = "loadHead"
      /\ Turns(t, "storeNext", thread[t].node, thread[t].top, thread[t].refs, freeListHead)
      /\ UNCHANGED <<freeListHead, freeListNext, freeListRefs, used>>
  BY LoadHeadDoes
<1>2. \A n \in Nodes : SameRole(t, n)
  BY <1>1, NewRoles, OldRoles DEF SameRole, LinkingPcs, PushingPcs, HoldingPcs
<1> QED BY <1>1, <1>2, Reads

\* The node is not on the list and nobody has a reference to it, so that nobody relies on the
\* next that is replaced.
LEMMA StoreNextKeeps ==
  ASSUME TypeOK, Locals, NEW s \in Seq(Nodes), ListIs(s), NEW t \in Threads, StoreNext(t)
  PROVE  ListInv'
<1> DEFINE n == thread[t].node
<1>1. /\ TypeOK' /\ thread[t].pc = "storeNext" /\ n \in Nodes
      /\ freeListNext'[n] = thread[t].next
      /\ \A m \in Nodes \ {n} : freeListNext'[m] = freeListNext[m]
      /\ Turns(t, "storeRefs", n, thread[t].top, thread[t].refs, thread[t].next)
      /\ UNCHANGED <<freeListHead, freeListRefs, used>>
  BY StoreNextDoes
<1>2. \A m \in Nodes : SameRole(t, m)
  BY <1>1, NewRoles, OldRoles DEF SameRole, LinkingPcs, PushingPcs, HoldingPcs
<1>3. Links(t, n) /\ Owns(t, n) /\ Placed(Listed(s), n)
  BY <1>1 DEF Links, Owns, LinkingPcs, ListIs
<1>4. Owned(n) /\ Linked(n) /\ n \notin Listed(s) /\ Holders(n) = {}
      /\ \A u \in Threads \ {t} : ~Owns(u, n)
  BY <1>3 DEF Owned, Linked, Placed
<1>5. \A m \in Listed(s) : m \in Nodes /\ freeListNext'[m] = freeListNext[m]
  BY <1>1, <1>4 DEF Listed
<1>6. ASSUME NEW u \in Threads \ {t}
      PROVE  /\ thread[u].pc = "popHead" =>
                  freeListNext'[thread[u].top] = freeListNext[thread[u].top]
             /\ thread[u].pc \in {"storeRefs", "pushHead"} =>
                  freeListNext'[thread[u].node] = freeListNext[thread[u].node]
  <2>1. CASE thread[u].pc = "popHead"
    <3>1. thread[u].top \in Nodes
      BY <2>1, Own, Places
    <3>2. thread[u].top # n
      BY <1>4, <2>1 DEF Holders, Holds, HoldingPcs
    <3> QED BY <1>1, <2>1, <3>1, <3>2
  <2>2. CASE thread[u].pc \in {"storeRefs", "pushHead"}
    <3>1. thread[u].node \in Nodes
      BY <2>2, Own, Places
    <3>2. thread[u].node # n
      BY <1>4, <2>2 DEF Owns, Links, LinkingPcs, PushingPcs
    <3> QED BY <1>1, <2>2, <3>1, <3>2
  <2> QED BY <2>1, <2>2
<1>7. Locals'
  BY <1>1, <1>6, LocalsStep
<1>8. Alone(t)
  BY <1>1 DEF Turns, Alone
<1> QED BY <1>1, <1>2, <1>5, <1>7, <1>8, NoneTouched

\* A word is read; without a reference it does not keep anything in place.
LEMMA LoadRefsKeeps ==
  ASSUME TypeOK, Locals, NEW s \in Seq(Nodes), ListIs(s), NEW t \in Threads, LoadRefs(t)
  PROVE  ListInv'
<1> DEFINE word == freeListRefs[thread[t].top]
<1>1. /\ TypeOK' /\ thread[t].pc = "loadRefs"
      /\ Refs(word) = 0 => Turns(t, "reload", Null, Null, 0, Null)
      /\ Refs(word) # 0 =>
           Turns(t, "refer", thread[t].node, thread[t].top, word, thread[t].next)
      /\ UNCHANGED <<freeListHead, freeListNext, freeListRefs, used>>
  BY LoadRefsDoes
<1>2. Bare(t)
  BY <1>1 DEF Bare
<1>3. CASE Refs(word) = 0
  <2>1. Turns(t, "reload", Null, Null, 0, Null)
    BY <1>1, <1>3
  <2>2. \A n \in Nodes : SameRole(t, n)
    BY <1>2, <2>1, TurnsBare, BareSame
  <2> QED BY <1>1, <2>1, <2>2, Reads
<1>4. CASE Refs(word) # 0
  <2>1. Turns(t, "refer", thread[t].node, thread[t].top, word, thread[t].next)
    BY <1>1, <1>4
  <2>2. \A n \in Nodes : SameRole(t, n)
    BY <1>2, <2>1, TurnsBare, BareSame
  <2> QED BY <1>1, <1>4, <2>1, <2>2, Reads
<1> QED BY <1>3, <1>4

\* The thread has a reference to the node, which keeps its next what it was.
LEMMA LoadNextKeeps ==
  ASSUME TypeOK, Locals, NEW s \in Seq(Nodes), ListIs(s), NEW t \in Threads, LoadNext(t)
  PROVE  ListInv'
<1>1. /\ TypeOK' /\ thread[t].pc = "loadNext"
      /\ Turns(t, "popHead", thread[t].node, thread[t].top, thread[t].refs,
               freeListNext[thread[t].top])
      /\ UNCHANGED <<freeListHead, freeListNext, freeListRefs, used>>
  BY LoadNextDoes
<1>2. \A n \in Nodes : SameRole(t, n)
  BY <1>1, NewRoles, OldRoles DEF SameRole, LinkingPcs, PushingPcs, HoldingPcs
<1> QED BY <1>1, <1>2, Reads

-----------------------------------------------------------------------------
(* The steps that touch a node. *)

\* A thread that had a role at one node only, and has one there only.
LEMMA OthersUntouched ==
  ASSUME NEW t, NEW n \in Nodes, NEW k, WordBecomes(n, k), NEW L, NEW M,
         \A m \in Nodes \ {n} : SameRole(t, m) /\ (m \in M <=> m \in L) /\ (m \in used' <=> m \in used)
  PROVE  \A m \in Nodes \ {n} : Untouched(t, L, M, m)
BY DEF WordBecomes, Untouched

\* What is left to show of a node whose word may have changed.
LEMMA PlacedBack ==
  ASSUME NEW M, NEW n, NEW b, NEW h,
         \A u, v \in Threads : Owns(u, n)' /\ Owns(v, n)' => u = v,
         n \in M => n \notin used',
         Owned(n)' => n \notin used' /\ n \notin M,
         Base(M, n)' = b, Cardinality(Holders(n))' = h, freeListRefs'[n] = b + h,
         Linked(n)' => Holders(n)' = {}, Waiting(M, n)' => Holders(n)' # {}
  PROVE  Placed(M, n)'
BY DEF Placed

\* A node that is given back is linked by the thread that adds it if its word was 0, and waits
\* for the last of those who refer to it otherwise.
LEMMA AddKeeps ==
  ASSUME TypeOK, Locals, NEW s \in Seq(Nodes), ListIs(s), NEW t \in Threads,
         NEW n \in Nodes, Add(t, n)
  PROVE  ListInv'
<1> DEFINE L == Listed(s)
           h == Cardinality(Holders(n))
<1>1. /\ TypeOK' /\ thread[t].pc = "idle" /\ n \in used /\ used' = used \ {n}
      /\ WordBecomes(n, freeListRefs[n] + SHOULD_BE_ON_FREELIST)
      /\ freeListRefs[n] = 0 => Turns(t, "loadHead", n, Null, 0, Null)
      /\ freeListRefs[n] # 0 => Turns(t, "idle", Null, Null, 0, Null)
      /\ UNCHANGED <<freeListHead, freeListNext>>
  BY AddDoes
<1>2. Bare(t) /\ \A m \in Nodes : ~Holds(t, m) /\ ~Links(t, m) /\ ~Owns(t, m)
  BY <1>1, BareRole DEF Bare
<1>3. Placed(L, n) /\ IsList(s)
  BY DEF ListIs
<1>4. ~Owned(n) /\ n \notin L /\ Base(L, n) = 0
  BY <1>1, <1>3 DEF Placed, Base
<1>5. h \in 0 .. Cardinality(Getters) /\ freeListRefs[n] = h /\ (h = 0 <=> Holders(n) = {})
  BY <1>3, <1>4, WordSays
<1>6. IsList(s)'
  BY <1>1, <1>3, ListStays
<1>7. n \notin used' /\ freeListRefs'[n] = SHOULD_BE_ON_FREELIST + h
  BY <1>1, <1>5, Sizes DEF WordBecomes
<1>8. CASE freeListRefs[n] = 0
  <2>1. Turns(t, "loadHead", n, Null, 0, Null)
    BY <1>1, <1>8
  <2>2. Alone(t) /\ Locals'
    BY <1>1, <2>1, LocalsStep DEF Turns, Alone
  <2>3. \A m \in Nodes \ {n} : SameRole(t, m)
    BY <1>2, <2>1, NewRoles DEF SameRole, LinkingPcs, PushingPcs, HoldingPcs
  <2>4. ~(Holds(t, n)') /\ Links(t, n)' /\ Owns(t, n)'
    BY <2>1, NewRoles DEF LinkingPcs, PushingPcs, HoldingPcs
  <2>5. Holders(n)' = {} /\ Linked(n)' /\ Owned(n)'
    BY <1>1, <1>2, <1>5, <1>8, <2>2, <2>4, OneRole
  <2>6. \A u, v \in Threads : Owns(u, n)' /\ Owns(v, n)' => u = v
    BY <1>3, <1>4, <2>2, OneOwner
  <2>7. Base(L, n)' = SHOULD_BE_ON_FREELIST /\ ~(Waiting(L, n)')
    BY <1>7, <2>5 DEF Base, Waiting
  <2>8. Cardinality(Holders(n))' = 0 /\ freeListRefs'[n] = SHOULD_BE_ON_FREELIST + 0
    BY <1>5, <1>7, <1>8, <2>5, FS_EmptySet
  <2>9. Placed(L, n)'
    BY <1>4, <1>7, <2>5, <2>6, <2>7, <2>8, PlacedBack
  <2>10. \A m \in Nodes \ {n} : Untouched(t, L, L, m)
    BY <1>1, <2>3, OthersUntouched
  <2> QED BY <1>1, <1>6, <2>2, <2>9, <2>10, OneTouched
<1>9. CASE freeListRefs[n] # 0
  <2>1. Turns(t, "idle", Null, Null, 0, Null)
    BY <1>1, <1>9
  <2>2. Alone(t) /\ Locals' /\ Bare(t)'
    BY <1>1, <2>1, LocalsStep, TurnsBare DEF Turns, Alone
  <2>3. \A m \in Nodes : SameRole(t, m)
    BY <1>2, <2>2, BareSame
  <2>4. /\ Holders(n)' = Holders(n) /\ Cardinality(Holders(n))' = h
        /\ ~(Owned(n)') /\ (Linked(n)' <=> Linked(n))
    BY <1>1, <1>4, <2>2, <2>3, OneRole DEF SameRole
  <2>5. ~Linked(n)
    BY <1>4 DEF Linked, Owned, Owns
  <2>6. \A u, v \in Threads : Owns(u, n)' /\ Owns(v, n)' => u = v
    BY <1>3, <1>4, <2>2, OneOwner
  <2>7. Waiting(L, n)' /\ Base(L, n)' = SHOULD_BE_ON_FREELIST
    BY <1>4, <1>7, <2>4 DEF Base, Waiting
  <2>8. Placed(L, n)'
    BY <1>4, <1>5, <1>7, <1>9, <2>4, <2>5, <2>6, <2>7, PlacedBack
  <2>9. \A m \in Nodes \ {n} : Untouched(t, L, L, m)
    BY <1>1, <2>3, OthersUntouched
  <2> QED BY <1>1, <1>6, <2>2, <2>8, <2>9, OneTouched
<1> QED BY <1>8, <1>9

\* No one has a reference to the node, so that a word of 1 loses none.
LEMMA StoreRefsKeeps ==
  ASSUME TypeOK, Locals, NEW s \in Seq(Nodes), ListIs(s), NEW t \in Threads, StoreRefs(t)
  PROVE  ListInv'
<1>0. PICK me : me = thread[t]
  OBVIOUS
<1> DEFINE L == Listed(s)
           n == me.node
<1>1. /\ TypeOK' /\ me.pc = "storeRefs" /\ n \in Nodes
      /\ WordBecomes(n, 1)
      /\ Turns(t, "pushHead", n, me.top, me.refs, me.next)
      /\ UNCHANGED <<freeListHead, freeListNext, used>>
  BY <1>0, StoreRefsDoes
<1>2. freeListNext[n] = me.next /\ freeListNext' = freeListNext
  BY <1>0, <1>1 DEF Locals
<1>3. Alone(t) /\ Locals'
  BY <1>1, <1>2, LocalsStep, TurnsAlone
<1>4. /\ Links(t, n) /\ Owns(t, n) /\ ~Holds(t, n)
      /\ ~(Links(t, n)') /\ Owns(t, n)' /\ ~(Holds(t, n)')
      /\ \A m \in Nodes \ {n} : SameRole(t, m)
  BY <1>0, <1>1, NewRoles, OldRoles DEF SameRole, LinkingPcs, PushingPcs, HoldingPcs
<1>5. Placed(L, n) /\ IsList(s) /\ Owned(n) /\ Linked(n)
  BY <1>1, <1>4 DEF ListIs, Owned, Linked
<1>6. n \notin L /\ n \notin used /\ Holders(n) = {}
  BY <1>5 DEF Placed
<1>7. /\ \A u, v \in Threads : Owns(u, n)' /\ Owns(v, n)' => u = v
      /\ ~(Linked(n)')
  BY <1>1, <1>3, <1>4, <1>5, OneOwner
<1>8. Holders(n)' = {} /\ Owned(n)'
  BY <1>1, <1>3, <1>4, <1>6, OneRole
<1>9. Base(L, n)' = 1 /\ ~(Waiting(L, n)')
  BY <1>1, <1>6, <1>7, <1>8 DEF Base, Waiting
<1>10. Cardinality(Holders(n))' = 0 /\ freeListRefs'[n] = 1 + 0
  BY <1>1, <1>8, FS_EmptySet DEF WordBecomes
<1>11. Placed(L, n)'
  BY <1>1, <1>6, <1>7, <1>8, <1>9, <1>10, PlacedBack
<1>12. \A m \in Nodes \ {n} : Untouched(t, L, L, m)
  BY <1>1, <1>4, OthersUntouched
<1>13. IsList(s)'
  BY <1>1, <1>5, ListStays
<1> QED BY <1>1, <1>3, <1>11, <1>12, <1>13, OneTouched

\* The node gets in front of the list, which begins with its next, or stays with the thread.
LEMMA PushHeadKeeps ==
  ASSUME TypeOK, Locals, NEW s \in Seq(Nodes), ListIs(s), NEW t \in Threads, PushHead(t)
  PROVE  ListInv'
<1>0. PICK me : me = thread[t]
  OBVIOUS
<1> DEFINE L == Listed(s)
           n == me.node
<1>1. /\ TypeOK' /\ me.pc = "pushHead" /\ n \in Nodes
      /\ freeListHead = me.next => freeListHead' = n /\ Returns(t, me.top)
      /\ freeListHead # me.next =>
           /\ freeListHead' = freeListHead
           /\ Turns(t, "giveUp", n, me.top, me.refs, freeListHead)
      /\ UNCHANGED <<freeListNext, freeListRefs, used>>
  BY <1>0, PushHeadDoes
<1>2. freeListNext[n] = me.next
  BY <1>0, <1>1 DEF Locals
<1>3. Placed(L, n) /\ IsList(s)
  BY <1>1 DEF ListIs
<1>4. /\ Owns(t, n) /\ ~Links(t, n) /\ ~Holds(t, n)
      /\ \A m \in Nodes \ {n} : ~Owns(t, m) /\ ~Links(t, m) /\ ~Holds(t, m)
  BY <1>0, <1>1, OldRoles DEF LinkingPcs, PushingPcs, HoldingPcs
<1>5. CASE freeListHead = me.next
  <2>1. freeListHead' = n /\ Returns(t, me.top)
    BY <1>1, <1>5
  <2>2. Alone(t) /\ Bare(t)' /\ Locals'
    BY <1>1, <2>1, ReturnsBare, ReturnsLocals
  <2>3. Owned(n) /\ n \notin L /\ n \notin used
    BY <1>3, <1>4 DEF Owned, Placed
  <2>4. /\ <<n>> \o s \in Seq(Nodes) /\ Listed(<<n>> \o s) = L \cup {n}
        /\ IsList(<<n>> \o s)'
    BY <1>1, <1>2, <1>3, <1>5, <2>1, <2>3, ListPush
  <2>5. PICK r \in Seq(Nodes) : r = <<n>> \o s
    BY <2>4
  <2>6. Listed(r) = L \cup {n} /\ IsList(r)'
    BY <2>4, <2>5
  <2>7. ~(Owns(t, n)') /\ ~(Links(t, n)') /\ ~(Holds(t, n)')
        /\ \A m \in Nodes \ {n} : SameRole(t, m)
    BY <1>4, <2>2, BareRole DEF SameRole
  <2>8. /\ \A u, v \in Threads : Owns(u, n)' /\ Owns(v, n)' => u = v
        /\ ~(Owned(n)') /\ ~(Linked(n)')
    BY <1>1, <1>3, <1>4, <2>2, <2>7, OneOwner
  <2>9. Holders(n)' = Holders(n)
    BY <1>1, <1>4, <2>2, <2>7, OneRole
  <2>10. ~Linked(n)
    BY <1>3, <1>4 DEF Linked, Owns, Placed
  <2>11. Base(L, n) = 1
    BY <2>3, <2>10 DEF Base, Waiting
  <2>12. Base(Listed(r), n)' = 1 /\ ~(Waiting(Listed(r), n)')
    BY <1>1, <2>3, <2>6, <2>8 DEF Base, Waiting
  <2>13. PICK h : h = Cardinality(Holders(n))
    OBVIOUS
  <2>14. Cardinality(Holders(n))' = h /\ freeListRefs'[n] = 1 + h
    BY <1>1, <1>3, <2>9, <2>11, <2>13 DEF Placed
  <2>15. Placed(Listed(r), n)'
    BY <1>1, <2>3, <2>8, <2>12, <2>14, PlacedBack
  <2>16. \A m \in Nodes \ {n} : Untouched(t, L, Listed(r), m)
    BY <1>1, <2>6, <2>7 DEF Untouched
  <2> QED BY <1>1, <2>2, <2>6, <2>15, <2>16, OneTouched
<1>6. CASE freeListHead # me.next
  <2>1. PICK head : head = freeListHead
    OBVIOUS
  <2>2. freeListHead' = freeListHead /\ Turns(t, "giveUp", n, me.top, me.refs, head)
    BY <1>1, <1>6, <2>1
  <2>3. \A m \in Nodes : SameRole(t, m)
    BY <1>0, <1>1, <2>2, NewRoles, OldRoles DEF SameRole, LinkingPcs, PushingPcs, HoldingPcs
  <2> QED BY <1>1, <2>2, <2>3, Reads
<1> QED BY <1>5, <1>6

\* The node is left to those who got a reference meanwhile, or linked again if there is none.
LEMMA GiveUpKeeps ==
  ASSUME TypeOK, Locals, NEW s \in Seq(Nodes), ListIs(s), NEW t \in Threads, GiveUp(t)
  PROVE  ListInv'
<1>0. PICK me : me = thread[t]
  OBVIOUS
<1> DEFINE L == Listed(s)
           n == me.node
<1>1. /\ TypeOK' /\ me.pc = "giveUp" /\ n \in Nodes
      /\ WordBecomes(n, freeListRefs[n] + SHOULD_BE_ON_FREELIST - 1)
      /\ freeListRefs[n] = 1 => Turns(t, "storeNext", n, me.top, me.refs, me.next)
      /\ freeListRefs[n] # 1 => Returns(t, me.top)
      /\ UNCHANGED <<freeListHead, freeListNext, used>>
  BY <1>0, GiveUpDoes
<1>2. Placed(L, n) /\ IsList(s)
  BY <1>1 DEF ListIs
<1>3. /\ Owns(t, n) /\ ~Links(t, n) /\ ~Holds(t, n)
      /\ \A m \in Nodes \ {n} : ~Owns(t, m) /\ ~Links(t, m) /\ ~Holds(t, m)
  BY <1>0, <1>1, OldRoles DEF LinkingPcs, PushingPcs, HoldingPcs
<1>4. Owned(n) /\ n \notin L /\ n \notin used /\ ~Linked(n)
  BY <1>2, <1>3 DEF Owned, Linked, Owns, Placed
<1>5. Base(L, n) = 1
  BY <1>4 DEF Base, Waiting
<1>6. PICK h : h = Cardinality(Holders(n))
  OBVIOUS
<1>7. h \in Nat /\ freeListRefs[n] = 1 + h /\ (h = 0 <=> Holders(n) = {})
  BY <1>1, <1>2, <1>5, <1>6, WordSays
<1>8. freeListRefs'[n] = SHOULD_BE_ON_FREELIST + h
  BY <1>1, <1>7, Sizes DEF WordBecomes
<1>9. IsList(s)'
  BY <1>1, <1>2, ListStays
<1>10. CASE freeListRefs[n] = 1
  <2>1. Turns(t, "storeNext", n, me.top, me.refs, me.next)
    BY <1>1, <1>10
  <2>2. Alone(t) /\ Locals'
    BY <1>1, <2>1, LocalsStep, TurnsAlone
  <2>3. /\ Owns(t, n)' /\ Links(t, n)' /\ ~(Holds(t, n)')
        /\ \A m \in Nodes \ {n} : SameRole(t, m)
    BY <1>3, <2>1, NewRoles DEF SameRole, LinkingPcs, PushingPcs, HoldingPcs
  <2>4. \A u, v \in Threads : Owns(u, n)' /\ Owns(v, n)' => u = v
    BY <1>1, <1>2, <1>3, <2>2, OneOwner
  <2>5. Holders(n)' = {} /\ Linked(n)' /\ Owned(n)'
    BY <1>1, <1>3, <1>7, <1>10, <2>2, <2>3, OneRole
  <2>6. Base(L, n)' = SHOULD_BE_ON_FREELIST /\ ~(Waiting(L, n)')
    BY <1>1, <1>4, <2>5 DEF Base, Waiting
  <2>7. Cardinality(Holders(n))' = 0 /\ freeListRefs'[n] = SHOULD_BE_ON_FREELIST + 0
    BY <1>7, <1>8, <1>10, <2>5, FS_EmptySet
  <2>8. Placed(L, n)'
    BY <1>1, <1>4, <2>4, <2>5, <2>6, <2>7, PlacedBack
  <2>9. \A m \in Nodes \ {n} : Untouched(t, L, L, m)
    BY <1>1, <2>3, OthersUntouched
  <2> QED BY <1>1, <1>9, <2>2, <2>8, <2>9, OneTouched
<1>11. CASE freeListRefs[n] # 1
  <2>1. Returns(t, me.top)
    BY <1>1, <1>11
  <2>2. Alone(t) /\ Bare(t)' /\ Locals'
    BY <1>1, <2>1, ReturnsBare, ReturnsLocals
  <2>3. ~(Owns(t, n)') /\ ~(Links(t, n)') /\ ~(Holds(t, n)')
        /\ \A m \in Nodes \ {n} : SameRole(t, m)
    BY <1>3, <2>2, BareRole DEF SameRole
  <2>4. /\ \A u, v \in Threads : Owns(u, n)' /\ Owns(v, n)' => u = v
        /\ ~(Owned(n)') /\ ~(Linked(n)')
    BY <1>1, <1>2, <1>3, <2>2, <2>3, OneOwner
  <2>5. Holders(n)' = Holders(n) /\ Cardinality(Holders(n))' = h
    BY <1>1, <1>3, <1>6, <2>2, <2>3, OneRole
  <2>6. Waiting(L, n)' /\ Base(L, n)' = SHOULD_BE_ON_FREELIST
    BY <1>1, <1>4, <2>4 DEF Base, Waiting
  <2>7. Holders(n)' # {}
    BY <1>7, <1>11, <2>5
  <2>8. Placed(L, n)'
    BY <1>1, <1>4, <1>8, <2>4, <2>5, <2>6, <2>7, PlacedBack
  <2>9. \A m \in Nodes \ {n} : Untouched(t, L, L, m)
    BY <1>1, <2>3, OthersUntouched
  <2> QED BY <1>1, <1>9, <2>2, <2>8, <2>9, OneTouched
<1> QED BY <1>10, <1>11

\* A word with a reference is not that of a node being linked: the one that is added to it
\* counts, wherever the node is.
LEMMA ReferKeeps ==
  ASSUME TypeOK, Locals, NEW s \in Seq(Nodes), ListIs(s), NEW t \in Threads, Refer(t)
  PROVE  ListInv'
<1>0. PICK me : me = thread[t]
  OBVIOUS
<1> DEFINE L == Listed(s)
           n == me.top
<1>1. /\ TypeOK' /\ me.pc = "refer" /\ n \in Nodes
      /\ freeListRefs[n] = me.refs =>
           WordBecomes(n, freeListRefs[n] + 1) /\ Turns(t, "loadNext", Null, n, 0, Null)
      /\ freeListRefs[n] # me.refs =>
           freeListRefs' = freeListRefs /\ Turns(t, "reload", Null, Null, 0, Null)
      /\ UNCHANGED <<freeListHead, freeListNext, used>>
  BY <1>0, ReferDoes
<1>2. Bare(t) /\ \A m \in Nodes : ~Owns(t, m) /\ ~Links(t, m) /\ ~Holds(t, m)
  BY <1>0, <1>1, BareRole DEF Bare
<1>3. Placed(L, n) /\ IsList(s)
  BY <1>1 DEF ListIs
<1>4. CASE freeListRefs[n] = me.refs
  <2>1. WordBecomes(n, freeListRefs[n] + 1) /\ Turns(t, "loadNext", Null, n, 0, Null)
    BY <1>1, <1>4
  <2>2. Alone(t) /\ Locals'
    BY <1>1, <2>1, LocalsStep, TurnsAlone
  <2>3. /\ ~(Owns(t, n)') /\ ~(Links(t, n)') /\ Holds(t, n)'
        /\ \A m \in Nodes \ {n} : SameRole(t, m)
    BY <1>2, <2>1, NewRoles DEF SameRole, LinkingPcs, PushingPcs, HoldingPcs
  <2>4. PICK h, b : h = Cardinality(Holders(n)) /\ b = Base(L, n)
    OBVIOUS
  <2>5. /\ h \in Nat /\ b \in Int /\ freeListRefs[n] = b + h
        /\ freeListRefs'[n] = b + (h + 1)
    BY <1>1, <1>3, <2>1, <2>4, WordSays, Sizes DEF WordBecomes
  <2>6. ~Linked(n)
    <3>1. Refs(freeListRefs[n]) # 0
      BY <1>0, <1>1, <1>4 DEF Locals
    <3>2. freeListRefs[n] # SHOULD_BE_ON_FREELIST
      BY <3>1, Sizes DEF Refs
    <3>3. Linked(n) => Holders(n) = {} /\ n \notin used
      BY <1>3 DEF Placed, Linked, Owned, Owns
    <3>4. Linked(n) => h = 0 /\ b = SHOULD_BE_ON_FREELIST
      BY <2>4, <3>3, FS_EmptySet DEF Base
    <3> QED BY <2>5, <3>2, <3>4, Sizes
  <2>7. /\ ~(Linked(n)') /\ (Owned(n)' <=> Owned(n)) /\ Cardinality(Holders(n))' = h + 1
    BY <1>1, <1>2, <2>2, <2>3, <2>4, <2>6, OneRole
  <2>8. (Waiting(L, n)' <=> Waiting(L, n)) /\ Base(L, n)' = b
    BY <1>1, <2>4, <2>6, <2>7 DEF Base, Waiting
  <2>9. \A u, v \in Threads : Owns(u, n)' /\ Owns(v, n)' => u = v
    <3>1. \A u \in Threads : Owns(u, n)' <=> Owns(u, n)
      BY <1>1, <1>2, <2>2, <2>3, OtherRoles DEF SameRole
    <3> QED BY <1>3, <3>1 DEF Placed
  <2>10. Holders(n)' # {}
    BY <2>3 DEF Holders
  <2>11. Placed(L, n)'
    BY <1>1, <1>3, <2>5, <2>7, <2>8, <2>9, <2>10, PlacedBack DEF Placed
  <2>12. \A m \in Nodes \ {n} : Untouched(t, L, L, m)
    BY <1>1, <2>1, <2>3, OthersUntouched
  <2>13. IsList(s)'
    BY <1>1, <1>3, ListStays
  <2> QED BY <1>1, <2>2, <2>11, <2>12, <2>13, OneTouched
<1>5. CASE freeListRefs[n] # me.refs
  <2>1. freeListRefs' = freeListRefs /\ Turns(t, "reload", Null, Null, 0, Null)
    BY <1>1, <1>5
  <2>2. \A m \in Nodes : SameRole(t, m)
    BY <1>2, <2>1, TurnsBare, BareSame
  <2> QED BY <1>1, <2>1, <2>2, Reads
<1> QED BY <1>4, <1>5

\* The head's next has not changed since it was read, because of the reference: what becomes
\* the head is the rest of the list, whatever was taken and put back in between.
LEMMA PopHeadKeeps ==
  ASSUME TypeOK, Locals, NEW s \in Seq(Nodes), ListIs(s), NEW t \in Threads, PopHead(t)
  PROVE  ListInv'
<1>0. PICK me : me = thread[t]
  OBVIOUS
<1> DEFINE L == Listed(s)
           n == me.top
<1>1. /\ TypeOK' /\ me.pc = "popHead" /\ n \in Nodes
      /\ freeListHead = n => freeListHead' = me.next /\ Turns(t, "take", Null, n, 0, Null)
      /\ freeListHead # n =>
           /\ freeListHead' = freeListHead
           /\ Turns(t, "drop", n, freeListHead, 0, Null)
      /\ UNCHANGED <<freeListNext, freeListRefs, used>>
  BY <1>0, PopHeadDoes
<1>2. freeListNext[n] = me.next
  BY <1>0, <1>1 DEF Locals
<1>3. Placed(L, n) /\ IsList(s)
  BY <1>1 DEF ListIs
<1>4. /\ ~Owns(t, n) /\ ~Links(t, n) /\ Holds(t, n)
      /\ \A m \in Nodes \ {n} : ~Owns(t, m) /\ ~Links(t, m) /\ ~Holds(t, m)
  BY <1>0, <1>1, OldRoles DEF LinkingPcs, PushingPcs, HoldingPcs
<1>5. CASE freeListHead = n
  <2>1. freeListHead' = me.next /\ Turns(t, "take", Null, n, 0, Null)
    BY <1>1, <1>5
  <2>2. Alone(t) /\ Locals'
    BY <1>1, <2>1, LocalsStep, TurnsAlone
  <2>3. /\ Tail(s) \in Seq(Nodes) /\ n \in L /\ Listed(Tail(s)) = L \ {n}
        /\ IsList(Tail(s))'
    BY <1>1, <1>2, <1>3, <1>5, <2>1, ListPop
  <2>4. PICK r \in Seq(Nodes) : r = Tail(s)
    BY <2>3
  <2>5. Listed(r) = L \ {n} /\ IsList(r)'
    BY <2>3, <2>4
  <2>6. n \notin used /\ ~Owned(n) /\ ~Linked(n)
    BY <1>3, <2>3 DEF Placed, Linked, Owned, Owns
  <2>7. /\ Owns(t, n)' /\ ~(Links(t, n)') /\ Holds(t, n)'
        /\ \A m \in Nodes \ {n} : SameRole(t, m)
    BY <1>4, <2>1, NewRoles DEF SameRole, LinkingPcs, PushingPcs, HoldingPcs
  <2>8. /\ \A u, v \in Threads : Owns(u, n)' /\ Owns(v, n)' => u = v
        /\ ~(Linked(n)')
    BY <1>1, <1>3, <2>2, <2>6, <2>7, OneOwner
  <2>9. Holders(n)' = Holders(n) /\ Owned(n)'
    BY <1>1, <1>4, <2>2, <2>7, OneRole
  <2>10. Base(L, n) = 1
    BY <2>3, <2>6 DEF Base, Waiting
  <2>11. Base(Listed(r), n)' = 1 /\ ~(Waiting(Listed(r), n)')
    BY <1>1, <2>6, <2>8, <2>9 DEF Base, Waiting
  <2>12. PICK h : h = Cardinality(Holders(n))
    OBVIOUS
  <2>13. Cardinality(Holders(n))' = h /\ freeListRefs'[n] = 1 + h
    BY <1>1, <1>3, <2>9, <2>10, <2>12 DEF Placed
  <2>14. Placed(Listed(r), n)'
    BY <1>1, <2>5, <2>6, <2>8, <2>9, <2>11, <2>13, PlacedBack
  <2>15. \A m \in Nodes \ {n} : Untouched(t, L, Listed(r), m)
    BY <1>1, <2>5, <2>7 DEF Untouched
  <2> QED BY <1>1, <2>2, <2>5, <2>14, <2>15, OneTouched
<1>6. CASE freeListHead # n
  <2>1. PICK head : head = freeListHead
    OBVIOUS
  <2>2. freeListHead' = freeListHead /\ Turns(t, "drop", n, head, 0, Null)
    BY <1>1, <1>6, <2>1
  <2>3. \A m \in Nodes : SameRole(t, m)
    BY <1>4, <2>2, NewRoles DEF SameRole, LinkingPcs, PushingPcs, HoldingPcs
  <2> QED BY <1>1, <2>2, <2>3, Reads
<1> QED BY <1>5, <1>6

\* The node leaves the list for its caller: its word counts only those who still refer to it.
LEMMA TakeKeeps ==
  ASSUME TypeOK, Locals, NEW s \in Seq(Nodes), ListIs(s), NEW t \in Threads, Take(t)
  PROVE  ListInv'
<1>0. PICK me : me = thread[t]
  OBVIOUS
<1> DEFINE L == Listed(s)
           n == me.top
<1>1. /\ TypeOK' /\ me.pc = "take" /\ n \in Nodes
      /\ WordBecomes(n, freeListRefs[n] - 2) /\ used' = used \cup {n}
      /\ Turns(t, "idle", Null, Null, 0, Null)
      /\ UNCHANGED <<freeListHead, freeListNext>>
  BY <1>0, TakeDoes
<1>2. Alone(t) /\ Locals' /\ Bare(t)'
  BY <1>1, LocalsStep, TurnsAlone, TurnsBare
<1>3. Placed(L, n) /\ IsList(s)
  BY <1>1 DEF ListIs
<1>4. /\ Owns(t, n) /\ ~Links(t, n) /\ Holds(t, n)
      /\ \A m \in Nodes \ {n} : ~Owns(t, m) /\ ~Links(t, m) /\ ~Holds(t, m)
  BY <1>0, <1>1, OldRoles DEF LinkingPcs, PushingPcs, HoldingPcs
<1>5. Owned(n) /\ n \notin L /\ n \notin used /\ ~Linked(n)
  BY <1>3, <1>4 DEF Owned, Linked, Owns, Placed
<1>6. Base(L, n) = 1
  BY <1>5 DEF Base, Waiting
<1>7. PICK h : h = Cardinality(Holders(n))
  OBVIOUS
<1>8. h \in Nat /\ freeListRefs[n] = 1 + h
  BY <1>1, <1>3, <1>6, <1>7, WordSays
<1>9. ~(Owns(t, n)') /\ ~(Links(t, n)') /\ ~(Holds(t, n)')
      /\ \A m \in Nodes \ {n} : SameRole(t, m)
  BY <1>2, <1>4, BareRole DEF SameRole
<1>10. /\ \A u, v \in Threads : Owns(u, n)' /\ Owns(v, n)' => u = v
       /\ ~(Owned(n)') /\ ~(Linked(n)')
  BY <1>1, <1>2, <1>3, <1>4, <1>9, OneOwner
<1>11. Cardinality(Holders(n))' = h - 1
  BY <1>1, <1>2, <1>4, <1>7, <1>9, OneRole
<1>12. freeListRefs'[n] = 0 + (h - 1)
  BY <1>1, <1>8 DEF WordBecomes
<1>13. Base(L, n)' = 0 /\ ~(Waiting(L, n)')
  BY <1>1 DEF Base, Waiting
<1>14. Placed(L, n)'
  BY <1>5, <1>10, <1>11, <1>12, <1>13, PlacedBack
<1>15. \A m \in Nodes \ {n} : Untouched(t, L, L, m)
  BY <1>1, <1>9, OthersUntouched
<1>16. IsList(s)'
  BY <1>1, <1>3, ListStays
<1> QED BY <1>1, <1>2, <1>14, <1>15, <1>16, OneTouched

\* The last reference to a node that should be on the list is told from all others by the
\* word alone, because there are fewer threads than SHOULD_BE_ON_FREELIST.
LEMMA DropKeeps ==
  ASSUME TypeOK, Locals, NEW s \in Seq(Nodes), ListIs(s), NEW t \in Threads, Drop(t)
  PROVE  ListInv'
<1>0. PICK me : me = thread[t]
  OBVIOUS
<1> DEFINE L == Listed(s)
           n == me.node
           last == freeListRefs[n] = SHOULD_BE_ON_FREELIST + 1
<1>1. /\ TypeOK' /\ me.pc = "drop" /\ n \in Nodes
      /\ WordBecomes(n, freeListRefs[n] - 1)
      /\ last => Turns(t, "loadHead", n, me.top, 0, Null)
      /\ ~last => Returns(t, me.top)
      /\ UNCHANGED <<freeListHead, freeListNext, used>>
  BY <1>0, DropDoes
<1>2. Placed(L, n) /\ IsList(s)
  BY <1>1 DEF ListIs
<1>3. /\ ~Owns(t, n) /\ ~Links(t, n) /\ Holds(t, n)
      /\ \A m \in Nodes \ {n} : ~Owns(t, m) /\ ~Links(t, m) /\ ~Holds(t, m)
  BY <1>0, <1>1, OldRoles DEF LinkingPcs, PushingPcs, HoldingPcs
<1>4. Holders(n) # {} /\ ~Linked(n)
  BY <1>2, <1>3 DEF Holders, Placed
<1>5. PICK h, b : h = Cardinality(Holders(n)) /\ b = Base(L, n)
  OBVIOUS
<1>6. /\ h \in 1 .. Cardinality(Getters) /\ b \in {0, 1, SHOULD_BE_ON_FREELIST}
      /\ freeListRefs[n] = b + h
  BY <1>1, <1>2, <1>4, <1>5, WordSays, Sizes
<1>7. last <=> b = SHOULD_BE_ON_FREELIST /\ h = 1
  BY <1>6, Sizes
<1>8. b = SHOULD_BE_ON_FREELIST <=> Waiting(L, n)
  BY <1>4, <1>5, Sizes DEF Base, Waiting
<1>9. freeListRefs'[n] = b + (h - 1)
  BY <1>1, <1>6, Sizes DEF WordBecomes
<1>10. IsList(s)'
  BY <1>1, <1>2, ListStays
<1>11. CASE last
  <2>1. Turns(t, "loadHead", n, me.top, 0, Null)
    BY <1>1, <1>11
  <2>2. Alone(t) /\ Locals'
    BY <1>1, <2>1, LocalsStep, TurnsAlone
  <2>3. n \notin L /\ n \notin used /\ ~Owned(n) /\ h = 1 /\ b = SHOULD_BE_ON_FREELIST
    BY <1>7, <1>8, <1>11 DEF Waiting
  <2>4. /\ Owns(t, n)' /\ Links(t, n)' /\ ~(Holds(t, n)')
        /\ \A m \in Nodes \ {n} : SameRole(t, m)
    BY <1>3, <2>1, NewRoles DEF SameRole, LinkingPcs, PushingPcs, HoldingPcs
  <2>5. \A u, v \in Threads : Owns(u, n)' /\ Owns(v, n)' => u = v
    BY <1>1, <1>2, <2>2, <2>3, OneOwner
  <2>6. Cardinality(Holders(n))' = 0 /\ Linked(n)' /\ Owned(n)'
    <3>1. Cardinality(Holders(n))' = Cardinality(Holders(n)) - 1 /\ Linked(n)' /\ Owned(n)'
      BY <1>1, <1>3, <2>2, <2>4, OneRole
    <3>2. Cardinality(Holders(n)) = 1
      BY <1>5, <2>3
    <3>3. Cardinality(Holders(n)) - 1 = 0
      BY <3>2
    <3> QED BY <3>1, <3>3
  <2>7. Holders(n)' = {}
    <3>1. \A u \in Threads \ {t} : Holds(u, n)' <=> Holds(u, n)
      BY <2>2, OtherRoles DEF SameRole
    <3>2. PICK H : H = Holders(n) /\ IsFiniteSet(H)
      BY <1>1, FewHolders
    <3>3. Holders(n)' = H \ {t}
      BY <2>4, <3>1, <3>2 DEF Holders
    <3>4. IsFiniteSet(H \ {t})
      BY <3>2, FS_Subset
    <3>5. Cardinality(H \ {t}) = 0
      BY <2>6, <3>3
    <3> QED BY <3>3, <3>4, <3>5, FS_EmptySet
  <2>8. Base(L, n)' = SHOULD_BE_ON_FREELIST /\ ~(Waiting(L, n)')
    BY <1>1, <2>3, <2>6 DEF Base, Waiting
  <2>9. freeListRefs'[n] = SHOULD_BE_ON_FREELIST + 0
    BY <1>9, <2>3, Sizes
  <2>10. Placed(L, n)'
    BY <1>1, <2>3, <2>5, <2>6, <2>7, <2>8, <2>9, PlacedBack
  <2>11. \A m \in Nodes \ {n} : Untouched(t, L, L, m)
    BY <1>1, <2>4, OthersUntouched
  <2> QED BY <1>1, <1>10, <2>2, <2>10, <2>11, OneTouched
<1>12. CASE ~last
  <2>1. Returns(t, me.top)
    BY <1>1, <1>12
  <2>2. Alone(t) /\ Bare(t)' /\ Locals'
    BY <1>1, <2>1, ReturnsBare, ReturnsLocals
  <2>3. ~(Owns(t, n)') /\ ~(Links(t, n)') /\ ~(Holds(t, n)')
        /\ \A m \in Nodes \ {n} : SameRole(t, m)
    BY <1>3, <2>2, BareRole DEF SameRole
  <2>4. /\ ~(Linked(n)') /\ (Owned(n)' <=> Owned(n)) /\ Cardinality(Holders(n))' = h - 1
    BY <1>1, <1>3, <1>4, <1>5, <2>2, <2>3, OneRole
  <2>5. \A u, v \in Threads : Owns(u, n)' /\ Owns(v, n)' => u = v
    <3>1. \A u \in Threads : Owns(u, n)' <=> Owns(u, n)
      BY <1>1, <1>3, <2>2, <2>3, OtherRoles DEF SameRole
    <3> QED BY <1>2, <3>1 DEF Placed
  <2>6. (Waiting(L, n)' <=> Waiting(L, n)) /\ Base(L, n)' = b
    BY <1>1, <1>4, <1>5, <2>4 DEF Base, Waiting
  <2>7. Waiting(L, n)' => Holders(n)' # {}
    <3>1. Waiting(L, n)' => h - 1 # 0
      BY <1>6, <1>7, <1>8, <1>12, <2>6
    <3> QED BY <2>4, <3>1, FS_EmptySet
  <2>8. Placed(L, n)'
    BY <1>1, <1>2, <1>9, <2>4, <2>5, <2>6, <2>7, PlacedBack DEF Placed
  <2>9. \A m \in Nodes \ {n} : Untouched(t, L, L, m)
    BY <1>1, <2>3, OthersUntouched
  <2> QED BY <1>1, <1>10, <2>2, <2>8, <2>9, OneTouched
<1> QED BY <1>11, <1>12

-----------------------------------------------------------------------------
(* The invariant holds. *)

\* At first all nodes are in use and the list is empty.
LEMMA ListBegins == ListInit => ListInv
<1> SUFFICES ASSUME ListInit PROVE ListInv
  OBVIOUS
<1>1. \A t \in Threads : thread[t] = Idle
  BY DEF ListInit
<1>2. /\ Idle \in State /\ Idle.pc = "idle" /\ Idle.top = Null
  BY GoIdle DEF IsAt
<1>3. thread \in [Threads -> State]
  BY <1>2 DEF ListInit
<1>4. TypeOK
  <2>1. \A t \in Threads : Fits(t, thread[t].pc, thread[t].node, thread[t].top)
    BY <1>1, <1>2, Places
  <2>2. /\ freeListHead \in NodeOrNull /\ freeListNext \in [Nodes -> NodeOrNull]
        /\ freeListRefs \in [Nodes -> Int] /\ used \subseteq Nodes
    BY IdleState DEF ListInit
  <2>3. \A t \in Threads :
          /\ thread[t].pc \in {"drop"} \cup LinkingPcs \cup PushingPcs => thread[t].node \in Nodes
          /\ thread[t].pc \in {"loadRefs", "refer"} \cup HoldingPcs => thread[t].top \in Nodes
          /\ t \notin Getters => /\ thread[t].pc \in {"idle"} \cup LinkingPcs \cup PushingPcs
                                 /\ thread[t].top = Null
    BY <2>1 DEF Fits
  <2> QED BY <1>3, <2>2, <2>3 DEF TypeOK
<1>5. Locals
  BY <1>1, <1>2 DEF Locals
<1>6. PICK s \in Seq(Nodes) : s = << >>
  <2>1. << >> \in Seq(Nodes)
    OBVIOUS
  <2> QED BY <2>1
<1>7. Len(s) = 0 /\ Listed(s) = {}
  BY <1>6 DEF Listed
<1>8. IsList(s)
  BY <1>7 DEF IsList, Nth, ListInit
<1>9. ASSUME NEW n \in Nodes PROVE Placed({}, n)
  <2>1. \A t \in Threads : ~Holds(t, n) /\ ~Links(t, n) /\ ~Owns(t, n)
    BY <1>1, <1>2, BareRole DEF Bare
  <2>2. Holders(n) = {} /\ ~Linked(n) /\ ~Owned(n)
    BY <2>1 DEF Holders, Linked, Owned
  <2>3. n \in used /\ freeListRefs[n] = 0
    BY DEF ListInit
  <2>4. Cardinality(Holders(n)) = 0
    BY <2>2, FS_EmptySet
  <2>5. Base({}, n) = 0 /\ ~Waiting({}, n)
    BY <2>3 DEF Base, Waiting
  <2> QED BY <2>1, <2>2, <2>3, <2>4, <2>5 DEF Placed
<1> QED BY <1>4, <1>5, <1>7, <1>8, <1>9 DEF ListInv, ListIs

\* Every step of every thread keeps the invariant.
LEMMA ListGoesOn == ListInv /\ [ListNext]_listVars => ListInv'
<1> SUFFICES ASSUME ListInv, [ListNext]_listVars PROVE ListInv'
  OBVIOUS
<1>1. TypeOK /\ Locals
  BY DEF ListInv
<1>2. PICK s \in Seq(Nodes) : ListIs(s)
  BY DEF ListInv
<1>3. ASSUME NEW t \in Threads, Step(t) PROVE ListInv'
  <2>1. ASSUME NEW n \in Nodes, Add(t, n) PROVE ListInv'
    BY <1>1, <1>2, <2>1, AddKeeps
  <2>2. CASE LoadHead(t)
    BY <1>1, <1>2, <2>2, LoadHeadKeeps
  <2>3. CASE StoreNext(t)
    BY <1>1, <1>2, <2>3, StoreNextKeeps
  <2>4. CASE StoreRefs(t)
    BY <1>1, <1>2, <2>4, StoreRefsKeeps
  <2>5. CASE PushHead(t)
    BY <1>1, <1>2, <2>5, PushHeadKeeps
  <2>6. CASE GiveUp(t)
    BY <1>1, <1>2, <2>6, GiveUpKeeps
  <2>7. CASE Get(t) \/ Reload(t)
    BY <1>1, <1>2, <2>7, GetKeeps
  <2>8. CASE LoadRefs(t)
    BY <1>1, <1>2, <2>8, LoadRefsKeeps
  <2>9. CASE Refer(t)
    BY <1>1, <1>2, <2>9, ReferKeeps
  <2>10. CASE LoadNext(t)
    BY <1>1, <1>2, <2>10, LoadNextKeeps
  <2>11. CASE PopHead(t)
    BY <1>1, <1>2, <2>11, PopHeadKeeps
  <2>12. CASE Take(t)
    BY <1>1, <1>2, <2>12, TakeKeeps
  <2>13. CASE Drop(t)
    BY <1>1, <1>2, <2>13, DropKeeps
  <2> QED BY <1>3, <2>1, <2>2, <2>3, <2>4, <2>5, <2>6, <2>7, <2>8, <2>9, <2>10, <2>11, <2>12,
             <2>13 DEF Step
<1>4. CASE UNCHANGED listVars
  <2>1. UNCHANGED <<freeListHead, freeListNext, freeListRefs, used, thread>>
    BY <1>4 DEF listVars
  <2>2. TypeOK'
    BY <1>1, <2>1 DEF TypeOK
  <2>3. Locals'
    BY <1>1, <2>1 DEF Locals, Refs
  <2>4. IsList(s)'
    BY <1>2, <2>1, ListStays DEF ListIs
  <2>5. ASSUME NEW n \in Nodes PROVE Placed(Listed(s), n)'
    <3>1. \A u \in Threads : /\ Holds(u, n)' <=> Holds(u, n)
                             /\ Links(u, n)' <=> Links(u, n)
                             /\ Owns(u, n)' <=> Owns(u, n)
      BY <2>1 DEF Holds, Links, Owns
    <3> QED BY <1>2, <2>1, <3>1, NodeStays DEF ListIs
  <2>6. ListIs(s)'
    BY <2>4, <2>5 DEF ListIs
  <2> QED BY <2>2, <2>3, <2>6 DEF ListInv
<1> QED BY <1>3, <1>4 DEF ListNext

\* For any number of threads and blocks, in any interleaving of add() and try_get().
THEOREM ListInvariant == ListSpec => []ListInv
BY ListBegins, ListGoesOn, PTL DEF ListSpec

-----------------------------------------------------------------------------
(* The chain is the list. *)

\* Induction, for a set in place of a property.
LEMMA CountingUp ==
  ASSUME NEW S, 0 \in S, \A n \in Nat : n \in S => n + 1 \in S
  PROVE  Nat \subseteq S
<1> DEFINE less == {p \in Nat \X Nat : p[1] < p[2]}  Bad == Nat \ S
<1>1. less = OpToRel(<, Nat)
  BY Zenon DEF OpToRel
<1>2. IsWellFoundedOn(less, Nat)
  BY <1>1, NatLessThanWellFounded, Zenon
<1>3. \A x, y \in Nat : y < x => <<y, x>> \in less
  OBVIOUS
<1> HIDE DEF less
<1>4. SUFFICES ASSUME Bad # {} PROVE FALSE
  OBVIOUS
<1>5. PICK x \in Bad : \A y \in Bad : <<y, x>> \notin less
  BY <1>2, <1>4, WFMin
<1>6. x \in Nat /\ x # 0
  OBVIOUS
<1>7. x - 1 \in Nat /\ x - 1 < x /\ (x - 1) + 1 = x
  BY <1>6
<1>8. x - 1 \in Bad
  BY <1>6, <1>7
<1> QED BY <1>3, <1>5, <1>6, <1>7, <1>8

\* Following the nexts from the head gives the list, which is no longer than there are nodes.
LEMMA ChainIsList ==
  ASSUME TypeOK, NEW s \in Seq(Nodes), IsList(s)
  PROVE  /\ DOMAIN Chain = 0 .. Cardinality(Nodes)
         /\ \A k \in 0 .. Cardinality(Nodes) : Chain[k] = Nth(s, k + 1)
         /\ Len(s) <= Cardinality(Nodes)
<1> DEFINE N == Cardinality(Nodes)
           IsChain(f) == f = [k \in 0 .. N |-> IF k = 0 THEN freeListHead
                                  ELSE IF f[k - 1] = Null THEN Null ELSE freeListNext[f[k - 1]]]
           seen == [k \in 0 .. N |-> Nth(s, k + 1)]
<1>1. N \in Nat /\ IsFiniteSet(Nodes)
  BY FreeListAssumption, FS_CardinalityType
<1>2. Len(s) <= N
  <2>1. s \in [1 .. Len(s) -> Nodes] /\ DOMAIN s = 1 .. Len(s)
    OBVIOUS
  <2>2. IsInjective(s)
    BY <2>1 DEF IsList, IsInjective
  <2>3. s \in Injection(1 .. Len(s), Nodes)
    BY <2>1, <2>2 DEF Injection
  <2>4. Cardinality(1 .. Len(s)) = Len(s)
    <3>1. Len(s) \in Nat
      OBVIOUS
    <3>2. Cardinality(1 .. Len(s)) = IF 1 > Len(s) THEN 0 ELSE Len(s) - 1 + 1
      BY <3>1, FS_Interval
    <3> QED BY <3>1, <3>2
  <2>5. Cardinality(1 .. Len(s)) <= Cardinality(Nodes)
    BY <1>1, <2>3, FS_Injection, Zenon
  <2> QED BY <2>4, <2>5
<1>3. \A k \in Nat : /\ Nth(s, k + 1) = Null => Nth(s, k + 2) = Null
                     /\ Nth(s, k + 1) # Null =>
                          Nth(s, k + 2) = freeListNext[Nth(s, k + 1)]
  <2> SUFFICES ASSUME NEW k \in Nat
               PROVE  /\ Nth(s, k + 1) = Null => Nth(s, k + 2) = Null
                      /\ Nth(s, k + 1) # Null =>
                           Nth(s, k + 2) = freeListNext[Nth(s, k + 1)]
    OBVIOUS
  <2>1. CASE k + 1 \in 1 .. Len(s)
    <3>1. Nth(s, k + 1) = s[k + 1] /\ s[k + 1] \in Nodes /\ (k + 1) + 1 = k + 2
      BY <2>1 DEF Nth
    <3>2. freeListNext[s[k + 1]] = Nth(s, k + 2)
      BY <2>1, <3>1 DEF IsList
    <3> QED BY <3>1, <3>2, FreeListAssumption
  <2>2. CASE k + 1 \notin 1 .. Len(s)
    BY <2>2 DEF Nth
  <2> QED BY <2>1, <2>2
<1>4. IsChain(seen)
  <2>1. ASSUME NEW k \in 0 .. N
        PROVE  seen[k] = IF k = 0 THEN freeListHead
                         ELSE IF seen[k - 1] = Null THEN Null ELSE freeListNext[seen[k - 1]]
    <3>1. CASE k = 0
      BY <3>1 DEF IsList
    <3>2. CASE k # 0
      <4>1. k - 1 \in 0 .. N /\ k - 1 \in Nat /\ (k - 1) + 1 = k /\ (k - 1) + 2 = k + 1
        BY <1>1, <3>2
      <4>2. seen[k - 1] = Nth(s, k) /\ seen[k] = Nth(s, k + 1)
        BY <4>1
      <4>3. /\ Nth(s, k) = Null => Nth(s, k + 1) = Null
            /\ Nth(s, k) # Null => Nth(s, k + 1) = freeListNext[Nth(s, k)]
        BY <1>3, <4>1
      <4> HIDE DEF seen
      <4> QED BY <3>2, <4>2, <4>3
    <3> QED BY <3>1, <3>2
  <2> QED BY <2>1
<1>5. IsChain(Chain)
  <2>1. Chain = CHOOSE f : IsChain(f)
    BY DEF Chain
  <2> HIDE DEF IsChain
  <2> QED BY <1>4, <2>1
<1>6. PICK c : c = Chain
  OBVIOUS
<1>7. /\ DOMAIN c = 0 .. N /\ c[0] = freeListHead
      /\ \A k \in 1 .. N : c[k] = IF c[k - 1] = Null THEN Null ELSE freeListNext[c[k - 1]]
  BY <1>1, <1>5, <1>6
<1>8. Nat \subseteq {k \in Nat : k \in 0 .. N => c[k] = Nth(s, k + 1)}
  <2> DEFINE S == {k \in Nat : k \in 0 .. N => c[k] = Nth(s, k + 1)}
  <2>1. 0 \in S
    BY <1>7 DEF IsList
  <2>2. ASSUME NEW k \in Nat, k \in S PROVE k + 1 \in S
    <3>1. CASE k + 1 \in 0 .. N
      <4>1. k \in 0 .. N /\ k + 1 \in 1 .. N /\ (k + 1) - 1 = k /\ (k + 1) + 1 = k + 2
        BY <1>1, <3>1
      <4>2. c[k + 1] = IF c[k] = Null THEN Null ELSE freeListNext[c[k]]
        BY <1>7, <4>1
      <4>3. c[k] = Nth(s, k + 1)
        BY <2>2, <4>1
      <4>4. c[k + 1] = Nth(s, k + 2)
        BY <1>3, <4>2, <4>3
      <4> QED BY <4>1, <4>4
    <3>2. CASE k + 1 \notin 0 .. N
      BY <3>2
    <3> QED BY <3>1, <3>2
  <2> HIDE DEF S
  <2>3. Nat \subseteq S
    BY <2>1, <2>2, CountingUp
  <2> QED BY <2>3 DEF S
<1> QED BY <1>1, <1>2, <1>6, <1>7, <1>8

-----------------------------------------------------------------------------
(* What it says of the list. *)

\* The nodes on the list, and its end.
LEMMA OnListIs ==
  ASSUME TypeOK, NEW s \in Seq(Nodes), IsList(s)
  PROVE  OnList = Listed(s) /\ Chain[Cardinality(Nodes)] = Null
<1> DEFINE N == Cardinality(Nodes)
<1>1. PICK c : c = Chain
  OBVIOUS
<1>2. /\ DOMAIN c = 0 .. N /\ Len(s) <= N
      /\ \A k \in 0 .. N : c[k] = Nth(s, k + 1)
  BY <1>1, ChainIsList
<1>3. N \in Nat
  BY FreeListAssumption, FS_CardinalityType
<1> HIDE DEF N
<1>4. c[N] = Null
  BY <1>2, <1>3 DEF Nth
<1>5. ASSUME NEW n, n \in OnList PROVE n \in Listed(s)
  <2>1. n # Null /\ \E k \in DOMAIN c : n = c[k]
    BY <1>1, <1>5 DEF OnList
  <2>2. PICK k \in 0 .. N : n = c[k] /\ n # Null
    BY <1>2, <2>1
  <2>3. n = Nth(s, k + 1)
    BY <1>2, <2>2
  <2> QED BY <2>2, <2>3 DEF Nth, Listed
<1>6. ASSUME NEW n, n \in Listed(s) PROVE n \in OnList
  <2>1. PICK k \in 1 .. Len(s) : n = s[k]
    BY <1>6 DEF Listed
  <2>2. k - 1 \in 0 .. N /\ (k - 1) + 1 = k /\ n \in Nodes
    BY <1>2, <1>3, <2>1
  <2>3. c[k - 1] = n
    BY <1>2, <2>1, <2>2 DEF Nth
  <2>4. n # Null
    BY <2>2, FreeListAssumption
  <2> QED BY <1>1, <1>2, <2>2, <2>3, <2>4 DEF OnList
<1>7. OnList = Listed(s)
  BY <1>5, <1>6
<1> QED BY <1>1, <1>4, <1>7 DEF N

\* No node that was popped or is in use is on the list, and the word of those that are popped
\* or on it counts references and nothing else.
LEMMA InvIsSound == ListInv => ListSound
<1> SUFFICES ASSUME ListInv PROVE ListSound
  OBVIOUS
<1>1. TypeOK
  BY DEF ListInv
<1>2. PICK s \in Seq(Nodes) : ListIs(s)
  BY DEF ListInv
<1> DEFINE L == Listed(s)
<1>3. L \subseteq Nodes /\ \A n \in Nodes : Placed(L, n)
  BY <1>2 DEF ListIs, Listed
<1>4. OnList = L /\ Chain[Cardinality(Nodes)] = Null
  BY <1>1, <1>2, OnListIs DEF ListIs
<1>5. ASSUME NEW t \in Threads, AtPc(t, "take")
      PROVE  thread[t].top \in Nodes /\ Owns(t, thread[t].top)
  <2>1. thread[t].pc = "take"
    BY <1>5 DEF AtPc
  <2> QED BY <1>1, <2>1, Own, Places DEF Owns
<1>6. ASSUME NEW n, n \in Popped
      PROVE  n \in Nodes /\ \E t \in Threads : AtPc(t, "take") /\ thread[t].top = n /\ Owns(t, n)
  BY <1>5, <1>6 DEF Popped
<1>7. OnList \cap (used \cup Popped) = {}
  <2>1. ASSUME NEW n \in L, n \in used PROVE FALSE
    BY <1>3, <2>1 DEF Placed
  <2>2. ASSUME NEW n \in L, n \in Popped PROVE FALSE
    BY <1>3, <1>6, <2>2 DEF Placed, Owned
  <2> QED BY <1>4, <2>1, <2>2
<1>8. ASSUME NEW n, n \in OnList \cup Popped
      PROVE  freeListRefs[n] \in 1 .. SHOULD_BE_ON_FREELIST - 1
  <2>1. n \in Nodes
    BY <1>3, <1>4, <1>6, <1>8
  <2>2. n \notin used /\ ~Linked(n) /\ ~Waiting(L, n)
    <3>1. CASE n \in L
      BY <1>3, <2>1, <3>1 DEF Placed, Linked, Owned, Owns, Waiting
    <3>2. CASE n \in Popped
      <4>1. PICK t \in Threads : AtPc(t, "take") /\ Owns(t, n)
        BY <1>6, <3>2
      <4>2. Owned(n) /\ ~Links(t, n)
        BY <4>1 DEF Owned, AtPc, Links, LinkingPcs
      <4> QED BY <1>3, <2>1, <4>1, <4>2 DEF Placed, Linked, Owns, Waiting
    <3> QED BY <1>4, <1>8, <3>1, <3>2
  <2>3. Base(L, n) = 1
    BY <2>2 DEF Base
  <2> QED BY <1>1, <1>3, <2>1, <2>3, WordSays, Sizes
<1>9. ASSUME NEW t \in Threads, NEW u \in Threads, t # u, AtPc(t, "take"), AtPc(u, "take")
      PROVE  thread[t].top # thread[u].top
  BY <1>3, <1>5, <1>9 DEF Placed
<1> QED BY <1>4, <1>7, <1>8, <1>9 DEF ListSound

\* When no thread has a node, no node waits, so that those that are not in use are on the list.
LEMMA InvLosesNothing == ListInv => NothingLost
<1> SUFFICES ASSUME ListInv, \A t \in Threads : AtPc(t, "idle") PROVE OnList = Nodes \ used
  BY DEF NothingLost
<1>1. TypeOK
  BY DEF ListInv
<1>2. PICK s \in Seq(Nodes) : ListIs(s)
  BY DEF ListInv
<1>3. Listed(s) \subseteq Nodes /\ OnList = Listed(s)
  BY <1>1, <1>2, OnListIs DEF ListIs, Listed
<1>4. ASSUME NEW n \in Nodes PROVE Holders(n) = {} /\ ~Owned(n)
  BY BareRole DEF AtPc, Bare, Holders, Owned
<1>5. ASSUME NEW n \in Nodes PROVE n \in Listed(s) <=> n \notin used
  BY <1>2, <1>4 DEF ListIs, Placed, Waiting
<1> QED BY <1>3, <1>5

\* No block is handed out twice, and the list is never corrupted by a head that has changed
\* and changed back.
THEOREM ListIsSound == ListSpec => []ListSound
BY ListInvariant, InvIsSound, PTL

\* No block is lost: an add() that failed is made up for by whoever drops the last reference.
THEOREM NoBlockLost == ListSpec => []NothingLost
BY ListInvariant, InvLosesNothing, PTL
=============================================================================
