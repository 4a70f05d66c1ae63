------------------------ MODULE ImplicitProducerHash ------------------------
(***************************************************************************)
(* get_or_add_implicit_producer() (include/concurentqueue/                 *)
(* concurrentqueue.h): a thread that puts a message in msgQueue finds its  *)
(* producer in a hash table by its thread id, or makes one, adds it to the *)
(* queue's list of producers, and itself to the table, which grows.        *)
(*                                                                         *)
(* Nothing is removed from a table: this build has no thread exit          *)
(* listeners (MOODYCAMEL_CPP11_THREAD_LOCAL_SUPPORTED is never defined),   *)
(* so a producer never becomes inactive and a thread that gets the id of   *)
(* one that ended gets its producer.  A probe goes over the slots in use   *)
(* from hash(id) on, and they stay in use: searching a table is one step,  *)
(* and so is taking the first free slot.                                   *)
(***************************************************************************)
EXTENDS Integers, Sequences, SequencesExt, FiniteSets

CONSTANTS
  Ids,                                   \* the thread ids
  Hash,                                  \* hash_thread_id
  INITIAL_IMPLICIT_PRODUCER_HASH_SIZE,   \* 32 in the code
  Empty,                                 \* invalid_thread_id
  Null,                                  \* nullptr
  MaxFailures,                           \* bound on the failures of malloc
  MaxCalls                               \* bounds on the calls with each id

ASSUME HashAssumption ==
  /\ INITIAL_IMPLICIT_PRODUCER_HASH_SIZE \in {2 ^ k : k \in 1 .. 10}
  /\ Hash \in [Ids -> Nat] /\ Empty \notin Ids
  /\ MaxFailures \in Nat /\ MaxCalls \in [Ids -> Nat]

VARIABLES
  tables,                  \* the hash tables, each one's prev before it; the last is
                           \* implicitProducerHash
  implicitProducerHashCount,
  resizing,                \* implicitProducerHashResizeInProgress
  created,                 \* how many producers have been made
  producerListTail,        \* the list that it is the head of
  caller,                  \* the thread of each id: where it is, its variables
  results, failures        \* history: what its calls returned; failures of malloc

tableVars == <<tables, implicitProducerHashCount, resizing>>
hashVars == <<tableVars, created, producerListTail, caller, results, failures>>

NewTable(n) == [capacity |-> n,
                keys |-> [i \in 0 .. n - 1 |-> Empty],
                values |-> [i \in 0 .. n - 1 |-> Null]]

\* mainHash and hash are positions in tables.
NoCall == [pc |-> "idle", main |-> 0, hash |-> 0, newCount |-> 0, producer |-> Null,
           prevTail |-> <<>>]

HashInit ==
  /\ tables = <<NewTable(INITIAL_IMPLICIT_PRODUCER_HASH_SIZE)>>
  /\ implicitProducerHashCount = 0
  /\ resizing = FALSE
  /\ created = 0 /\ producerListTail = <<>>
  /\ caller = [id \in Ids |-> NoCall]
  /\ results = [id \in Ids |-> <<>>]
  /\ failures = 0

-----------------------------------------------------------------------------
(* Linear probing. *)

\* The slots from where id belongs, in the order they are probed.
Probe(table, id) == [k \in 1 .. table.capacity |-> (Hash[id] + k - 1) % table.capacity]

\* The first slot with one of these keys; there is one, as RoomInTables says.
FirstWith(keys, table, id) ==
  LET at == Probe(table, id)
      hits == {k \in DOMAIN at : table.keys[at[k]] \in keys} IN
  at[CHOOSE k \in hits : \A j \in hits : k <= j]

Finds(table, id) ==
  table.keys[FirstWith({id, Empty}, table, id)] = id

\* The key is claimed with a compare-exchange, the value written after: only the
\* threads with this id read it.
With(table, id, producer) ==
  LET slot == FirstWith({Empty}, table, id) IN
  [table EXCEPT !.keys[slot] = id, !.values[slot] = producer]

Moves(id, state) == caller' = [caller EXCEPT ![id] = state]
AtPc(id, pc) == caller[id].pc = pc

Answers(id, producer) ==
  /\ Moves(id, NoCall)
  /\ results' = [results EXCEPT ![id] = Append(@, producer)]

Fails(id) == failures < MaxFailures /\ failures' = failures + 1 /\ Answers(id, Null)

-----------------------------------------------------------------------------
(* Looking for the producer. *)

Call(id) ==
  /\ AtPc(id, "idle") /\ Len(results[id]) < MaxCalls[id]
  /\ Moves(id, [NoCall EXCEPT !.pc = "search", !.main = Len(tables), !.hash = Len(tables)])
  /\ UNCHANGED <<tableVars, created, producerListTail, results, failures>>

\* In this table, or in the one before it, or nowhere: then the thread is counted.
Search(id) ==
  LET me == caller[id]  table == tables[me.hash] IN
  /\ AtPc(id, "search")
  /\ CASE Finds(table, id) ->
            LET producer == table.values[FirstWith({id}, table, id)] IN
            IF me.hash = me.main THEN Answers(id, producer)
            ELSE Moves(id, [me EXCEPT !.pc = "copy", !.producer = producer])
                 /\ UNCHANGED results
       [] ~Finds(table, id) /\ me.hash > 1 ->
            Moves(id, [me EXCEPT !.hash = @ - 1]) /\ UNCHANGED results
       [] OTHER -> Moves(id, [me EXCEPT !.pc = "count"]) /\ UNCHANGED results
  /\ UNCHANGED <<tableVars, created, producerListTail, failures>>

\* Found in an older table: the newer one gets it too.
Copy(id) ==
  LET me == caller[id] IN
  /\ AtPc(id, "copy")
  /\ tables' = [tables EXCEPT ![me.main] = With(@, id, me.producer)]
  /\ Answers(id, me.producer)
  /\ UNCHANGED <<implicitProducerHashCount, resizing, created, producerListTail, failures>>

Count(id) ==
  /\ AtPc(id, "count")
  /\ implicitProducerHashCount' = implicitProducerHashCount + 1
  /\ Moves(id, [caller[id] EXCEPT !.pc = "grow", !.hash = 0,
                                 !.newCount = implicitProducerHashCount + 1])
  /\ UNCHANGED <<tables, resizing, created, producerListTail, results, failures>>

-----------------------------------------------------------------------------
(* Growing the table. *)

Half(table) == table.capacity \div 2
ThreeQuarters(table) == table.capacity \div 2 + table.capacity \div 4

\* newCount >= (mainHash->capacity >> 1) && !test_and_set(): the thread resizes.
Lock(id) ==
  LET me == caller[id] IN
  /\ AtPc(id, "grow")
  /\ IF me.newCount >= Half(tables[me.main])
     THEN /\ resizing' = TRUE
          /\ Moves(id, [me EXCEPT !.pc = IF resizing THEN "room" ELSE "reload"])
     ELSE Moves(id, [me EXCEPT !.pc = "room"]) /\ UNCHANGED resizing
  /\ UNCHANGED <<tables, implicitProducerHashCount, created, producerListTail, results,
                 failures>>

\* With the lock: the table may have grown meanwhile.
Reload(id) ==
  LET me == [caller[id] EXCEPT !.main = Len(tables)] IN
  /\ AtPc(id, "reload")
  /\ Moves(id, [me EXCEPT !.pc =
                 IF me.newCount >= Half(tables[me.main]) THEN "allocate" ELSE "unlock"])
  /\ UNCHANGED <<tableVars, created, producerListTail, results, failures>>

Unlock(id) ==
  /\ AtPc(id, "unlock")
  /\ resizing' = FALSE
  /\ Moves(id, [caller[id] EXCEPT !.pc = "room"])
  /\ UNCHANGED <<tables, implicitProducerHashCount, created, producerListTail, results,
                 failures>>

\* The least power of two times the capacity of which newCount is less than half.
NewCapacity(table, n) ==
  LET bigger == {table.capacity * 2 ^ k : k \in 1 .. n} IN
  CHOOSE c \in bigger : n < c \div 2 /\ \A d \in bigger : n < d \div 2 => c <= d

\* Slip: the lock is kept.
AllocateFailsLocked(id) ==
  /\ AtPc(id, "allocate")
  /\ implicitProducerHashCount' = implicitProducerHashCount - 1
  /\ Fails(id)
  /\ UNCHANGED <<tables, resizing, created, producerListTail>>

\* malloc fails: nullptr, and the lock is free again.
AllocateFails(id) ==
  /\ AtPc(id, "allocate")
  /\ implicitProducerHashCount' = implicitProducerHashCount - 1
  /\ resizing' = FALSE
  /\ Fails(id)
  /\ UNCHANGED <<tables, created, producerListTail>>

Allocate(id) ==
  LET me == caller[id] IN
  /\ AtPc(id, "allocate")
  /\ tables' = Append(tables, NewTable(NewCapacity(tables[me.main], me.newCount)))
  /\ Moves(id, [me EXCEPT !.pc = "unlock", !.main = Len(tables) + 1])
  /\ UNCHANGED <<implicitProducerHashCount, resizing, created, producerListTail, results,
                 failures>>

\* Slip: while another thread grows the table, the old one is used.
RoomAlways(id) ==
  /\ AtPc(id, "room")
  /\ Moves(id, [caller[id] EXCEPT !.pc = "create"])
  /\ UNCHANGED <<tableVars, created, producerListTail, results, failures>>

\* Less than three quarters full: add to it; else wait for the next table.
Room(id) ==
  LET me == caller[id] IN
  /\ AtPc(id, "room")
  /\ Moves(id, IF me.newCount < ThreeQuarters(tables[me.main])
              THEN [me EXCEPT !.pc = "create"]
              ELSE [me EXCEPT !.pc = "grow", !.main = Len(tables)])
  /\ UNCHANGED <<tableVars, created, producerListTail, results, failures>>

-----------------------------------------------------------------------------
(* The new producer. *)

\* recycle_or_create_producer(): no producer is inactive, so one is made.
Create(id) ==
  /\ AtPc(id, "create")
  /\ created' = created + 1
  /\ Moves(id, [caller[id] EXCEPT !.pc = "push", !.producer = created + 1,
                                 !.prevTail = producerListTail])
  /\ UNCHANGED <<tableVars, producerListTail, results, failures>>

CreateFails(id) ==
  /\ AtPc(id, "create")
  /\ implicitProducerHashCount' = implicitProducerHashCount - 1
  /\ Fails(id)
  /\ UNCHANGED <<tables, resizing, created, producerListTail>>

\* Slip: the list is written without a compare-exchange.
PushBlindly(id) ==
  LET me == caller[id] IN
  /\ AtPc(id, "push")
  /\ producerListTail' = <<me.producer>> \o me.prevTail
  /\ Moves(id, [me EXCEPT !.pc = "insert", !.prevTail = <<>>])
  /\ UNCHANGED <<tableVars, created, results, failures>>

\* producer->next = prevTail; producerListTail.compare_exchange_weak(prevTail, producer).
\* Nothing leaves the list, so its tail tells what it is.
Push(id) ==
  LET me == caller[id] IN
  /\ AtPc(id, "push")
  /\ IF producerListTail = me.prevTail
     THEN /\ producerListTail' = <<me.producer>> \o me.prevTail
          /\ Moves(id, [me EXCEPT !.pc = "insert", !.prevTail = <<>>])
     ELSE Moves(id, [me EXCEPT !.prevTail = producerListTail]) /\ UNCHANGED producerListTail
  /\ UNCHANGED <<tableVars, created, results, failures>>

Insert(id) ==
  LET me == caller[id] IN
  /\ AtPc(id, "insert")
  /\ tables' = [tables EXCEPT ![me.main] = With(@, id, me.producer)]
  /\ Answers(id, me.producer)
  /\ UNCHANGED <<implicitProducerHashCount, resizing, created, producerListTail, failures>>

-----------------------------------------------------------------------------
Step(id) == \/ Search(id) \/ Copy(id) \/ Count(id) \/ Lock(id) \/ Reload(id) \/ Unlock(id)
            \/ AllocateFails(id) \/ Allocate(id) \/ Room(id) \/ Create(id)
            \/ CreateFails(id) \/ Push(id) \/ Insert(id)

\* MaxCalls stops the model.
Stopped == /\ \A id \in Ids : AtPc(id, "idle") /\ Len(results[id]) = MaxCalls[id]
           /\ UNCHANGED hashVars

HashNext == (\E id \in Ids : Call(id) \/ Step(id)) \/ Stopped

HashSpec == HashInit /\ [][HashNext]_hashVars

\* Every thread that is in a call is scheduled.
FairSpec == HashSpec /\ \A id \in Ids : WF_hashVars(Step(id))

-----------------------------------------------------------------------------
\* ~ConcurrentQueue() destroys the producers on the list.
Destroyed == ToSet(producerListTail)

Returned(id) == ToSet(results[id]) \ {Null}

\* A thread gets the same producer each time, whatever tables came in between, and no
\* other thread gets it: each producer has one thread that enqueues, as
\* ImplicitProducer needs; and the consumer finds it in the list, as does in the end the
\* destructor every producer that was made.
OneProducerPerThread ==
  /\ \A id \in Ids : /\ Cardinality(Returned(id)) <= 1
                     /\ Returned(id) \subseteq ToSet(producerListTail)
  /\ \A id, other \in Ids : id # other => Returned(id) \cap Returned(other) = {}
  /\ IsInjective(producerListTail)
  /\ (\A id \in Ids : AtPc(id, "idle")) => Destroyed = 1 .. created

\* "Not an infinite loop because at least one slot is free in the hash table",
\* concurrentqueue.h:3224, and "there's guaranteed to be room in the current hash table",
\* :3231, also after allocations failed and were taken off the count.
RoomInTables ==
  \A k \in DOMAIN tables : \E i \in DOMAIN tables[k].keys : tables[k].keys[i] = Empty

\* A call returns: a thread that waits for another to grow the table does not wait for
\* ever, nor for a thread that failed to.
CallsReturn == \A id \in Ids : AtPc(id, "search") ~> AtPc(id, "idle")
=============================================================================
