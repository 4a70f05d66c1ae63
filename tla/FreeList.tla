------------------------------ MODULE FreeList ------------------------------
(***************************************************************************)
(* FreeList (include/concurentqueue/concurrentqueue.h): the lock-free      *)
(* stack of the blocks that msgQueue can use again, with a reference count *)
(* in each block.  The threads that put messages in msgQueue take blocks   *)
(* from it at the same time, and whoever takes the last message of a block *)
(* gives the block back.                                                   *)
(*                                                                         *)
(* A node's freeListRefs is one word: SHOULD_BE_ON_FREELIST and below it   *)
(* the number of references, one of them the list's own.  One action per   *)
(* access to a word that other threads access.                             *)
(***************************************************************************)
EXTENDS Naturals, FiniteSets

CONSTANTS Nodes, Null,
          Getters, Putters,        \* the threads that call try_get, and add
          SHOULD_BE_ON_FREELIST    \* 0x80000000 in the code

ASSUME FreeListAssumption ==
  /\ Null \notin Nodes /\ IsFiniteSet(Nodes) /\ IsFiniteSet(Getters)
  /\ SHOULD_BE_ON_FREELIST \in Nat
  /\ SHOULD_BE_ON_FREELIST > Cardinality(Getters) + 1

Threads == Getters \cup Putters

VARIABLES
  freeListHead, freeListNext, freeListRefs,
  used,        \* the nodes that callers of try_get have, or have not yet added
  thread       \* where each thread is, and its local variables

listVars == <<freeListHead, freeListNext, freeListRefs, used, thread>>

Refs(word) == word % SHOULD_BE_ON_FREELIST    \* word & REFS_MASK

\* node: the one added, or prevHead; top: try_get's head; refs, next: what was loaded.
Idle == [pc |-> "idle", node |-> Null, top |-> Null, refs |-> 0, next |-> Null]

\* while (head != nullptr): try_get, and also an add(), returns when there is none.
Loop(head) == IF head = Null THEN Idle ELSE [Idle EXCEPT !.pc = "loadRefs", !.top = head]

\* add_knowing_refcount_is_zero(n), from add() or from try_get() with another head.
Linking(n, head) == [Idle EXCEPT !.pc = "loadHead", !.node = n, !.top = head]

ListInit ==
  /\ freeListHead = Null
  /\ freeListNext = [n \in Nodes |-> Null]
  /\ freeListRefs = [n \in Nodes |-> 0]
  /\ used = Nodes
  /\ thread = [t \in Threads |-> Idle]

Moves(t, state) == thread' = [thread EXCEPT ![t] = state]
AtPc(t, pc) == thread[t].pc = pc
Adds(n, change) == freeListRefs' = [freeListRefs EXCEPT ![n] = @ + change]

-----------------------------------------------------------------------------
(* add() and add_knowing_refcount_is_zero(). *)

\* fetch_add(SHOULD_BE_ON_FREELIST); if nobody has a reference, the node is linked.
Add(t, n) ==
  /\ AtPc(t, "idle") /\ t \in Putters /\ n \in used
  /\ used' = used \ {n}
  /\ Adds(n, SHOULD_BE_ON_FREELIST)
  /\ Moves(t, IF freeListRefs[n] = 0 THEN Linking(n, Null) ELSE Idle)
  /\ UNCHANGED <<freeListHead, freeListNext>>

LoadHead(t) ==
  /\ AtPc(t, "loadHead")
  /\ Moves(t, [thread[t] EXCEPT !.pc = "storeNext", !.next = freeListHead])
  /\ UNCHANGED <<freeListHead, freeListNext, freeListRefs, used>>

StoreNext(t) ==
  /\ AtPc(t, "storeNext")
  /\ freeListNext' = [freeListNext EXCEPT ![thread[t].node] = thread[t].next]
  /\ Moves(t, [thread[t] EXCEPT !.pc = "storeRefs"])
  /\ UNCHANGED <<freeListHead, freeListRefs, used>>

StoreRefs(t) ==
  /\ AtPc(t, "storeRefs")
  /\ freeListRefs' = [freeListRefs EXCEPT ![thread[t].node] = 1]
  /\ Moves(t, [thread[t] EXCEPT !.pc = "pushHead"])
  /\ UNCHANGED <<freeListHead, freeListNext, used>>

\* freeListHead.compare_exchange_strong(head, node)
PushHead(t) ==
  /\ AtPc(t, "pushHead")
  /\ IF freeListHead = thread[t].next
     THEN freeListHead' = thread[t].node /\ Moves(t, Loop(thread[t].top))
     ELSE /\ Moves(t, [thread[t] EXCEPT !.pc = "giveUp", !.next = freeListHead])
          /\ UNCHANGED freeListHead
  /\ UNCHANGED <<freeListNext, freeListRefs, used>>

\* The add failed: fetch_add(SHOULD_BE_ON_FREELIST - 1); whoever drops the last
\* reference tries again.
GiveUp(t) ==
  /\ AtPc(t, "giveUp")
  /\ Adds(thread[t].node, SHOULD_BE_ON_FREELIST - 1)
  /\ Moves(t, IF freeListRefs[thread[t].node] = 1
             THEN [thread[t] EXCEPT !.pc = "storeNext"] ELSE Loop(thread[t].top))
  /\ UNCHANGED <<freeListHead, freeListNext, used>>

-----------------------------------------------------------------------------
(* try_get(). *)

Get(t) == /\ AtPc(t, "idle") /\ t \in Getters
          /\ Moves(t, Loop(freeListHead))
          /\ UNCHANGED <<freeListHead, freeListNext, freeListRefs, used>>

Reload(t) == /\ AtPc(t, "reload")
             /\ Moves(t, Loop(freeListHead))
             /\ UNCHANGED <<freeListHead, freeListNext, freeListRefs, used>>

\* Slip: a node without references is taken all the same.
LoadRefsUnmasked(t) ==
  /\ AtPc(t, "loadRefs")
  /\ Moves(t, [thread[t] EXCEPT !.pc = "refer", !.refs = freeListRefs[thread[t].top]])
  /\ UNCHANGED <<freeListHead, freeListNext, freeListRefs, used>>

LoadRefs(t) ==
  /\ AtPc(t, "loadRefs")
  /\ LET word == freeListRefs[thread[t].top] IN
     Moves(t, IF Refs(word) = 0 THEN [Idle EXCEPT !.pc = "reload"]
             ELSE [thread[t] EXCEPT !.pc = "refer", !.refs = word])
  /\ UNCHANGED <<freeListHead, freeListNext, freeListRefs, used>>

\* head->freeListRefs.compare_exchange_strong(refs, refs + 1)
Refer(t) ==
  /\ AtPc(t, "refer")
  /\ IF freeListRefs[thread[t].top] = thread[t].refs
     THEN /\ Adds(thread[t].top, 1)
          /\ Moves(t, [Idle EXCEPT !.pc = "loadNext", !.top = thread[t].top])
     ELSE Moves(t, [Idle EXCEPT !.pc = "reload"]) /\ UNCHANGED freeListRefs
  /\ UNCHANGED <<freeListHead, freeListNext, used>>

LoadNext(t) ==
  /\ AtPc(t, "loadNext")
  /\ Moves(t, [thread[t] EXCEPT !.pc = "popHead", !.next = freeListNext[thread[t].top]])
  /\ UNCHANGED <<freeListHead, freeListNext, freeListRefs, used>>

\* freeListHead.compare_exchange_strong(head, next), which loads head if it fails.
PopHead(t) ==
  /\ AtPc(t, "popHead")
  /\ IF freeListHead = thread[t].top
     THEN /\ freeListHead' = thread[t].next
          /\ Moves(t, [Idle EXCEPT !.pc = "take", !.top = thread[t].top])
     ELSE /\ Moves(t, [Idle EXCEPT !.pc = "drop", !.node = thread[t].top,
                                  !.top = freeListHead])
          /\ UNCHANGED freeListHead
  /\ UNCHANGED <<freeListNext, freeListRefs, used>>

\* The thread's reference and the list's; the node is returned.
Take(t) ==
  /\ AtPc(t, "take")
  /\ freeListRefs' = [freeListRefs EXCEPT ![thread[t].top] = @ - 2]
  /\ used' = used \cup {thread[t].top}
  /\ Moves(t, Idle)
  /\ UNCHANGED <<freeListHead, freeListNext>>

\* Slip: the last reference is dropped and the node is left to nobody.
DropOnly(t) ==
  /\ AtPc(t, "drop")
  /\ freeListRefs' = [freeListRefs EXCEPT ![thread[t].node] = @ - 1]
  /\ Moves(t, Loop(thread[t].top))
  /\ UNCHANGED <<freeListHead, freeListNext, used>>

\* The head has changed: drop the reference; if it is the last one to a node that
\* should be on the list, put it there.
Drop(t) ==
  LET n == thread[t].node IN
  /\ AtPc(t, "drop")
  /\ freeListRefs' = [freeListRefs EXCEPT ![n] = @ - 1]
  /\ Moves(t, IF freeListRefs[n] = SHOULD_BE_ON_FREELIST + 1
             THEN Linking(n, thread[t].top) ELSE Loop(thread[t].top))
  /\ UNCHANGED <<freeListHead, freeListNext, used>>

-----------------------------------------------------------------------------
Step(t) == \/ \E n \in Nodes : Add(t, n)
           \/ LoadHead(t) \/ StoreNext(t) \/ StoreRefs(t) \/ PushHead(t) \/ GiveUp(t)
           \/ Get(t) \/ Reload(t) \/ LoadRefs(t) \/ Refer(t) \/ LoadNext(t)
           \/ PopHead(t) \/ Take(t) \/ Drop(t)

ListNext == \E t \in Threads : Step(t)

ListSpec == ListInit /\ [][ListNext]_listVars

-----------------------------------------------------------------------------
\* The k-th node from the head, counting from 0; Null after the last.
Chain == LET nth[k \in 0 .. Cardinality(Nodes)] ==
               IF k = 0 THEN freeListHead
               ELSE IF nth[k - 1] = Null THEN Null ELSE freeListNext[nth[k - 1]]
         IN nth

OnList == {Chain[k] : k \in DOMAIN Chain} \ {Null}

\* Those that have been popped but not yet returned.
Popped == {thread[t].top : t \in {u \in Threads : AtPc(u, "take")}}

\* No block is handed out twice: the list ends, none of its blocks is in use, and they
\* can be referred to; and assert((refs & SHOULD_BE_ON_FREELIST) == 0),
\* concurrentqueue.h:1334: nobody has added the block that was just taken off.
ListSound ==
  /\ Chain[Cardinality(Nodes)] = Null
  /\ OnList \cap (used \cup Popped) = {}
  /\ \A n \in OnList \cup Popped : freeListRefs[n] \in 1 .. SHOULD_BE_ON_FREELIST - 1
  /\ \A t, u \in Threads :
       t # u /\ AtPc(t, "take") /\ AtPc(u, "take") => thread[t].top # thread[u].top

\* No block is lost: one whose add failed or was left to another thread is on the list
\* once no call is running.
NothingLost ==
  (\A t \in Threads : AtPc(t, "idle")) => OnList = Nodes \ used
=============================================================================
