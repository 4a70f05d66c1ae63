----------------------------- MODULE BoundedFifo -----------------------------
(***************************************************************************)
(* What AtomicQueue takes ReaderWriterQueue for: a first-in first-out      *)
(* queue whose operations try once and take effect in one step between     *)
(* their call and their return.                                            *)
(*                                                                         *)
(* The room is not one number: a put certainly succeeds if there were      *)
(* fewer than Guaranteed elements when it was called, and certainly does   *)
(* not with Largest elements there.  A take or a peek may find nothing     *)
(* only if the queue was empty when it was called; what is put during the  *)
(* call may be missed.                                                     *)
(***************************************************************************)
EXTENDS Naturals, Sequences

CONSTANTS Elem, NoElem, Guaranteed, Largest

VARIABLES items,
          put, arg, mayFail,   \* the producer's call, its argument
          take, got, mayMiss   \* the consumer's call, its result

vars == <<items, put, arg, mayFail, take, got, mayMiss>>

Init == /\ items = <<>>
        /\ put = "idle" /\ arg = NoElem /\ mayFail = FALSE
        /\ take = "idle" /\ got = NoElem /\ mayMiss = FALSE

CallPut(e) == /\ put # "putting"
              /\ put' = "putting" /\ arg' = e
              /\ mayFail' = (Len(items) >= Guaranteed)
              /\ UNCHANGED <<items, take, got, mayMiss>>

Put == /\ put = "putting"
       /\ Len(items) < Largest
       /\ items' = Append(items, arg)
       /\ put' = "ok" /\ arg' = NoElem /\ mayFail' = FALSE
       /\ UNCHANGED <<take, got, mayMiss>>

PutFails == /\ put = "putting" /\ mayFail
            /\ put' = "full" /\ arg' = NoElem /\ mayFail' = FALSE
            /\ UNCHANGED <<items, take, got, mayMiss>>

CallTake(how) == /\ take \notin {"taking", "peeking"}
                 /\ take' = how /\ got' = NoElem
                 /\ mayMiss' = (items = <<>>)
                 /\ UNCHANGED <<items, put, arg, mayFail>>

Take == /\ take = "taking"
        /\ items # <<>>
        /\ got' = Head(items) /\ items' = Tail(items)
        /\ take' = "taken"
        /\ UNCHANGED <<put, arg, mayFail, mayMiss>>

Peek == /\ take = "peeking"
        /\ items # <<>>
        /\ got' = Head(items)
        /\ take' = "peeked"
        /\ UNCHANGED <<items, put, arg, mayFail, mayMiss>>

Misses == /\ take \in {"taking", "peeking"} /\ mayMiss
          /\ take' = "none"
          /\ UNCHANGED <<items, put, arg, mayFail, got, mayMiss>>

Next == \/ \E e \in Elem : CallPut(e)
        \/ Put \/ PutFails
        \/ \E how \in {"taking", "peeking"} : CallTake(how)
        \/ Take \/ Peek \/ Misses

Spec == Init /\ [][Next]_vars
=============================================================================
