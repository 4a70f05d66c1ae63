---------------------------- MODULE SharedStream ----------------------------
(***************************************************************************)
(* What a multi-producer queue promises: a stream of messages for each     *)
(* producer, numbered from 0, from which any thread takes the next one of  *)
(* any producer.  ConcurrentQueue is one for all of its producers, each    *)
(* ImplicitProducer is one for itself.                                     *)
(*                                                                         *)
(* Each message is taken once, those of a producer in order.  A call may   *)
(* find nothing if there was nothing when it was made, or if another call  *)
(* overlapped it.                                                          *)
(***************************************************************************)
EXTENDS Naturals, Sequences

CONSTANTS Producers, Consumers

VARIABLES items, puts,
          call,       \* <<"idle">>, <<"asking">> or <<"took", producer, message>>
          mayMiss

vars == <<items, puts, call, mayMiss>>

Init == /\ items = [p \in Producers |-> <<>>] /\ puts = [p \in Producers |-> 0]
        /\ call = [c \in Consumers |-> <<"idle">>]
        /\ mayMiss = [c \in Consumers |-> FALSE]

Put(p) == /\ items' = [items EXCEPT ![p] = Append(@, puts[p])]
          /\ puts' = [puts EXCEPT ![p] = @ + 1]
          /\ UNCHANGED <<call, mayMiss>>

\* The calls that may find nothing, once consumer c has called too.
Overlap(c) == LET others == {d \in Consumers \ {c} : call[d] # <<"idle">>} IN
              [d \in Consumers |->
                 \/ mayMiss[d] \/ d \in others
                 \/ d = c /\ (others # {} \/ \A p \in Producers : items[p] = <<>>)]

Ask(c) == /\ call[c] = <<"idle">>
          /\ call' = [call EXCEPT ![c] = <<"asking">>]
          /\ mayMiss' = Overlap(c)
          /\ UNCHANGED <<items, puts>>

Take(c, p) == /\ call[c] = <<"asking">> /\ items[p] # <<>>
              /\ call' = [call EXCEPT ![c] = <<"took", p, Head(items[p])>>]
              /\ items' = [items EXCEPT ![p] = Tail(@)]
              /\ UNCHANGED <<puts, mayMiss>>

Returns(c) == /\ call' = [call EXCEPT ![c] = <<"idle">>]
              /\ mayMiss' = [mayMiss EXCEPT ![c] = FALSE]
              /\ UNCHANGED <<items, puts>>

Answer(c) == call[c] \notin {<<"idle">>, <<"asking">>} /\ Returns(c)

Miss(c) == call[c] = <<"asking">> /\ mayMiss[c] /\ Returns(c)

Next == \/ \E p \in Producers : Put(p)
        \/ \E c \in Consumers : Ask(c) \/ Answer(c) \/ Miss(c)
                                \/ \E p \in Producers : Take(c, p)

Spec == Init /\ [][Next]_vars
=============================================================================
