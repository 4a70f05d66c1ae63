----------------------------- MODULE MsgOutput -----------------------------
(***************************************************************************)
(* MsgOutput: the console thread, which shows the last message of each     *)
(* sender, and the msgQueue it takes them from.                            *)
(*                                                                         *)
(* msgQueue is a ConcurrentQueue: one stream of messages for each thread   *)
(* that puts some in it, taken from in any order.  try_dequeue looks at    *)
(* the streams one after the other; it may find each of them empty         *)
(* although at no moment all of them were, as long as someone puts         *)
(* messages in them.                                                       *)
(***************************************************************************)
EXTENDS Sequences, SequencesExt

VARIABLES msgQueue,     \* a sequence of messages for each producer
          table,        \* m_table
          console,      \* where the console thread is; "new": not yet constructed
          m_shutdown

Empty == \A p \in DOMAIN msgQueue : msgQueue[p] = <<>>

Put(p, sender, text) ==
  msgQueue' = [msgQueue EXCEPT ![p] = Append(@, [sender |-> sender, text |-> text])]

\* msgOutput = new MsgOutput(filename, msgQueue)
Construct == /\ console = "new"
             /\ console' = "try"
             /\ UNCHANGED <<msgQueue, table, m_shutdown>>

\* Slip: map::insert, which keeps the line there is.
ShowsFirst(p) ==
  /\ console \in {"try", "drain"}
  /\ msgQueue[p] # <<>>
  /\ LET msg == Head(msgQueue[p]) IN
     table' = IF table[msg.sender] = <<>> THEN [table EXCEPT ![msg.sender] = msg.text]
              ELSE table
  /\ msgQueue' = [msgQueue EXCEPT ![p] = Tail(@)]
  /\ UNCHANGED <<console, m_shutdown>>

\* try_dequeue succeeds: m_table[msg.sender] = msg.text; printTable();
Shows(p) ==
  /\ console \in {"try", "drain"}
  /\ msgQueue[p] # <<>>
  /\ LET msg == Head(msgQueue[p]) IN table' = [table EXCEPT ![msg.sender] = msg.text]
  /\ msgQueue' = [msgQueue EXCEPT ![p] = Tail(@)]
  /\ UNCHANGED <<console, m_shutdown>>

\* try_dequeue fails; "quiet" if no thread is putting messages in.
Misses(quiet) ==
  /\ console \in {"try", "drain"}
  /\ quiet => Empty
  /\ console' = IF console = "try" THEN "test" ELSE "ended"
  /\ UNCHANGED <<msgQueue, table, m_shutdown>>

\* Slip: shut down as soon as the queue has been seen empty.
TestAndLeave ==
  /\ console = "test"
  /\ console' = IF m_shutdown THEN "ended" ELSE "sleep"
  /\ UNCHANGED <<msgQueue, table, m_shutdown>>

\* if(!m_shutdown.load()) ... else ...
Test ==
  /\ console = "test"
  /\ console' = IF m_shutdown THEN "lastSleep" ELSE "sleep"
  /\ UNCHANGED <<msgQueue, table, m_shutdown>>

\* sleep_for(250 ms), then back to the loop, or to the one that empties the queue.
Wakes ==
  /\ console \in {"sleep", "lastSleep"}
  /\ console' = IF console = "sleep" THEN "try" ELSE "drain"
  /\ UNCHANGED <<msgQueue, table, m_shutdown>>

Step(quiet) == \/ Construct \/ \E p \in DOMAIN msgQueue : Shows(p)
               \/ Misses(quiet) \/ Test \/ Wakes

\* Callable::shutdown(), called by processFile's thread.
Shutdown == m_shutdown' = TRUE /\ UNCHANGED <<msgQueue, table, console>>
=============================================================================
