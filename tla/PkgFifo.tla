------------------------------ MODULE PkgFifo -------------------------------
(***************************************************************************)
(* What a packet queue between the receiver thread and the main thread of  *)
(* miner-monitor promises: a FIFO of at most Capacity packets.  Put is the *)
(* receiver's, Get is the main thread's, and the packet that Get returns   *)
(* is the value of out.  Clear is the handlers', on the main thread.  A    *)
(* clear that meets a Put half done is Tear: the queue promises nothing    *)
(* until the next one.                                                     *)
(***************************************************************************)
EXTENDS Naturals, Sequences

CONSTANTS
  Packets,   \* the packets the server may send
  Capacity   \* the largest number of packets waiting

VARIABLES
  queue,     \* packets waiting, oldest first
  out,       \* the packet last taken
  torn       \* the last clear met a Put half done

vars == <<queue, out, torn>>

Put(p) ==
  /\ ~torn
  /\ Len(queue) < Capacity
  /\ queue' = Append(queue, p)
  /\ UNCHANGED <<out, torn>>

Get ==
  /\ ~torn
  /\ queue # <<>>
  /\ out' = Head(queue)
  /\ queue' = Tail(queue)
  /\ UNCHANGED torn

Clear ==
  /\ queue' = <<>>
  /\ torn' = FALSE
  /\ UNCHANGED out

Tear == torn' = TRUE /\ UNCHANGED out
Torn == torn /\ torn'

Init == queue = <<>> /\ torn = FALSE
Next == Get \/ Clear \/ Tear \/ Torn \/ \E p \in Packets : Put(p)

Spec == Init /\ [][Next]_vars
=============================================================================
