------------------------------ MODULE RevQueue ------------------------------
(***************************************************************************)
(* One SqQueue of minermonitor/rev_queue.c, at the grain at which the two  *)
(* threads of miner-monitor touch it: pthr_rev puts packets in, main takes *)
(* them out, and nothing guards the queue (the semaphores of client.c are  *)
(* commented out).  EnQueue and DeQueue are each a test of the indices,    *)
(* the slot, the load of the thread's own index and its store.  The index  *)
(* a call goes by is in a register (rev_rear, deal_front), loaded by the   *)
(* test; the compiler may load it again wherever the source names it.      *)
(*                                                                         *)
(* ClearQueue is called by pthr_rev (rev_data_struct, when recv fails) and *)
(* by the SIGUSR1/SIGUSR2 handler, which callapi raises on the main thread *)
(* while that thread is not in DeQueue.  Its two stores are two steps.     *)
(*                                                                         *)
(* MainClearSpec is the queue with the handlers' clears, Spec has those of *)
(* pthr_rev too.                                                           *)
(***************************************************************************)
EXTENDS Integers, Sequences

CONSTANTS
  MAXQSIZE,  \* number of slots
  Packets,   \* the packets the server may send
  Garbage    \* what malloc leaves in a slot never written

ASSUME QSizeAssumption == MAXQSIZE \in Nat /\ MAXQSIZE > 1
ASSUME GarbageAssumption == Garbage \notin Packets

VARIABLES
  base,          \* the slots
  front, rear,   \* index of the head, index after the tail
  rev,           \* where pthr_rev is in a call on the queue
  rev_rear,      \* the rear EnQueue goes by, 0 outside it
  deal,          \* where main is in a call on the queue
  deal_front,    \* the front DeQueue goes by, 0 outside it
  deal_package,  \* the packet main took last
  torn           \* history: main's last ClearQueue met an EnQueue half done

vars == <<base, front, rear, rev, rev_rear, deal, deal_front, deal_package, torn>>
revVars == <<rev, rev_rear>>
dealVars == <<deal, deal_front, deal_package>>

Slot == 0 .. MAXQSIZE - 1
Succ(i) == (i + 1) % MAXQSIZE

\* QueueEmpty and NUL_Queue test the first, FUL_Queue and pthr_rev the second.
Empty == front = rear
Full == Succ(rear) = front
Distance(i, j) == (j - i + MAXQSIZE) % MAXQSIZE
QueueLength == Distance(front, rear)

\* The places inside EnQueue, DeQueue and ClearQueue; in the last the index
\* named is still to be stored.
InEnQueue == {"tested", "stored", "loaded"}
InDeQueue == {"tested", "copied", "loaded"}
Clearing == {"zero_front", "zero_rear"}

TypeOK ==
  /\ base \in [Slot -> Packets \cup {Garbage}]
  /\ front \in Slot
  /\ rear \in Slot
  /\ rev \in {"idle"} \cup InEnQueue \cup Clearing
  /\ rev_rear \in Slot
  /\ deal \in {"idle"} \cup InDeQueue \cup Clearing
  /\ deal_front \in Slot
  /\ deal_package \in Packets \cup {Garbage}
  /\ torn \in BOOLEAN

\* deal_package is a zeroed global before the first DeQueue; which packet it
\* stands for does not matter to the queue.
InitQueue ==
  /\ base = [i \in Slot |-> Garbage]
  /\ front = 0
  /\ rear = 0
  /\ rev = "idle"
  /\ rev_rear = 0
  /\ deal = "idle"
  /\ deal_front = 0
  /\ deal_package \in Packets
  /\ torn = FALSE

-----------------------------------------------------------------------------
\* Mutant: EnQueue without its test of FUL_Queue.
EnQueueUnchecked ==
  /\ rev = "idle"
  /\ rev' = "tested"
  /\ rev_rear' = rear
  /\ UNCHANGED <<base, front, rear, dealVars, torn>>

\* EnQueue, on pthr_rev
EnQueueTest ==
  /\ rev = "idle"
  /\ ~Full
  /\ rev' = "tested"
  /\ rev_rear' = rear
  /\ UNCHANGED <<base, front, rear, dealVars, torn>>

EnQueueStore(p) ==
  /\ rev = "tested"
  /\ rev_rear' \in {rev_rear, rear}
  /\ base' = [base EXCEPT ![rev_rear'] = p]
  /\ rev' = "stored"
  /\ UNCHANGED <<front, rear, dealVars, torn>>

EnQueueLoad ==
  /\ rev = "stored"
  /\ rev_rear' \in {rev_rear, rear}
  /\ rev' = "loaded"
  /\ UNCHANGED <<base, front, rear, dealVars, torn>>

\* Mutant: rear is not taken modulo MAXQSIZE.
EnQueueAdvanceNoWrap ==
  /\ rev = "loaded"
  /\ rear' = rev_rear + 1
  /\ rev' = "idle"
  /\ rev_rear' = 0
  /\ UNCHANGED <<base, front, dealVars, torn>>

EnQueueAdvance ==
  /\ rev = "loaded"
  /\ rear' = Succ(rev_rear)
  /\ rev' = "idle"
  /\ rev_rear' = 0
  /\ UNCHANGED <<base, front, dealVars, torn>>

\* DeQueue, on main
DeQueueTest ==
  /\ deal = "idle"
  /\ ~Empty
  /\ deal' = "tested"
  /\ deal_front' = front
  /\ UNCHANGED <<base, front, rear, revVars, deal_package, torn>>

\* Mutant: front is taken for the slot before the head.
DeQueueCopyNext ==
  /\ deal = "tested"
  /\ deal_front' = front
  /\ deal_package' = base[Succ(front)]
  /\ deal' = "copied"
  /\ UNCHANGED <<base, front, rear, revVars, torn>>

DeQueueCopy ==
  /\ deal = "tested"
  /\ deal_front' \in {deal_front, front}
  /\ deal_package' = base[deal_front']
  /\ deal' = "copied"
  /\ UNCHANGED <<base, front, rear, revVars, torn>>

DeQueueLoad ==
  /\ deal = "copied"
  /\ deal_front' \in {deal_front, front}
  /\ deal' = "loaded"
  /\ UNCHANGED <<base, front, rear, revVars, deal_package, torn>>

DeQueueAdvance ==
  /\ deal = "loaded"
  /\ front' = Succ(deal_front)
  /\ deal' = "idle"
  /\ deal_front' = 0
  /\ UNCHANGED <<base, rear, revVars, deal_package, torn>>

FifoNext ==
  \/ EnQueueTest \/ EnQueueLoad \/ EnQueueAdvance
  \/ \E p \in Packets : EnQueueStore(p)
  \/ DeQueueTest \/ DeQueueCopy \/ DeQueueLoad \/ DeQueueAdvance

-----------------------------------------------------------------------------
\* ClearQueue: front = rear = 0 is two stores, which the compiler may order
\* either way.  Other is where the calling thread goes between them.
ZeroOne(left) ==
  \/ left = "zero_front" /\ rear' = 0 /\ UNCHANGED front
  \/ left = "zero_rear" /\ front' = 0 /\ UNCHANGED rear

ZeroOther(left) ==
  \/ left = "zero_front" /\ front' = 0 /\ UNCHANGED rear
  \/ left = "zero_rear" /\ rear' = 0 /\ UNCHANGED front

RevClearQueue ==
  /\ \/ rev = "idle" /\ rev' \in Clearing /\ ZeroOne(rev')
     \/ rev \in Clearing /\ rev' = "idle" /\ ZeroOther(rev)
  /\ UNCHANGED <<base, rev_rear, dealVars, torn>>

\* Mutant: a signal from elsewhere clears the queue inside main's DeQueue.
MainClearQueueAnywhere ==
  /\ front' = 0 /\ rear' = 0
  /\ torn' = (rev # "idle")
  /\ UNCHANGED <<base, revVars, dealVars>>

MainClearQueue ==
  /\ \/ /\ deal = "idle" /\ deal' \in Clearing
        /\ ZeroOne(deal')
        /\ torn' = (rev # "idle")
     \/ /\ deal \in Clearing /\ deal' = "idle"
        /\ ZeroOther(deal)
        /\ torn' = (torn \/ rev # "idle")
  /\ UNCHANGED <<base, revVars, deal_front, deal_package>>

MainClearNext == FifoNext \/ MainClearQueue
Next == MainClearNext \/ RevClearQueue

MainClearSpec == InitQueue /\ [][MainClearNext]_vars
Spec == InitQueue /\ [][Next]_vars

-----------------------------------------------------------------------------
\* A call that passed its test of the indices finds them as it left them
\* until it advances its own: the queue neither fills up under EnQueue nor
\* runs empty under DeQueue.  A clear in the middle of an EnQueue ends that,
\* until the next clear.
TestsStillHold ==
  ~torn => /\ rev \in InEnQueue => ~Full
           /\ deal \in InDeQueue => ~Empty

\* The register of a call is its index, until a clear of the other thread.
RegistersHold ==
  /\ ~torn /\ rev \in InEnQueue => rev_rear = rear
  /\ deal \in InDeQueue => deal_front = front

\* rear moves only past a slot that holds a received packet.
StoredIsReceived ==
  ~torn /\ rev \in {"stored", "loaded"} => base[rev_rear] \in Packets

\* Until both its stores are done, ClearQueue leaves no packet in front of
\* the old head that the new one would skip.
ClearingStarts ==
  /\ deal = "zero_rear" => front = 0
  /\ deal = "zero_front" /\ ~torn => rear < front \/ front = 0

FifoInv ==
  TypeOK /\ TestsStillHold /\ RegistersHold /\ StoredIsReceived /\ ClearingStarts

\* What is in the queue for main's next DeQueue.  A slot main has copied is
\* out of the queue though front still names it; a queue being cleared
\* starts at slot 0, and what comes in before rear is zeroed is lost.
Front0 ==
  CASE deal \in {"copied", "loaded"} -> Succ(front)
    [] deal \in Clearing -> 0
    [] OTHER -> front
Rear0 == IF deal = "zero_rear" THEN 0 ELSE rear
Waiting == [i \in 1 .. Distance(Front0, Rear0) |-> base[(Front0 + i - 1) % MAXQSIZE]]

\* The queue is a FIFO of MAXQSIZE - 1 packets, in which nothing is lost,
\* repeated, overtaken or read before it is whole, and which a clear empties;
\* from a clear that met an EnQueue half done to the next clear it is not.
Fifo == INSTANCE PkgFifo
          WITH Capacity <- MAXQSIZE - 1, queue <- Waiting, out <- deal_package
FifoRefinement == Fifo!Spec

\* Every packet main takes is one the receiver put in, torn or not.  Holds
\* with the handlers' clears; one on pthr_rev breaks it.
TakenWasReceived == deal_package # Garbage
=============================================================================
