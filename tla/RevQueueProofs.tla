--------------------------- MODULE RevQueueProofs ---------------------------
(***************************************************************************)
(* Proofs about one packet queue of miner-monitor, for every MAXQSIZE and  *)
(* every set of packets, with the handlers' clears on main: the index      *)
(* discipline of EnQueue and DeQueue holds (FifoInv), the queue is the     *)
(* FIFO PkgFifo, and main takes only packets that were received (TakenInv).*)
(***************************************************************************)
EXTENDS RevQueue, TLAPS

\* An index that went past the last slot at most once wraps by one subtraction.
LEMMA ModBelow ==
  ASSUME NEW i \in Int, 0 <= i, i < 2 * MAXQSIZE
  PROVE  i % MAXQSIZE = IF i < MAXQSIZE THEN i ELSE i - MAXQSIZE
BY QSizeAssumption

\* The successor of an index wraps at the last slot.
LEMMA SuccCases ==
  ASSUME NEW i \in Slot
  PROVE  /\ Succ(i) = IF i = MAXQSIZE - 1 THEN 0 ELSE i + 1
         /\ Succ(i) \in Slot
         /\ Succ(i) # i
BY QSizeAssumption, ModBelow DEF Slot, Succ

\* Two indices with one successor are the same.
LEMMA SuccInjective ==
  ASSUME NEW i \in Slot, NEW j \in Slot, Succ(i) = Succ(j)
  PROVE  i = j
<1>1. MAXQSIZE \in Nat /\ i \in 0 .. MAXQSIZE - 1 /\ j \in 0 .. MAXQSIZE - 1
  BY QSizeAssumption DEF Slot
<1>2. (IF i = MAXQSIZE - 1 THEN 0 ELSE i + 1) = (IF j = MAXQSIZE - 1 THEN 0 ELSE j + 1)
  BY SuccCases
<1> QED
  BY <1>1, <1>2

\* The distance from one index to another, going up and round.
LEMMA DistanceCases ==
  ASSUME NEW h \in Slot, NEW r \in Slot
  PROVE  /\ Distance(h, r) = IF h <= r THEN r - h ELSE r - h + MAXQSIZE
         /\ Distance(h, r) \in 0 .. MAXQSIZE - 1
<1>1. r - h + MAXQSIZE \in Int /\ 0 <= r - h + MAXQSIZE /\ r - h + MAXQSIZE < 2 * MAXQSIZE
  BY QSizeAssumption DEF Slot
<1> QED
  BY <1>1, ModBelow, QSizeAssumption DEF Slot, Distance

-----------------------------------------------------------------------------
\* The queue InitQueue makes is empty, with both indices on the first slot.
LEMMA FifoInvInit == InitQueue => FifoInv
<1>1. 0 \in Slot
  BY QSizeAssumption DEF Slot
<1>2. InitQueue => TypeOK
  BY <1>1 DEF InitQueue, TypeOK
<1>3. InitQueue => TestsStillHold /\ RegistersHold /\ StoredIsReceived /\ ClearingStarts
  BY DEF InitQueue, TestsStillHold, RegistersHold, StoredIsReceived, ClearingStarts,
         InEnQueue, InDeQueue
<1> QED
  BY <1>2, <1>3 DEF FifoInv

\* No step of EnQueue or DeQueue on its own thread breaks FifoInv, nor does a
\* clear on main.
LEMMA FifoInvStep == FifoInv /\ [MainClearNext]_vars => FifoInv'
<1> SUFFICES ASSUME FifoInv, [MainClearNext]_vars
             PROVE  FifoInv'
  OBVIOUS
<1>0. TypeOK /\ TestsStillHold /\ RegistersHold /\ StoredIsReceived /\ ClearingStarts
      /\ front \in Slot /\ rear \in Slot /\ rev_rear \in Slot /\ deal_front \in Slot
      /\ base \in [Slot -> Packets \cup {Garbage}] /\ 0 \in Slot
  BY QSizeAssumption DEF FifoInv, TypeOK, Slot
<1> USE DEF InEnQueue, InDeQueue, Clearing, dealVars, revVars
<1>1. CASE EnQueueTest
  <2>1. TypeOK'
    BY <1>0, <1>1 DEF EnQueueTest, TypeOK
  <2>2. TestsStillHold' /\ RegistersHold' /\ StoredIsReceived' /\ ClearingStarts'
    BY <1>0, <1>1
       DEF EnQueueTest, TestsStillHold, RegistersHold, StoredIsReceived, ClearingStarts,
           Full, Empty, Succ
  <2> QED
    BY <2>1, <2>2 DEF FifoInv
<1>2. ASSUME NEW p \in Packets, EnQueueStore(p)
      PROVE  FifoInv'
  <2>1. TypeOK'
    BY <1>0, <1>2 DEF EnQueueStore, TypeOK
  <2>2. TestsStillHold' /\ RegistersHold' /\ ClearingStarts'
    BY <1>0, <1>2
       DEF EnQueueStore, TestsStillHold, RegistersHold, ClearingStarts, Full, Empty, Succ
  <2>3. rev_rear' \in Slot /\ base' = [base EXCEPT ![rev_rear'] = p]
    BY <1>0, <1>2 DEF EnQueueStore
  <2>4. base'[rev_rear'] = p
    BY <2>3, <1>0
  <2>5. StoredIsReceived'
    BY <2>4 DEF StoredIsReceived
  <2> QED
    BY <2>1, <2>2, <2>5 DEF FifoInv
<1>3. CASE EnQueueLoad
  <2>1. TypeOK'
    BY <1>0, <1>3 DEF EnQueueLoad, TypeOK
  <2>2. TestsStillHold' /\ RegistersHold' /\ StoredIsReceived' /\ ClearingStarts'
    BY <1>0, <1>3
       DEF EnQueueLoad, TestsStillHold, RegistersHold, StoredIsReceived, ClearingStarts,
           Full, Empty, Succ
  <2> QED
    BY <2>1, <2>2 DEF FifoInv
<1>4. CASE EnQueueAdvance
  <2>1. /\ rev = "loaded" /\ rev' = "idle" /\ rev_rear' = 0 /\ rear' = Succ(rev_rear)
        /\ base' = base /\ front' = front /\ torn' = torn
        /\ deal' = deal /\ deal_front' = deal_front /\ deal_package' = deal_package
    BY <1>4 DEF EnQueueAdvance
  <2>2. Succ(rev_rear) \in Slot
    BY <1>0, SuccCases
  <2>3. TypeOK'
    BY <2>1, <2>2, <1>0 DEF TypeOK
  <2>4. ~torn => rear' = Succ(rear) /\ rear' # front
    BY <2>1, <1>0 DEF TestsStillHold, RegistersHold, Full
  <2>5. TestsStillHold' /\ RegistersHold' /\ StoredIsReceived'
    BY <2>1, <2>4, <1>0 DEF TestsStillHold, RegistersHold, StoredIsReceived, Empty
  <2>6. rear < front /\ ~torn => rear' < front
    <3>1. Succ(rear) = IF rear = MAXQSIZE - 1 THEN 0 ELSE rear + 1
      BY <1>0, SuccCases
    <3>2. MAXQSIZE \in Nat /\ front \in 0 .. MAXQSIZE - 1 /\ rear \in 0 .. MAXQSIZE - 1
      BY <1>0, QSizeAssumption DEF Slot
    <3> QED
      BY <2>4, <3>1, <3>2
  <2>7. ClearingStarts'
    BY <2>1, <2>6, <1>0 DEF ClearingStarts
  <2> QED
    BY <2>3, <2>5, <2>7 DEF FifoInv
<1>5. CASE DeQueueTest
  <2>1. TypeOK'
    BY <1>0, <1>5 DEF DeQueueTest, TypeOK
  <2>2. TestsStillHold' /\ RegistersHold' /\ StoredIsReceived' /\ ClearingStarts'
    BY <1>0, <1>5
       DEF DeQueueTest, TestsStillHold, RegistersHold, StoredIsReceived, ClearingStarts,
           Full, Empty, Succ
  <2> QED
    BY <2>1, <2>2 DEF FifoInv
<1>6. CASE DeQueueCopy
  <2>1. deal_front' \in Slot /\ deal_package' = base[deal_front']
    BY <1>0, <1>6 DEF DeQueueCopy
  <2>2. deal_package' \in Packets \cup {Garbage}
    BY <2>1, <1>0
  <2>3. TypeOK'
    BY <2>1, <2>2, <1>0, <1>6 DEF DeQueueCopy, TypeOK
  <2>4. TestsStillHold' /\ RegistersHold' /\ StoredIsReceived' /\ ClearingStarts'
    BY <1>0, <1>6
       DEF DeQueueCopy, TestsStillHold, RegistersHold, StoredIsReceived, ClearingStarts,
           Full, Empty, Succ
  <2> QED
    BY <2>3, <2>4 DEF FifoInv
<1>7. CASE DeQueueLoad
  <2>1. TypeOK'
    BY <1>0, <1>7 DEF DeQueueLoad, TypeOK
  <2>2. TestsStillHold' /\ RegistersHold' /\ StoredIsReceived' /\ ClearingStarts'
    BY <1>0, <1>7
       DEF DeQueueLoad, TestsStillHold, RegistersHold, StoredIsReceived, ClearingStarts,
           Full, Empty, Succ
  <2> QED
    BY <2>1, <2>2 DEF FifoInv
<1>8. CASE DeQueueAdvance
  <2>1. /\ deal = "loaded" /\ deal' = "idle" /\ deal_front' = 0
        /\ base' = base /\ rear' = rear /\ torn' = torn
        /\ rev' = rev /\ rev_rear' = rev_rear /\ deal_package' = deal_package
    BY <1>8 DEF DeQueueAdvance
  <2>2. front' = Succ(front)
    BY <1>0, <1>8 DEF DeQueueAdvance, RegistersHold
  <2>3. Succ(front) \in Slot
    BY <1>0, SuccCases
  <2>4. TypeOK'
    BY <2>1, <2>2, <2>3, <1>0 DEF TypeOK
  <2>5. ~torn => Succ(rear) # Succ(front)
    BY <2>1, <1>0, SuccInjective DEF TestsStillHold, Empty
  <2>6. Succ(rear)' = Succ(rear)
    BY <2>1 DEF Succ
  <2>7. TestsStillHold'
    BY <2>1, <2>2, <2>5, <2>6 DEF TestsStillHold, Full
  <2>8. RegistersHold' /\ StoredIsReceived' /\ ClearingStarts'
    BY <2>1, <1>0 DEF RegistersHold, StoredIsReceived, ClearingStarts
  <2> QED
    BY <2>4, <2>7, <2>8 DEF FifoInv
<1>9. CASE MainClearQueue
  <2>1. /\ base' = base /\ rev' = rev /\ rev_rear' = rev_rear
        /\ deal_front' = deal_front /\ deal_package' = deal_package
        /\ front' \in {0, front} /\ rear' \in {0, rear}
        /\ deal' \in {"idle", "zero_front", "zero_rear"}
        /\ torn' \in BOOLEAN /\ (~torn' => rev = "idle")
        /\ deal' = "zero_rear" => front' = 0
        /\ deal' = "zero_front" => rear' = 0
    BY <1>0, <1>9 DEF MainClearQueue, ZeroOne, ZeroOther, TypeOK
  <2>2. TypeOK'
    BY <2>1, <1>0 DEF TypeOK
  <2>3. TestsStillHold' /\ RegistersHold' /\ StoredIsReceived'
    BY <2>1 DEF TestsStillHold, RegistersHold, StoredIsReceived
  <2>4. front' \in Slot /\ (rear' = 0 => rear' < front' \/ front' = 0)
    BY <2>1, <1>0, QSizeAssumption DEF Slot
  <2>5. ClearingStarts'
    BY <2>1, <2>4 DEF ClearingStarts
  <2> QED
    BY <2>2, <2>3, <2>5 DEF FifoInv
<1>10. CASE UNCHANGED vars
  BY <1>0, <1>10
     DEF vars, FifoInv, TypeOK, TestsStillHold, RegistersHold, StoredIsReceived, ClearingStarts,
         Full, Empty, Succ
<1> QED
  BY <1>1, <1>2, <1>3, <1>4, <1>5, <1>6, <1>7, <1>8, <1>9, <1>10 DEF MainClearNext, FifoNext

\* The indices stay in range, and unless a clear met an EnQueue half done the
\* queue does not fill up between EnQueue's test and its store of rear, nor
\* run empty between DeQueue's test and its store of front.
THEOREM FifoInvariant == MainClearSpec => []FifoInv
BY FifoInvInit, FifoInvStep, PTL DEF MainClearSpec

\* The indices name slots and every slot holds a packet or what was there
\* before, whatever clears main makes.
THEOREM IndicesInRange == MainClearSpec => []TypeOK
<1>1. FifoInv => TypeOK
  BY DEF FifoInv
<1> QED
  BY <1>1, FifoInvariant, PTL

\* The test that let EnQueue or DeQueue begin is still true when it advances
\* its index, though the other thread has moved on in between.
THEOREM TestsHold == MainClearSpec => []TestsStillHold
<1>1. FifoInv => TestsStillHold
  BY DEF FifoInv
<1> QED
  BY <1>1, FifoInvariant, PTL

-----------------------------------------------------------------------------
\* The window of slots between the head h and the tail r: each is a slot and
\* none is r.
LEMMA WindowIndex ==
  ASSUME NEW h \in Slot, NEW r \in Slot, NEW i \in 1 .. Distance(h, r)
  PROVE  /\ (h + i - 1) % MAXQSIZE \in Slot
         /\ (h + i - 1) % MAXQSIZE # r
<1>1. i \in Int /\ 1 <= i /\ i <= IF h <= r THEN r - h ELSE r - h + MAXQSIZE
  BY DistanceCases
<1> DEFINE k == h + i - 1
<1>2. k \in Int /\ 0 <= k /\ k < 2 * MAXQSIZE
  BY <1>1, QSizeAssumption DEF Slot
<1>3. k % MAXQSIZE = IF k < MAXQSIZE THEN k ELSE k - MAXQSIZE
  <2> HIDE DEF k
  <2> QED
    BY <1>2, ModBelow
<1> QED
  BY <1>1, <1>3, QSizeAssumption DEF Slot

\* The window of Succ(h) is that of h without its first slot.
LEMMA WindowShift ==
  ASSUME NEW h \in Slot, NEW r \in Slot, h # r
  PROVE  /\ Distance(Succ(h), r) = Distance(h, r) - 1
         /\ \A i \in 1 .. Distance(Succ(h), r) :
              (Succ(h) + i - 1) % MAXQSIZE = (h + (i + 1) - 1) % MAXQSIZE
<1>1. Succ(h) \in Slot /\ Succ(h) = IF h = MAXQSIZE - 1 THEN 0 ELSE h + 1
  BY SuccCases
<1>2. Distance(Succ(h), r) = IF Succ(h) <= r THEN r - Succ(h) ELSE r - Succ(h) + MAXQSIZE
  BY <1>1, DistanceCases
<1>3. Distance(h, r) = IF h <= r THEN r - h ELSE r - h + MAXQSIZE
  BY DistanceCases
<1>4. Distance(Succ(h), r) = Distance(h, r) - 1
  BY <1>1, <1>2, <1>3, QSizeAssumption DEF Slot
<1>5. ASSUME NEW i \in 1 .. Distance(Succ(h), r)
      PROVE  (Succ(h) + i - 1) % MAXQSIZE = (h + (i + 1) - 1) % MAXQSIZE
  <2>1. i \in Int /\ 1 <= i /\ i <= Distance(h, r) - 1 /\ i <= MAXQSIZE - 2
    BY <1>4, DistanceCases, QSizeAssumption
  <2> DEFINE k == Succ(h) + i - 1
             m == h + (i + 1) - 1
  <2>2. k \in Int /\ 0 <= k /\ k < 2 * MAXQSIZE
    BY <1>1, <2>1, QSizeAssumption DEF Slot
  <2>3. m \in Int /\ 0 <= m /\ m < 2 * MAXQSIZE
    BY <2>1, QSizeAssumption DEF Slot
  <2>4. k % MAXQSIZE = IF k < MAXQSIZE THEN k ELSE k - MAXQSIZE
    <3> HIDE DEF k
    <3> QED
      BY <2>2, ModBelow
  <2>5. m % MAXQSIZE = IF m < MAXQSIZE THEN m ELSE m - MAXQSIZE
    <3> HIDE DEF m
    <3> QED
      BY <2>3, ModBelow
  <2>6. CASE h = MAXQSIZE - 1
    BY <1>1, <2>1, <2>4, <2>5, <2>6, QSizeAssumption DEF Slot
  <2>7. CASE h # MAXQSIZE - 1
    BY <1>1, <2>1, <2>4, <2>5, <2>7, QSizeAssumption DEF Slot
  <2> QED
    BY <2>6, <2>7
<1> QED
  BY <1>4, <1>5

\* Advancing r past slot r adds r at the end of the window.
LEMMA WindowGrow ==
  ASSUME NEW h \in Slot, NEW r \in Slot, Succ(r) # h
  PROVE  /\ Distance(h, Succ(r)) = Distance(h, r) + 1
         /\ Distance(h, r) < MAXQSIZE - 1
         /\ (h + Distance(h, Succ(r)) - 1) % MAXQSIZE = r
<1>1. Succ(r) \in Slot /\ Succ(r) = IF r = MAXQSIZE - 1 THEN 0 ELSE r + 1
  BY SuccCases
<1>2. Distance(h, Succ(r)) = IF h <= Succ(r) THEN Succ(r) - h ELSE Succ(r) - h + MAXQSIZE
  BY <1>1, DistanceCases
<1>3. Distance(h, r) = IF h <= r THEN r - h ELSE r - h + MAXQSIZE
  BY DistanceCases
<1>4. Distance(h, Succ(r)) = Distance(h, r) + 1 /\ Distance(h, r) < MAXQSIZE - 1
  BY <1>1, <1>2, <1>3, QSizeAssumption DEF Slot
<1>5. h + Distance(h, Succ(r)) - 1 \in Int /\ 0 <= h + Distance(h, Succ(r)) - 1 /\ h + Distance(h, Succ(r)) - 1 < 2 * MAXQSIZE
  BY <1>3, <1>4, QSizeAssumption DEF Slot
<1>6. (h + Distance(h, Succ(r)) - 1) % MAXQSIZE = r
  BY <1>3, <1>4, <1>5, ModBelow, QSizeAssumption DEF Slot
<1> QED
  BY <1>4, <1>6

-----------------------------------------------------------------------------
\* The window between the next slot DeQueue is to read and the tail lies on slots.
LEMMA EndsInSlot ==
  ASSUME TypeOK
  PROVE  Front0 \in Slot /\ Rear0 \in Slot
<1>1. 0 \in Slot
  BY QSizeAssumption DEF Slot
<1> QED
  BY <1>1, SuccCases DEF TypeOK, Front0, Rear0

\* Waiting is a sequence as long as the window.
LEMMA WaitingSeq ==
  ASSUME TypeOK
  PROVE  /\ Waiting \in Seq(Packets \cup {Garbage})
         /\ Len(Waiting) = Distance(Front0, Rear0)
         /\ \A i \in 1 .. Distance(Front0, Rear0) :
              Waiting[i] = base[(Front0 + i - 1) % MAXQSIZE]
<1>1. Front0 \in Slot /\ Rear0 \in Slot
  BY EndsInSlot
<1>2. Distance(Front0, Rear0) \in Nat
  BY <1>1, DistanceCases, QSizeAssumption
<1>3. \A i \in 1 .. Distance(Front0, Rear0) :
        base[(Front0 + i - 1) % MAXQSIZE] \in Packets \cup {Garbage}
  BY <1>1, WindowIndex DEF TypeOK
<1> QED
  BY <1>2, <1>3 DEF Waiting

\* A window that ends where it begins holds nothing.
LEMMA EmptyWindow == TypeOK /\ Front0 = Rear0 => Waiting = <<>>
<1> SUFFICES ASSUME TypeOK, Front0 = Rear0
             PROVE  Waiting = <<>>
  OBVIOUS
<1>1. Distance(Front0, Rear0) = 0
  BY EndsInSlot, DistanceCases, QSizeAssumption DEF Slot
<1> QED
  BY <1>1, WaitingSeq

\* So after a step.
LEMMA EmptyWindowNext == (TypeOK /\ Front0 = Rear0)' => (Waiting = <<>>)'
BY EmptyWindow, PTL

\* A step that changes neither end of the window nor a slot leaves the queue.
LEMMA SameWindow ==
  ASSUME Front0' = Front0, Rear0' = Rear0, base' = base
  PROVE  Waiting' = Waiting
BY DEF Waiting, Distance

\* The queue InitQueue makes is the empty FIFO.
LEMMA InitRefines == InitQueue => Fifo!Init
<1> SUFFICES ASSUME InitQueue
             PROVE  Waiting = <<>> /\ torn = FALSE
  BY DEF Fifo!Init
<1>1. TypeOK
  BY FifoInvInit DEF FifoInv
<1>2. Front0 = Rear0
  BY DEF InitQueue, Front0, Rear0, Clearing
<1> QED
  BY <1>1, <1>2, EmptyWindow DEF InitQueue

\* EnQueue's write of a slot is invisible: rear is not in the window.
LEMMA StoreRefines ==
  ASSUME FifoInv, ~torn, NEW p \in Packets, EnQueueStore(p)
  PROVE  Waiting' = Waiting
<1>1. TypeOK /\ Front0 \in Slot /\ Rear0 \in Slot
  BY EndsInSlot DEF FifoInv
<1>2. rev_rear' = rear /\ base' = [base EXCEPT ![rear] = p]
  BY DEF EnQueueStore, FifoInv, RegistersHold, InEnQueue
<1>3. Front0' = Front0 /\ Rear0' = Rear0
  BY DEF EnQueueStore, Front0, Rear0, dealVars
<1>4. CASE deal = "zero_rear"
  <2>1. Front0 = Rear0
    BY <1>4 DEF Front0, Rear0, Clearing
  <2>2. Distance(Front0, Rear0) = 0
    BY <1>1, <2>1, DistanceCases, QSizeAssumption DEF Slot
  <2>3. \A i \in 1 .. Distance(Front0, Rear0) : FALSE
    BY <2>2
  <2> QED
    BY <1>3, <2>3 DEF Waiting, Distance
<1>5. CASE deal # "zero_rear"
  <2>1. Rear0 = rear
    BY <1>5 DEF Rear0
  <2>2. \A i \in 1 .. Distance(Front0, Rear0) :
          base'[(Front0 + i - 1) % MAXQSIZE] = base[(Front0 + i - 1) % MAXQSIZE]
    BY <1>1, <1>2, <2>1, WindowIndex DEF TypeOK
  <2>3. Distance(Front0, Rear0)' = Distance(Front0, Rear0)
    BY <1>3 DEF Distance
  <2> QED
    BY <1>3, <2>2, <2>3 DEF Waiting
<1> QED
  BY <1>4, <1>5

\* EnQueue's store of rear is the Put of the packet in the slot.
LEMMA AdvanceRefines ==
  ASSUME FifoInv, ~torn, EnQueueAdvance, deal # "zero_rear"
  PROVE  Fifo!Put(base[rear])
<1>1. TypeOK /\ front \in Slot /\ Front0 \in Slot /\ rear \in Slot
  BY EndsInSlot DEF FifoInv, TypeOK
<1>2. Rear0 = rear /\ Rear0' = Succ(rear) /\ Front0' = Front0 /\ base' = base
  BY DEF EnQueueAdvance, Front0, Rear0, FifoInv, RegistersHold, InEnQueue, dealVars
<1>3. Succ(rear) # Front0
  <2>1. CASE deal \in {"copied", "loaded"}
    <3>1. front # rear
      BY <2>1 DEF FifoInv, TestsStillHold, Empty, InDeQueue
    <3>2. Succ(front) # Succ(rear)
      BY <3>1, <1>1, SuccInjective
    <3> QED
      BY <2>1, <3>2 DEF Front0, Clearing
  <2>2. CASE deal = "zero_front"
    <3>1. rear < front \/ front = 0
      BY <2>2 DEF FifoInv, ClearingStarts
    <3>2. Succ(rear) # front
      BY DEF FifoInv, TestsStillHold, Full, EnQueueAdvance, InEnQueue
    <3>3. Succ(rear) = IF rear = MAXQSIZE - 1 THEN 0 ELSE rear + 1
      BY <1>1, SuccCases
    <3>4. Succ(rear) # 0
      BY <3>1, <3>2, <3>3, <1>1, QSizeAssumption DEF Slot
    <3> QED
      BY <2>2, <3>4 DEF Front0, Clearing
  <2>3. CASE deal \notin {"copied", "loaded", "zero_front"}
    <3>1. Front0 = front
      BY <2>3 DEF Front0, Clearing
    <3> QED
      BY <3>1 DEF FifoInv, TestsStillHold, Full, EnQueueAdvance, InEnQueue
  <2> QED
    BY <2>1, <2>2, <2>3
<1> DEFINE n == Distance(Front0, rear)
<1>4. /\ n \in Nat
      /\ Distance(Front0, Rear0)' = n + 1
      /\ n < MAXQSIZE - 1
      /\ (Front0 + (n + 1) - 1) % MAXQSIZE = rear
  <2>1. Distance(Front0, Succ(rear)) = n + 1 /\ n < MAXQSIZE - 1
        /\ (Front0 + Distance(Front0, Succ(rear)) - 1) % MAXQSIZE = rear
    BY <1>1, <1>3, WindowGrow
  <2>2. n \in Nat
    BY <1>1, DistanceCases, QSizeAssumption
  <2>3. Distance(Front0, Rear0)' = Distance(Front0, Succ(rear))
    BY <1>2 DEF Distance
  <2> QED
    BY <2>1, <2>2, <2>3
<1>6. Waiting' = Append(Waiting, base[rear])
  <2>1. Waiting' = [i \in 1 .. n + 1 |-> base[(Front0 + i - 1) % MAXQSIZE]]
    BY <1>2, <1>4 DEF Waiting
  <2>2. /\ Waiting \in Seq(Packets \cup {Garbage})
        /\ Len(Waiting) = n
        /\ \A i \in 1 .. n : Waiting[i] = base[(Front0 + i - 1) % MAXQSIZE]
    BY <1>1, <1>2, WaitingSeq
  <2>3. base[rear] \in Packets \cup {Garbage}
    BY <1>1 DEF TypeOK
  <2>4. /\ Append(Waiting, base[rear]) \in Seq(Packets \cup {Garbage})
        /\ Len(Append(Waiting, base[rear])) = n + 1
        /\ \A i \in 1 .. n : Append(Waiting, base[rear])[i] = Waiting[i]
        /\ Append(Waiting, base[rear])[n + 1] = base[rear]
    BY <2>2, <2>3, <1>4
  <2>5. Len(Waiting') = n + 1 /\ Waiting' \in [1 .. n + 1 -> Packets \cup {Garbage}]
    <3>1. ASSUME NEW i \in 1 .. n + 1
          PROVE  base[(Front0 + i - 1) % MAXQSIZE] \in Packets \cup {Garbage}
      <4>1. CASE i = n + 1
        BY <4>1, <2>3, <1>4
      <4>2. CASE i # n + 1
        <5>1. i \in 1 .. n
          BY <4>2, <1>4
        <5> QED
          BY <5>1, <1>1, <1>1, WindowIndex DEF TypeOK
      <4> QED
        BY <4>1, <4>2
    <3> QED
      BY <2>1, <3>1, <1>4
  <2>6. ASSUME NEW i \in 1 .. n + 1
        PROVE  Waiting'[i] = Append(Waiting, base[rear])[i]
    <3>1. CASE i = n + 1
      BY <3>1, <2>1, <2>4, <1>4
    <3>2. CASE i # n + 1
      <4>1. i \in 1 .. n
        BY <3>2, <1>4
      <4> QED
        BY <4>1, <2>1, <2>2, <2>4
    <3> QED
      BY <3>1, <3>2
  <2> HIDE DEF n
  <2> QED
    BY <2>4, <2>5, <2>6
<1>7. Len(Waiting) < MAXQSIZE - 1
  BY <1>1, <1>2, <1>4, WaitingSeq
<1> QED
  BY <1>6, <1>7 DEF Fifo!Put, EnQueueAdvance, dealVars

\* DeQueue's copy of the head is the Get.
LEMMA CopyRefines ==
  ASSUME FifoInv, ~torn, DeQueueCopy
  PROVE  Fifo!Get
<1>1. front \in Slot /\ rear \in Slot /\ front # rear
  BY DEF FifoInv, TypeOK, DeQueueCopy, TestsStillHold, Empty, InDeQueue
<1>2. /\ Front0 = front /\ Front0' = Succ(front) /\ Rear0 = rear /\ Rear0' = rear
      /\ base' = base
  BY DEF DeQueueCopy, Front0, Rear0, Clearing
<1> DEFINE n == Distance(front, rear)
<1>3. n \in Nat /\ n > 0
  BY <1>1, DistanceCases, QSizeAssumption DEF Slot
<1>4. /\ Distance(Front0, Rear0)' = n - 1
      /\ \A i \in 1 .. n - 1 : (Succ(front) + i - 1) % MAXQSIZE = (front + (i + 1) - 1) % MAXQSIZE
  <2>1. Distance(Front0, Rear0)' = Distance(Succ(front), rear)
    BY <1>2 DEF Distance
  <2> QED
    BY <2>1, <1>1, WindowShift
<1>5. TypeOK
  BY DEF FifoInv
<1>6. /\ Waiting \in Seq(Packets \cup {Garbage})
      /\ Len(Waiting) = n
      /\ \A i \in 1 .. n : Waiting[i] = base[(front + i - 1) % MAXQSIZE]
  BY <1>2, <1>5, WaitingSeq
<1>7. Head(Waiting) = base[front]
  <2>1. (front + 1 - 1) % MAXQSIZE = front
    BY <1>1, ModBelow, QSizeAssumption DEF Slot
  <2> QED
    BY <2>1, <1>3, <1>6
<1>8. Waiting' = Tail(Waiting)
  <2>1. Waiting' = [i \in 1 .. n - 1 |-> base[(Succ(front) + i - 1) % MAXQSIZE]]
    BY <1>2, <1>4 DEF Waiting
  <2>2. Len(Waiting') = n - 1 /\ Waiting' \in [1 .. n - 1 -> Packets \cup {Garbage}]
    <3>1. ASSUME NEW i \in 1 .. n - 1
          PROVE  base[(Succ(front) + i - 1) % MAXQSIZE] \in Packets \cup {Garbage}
      <4>1. i + 1 \in 1 .. n
        BY <1>3
      <4> QED
        BY <4>1, <1>1, <1>4, <1>5, WindowIndex DEF TypeOK
    <3> QED
      BY <2>1, <3>1, <1>3
  <2>3. /\ Tail(Waiting) \in Seq(Packets \cup {Garbage})
        /\ Len(Tail(Waiting)) = n - 1
        /\ \A i \in 1 .. n - 1 : Tail(Waiting)[i] = Waiting[i + 1]
    BY <1>3, <1>6
  <2>4. ASSUME NEW i \in 1 .. n - 1
        PROVE  Waiting'[i] = Tail(Waiting)[i]
    <3>1. i + 1 \in 1 .. n
      BY <1>3
    <3> QED
      BY <3>1, <2>1, <2>3, <1>4, <1>6
  <2> HIDE DEF n
  <2> QED
    BY <2>2, <2>3, <2>4
<1>9. Waiting # <<>>
  BY <1>3, <1>6
<1>10. deal_package' = base[front]
  BY DEF DeQueueCopy, FifoInv, RegistersHold, InDeQueue
<1> QED
  BY <1>7, <1>8, <1>9, <1>10 DEF Fifo!Get, DeQueueCopy

\* The other steps of EnQueue and DeQueue are invisible: a slot main has copied
\* left the queue at the copy, and what EnQueue puts in a queue whose rear main
\* is about to zero never enters it.
LEMMA SilentRefines ==
  ASSUME FifoInv,
         \/ EnQueueTest \/ EnQueueLoad \/ DeQueueTest \/ DeQueueLoad \/ DeQueueAdvance
         \/ EnQueueAdvance /\ deal = "zero_rear"
         \/ UNCHANGED vars
  PROVE  UNCHANGED Fifo!vars
<1>1. base' = base /\ deal_package' = deal_package /\ torn' = torn
  BY DEF EnQueueTest, EnQueueLoad, DeQueueTest, DeQueueLoad, DeQueueAdvance, EnQueueAdvance, vars,
         dealVars, revVars
<1>2. Rear0' = Rear0
  BY DEF EnQueueTest, EnQueueLoad, DeQueueTest, DeQueueLoad, DeQueueAdvance, EnQueueAdvance, vars,
         dealVars, revVars, Rear0
<1>3. Front0' = Front0
  <2>1. CASE DeQueueAdvance
    <3>1. front' = Succ(front) /\ deal = "loaded" /\ deal' = "idle"
      BY <2>1 DEF DeQueueAdvance, FifoInv, RegistersHold, InDeQueue
    <3> QED
      BY <3>1 DEF Front0, Clearing
  <2>2. CASE ~DeQueueAdvance
    BY <2>2 DEF EnQueueTest, EnQueueLoad, DeQueueTest, DeQueueLoad, EnQueueAdvance, vars,
                dealVars, revVars, Front0, Clearing, Succ
  <2> QED
    BY <2>1, <2>2
<1> QED
  BY <1>1, <1>2, <1>3, SameWindow DEF Fifo!vars

\* The first store of main's clear is the Clear, or the Tear when EnQueue is half
\* done; the second is invisible unless EnQueue began in between.
LEMMA ClearRefines ==
  ASSUME FifoInv, MainClearQueue
  PROVE  Fifo!Clear \/ Fifo!Tear \/ UNCHANGED Fifo!vars
<1>1. deal_package' = deal_package /\ base' = base /\ torn \in BOOLEAN /\ torn' \in BOOLEAN
  BY DEF MainClearQueue, FifoInv, TypeOK
<1>2. CASE torn'
  BY <1>1, <1>2 DEF Fifo!Tear
<1>3. CASE ~torn' /\ deal = "idle"
  <2>1. \/ deal' = "zero_front" /\ rear' = 0
        \/ deal' = "zero_rear" /\ front' = 0
    BY <1>3 DEF MainClearQueue, ZeroOne, Clearing
  <2>2. Front0' = Rear0'
    BY <2>1 DEF Front0, Rear0, Clearing
  <2>3. TypeOK'
    BY FifoInvStep DEF FifoInv, MainClearNext
  <2>4. Waiting' = <<>>
    BY <2>2, <2>3, EmptyWindowNext
  <2> QED
    BY <1>1, <1>3, <2>4 DEF Fifo!Clear
<1>4. CASE ~torn' /\ deal # "idle"
  <2>1. /\ deal \in Clearing /\ deal' = "idle" /\ ZeroOther(deal) /\ torn' = torn
    BY <1>1, <1>4 DEF MainClearQueue, Clearing
  <2>2. deal = "zero_rear" => front = 0
    BY DEF FifoInv, ClearingStarts
  <2>3. Front0' = Front0 /\ Rear0' = Rear0
    BY <2>1, <2>2 DEF ZeroOther, Front0, Rear0, Clearing
  <2> QED
    BY <1>1, <2>1, <2>3, SameWindow DEF Fifo!vars
<1> QED
  BY <1>2, <1>3, <1>4

\* The queue is a FIFO of MAXQSIZE - 1 packets that main's clears empty, until
\* one of them meets an EnQueue half done, and again from the next one on.
THEOREM FifoImplemented == MainClearSpec => FifoRefinement
<1>1. FifoInv /\ [MainClearNext]_vars => [Fifo!Next]_(Fifo!vars)
  <2> SUFFICES ASSUME FifoInv, [MainClearNext]_vars
               PROVE  [Fifo!Next]_(Fifo!vars)
    OBVIOUS
  <2>1. CASE MainClearQueue
    BY <2>1, ClearRefines DEF Fifo!Next
  <2>2. CASE torn /\ ~MainClearQueue
    <3>1. torn'
      BY <2>2
         DEF MainClearNext, FifoNext, EnQueueTest, EnQueueStore, EnQueueLoad, EnQueueAdvance,
             DeQueueTest, DeQueueCopy, DeQueueLoad, DeQueueAdvance, vars
    <3> QED
      BY <2>2, <3>1 DEF Fifo!Next, Fifo!Torn
  <2>3. ASSUME ~torn, NEW p \in Packets, EnQueueStore(p)
        PROVE  UNCHANGED Fifo!vars
    BY <2>3, StoreRefines DEF Fifo!vars, EnQueueStore, dealVars
  <2>4. CASE ~torn /\ EnQueueAdvance /\ deal # "zero_rear"
    <3>1. base[rear] \in Packets
      BY <2>4 DEF FifoInv, StoredIsReceived, RegistersHold, InEnQueue, EnQueueAdvance
    <3> QED
      BY <2>4, <3>1, AdvanceRefines DEF Fifo!Next
  <2>5. CASE ~torn /\ DeQueueCopy
    BY <2>5, CopyRefines DEF Fifo!Next
  <2>6. CASE \/ EnQueueTest \/ EnQueueLoad \/ DeQueueTest \/ DeQueueLoad \/ DeQueueAdvance
             \/ EnQueueAdvance /\ deal = "zero_rear"
             \/ UNCHANGED vars
    BY <2>6, SilentRefines
  <2> QED
    BY <2>1, <2>2, <2>3, <2>4, <2>5, <2>6 DEF MainClearNext, FifoNext
<1> QED
  BY <1>1, InitRefines, FifoInvariant, PTL DEF MainClearSpec, FifoRefinement, Fifo!Spec

-----------------------------------------------------------------------------
\* Slots are written from the first one up, so those below rear are written,
\* and those below the index EnQueue goes by; once front is above rear, or
\* EnQueue has caught up with a DeQueue, all are.  Only the half of ClearQueue
\* that has yet to zero front is no place for main to take a packet.
Written(i) == base[i] \in Packets
AllWritten == \A i \in Slot : Written(i)
BelowRearWritten == \A i \in Slot : i < rear => Written(i)
BelowRegisterWritten ==
  /\ rev \in InEnQueue => \A i \in Slot : i < rev_rear => Written(i)
  /\ rev \in {"stored", "loaded"} => Written(rev_rear)
WrappedWritten ==
  /\ front > rear /\ deal # "zero_front" => AllWritten
  /\ front = rear /\ deal \in InDeQueue => AllWritten

\* The index EnQueue goes by is rear, unless main has cleared the queue since:
\* it is empty then and will be until EnQueue stores that index.
RegisterOrZero ==
  rev \in InEnQueue =>
    \/ rev_rear = rear
    \/ rear = 0 /\ deal \in {"idle"} \cup Clearing /\ (front = 0 \/ deal = "zero_front")

TakenInv ==
  /\ TypeOK /\ BelowRearWritten /\ BelowRegisterWritten /\ WrappedWritten /\ RegisterOrZero
  /\ deal \in InDeQueue => deal_front = front
  /\ deal = "zero_rear" => front = 0
  /\ TakenWasReceived

\* The queue InitQueue makes has nothing in it, written or not.
LEMMA TakenInvInit == InitQueue => TakenInv
<1>1. \A i \in Slot : ~ (i < 0)
  BY QSizeAssumption DEF Slot
<1>2. InitQueue => TypeOK
  BY FifoInvInit DEF FifoInv
<1>3. InitQueue => BelowRearWritten /\ BelowRegisterWritten /\ WrappedWritten /\ RegisterOrZero
  BY <1>1 DEF InitQueue, BelowRearWritten, BelowRegisterWritten, WrappedWritten, RegisterOrZero,
              InEnQueue, InDeQueue
<1>4. InitQueue => /\ deal \in InDeQueue => deal_front = front
                   /\ deal = "zero_rear" => front = 0
                   /\ TakenWasReceived
  BY GarbageAssumption DEF InitQueue, TakenWasReceived
<1> QED
  BY <1>2, <1>3, <1>4 DEF TakenInv

\* When EnQueue stores the index after its slot, the slots below that index are
\* written, and all are if it wrapped.
LEMMA RearMovesOn ==
  ASSUME TakenInv, rev = "loaded"
  PROVE  /\ \A i \in Slot : i < Succ(rev_rear) => Written(i)
         /\ Succ(rev_rear) # rev_rear + 1 => AllWritten
<1>1. rev_rear \in Slot /\ Succ(rev_rear) = IF rev_rear = MAXQSIZE - 1 THEN 0 ELSE rev_rear + 1
  BY SuccCases DEF TakenInv, TypeOK
<1>2. \A i \in Slot : i <= rev_rear => Written(i)
  <2>1. Written(rev_rear) /\ \A i \in Slot : i < rev_rear => Written(i)
    BY DEF TakenInv, BelowRegisterWritten, InEnQueue
  <2>2. \A i \in Slot : i <= rev_rear => i = rev_rear \/ i < rev_rear
    BY <1>1, QSizeAssumption DEF Slot
  <2> QED
    BY <2>1, <2>2
<1> QED
  BY <1>1, <1>2, QSizeAssumption DEF AllWritten, Slot

\* EnQueue keeps every slot that is written so, and writes its own.
LEMMA WrittenStays ==
  ASSUME TypeOK, NEW p \in Packets, EnQueueStore(p)
  PROVE  /\ \A i \in Slot : Written(i) => Written(i)'
         /\ Written(rev_rear)'
<1>1. rev_rear' \in Slot /\ base' = [base EXCEPT ![rev_rear'] = p]
  BY DEF TypeOK, EnQueueStore
<1>2. base'[rev_rear'] = p
  BY <1>1 DEF TypeOK
<1> QED
  BY <1>1, <1>2 DEF TypeOK, Written

\* Whichever index EnQueue goes by from its next step on, the slots below it
\* are written: the one it had, or rear as it is now.
LEMMA ReloadBelow ==
  ASSUME TakenInv, rev \in InEnQueue, NEW r \in {rev_rear, rear}
  PROVE  /\ r \in Slot
         /\ \A i \in Slot : i < r => Written(i)
         /\ RegisterOrZero => (r = rear \/ (rear = 0 /\ r = rev_rear))
         /\ rev = "stored" => Written(r)
<1>1. rear \in Slot /\ rev_rear \in Slot
  BY DEF TakenInv, TypeOK
<1>2. \A i \in Slot : i < r => Written(i)
  BY DEF TakenInv, BelowRearWritten, BelowRegisterWritten
<1>3. rev = "stored" => Written(r)
  <2> SUFFICES ASSUME rev = "stored"
               PROVE  Written(r)
    OBVIOUS
  <2>1. Written(rev_rear) /\ \A i \in Slot : i < rev_rear => Written(i)
    BY DEF TakenInv, BelowRegisterWritten, InEnQueue
  <2>2. rear = rev_rear \/ rear = 0
    BY DEF TakenInv, RegisterOrZero
  <2>3. rear = 0 => rear = rev_rear \/ rear < rev_rear
    BY <1>1, QSizeAssumption DEF Slot
  <2> QED
    BY <1>1, <2>1, <2>2, <2>3
<1> QED
  BY <1>1, <1>2, <1>3 DEF RegisterOrZero

\* No call on the queue breaks TakenInv, not even a ClearQueue by main in the
\* middle of an EnQueue, which then stores the index it had over the zero.
LEMMA TakenInvStep == TakenInv /\ [MainClearNext]_vars => TakenInv'
<1> SUFFICES ASSUME TakenInv, [MainClearNext]_vars
             PROVE  TakenInv'
  OBVIOUS
<1>0. /\ TypeOK /\ BelowRearWritten /\ BelowRegisterWritten /\ WrappedWritten /\ RegisterOrZero
      /\ deal \in InDeQueue => deal_front = front
      /\ deal = "zero_rear" => front = 0
      /\ TakenWasReceived
      /\ base \in [Slot -> Packets \cup {Garbage}] /\ front \in Slot /\ rear \in Slot
      /\ rev_rear \in Slot /\ 0 \in Slot /\ \A i \in Slot : ~ (i < 0)
  BY QSizeAssumption DEF TakenInv, TypeOK, Slot
<1>1. CASE EnQueueTest
  <2>1. /\ rev' = "tested" /\ rev_rear' = rear /\ base' = base /\ front' = front /\ rear' = rear
        /\ deal' = deal /\ deal_front' = deal_front /\ deal_package' = deal_package
        /\ torn' = torn
    BY <1>1 DEF EnQueueTest, dealVars
  <2>2. TypeOK' /\ TakenWasReceived'
    BY <2>1, <1>0 DEF TypeOK, TakenWasReceived, InEnQueue
  <2>3. BelowRearWritten' /\ BelowRegisterWritten'
    BY <2>1, <1>0 DEF BelowRearWritten, BelowRegisterWritten, Written
  <2>4. WrappedWritten'
    BY <2>1, <1>0 DEF WrappedWritten, AllWritten, Written
  <2>5. RegisterOrZero'
    BY <2>1 DEF RegisterOrZero
  <2> QED
    BY <2>1, <2>2, <2>3, <2>4, <2>5, <1>0 DEF TakenInv
<1>2. ASSUME NEW p \in Packets, EnQueueStore(p)
      PROVE  TakenInv'
  <2>1. /\ rev = "tested" /\ rev' = "stored" /\ rev_rear' \in {rev_rear, rear}
        /\ front' = front /\ rear' = rear /\ deal' = deal /\ deal_front' = deal_front
        /\ deal_package' = deal_package /\ torn' = torn
    BY <1>2 DEF EnQueueStore, dealVars
  <2>2. TypeOK' /\ TakenWasReceived'
    BY <1>0, <1>2, <2>1 DEF EnQueueStore, TypeOK, TakenWasReceived, InEnQueue
  <2>3. (\A i \in Slot : Written(i) => Written(i)') /\ Written(rev_rear)'
    BY <1>0, <1>2, WrittenStays
  <2>4. \A i \in Slot : i < rev_rear' => Written(i)
    BY <2>1, ReloadBelow DEF InEnQueue
  <2>5. BelowRearWritten' /\ BelowRegisterWritten'
    BY <2>1, <2>3, <2>4, <1>0 DEF BelowRearWritten, BelowRegisterWritten
  <2>6. AllWritten => AllWritten'
    BY <2>3 DEF AllWritten
  <2>7. WrappedWritten'
    BY <2>1, <2>6, <1>0 DEF WrappedWritten
  <2>8. RegisterOrZero'
    BY <2>1, <1>0 DEF RegisterOrZero, InEnQueue
  <2> QED
    BY <2>1, <2>2, <2>5, <2>7, <2>8, <1>0 DEF TakenInv
<1>3. CASE EnQueueLoad
  <2>1. /\ rev = "stored" /\ rev' = "loaded" /\ rev_rear' \in {rev_rear, rear}
        /\ base' = base /\ front' = front /\ rear' = rear /\ deal' = deal
        /\ deal_front' = deal_front /\ deal_package' = deal_package /\ torn' = torn
    BY <1>3 DEF EnQueueLoad, dealVars
  <2>2. TypeOK' /\ TakenWasReceived'
    BY <1>0, <2>1 DEF TypeOK, TakenWasReceived, InEnQueue
  <2>3. Written(rev_rear') /\ \A i \in Slot : i < rev_rear' => Written(i)
    BY <2>1, ReloadBelow DEF InEnQueue
  <2>4. BelowRearWritten' /\ BelowRegisterWritten'
    BY <2>1, <2>3, <1>0 DEF BelowRearWritten, BelowRegisterWritten, Written
  <2>5. WrappedWritten'
    BY <2>1, <1>0 DEF WrappedWritten, AllWritten, Written
  <2>6. RegisterOrZero'
    BY <2>1, <1>0 DEF RegisterOrZero, InEnQueue
  <2> QED
    BY <2>1, <2>2, <2>4, <2>5, <2>6, <1>0 DEF TakenInv
<1>4. CASE EnQueueAdvance
  <2>1. /\ rev = "loaded" /\ rear' = Succ(rev_rear) /\ rev' = "idle" /\ rev_rear' = 0
        /\ base' = base /\ front' = front /\ deal' = deal /\ deal_front' = deal_front
        /\ deal_package' = deal_package /\ torn' = torn
    BY <1>4 DEF EnQueueAdvance, dealVars
  <2>2. Succ(rev_rear) \in Slot
        /\ Succ(rev_rear) = IF rev_rear = MAXQSIZE - 1 THEN 0 ELSE rev_rear + 1
    BY <1>0, SuccCases
  <2>3. /\ \A i \in Slot : i < Succ(rev_rear) => Written(i)
        /\ Succ(rev_rear) # rev_rear + 1 => AllWritten
    BY <2>1, RearMovesOn
  <2>4. TypeOK' /\ TakenWasReceived'
    BY <2>1, <2>2, <1>0 DEF TypeOK, TakenWasReceived
  <2>5. BelowRearWritten' /\ BelowRegisterWritten' /\ RegisterOrZero'
    BY <2>1, <2>3 DEF BelowRearWritten, BelowRegisterWritten, RegisterOrZero, Written, InEnQueue
  <2>6. AllWritten => AllWritten'
    BY <2>1 DEF AllWritten, Written
  <2>7. WrappedWritten'
    <3>1. CASE Succ(rev_rear) # rev_rear + 1
      BY <3>1, <2>3, <2>6 DEF WrappedWritten
    <3>2. CASE Succ(rev_rear) = rev_rear + 1 /\ rev_rear = rear
      <4>1. front' >= rear' => front > rear
        BY <3>2, <2>1, <1>0, QSizeAssumption DEF Slot
      <4>2. (front' > rear' => front' >= rear') /\ (front' = rear' => front' >= rear')
        BY <2>1, <2>2, <1>0, QSizeAssumption DEF Slot
      <4>3. deal \in InDeQueue => deal # "zero_front"
        BY DEF InDeQueue
      <4> QED
        BY <4>1, <4>2, <4>3, <2>1, <2>6, <1>0 DEF WrappedWritten
    <3>3. CASE Succ(rev_rear) = rev_rear + 1 /\ rev_rear # rear
      <4>1. deal \notin InDeQueue /\ (front = 0 \/ deal = "zero_front")
        BY <3>3, <2>1, <1>0 DEF RegisterOrZero, InEnQueue, InDeQueue, Clearing
      <4>2. front = 0 => ~ (front' > rear')
        BY <2>1, <2>2, <1>0, QSizeAssumption DEF Slot
      <4> QED
        BY <4>1, <4>2, <2>1 DEF WrappedWritten
    <3> QED
      BY <3>1, <3>2, <3>3
  <2> QED
    BY <2>1, <2>4, <2>5, <2>7, <1>0 DEF TakenInv
<1>5. CASE DeQueueTest
  <2>1. /\ deal = "idle" /\ deal' = "tested" /\ deal_front' = front /\ front # rear
        /\ base' = base /\ front' = front /\ rear' = rear /\ rev' = rev
        /\ rev_rear' = rev_rear /\ deal_package' = deal_package /\ torn' = torn
    BY <1>5 DEF DeQueueTest, Empty, revVars
  <2>2. TypeOK' /\ TakenWasReceived'
    BY <2>1, <1>0 DEF TypeOK, TakenWasReceived, InDeQueue
  <2>3. BelowRearWritten' /\ BelowRegisterWritten' /\ WrappedWritten'
    BY <2>1, <1>0
       DEF BelowRearWritten, BelowRegisterWritten, WrappedWritten, AllWritten, Written
  <2>4. RegisterOrZero'
    BY <2>1, <1>0 DEF RegisterOrZero
  <2> QED
    BY <2>1, <2>2, <2>3, <2>4 DEF TakenInv
<1>6. CASE DeQueueCopy
  <2>1. /\ deal = "tested" /\ deal' = "copied" /\ deal_front' = front
        /\ deal_package' = base[front]
        /\ base' = base /\ front' = front /\ rear' = rear /\ rev' = rev
        /\ rev_rear' = rev_rear /\ torn' = torn
    BY <1>6, <1>0 DEF DeQueueCopy, InDeQueue, revVars
  <2>2. front < rear \/ front > rear \/ front = rear
    BY <1>0, QSizeAssumption DEF Slot
  <2>3. Written(front)
    BY <2>1, <2>2, <1>0 DEF BelowRearWritten, WrappedWritten, AllWritten, InDeQueue
  <2>4. TypeOK' /\ TakenWasReceived'
    BY <2>1, <2>3, <1>0, GarbageAssumption DEF TypeOK, TakenWasReceived, Written, InDeQueue
  <2>5. BelowRearWritten' /\ BelowRegisterWritten' /\ WrappedWritten'
    BY <2>1, <1>0
       DEF BelowRearWritten, BelowRegisterWritten, WrappedWritten, AllWritten, Written, InDeQueue
  <2>6. RegisterOrZero'
    BY <2>1, <1>0 DEF RegisterOrZero, Clearing
  <2> QED
    BY <2>1, <2>4, <2>5, <2>6 DEF TakenInv
<1>7. CASE DeQueueLoad
  <2>1. /\ deal = "copied" /\ deal' = "loaded" /\ deal_front' = front
        /\ base' = base /\ front' = front /\ rear' = rear /\ rev' = rev
        /\ rev_rear' = rev_rear /\ deal_package' = deal_package /\ torn' = torn
    BY <1>7, <1>0 DEF DeQueueLoad, InDeQueue, revVars
  <2>2. TypeOK' /\ TakenWasReceived'
    BY <2>1, <1>0 DEF TypeOK, TakenWasReceived, InDeQueue
  <2>3. BelowRearWritten' /\ BelowRegisterWritten' /\ WrappedWritten'
    BY <2>1, <1>0
       DEF BelowRearWritten, BelowRegisterWritten, WrappedWritten, AllWritten, Written, InDeQueue
  <2>4. RegisterOrZero'
    BY <2>1, <1>0 DEF RegisterOrZero, Clearing
  <2> QED
    BY <2>1, <2>2, <2>3, <2>4 DEF TakenInv
<1>8. CASE DeQueueAdvance
  <2>1. /\ deal = "loaded" /\ deal' = "idle" /\ front' = Succ(front) /\ deal_front' = 0
        /\ base' = base /\ rear' = rear /\ rev' = rev /\ rev_rear' = rev_rear
        /\ deal_package' = deal_package /\ torn' = torn
    BY <1>8, <1>0 DEF DeQueueAdvance, InDeQueue, revVars
  <2>2. Succ(front) \in Slot /\ Succ(front) = IF front = MAXQSIZE - 1 THEN 0 ELSE front + 1
    BY <1>0, SuccCases
  <2>3. TypeOK' /\ TakenWasReceived' /\ deal' \notin InDeQueue /\ deal' # "zero_rear"
    BY <2>1, <2>2, <1>0 DEF TypeOK, TakenWasReceived, InDeQueue
  <2>4. BelowRearWritten' /\ BelowRegisterWritten'
    BY <2>1, <1>0 DEF BelowRearWritten, BelowRegisterWritten, Written
  <2>5. WrappedWritten'
    <3>1. front' > rear' => front > rear \/ front = rear
      BY <2>1, <2>2, <1>0, QSizeAssumption DEF Slot
    <3>2. front > rear \/ front = rear => AllWritten
      BY <2>1, <1>0 DEF WrappedWritten, InDeQueue
    <3>3. AllWritten => AllWritten'
      BY <2>1 DEF AllWritten, Written
    <3> QED
      BY <2>3, <3>1, <3>2, <3>3 DEF WrappedWritten
  <2>6. RegisterOrZero'
    BY <2>1, <1>0 DEF RegisterOrZero, Clearing
  <2> QED
    BY <2>3, <2>4, <2>5, <2>6 DEF TakenInv
<1>9. CASE MainClearQueue
  <2>1. /\ base' = base /\ rev' = rev /\ rev_rear' = rev_rear
        /\ deal_front' = deal_front /\ deal_package' = deal_package
        /\ front' \in {0, front} /\ rear' \in {0, rear}
        /\ deal \in {"idle", "zero_front", "zero_rear"}
        /\ deal' \in {"idle", "zero_front", "zero_rear"}
    BY <1>9 DEF MainClearQueue, ZeroOne, ZeroOther, Clearing, revVars
  <2>2. /\ deal' = "zero_rear" => front' = 0 /\ rear' = rear /\ deal = "idle"
        /\ deal' = "zero_front" => rear' = 0
        /\ deal' = "idle" => front' = 0 /\ (rear' = 0 \/ (deal = "zero_front" /\ rear' = rear))
    BY <1>0, <1>9 DEF MainClearQueue, ZeroOne, ZeroOther, Clearing
  <2>3. BelowRearWritten'
    <3>1. rear' = rear => BelowRearWritten'
      BY <2>1, <1>0 DEF BelowRearWritten, Written
    <3>2. rear' = 0 => BelowRearWritten'
      BY <1>0 DEF BelowRearWritten
    <3> QED
      BY <2>1, <3>1, <3>2
  <2>4. BelowRegisterWritten'
    BY <2>1, <1>0 DEF BelowRegisterWritten, Written
  <2>5. WrappedWritten'
    <3>1. front' = 0 => ~ (front' > rear')
      BY <2>1, <1>0, QSizeAssumption DEF Slot
    <3> QED
      BY <3>1, <2>1, <2>2 DEF WrappedWritten, InDeQueue
  <2>6. RegisterOrZero'
    BY <2>1, <2>2, <1>0 DEF RegisterOrZero, Clearing
  <2>7. torn' \in BOOLEAN
    BY <1>0, <1>9 DEF MainClearQueue, TypeOK
  <2>8. TypeOK' /\ TakenWasReceived'
    BY <2>1, <2>7, <1>0 DEF TypeOK, TakenWasReceived, Clearing
  <2>9. deal' \notin InDeQueue /\ (deal' = "zero_rear" => front' = 0)
    BY <2>1, <2>2 DEF InDeQueue
  <2> QED
    BY <2>3, <2>4, <2>5, <2>6, <2>8, <2>9 DEF TakenInv
<1>10. CASE UNCHANGED vars
  BY <1>10 DEF vars, TakenInv, TypeOK, BelowRearWritten, BelowRegisterWritten, WrappedWritten,
               RegisterOrZero, AllWritten, Written, TakenWasReceived
<1> QED
  BY <1>1, <1>2, <1>3, <1>4, <1>5, <1>6, <1>7, <1>8, <1>9, <1>10 DEF MainClearNext, FifoNext

\* With ClearQueue on main only, as SIGUSR1 and SIGUSR2 have it, every packet
\* main takes is one the receiver put in, though a clear falls between any two
\* steps of an EnQueue, which then stores the index it had loaded over the
\* zero, and the stores of ClearQueue come in either order.
THEOREM TakenReceived == MainClearSpec => []TakenWasReceived
<1>1. TakenInv => TakenWasReceived
  BY DEF TakenInv
<1> QED
  BY <1>1, TakenInvInit, TakenInvStep, PTL DEF MainClearSpec
=============================================================================
