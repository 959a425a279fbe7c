--------------------------- MODULE RingBuffer_proofs ---------------------------
(***************************************************************************)
(* Proofs about RingBuffer.tla, for a ring of any number of slots and a    *)
(* file of any number of blocks, whether or not writes fail and transfers  *)
(* abort.                                                                  *)
(***************************************************************************)
EXTENDS RingBuffer, SequenceTheorems, TLAPS

(* Arithmetic of slot numbers. *)

(* No slot number the ring computes wraps more than once. *)
LEMMA SlotValue ==
    \A x \in 0 .. 2*N - 1 : Slot(x) = IF x < N THEN x ELSE x - N
<1> SUFFICES ASSUME NEW x \in 0 .. 2*N - 1
             PROVE  Slot(x) = IF x < N THEN x ELSE x - N
  OBVIOUS
<1>1. N \in Nat \ {0} /\ x \in Nat
  BY RingAssumption
<1>2. CASE x < N
  BY <1>1, <1>2 DEF Slot
<1>3. CASE N <= x
  BY <1>1, <1>3 DEF Slot
<1> QED
  BY <1>1, <1>2, <1>3

(* Two of the N slots that follow "b" are different. *)
LEMMA SlotsDistinct ==
    \A b, i, j \in 0 .. N-1 : i # j => Slot(b + i) # Slot(b + j)
  BY SlotValue, RingAssumption

(* Slot i after the successor of "b" is slot i+1 after "b". *)
LEMMA SlotShift ==
    \A b, i \in 0 .. N-1 : Slot(Slot(b + 1) + i) = Slot(b + (i + 1))
  BY SlotValue, RingAssumption

(* The slot after a reserved one is the base exactly if the ring is full.  *)
LEMMA FullTest ==
    \A b, c \in 0 .. N-1 : (Slot(Slot(b + c) + 1) = b) <=> (c + 1 = N)
  BY SlotValue, RingAssumption

-------------------------------------------------------------------------------
(* The inductive invariant.                                                *)

(* The thread that is between ring_reserve and ring_confirm owns exactly   *)
(* the slot behind the data, and the ring has room for it.                 *)
ReservationInv ==
    /\ count_reserved = IF net_pc \in {"copy", "confirm"} THEN 1 ELSE 0
    /\ count_data + count_reserved <= N
    /\ net_pc \in {"reserve_wait", "copy", "confirm"}
         => next = Slot(base_data + count_data)
    /\ program = "tsunami" /\ net_pc = "reserve" /\ this_block # Stop => space_ready
    /\ net_pc = "confirm" => datagrams[next] = this_block

(* A disk thread past ring_peek works on the head, and the head stays.     *)
ReaderInv ==
    disk_pc \in {"use", "pop", "ended", "failed"} => count_data > 0 /\ datagram = base_data

(* Who sleeps is inside the wait of its own operation.                     *)
WaitInv ==
    /\ "net" \in waiting => net_pc = "reserve_wait"
    /\ "disk" \in waiting => disk_pc = "peek"

(* Every data slot holds a block or the stop marker, never malloc's bytes. *)
FilledInv ==
    \A i \in 0 .. count_data-1 : datagrams[Slot(base_data + i)] \in Block \cup {Stop}

RingInv ==
    /\ TypeOK
    /\ FlagsMatchCounts
    /\ NoLostWakeup
    /\ LoopNeverBlocks
    /\ ReservationInv
    /\ ReaderInv
    /\ WaitInv
    /\ FilledInv

-------------------------------------------------------------------------------
(* The invariant holds initially and every action keeps it.                *)

LEMMA InitRingInv == Init => RingInv
  BY RingAssumption
     DEF Init, RingInv, TypeOK, FlagsMatchCounts, NoLostWakeup, LoopNeverBlocks,
         ReservationInv, ReaderInv, WaitInv, FilledInv, Block, Stop, Blank

LEMMA NextRingInv == RingInv /\ [Next]_vars => RingInv'
<1> SUFFICES ASSUME RingInv, [Next]_vars
             PROVE  RingInv'
  OBVIOUS
<1> USE RingAssumption DEF RingInv, ringVars, netVars, diskVars
<1> DEFINE Indices == /\ base_data \in 0 .. N-1 /\ count_data \in 0 .. N
                      /\ next \in 0 .. N-1 /\ N \in Nat \ {0}
<1>i. Indices
  BY DEF TypeOK
<1> HIDE DEF Indices
<1>b. ASSUME net_pc = "recv", net_pc' = "reserve", this_block' \in Block \cup {Stop},
             program = "tsunami" => space_ready,
             UNCHANGED <<ringVars, datagrams, ring, waiting, next, received, diskVars, program>>
      PROVE  RingInv'
  <2>1. TypeOK'
    BY <1>b DEF TypeOK
  <2>2. FlagsMatchCounts' /\ NoLostWakeup'
    BY <1>b DEF FlagsMatchCounts, NoLostWakeup
  <2>3. LoopNeverBlocks' /\ ReservationInv' /\ WaitInv'
    BY <1>b DEF LoopNeverBlocks, ReservationInv, WaitInv
  <2>4. ReaderInv' /\ FilledInv'
    BY <1>b DEF ReaderInv, FilledInv
  <2> QED
    BY <2>1, <2>2, <2>3, <2>4
<1>1. CASE \E b \in Block : Receive(b) \/ ReceiveRealTime(b)
  BY <1>1, <1>b DEF Receive, ReceiveRealTime, TakeBlock, RingFull
<1>2. CASE Break \/ BreakRealTime
  BY <1>2, <1>b DEF Break, BreakRealTime, BreakLoop, RingFull
<1>3. CASE Abort
  BY <1>3 DEF Abort, TypeOK, FlagsMatchCounts, NoLostWakeup,
     LoopNeverBlocks, ReservationInv, ReaderInv, WaitInv, FilledInv
<1>r. ASSUME NEW slot, slot = Slot(base_data + count_data), ReserveOrWait(slot),
             next' = slot, net_pc \in {"reserve", "reserve_wait"},
             program = "tsunami" /\ ~ space_ready => this_block = Stop,
             "net" \notin waiting,
             UNCHANGED <<datagrams, ring, this_block, received, diskVars, program>>
      PROVE  RingInv'
  <2>1. slot \in 0 .. N-1
    BY <1>i, <1>r, SlotValue DEF Indices
  <2>2. CASE ~ space_ready
    <3>1. /\ waiting' = waiting \cup {"net"} /\ net_pc' = "reserve_wait"
          /\ UNCHANGED ringVars
      BY <2>2, <1>r DEF ReserveOrWait
    <3>2. TypeOK'
      BY <1>r, <2>1, <3>1 DEF TypeOK
    <3>3. FlagsMatchCounts' /\ NoLostWakeup'
      BY <1>r, <2>2, <3>1 DEF FlagsMatchCounts, NoLostWakeup
    <3>4. LoopNeverBlocks' /\ ReservationInv'
      BY <1>r, <2>2, <3>1 DEF LoopNeverBlocks, ReservationInv
    <3>5. ReaderInv' /\ WaitInv' /\ FilledInv'
      BY <1>r, <3>1 DEF ReaderInv, WaitInv, FilledInv
    <3> QED
      BY <3>2, <3>3, <3>4, <3>5
  <2>3. CASE space_ready
    <3>1. count_reserved = 0 /\ count_data \in 0 .. N-1
      BY <1>r, <2>3 DEF TypeOK, FlagsMatchCounts, ReservationInv
    <3>2. (Slot(Slot(base_data + count_data) + 1) = base_data) <=> (count_data + 1 = N)
      BY <1>i, <3>1, FullTest DEF Indices
    <3>3. SpaceAfter(slot) <=> count_data + 1 < N
      BY <1>i, <1>r, <3>1, <3>2 DEF SpaceAfter, Indices
    <3>4. SpaceAfter(slot) \in BOOLEAN
      BY DEF SpaceAfter
    <3>5. /\ count_reserved' = 1 /\ net_pc' = "copy" /\ waiting' = waiting
          /\ space_ready' = SpaceAfter(slot)
          /\ UNCHANGED <<base_data, count_data, data_ready>>
      BY <1>r, <2>3, <3>1 DEF ReserveOrWait
    <3>6. TypeOK'
      BY <1>r, <2>1, <3>4, <3>5 DEF TypeOK
    <3>7. FlagsMatchCounts' /\ NoLostWakeup'
      BY <1>r, <3>1, <3>3, <3>5 DEF FlagsMatchCounts, NoLostWakeup
    <3>8. ReservationInv'
      BY <1>r, <3>1, <3>5 DEF ReservationInv
    <3>9. LoopNeverBlocks' /\ ReaderInv' /\ WaitInv' /\ FilledInv'
      BY <1>r, <3>5 DEF LoopNeverBlocks, ReaderInv, WaitInv, FilledInv
    <3> QED
      BY <3>6, <3>7, <3>8, <3>9
  <2> QED
    BY <2>2, <2>3
<1>4. CASE RingReserve
  <2>1. NextSlot = Slot(base_data + count_data)
    <3>1. count_reserved = 0
      BY <1>4 DEF RingReserve, ReservationInv
    <3>2. base_data + count_data + 0 = base_data + count_data
      BY <1>i DEF Indices
    <3> QED
      BY <3>1, <3>2 DEF NextSlot
  <2>2. "net" \notin waiting
    BY <1>4 DEF RingReserve, WaitInv
  <2> QED
    BY <1>4, <1>r, <2>1, <2>2 DEF RingReserve, ReservationInv
<1>5. CASE RingReserveWoken
  BY <1>5, <1>r DEF RingReserveWoken, ReservationInv, LoopNeverBlocks
<1>6. CASE CopyIn
  <2>1. count_data \in 0 .. N-1 /\ next = Slot(base_data + count_data)
    BY <1>6, <1>i DEF CopyIn, ReservationInv, Indices
  <2>2. \A i \in 0 .. count_data-1 : Slot(base_data + i) # next
    <3> SUFFICES ASSUME NEW i \in 0 .. count_data-1
                 PROVE  Slot(base_data + i) # next
      OBVIOUS
    <3>1. i \in 0 .. N-1 /\ i # count_data /\ base_data \in 0 .. N-1
      BY <1>i, <2>1 DEF Indices
    <3> QED
      BY <2>1, <3>1, SlotsDistinct
  <2>3. \A s : s # next => datagrams'[s] = datagrams[s] \/ s \notin 0 .. N-1
    BY <1>6 DEF CopyIn, TypeOK
  <2>4. \A i \in 0 .. count_data-1 : Slot(base_data + i) \in 0 .. N-1
    BY <1>i, SlotValue DEF Indices
  <2>5. FilledInv'
    BY <1>6, <2>2, <2>3, <2>4 DEF CopyIn, FilledInv
  <2>6. TypeOK' /\ ReservationInv'
    BY <1>6 DEF CopyIn, TypeOK, ReservationInv
  <2> QED
    BY <1>6, <2>5, <2>6 DEF CopyIn, FlagsMatchCounts, NoLostWakeup,
       LoopNeverBlocks, ReaderInv, WaitInv
<1>7. CASE RingConfirm
  <2>1. /\ count_reserved = 1 /\ count_data \in 0 .. N-1
        /\ next = Slot(base_data + count_data)
        /\ datagrams[next] = this_block
    BY <1>7, <1>i DEF RingConfirm, ReservationInv, Indices
  <2>2. FilledInv'
    <3> SUFFICES ASSUME NEW i \in 0 .. count_data'-1
                 PROVE  datagrams'[Slot(base_data' + i)] \in Block \cup {Stop}
      BY DEF FilledInv
    <3>1. i \in 0 .. count_data-1 \/ i = count_data
      BY <1>7, <2>1 DEF RingConfirm
    <3>2. CASE i = count_data
      BY <1>7, <2>1, <3>2 DEF RingConfirm, TypeOK
    <3>3. CASE i \in 0 .. count_data-1
      BY <1>7, <3>3 DEF RingConfirm, FilledInv
    <3> QED
      BY <3>1, <3>2, <3>3
  <2>3. TypeOK'
    <3>1. this_block' \in Block \cup {Stop} /\ received' \subseteq Block
      BY <1>7 DEF RingConfirm, TypeOK
    <3>2. net_pc' \in {"recv", "reserve", "join"}
      BY <1>7 DEF RingConfirm
    <3> QED
      BY <1>7, <2>1, <3>1, <3>2 DEF RingConfirm, Signal, Unreserved, TypeOK
  <2>4. FlagsMatchCounts' /\ NoLostWakeup' /\ LoopNeverBlocks'
    BY <1>7, <2>1 DEF RingConfirm, Signal, Unreserved, FlagsMatchCounts,
       NoLostWakeup, LoopNeverBlocks, TypeOK
  <2>5. ReaderInv' /\ WaitInv'
    BY <1>7, <2>1 DEF RingConfirm, Signal, ReaderInv, WaitInv
  <2>6. ReservationInv'
    BY <1>7, <2>1 DEF RingConfirm, Unreserved, ReservationInv
  <2> QED
    BY <2>2, <2>3, <2>4, <2>5, <2>6
<1>8. CASE JoinAndDestroy
  BY <1>8 DEF JoinAndDestroy, TypeOK, FlagsMatchCounts, NoLostWakeup,
     LoopNeverBlocks, ReservationInv, ReaderInv, WaitInv, FilledInv
<1>9. CASE RingPeek
  BY <1>9 DEF RingPeek, TypeOK, FlagsMatchCounts, NoLostWakeup,
     LoopNeverBlocks, ReservationInv, ReaderInv, WaitInv, FilledInv
<1>10. CASE SeeStop
  BY <1>10 DEF SeeStop, TypeOK, FlagsMatchCounts, NoLostWakeup,
     LoopNeverBlocks, ReservationInv, ReaderInv, WaitInv, FilledInv
<1>11. CASE AcceptBlock
  <2>1. count_data > 0 /\ datagram = base_data
    BY <1>11 DEF AcceptBlock, ReaderInv
  <2>2. Slot(base_data + 0) = base_data
    BY <1>i, SlotValue DEF Indices
  <2>3. datagrams[datagram] \in Block \cup {Stop}
    BY <1>i, <2>1, <2>2 DEF FilledInv, Indices
  <2>4. stored' \in Seq(Block)
    BY <1>11, <2>3 DEF AcceptBlock, TypeOK
  <2> QED
    BY <1>11, <2>1, <2>4 DEF AcceptBlock, TypeOK, FlagsMatchCounts, NoLostWakeup,
       LoopNeverBlocks, ReservationInv, ReaderInv, WaitInv, FilledInv
<1>12. CASE AcceptBlockFails
  BY <1>12 DEF AcceptBlockFails, TypeOK, FlagsMatchCounts, NoLostWakeup,
     LoopNeverBlocks, ReservationInv, ReaderInv, WaitInv, FilledInv
<1>13. CASE RingPop
  <2>1. count_data \in 1 .. N /\ base_data' \in 0 .. N-1
    BY <1>13, <1>i, SlotValue DEF RingPop, ReaderInv, Indices
  <2>2. \A i \in 0 .. N-1 : Slot(base_data' + i) = Slot(base_data + (i + 1))
    BY <1>13, <1>i, SlotShift DEF RingPop, Indices
  <2>3. FilledInv'
    <3> SUFFICES ASSUME NEW i \in 0 .. count_data'-1
                 PROVE  datagrams'[Slot(base_data' + i)] \in Block \cup {Stop}
      BY DEF FilledInv
    <3>1. i + 1 \in 0 .. count_data-1 /\ i \in 0 .. N-1
      BY <1>13, <2>1 DEF RingPop
    <3>2. Slot(base_data' + i) = Slot(base_data + (i + 1))
      BY <2>2, <3>1
    <3> QED
      BY <1>13, <3>1, <3>2 DEF RingPop, FilledInv
  <2>4. TypeOK'
    BY <1>13, <2>1 DEF RingPop, Signal, DataAfterPop, TypeOK
  <2>5. FlagsMatchCounts'
    <3>1. (count_data - 1 # 0) <=> count_data' > 0
      BY <1>13, <2>1 DEF RingPop
    <3>2. count_data' + count_reserved' < N
      BY <1>13, <1>i, <2>1 DEF RingPop, ReservationInv, TypeOK, Indices
    <3> QED
      BY <1>13, <3>1, <3>2 DEF RingPop, DataAfterPop, FlagsMatchCounts
  <2>6. NoLostWakeup' /\ LoopNeverBlocks' /\ ReaderInv' /\ WaitInv'
    BY <1>13 DEF RingPop, Signal, NoLostWakeup, LoopNeverBlocks, ReaderInv, WaitInv
  <2>7. ReservationInv'
    <3>1. Slot(base_data' + (count_data - 1)) = Slot(base_data + count_data)
      <4>1. count_data - 1 \in 0 .. N-1 /\ (count_data - 1) + 1 = count_data
        BY <1>i, <2>1 DEF Indices
      <4> QED
        BY <2>2, <4>1
    <3> QED
      BY <1>13, <2>1, <3>1 DEF RingPop, ReservationInv, TypeOK
  <2> QED
    BY <2>3, <2>4, <2>5, <2>6, <2>7
<1>14. CASE \E t \in {"net", "disk"} : SpuriousWakeup(t)
  BY <1>14 DEF SpuriousWakeup, TypeOK, FlagsMatchCounts, NoLostWakeup,
     LoopNeverBlocks, ReservationInv, ReaderInv, WaitInv, FilledInv
<1>15. CASE UNCHANGED vars
  BY <1>15 DEF vars, TypeOK, FlagsMatchCounts, NoLostWakeup,
     LoopNeverBlocks, ReservationInv, ReaderInv, WaitInv, FilledInv
<1> QED
  BY <1>1, <1>2, <1>3, <1>4, <1>5, <1>6, <1>7, <1>8, <1>9, <1>10, <1>11, <1>12,
     <1>13, <1>14, <1>15
     DEF Next, Arrival, NetThread, DiskThread, Terminated

(* The inductive invariant holds of every reachable state. *)
THEOREM RingInvariant == Spec => []RingInv
  BY InitRingInv, NextRingInv, PTL DEF Spec

(* Type correctness. *)
THEOREM TypeCorrect == Spec => []TypeOK
  BY RingInvariant, PTL DEF RingInv

(* The flags data_ready and space_ready tell what the counts say. *)
THEOREM FlagsTellCounts == Spec => []FlagsMatchCounts
  BY RingInvariant, PTL DEF RingInv

(* No thread sleeps in pthread_cond_wait over what it waits for. *)
THEOREM NoWakeupLost == Spec => []NoLostWakeup
  BY RingInvariant, PTL DEF RingInv

(* Only the stop block makes the network thread wait for space. *)
THEOREM ReceiveLoopNeverBlocks == Spec => []LoopNeverBlocks
  BY RingInvariant, PTL DEF RingInv

(* ring_pop finds the slot that was stored at the head of the ring. *)
THEOREM PopNeverWaits == Spec => []DataAtPop
<1>1. RingInv => DataAtPop
  BY DEF RingInv, DataAtPop, ReaderInv, FlagsMatchCounts
<1> QED
  BY <1>1, RingInvariant, PTL

(* The slot being filled is never one that holds data or is being stored.  *)
THEOREM NoSlotShared == Spec => []SlotsDisjoint
<1>1. RingInv => SlotsDisjoint
  <2> SUFFICES ASSUME RingInv, net_pc \in {"copy", "confirm"}
               PROVE  /\ \A i \in 0 .. count_data-1 : next # Slot(base_data + i)
                      /\ disk_pc \in {"use", "pop"} => next # datagram
    BY DEF SlotsDisjoint
  <2>1. /\ base_data \in 0 .. N-1 /\ count_data \in 0 .. N-1
        /\ next = Slot(base_data + count_data)
    BY RingAssumption DEF RingInv, TypeOK, ReservationInv
  <2>2. ASSUME NEW i \in 0 .. count_data-1
        PROVE  next # Slot(base_data + i)
    <3>1. i \in 0 .. N-1 /\ i # count_data
      BY RingAssumption, <2>1
    <3> QED
      BY <2>1, <3>1, SlotsDistinct
  <2>3. ASSUME disk_pc \in {"use", "pop"}
        PROVE  next # datagram
    <3>1. 0 \in 0 .. count_data-1 /\ datagram = base_data
      BY <2>1, <2>3 DEF RingInv, ReaderInv
    <3>2. Slot(base_data + 0) = base_data
      BY <2>1, SlotValue, RingAssumption
    <3> QED
      BY <2>2, <3>1, <3>2
  <2> QED
    BY <2>2, <2>3
<1> QED
  BY <1>1, RingInvariant, PTL

-------------------------------------------------------------------------------
(* The ring implements the queue.                                          *)

LEMMA ContentsSeq ==
    ASSUME RingInv
    PROVE  /\ Contents \in Seq(Block \cup {Stop})
           /\ Len(Contents) = count_data
           /\ \A i \in 1 .. count_data : Contents[i] = datagrams[Slot(base_data + i - 1)]
<1>1. count_data \in Nat
  BY DEF RingInv, TypeOK
<1>2. ASSUME NEW i \in 1 .. count_data
      PROVE  datagrams[Slot(base_data + i - 1)] \in Block \cup {Stop}
  <2>1. i - 1 \in 0 .. count_data-1
    BY <1>1
  <2>2. base_data + (i - 1) = base_data + i - 1
    BY <1>1 DEF RingInv, TypeOK
  <2> QED
    BY <2>1, <2>2 DEF RingInv, FilledInv
<1> QED
  BY <1>1, <1>2 DEF Contents

LEMMA HeadOfContents ==
    ASSUME RingInv, count_data > 0
    PROVE  /\ Contents # <<>>
           /\ Head(Contents) = datagrams[base_data]
<1>1. count_data \in 1 .. N /\ base_data \in 0 .. N-1
  BY RingAssumption DEF RingInv, TypeOK
<1>2. Slot(base_data + 1 - 1) = base_data
  <2>1. base_data + 1 - 1 = base_data /\ base_data \in 0 .. 2*N - 1 /\ base_data < N
    BY <1>1, RingAssumption
  <2> QED
    BY <2>1, SlotValue
<1>3. Len(Contents) > 0 /\ Contents \in Seq(Block \cup {Stop})
  BY <1>1, ContentsSeq
<1>4. Contents[1] = datagrams[base_data]
  BY <1>1, <1>2, ContentsSeq
<1> QED
  BY <1>3, <1>4

(* The queue the ring stands for: a block counts as gone once it is stored.*)
Pending == IF disk_pc = "pop" THEN Tail(Contents) ELSE Contents
Reader  == IF DiskThreadDone THEN disk_pc ELSE "running"

(* What leaves the data slots, the head and the disk thread alone leaves   *)
(* the queue alone.                                                        *)
LEMMA QueueUnchanged ==
    ASSUME UNCHANGED <<base_data, count_data, datagrams, stored>>,
           disk_pc' = disk_pc \/ {disk_pc, disk_pc'} = {"peek", "use"}
    PROVE  UNCHANGED Queue!vars
<1>1. Contents' = Contents
  BY DEF Contents
<1>2. (disk_pc' = "pop") <=> (disk_pc = "pop")
  OBVIOUS
<1>3. DiskThreadDone' <=> DiskThreadDone
  BY DEF DiskThreadDone
<1>4. Reader' = Reader
  BY <1>3 DEF Reader, DiskThreadDone
<1>5. Pending' = Pending
  BY <1>1, <1>2 DEF Pending
<1> QED
  BY <1>4, <1>5 DEF Queue!vars, Pending, Reader

LEMMA CopyInKeepsQueue ==
    ASSUME RingInv, RingInv', CopyIn
    PROVE  UNCHANGED Queue!vars
<1>1. /\ count_data \in 0 .. N-1 /\ next = Slot(base_data + count_data)
      /\ base_data \in 0 .. N-1
  BY RingAssumption DEF CopyIn, RingInv, TypeOK, ReservationInv
<1>2. ASSUME NEW i \in 1 .. count_data
      PROVE  datagrams'[Slot(base_data + i - 1)] = datagrams[Slot(base_data + i - 1)]
  <2>1. /\ i - 1 \in 0 .. N-1 /\ i - 1 # count_data
        /\ base_data + (i - 1) = base_data + i - 1
    BY <1>1, RingAssumption
  <2>2. Slot(base_data + i - 1) # next
    BY <1>1, <2>1, SlotsDistinct
  <2>3. Slot(base_data + i - 1) \in 0 .. N-1
    BY <1>1, <2>1, SlotValue, RingAssumption
  <2> QED
    BY <2>2, <2>3 DEF CopyIn, RingInv, TypeOK
<1>3. Contents' = Contents
  BY <1>2 DEF Contents, CopyIn, ringVars
<1>4. UNCHANGED <<Pending, Reader, stored>>
  BY <1>3 DEF Pending, Reader, DiskThreadDone, CopyIn, diskVars
<1> QED
  BY <1>4 DEF Queue!vars, Pending, Reader

LEMMA ConfirmPuts ==
    ASSUME RingInv, RingInv', RingConfirm
    PROVE  Queue!Put(this_block)
<1>1. /\ count_data \in 0 .. N-1 /\ next = Slot(base_data + count_data)
      /\ datagrams[next] = this_block /\ base_data \in 0 .. N-1
      /\ count_data' = count_data + 1
  BY RingAssumption DEF RingConfirm, RingInv, TypeOK, ReservationInv
<1>2. Contents' = Append(Contents, this_block)
  <2>1. Contents \in Seq(Block \cup {Stop}) /\ Len(Contents) = count_data
    BY ContentsSeq
  <2>2. Contents' \in Seq(Block \cup {Stop}) /\ Len(Contents') = count_data + 1
    <3>1. (Contents \in Seq(Block \cup {Stop}) /\ Len(Contents) = count_data)'
      BY ContentsSeq, PTL
    <3> QED
      BY <3>1, <1>1
  <2>3. ASSUME NEW i \in 1 .. count_data + 1
        PROVE  Contents'[i] = Append(Contents, this_block)[i]
    <3>1. Contents'[i] = datagrams[Slot(base_data + i - 1)]
      BY <1>1 DEF Contents, RingConfirm, ringVars
    <3>2. CASE i = count_data + 1
      <4>1. base_data + i - 1 = base_data + count_data
        BY <1>1, <3>2
      <4>2. Contents'[i] = this_block
        BY <1>1, <3>1, <4>1
      <4>3. Append(Contents, this_block)[count_data + 1] = this_block
        BY <2>1
      <4> QED
        BY <3>2, <4>2, <4>3
    <3>3. CASE i \in 1 .. count_data
      <4>1. Contents[i] = datagrams[Slot(base_data + i - 1)]
        BY <3>3, ContentsSeq
      <4>2. Append(Contents, this_block)[i] = Contents[i]
        BY <2>1, <3>3
      <4> QED
        BY <3>1, <4>1, <4>2
    <3>4. i = count_data + 1 \/ i \in 1 .. count_data
      BY <1>1, RingAssumption
    <3> QED
      BY <3>2, <3>3, <3>4
  <2>4. this_block \in Block \cup {Stop}
    BY DEF RingInv, TypeOK
  <2>5. /\ Append(Contents, this_block) \in Seq(Block \cup {Stop})
        /\ Len(Append(Contents, this_block)) = count_data + 1
    BY <2>1, <2>4
  <2> QED
    BY <1>1, <2>2, <2>3, <2>5, SeqEqual
<1>3. disk_pc' = disk_pc /\ stored' = stored
  BY DEF RingConfirm, diskVars
<1>4. Contents \in Seq(Block \cup {Stop}) /\ Len(Contents) = count_data
  BY ContentsSeq
<1>5. Reader' = Reader
  BY <1>3 DEF Reader, DiskThreadDone
<1>6. Pending' = Append(Pending, this_block) /\ Len(Pending) < N
  <2>1. CASE disk_pc # "pop"
    <3>1. Pending = Contents /\ Pending' = Contents'
      BY <1>3, <2>1 DEF Pending
    <3>2. Len(Contents) < N
      BY <1>1, <1>4, RingAssumption
    <3> QED
      BY <1>2, <3>1, <3>2
  <2>2. CASE disk_pc = "pop"
    <3>1. count_data > 0
      BY <2>2 DEF RingInv, ReaderInv
    <3>2. Tail(Append(Contents, this_block)) = Append(Tail(Contents), this_block)
      BY <1>4, <3>1, SMTT(30) DEF RingInv, TypeOK
    <3>3. Len(Tail(Contents)) = count_data - 1
      BY <1>1, <1>4, <3>1
    <3>4. Pending = Tail(Contents) /\ Pending' = Tail(Contents')
      BY <1>3, <2>2 DEF Pending
    <3>5. count_data - 1 < N
      BY <1>1, RingAssumption
    <3> QED
      BY <1>2, <3>2, <3>3, <3>4, <3>5
  <2> QED
    BY <2>1, <2>2
<1> QED
  BY <1>3, <1>5, <1>6 DEF Queue!Put, Pending, Reader

LEMMA StopIsTaken ==
    ASSUME RingInv, SeeStop
    PROVE  Queue!TakeStop
<1>1. disk_pc = "use" /\ count_data > 0 /\ datagram = base_data
  BY DEF SeeStop, RingInv, ReaderInv
<1>2. Contents # <<>> /\ Head(Contents) = Stop
  BY <1>1, HeadOfContents DEF SeeStop
<1>3. Contents' = Contents /\ disk_pc' = "ended" /\ stored' = stored
  BY DEF SeeStop, Contents, ringVars
<1>4. Pending = Contents /\ Pending' = Contents
  BY <1>1, <1>3 DEF Pending
<1>5. Reader = "running" /\ Reader' = "ended"
  BY <1>1, <1>3 DEF Reader, DiskThreadDone
<1> QED
  BY <1>2, <1>3, <1>4, <1>5 DEF Queue!TakeStop, Pending, Reader

LEMMA FailureIsFailure ==
    ASSUME RingInv, AcceptBlockFails
    PROVE  Queue!StoreFails
<1>1. disk_pc = "use" /\ count_data > 0 /\ datagram = base_data
  BY DEF AcceptBlockFails, RingInv, ReaderInv
<1>2. Contents # <<>> /\ Head(Contents) # Stop
  BY <1>1, HeadOfContents DEF AcceptBlockFails
<1>3. Contents' = Contents /\ disk_pc' = "failed" /\ stored' = stored
  BY DEF AcceptBlockFails, Contents, ringVars
<1>4. Pending = Contents /\ Pending' = Contents
  BY <1>1, <1>3 DEF Pending
<1>5. Reader = "running" /\ Reader' = "failed"
  BY <1>1, <1>3 DEF Reader, DiskThreadDone
<1> QED
  BY <1>2, <1>3, <1>4, <1>5 DEF Queue!StoreFails, Pending, Reader

LEMMA AcceptStores ==
    ASSUME RingInv, AcceptBlock
    PROVE  Queue!Store
<1>1. disk_pc = "use" /\ count_data > 0 /\ datagram = base_data
  BY DEF AcceptBlock, RingInv, ReaderInv
<1>2. /\ Contents # <<>> /\ Head(Contents) # Stop
      /\ Head(Contents) = datagrams[datagram]
  BY <1>1, HeadOfContents DEF AcceptBlock
<1>3. /\ Contents' = Contents /\ disk_pc' = "pop"
      /\ stored' = Append(stored, Head(Contents))
  BY <1>2 DEF AcceptBlock, Contents, ringVars
<1>4. Pending = Contents /\ Pending' = Tail(Contents)
  BY <1>1, <1>3 DEF Pending
<1>5. Reader = "running" /\ Reader' = Reader
  BY <1>1, <1>3 DEF Reader, DiskThreadDone
<1> QED
  BY <1>2, <1>3, <1>4, <1>5 DEF Queue!Store, Pending, Reader

LEMMA PopKeepsQueue ==
    ASSUME RingInv, RingInv', RingPop
    PROVE  UNCHANGED Queue!vars
<1>1. /\ count_data \in 1 .. N /\ base_data \in 0 .. N-1
      /\ base_data' = Slot(base_data + 1) /\ count_data' = count_data - 1
      /\ datagrams' = datagrams
  BY DEF RingPop, RingInv, TypeOK, ReaderInv
<1>2. Contents \in Seq(Block \cup {Stop}) /\ Len(Contents) = count_data
  BY ContentsSeq
<1>3. Contents' \in Seq(Block \cup {Stop}) /\ Len(Contents') = count_data - 1
  <2>1. (Contents \in Seq(Block \cup {Stop}) /\ Len(Contents) = count_data)'
    BY ContentsSeq, PTL
  <2> QED
    BY <1>1, <2>1
<1>4. /\ Tail(Contents) \in Seq(Block \cup {Stop})
      /\ Len(Tail(Contents)) = count_data - 1
  BY <1>1, <1>2
<1>5. ASSUME NEW i \in 1 .. count_data - 1
      PROVE  Contents'[i] = Tail(Contents)[i]
  <2>1. Contents'[i] = datagrams[Slot(base_data' + i - 1)]
    BY <1>1 DEF Contents
  <2>2. Contents[i + 1] = datagrams[Slot(base_data + (i + 1) - 1)]
    BY <1>1, ContentsSeq
  <2>3. Tail(Contents)[i] = Contents[i + 1]
    BY <1>1, <1>2
  <2>4. /\ i - 1 \in 0 .. N-1 /\ base_data' \in 0 .. N-1
        /\ base_data' + (i - 1) = base_data' + i - 1
        /\ base_data + ((i - 1) + 1) = base_data + (i + 1) - 1
    BY <1>1, RingAssumption DEF RingInv, TypeOK
  <2>5. Slot(Slot(base_data + 1) + (i - 1)) = Slot(base_data + ((i - 1) + 1))
    BY <1>1, <2>4, SlotShift
  <2> QED
    BY <1>1, <2>1, <2>2, <2>3, <2>4, <2>5
<1>6. Contents' = Tail(Contents)
  BY <1>1, <1>3, <1>4, <1>5, SeqEqual
<1>7. disk_pc = "pop" /\ disk_pc' = "peek" /\ stored' = stored
  BY DEF RingPop
<1>8. Pending' = Pending /\ Reader' = Reader
  BY <1>6, <1>7 DEF Pending, Reader, DiskThreadDone
<1> QED
  BY <1>7, <1>8 DEF Queue!vars, Pending, Reader

LEMMA StepRefines == RingInv /\ RingInv' /\ [Next]_vars => [Queue!Next]_Queue!vars
<1> SUFFICES ASSUME RingInv, RingInv', [Next]_vars
             PROVE  [Queue!Next]_Queue!vars
  OBVIOUS
<1>1. CASE Arrival
  BY <1>1, QueueUnchanged
     DEF Arrival, Receive, ReceiveRealTime, TakeBlock, Break, BreakRealTime, BreakLoop, Abort, ringVars, diskVars
<1>2. CASE RingReserve \/ RingReserveWoken
  BY <1>2, QueueUnchanged
     DEF RingReserve, RingReserveWoken, ReserveOrWait, ringVars, diskVars
<1>3. CASE CopyIn
  BY <1>3, CopyInKeepsQueue
<1>4. CASE RingConfirm
  <2>1. this_block \in Block \cup {Stop}
    BY DEF RingInv, TypeOK
  <2> QED
    BY <1>4, <2>1, ConfirmPuts DEF Queue!Next
<1>5. CASE JoinAndDestroy
  BY <1>5, QueueUnchanged DEF JoinAndDestroy, ringVars, diskVars
<1>6. CASE RingPeek
  BY <1>6, QueueUnchanged DEF RingPeek, ringVars, diskVars
<1>7. CASE SeeStop
  BY <1>7, StopIsTaken DEF Queue!Next
<1>8. CASE AcceptBlock
  BY <1>8, AcceptStores DEF Queue!Next
<1>9. CASE AcceptBlockFails
  BY <1>9, FailureIsFailure DEF Queue!Next
<1>10. CASE RingPop
  BY <1>10, PopKeepsQueue
<1>11. CASE \E t \in {"net", "disk"} : SpuriousWakeup(t)
  BY <1>11, QueueUnchanged DEF SpuriousWakeup, ringVars, diskVars
<1>12. CASE UNCHANGED vars
  BY <1>12, QueueUnchanged DEF vars, ringVars, diskVars
<1> QED
  BY <1>1, <1>2, <1>3, <1>4, <1>5, <1>6, <1>7, <1>8, <1>9, <1>10, <1>11, <1>12
     DEF Next, Arrival, NetThread, DiskThread, Terminated

LEMMA InitRefines == Init => Queue!Init
<1> SUFFICES ASSUME Init PROVE Queue!Init
  OBVIOUS
<1>1. Contents = <<>>
  BY DEF Init, Contents
<1> QED
  BY <1>1 DEF Init, Queue!Init, DiskThreadDone

(* The ring is a bounded first-in first-out queue that its reader serves in*)
(* order until the stop marker, for every capacity and every interleaving  *)
(* of the two threads.                                                     *)
THEOREM RingImplementsQueue == Spec => ImplementsBlockQueue
<1>1. Init => Queue!Init
  BY InitRefines
<1>2. RingInv /\ RingInv' /\ [Next]_vars => [Queue!Next]_Queue!vars
  BY StepRefines
<1> QED
  BY <1>1, <1>2, RingInvariant, PTL DEF Spec, ImplementsBlockQueue, Queue!Spec

===============================================================================
