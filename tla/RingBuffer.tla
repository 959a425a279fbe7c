------------------------------ MODULE RingBuffer ------------------------------
(***************************************************************************)
(* The client's ring of datagrams (client/ring.c) between its two threads: *)
(* the network thread, which is the receive loop of command_get and the    *)
(* shutdown after it, and disk_thread (client/command.c).  The real-time   *)
(* client (rtclient) has the same ring and threads; only its receive loop  *)
(* does not ask whether the ring is full.                                  *)
(*                                                                         *)
(* Every critical section of ring.c is one action.  pthread_cond_wait puts *)
(* the thread in "waiting"; a signal, or a spurious wake-up, takes it out, *)
(* and the thread then tests its condition again.  The slot a thread got   *)
(* from ring_reserve or ring_peek is used outside the mutex, in an action  *)
(* of its own.  A datagram is its block number; which blocks arrive, and   *)
(* when the receive loop breaks, is left open here (see ReceiveLoop.tla).  *)
(***************************************************************************)
EXTENDS Integers, Sequences

CONSTANTS
    N,            \* MAX_BLOCKS_QUEUED, the number of slots
    BlockCount,   \* blocks of the file: the block numbers are 1..BlockCount
    DiskMayFail,  \* accept_block may fail
    MayAbort      \* the receive loop may leave through its abort label

ASSUME RingAssumption ==
    /\ N \in Nat \ {0}
    /\ BlockCount \in Nat
    /\ DiskMayFail \in BOOLEAN
    /\ MayAbort \in BOOLEAN

Block == 1 .. BlockCount
Stop  == 0              \* the "mythical 0 block"
Blank == -1             \* what malloc left in a slot

VARIABLES
    base_data, count_data, count_reserved,  \* ring indices
    data_ready, space_ready,                \* ring flags
    datagrams,      \* the slots
    ring,           \* "live", or "destroyed" by ring_destroy
    waiting,        \* threads blocked in pthread_cond_wait
    program,        \* "tsunami", or "rttsunami" (rtclient); never changes
    net_pc, this_block, next,   \* network thread: its datagram and its slot
    received,       \* blocks the network thread has marked as received
    disk_pc, datagram,          \* disk thread and the slot it peeked at
    stored          \* the blocks accept_block has written, in that order

ringVars == <<base_data, count_data, count_reserved, data_ready, space_ready>>
netVars  == <<program, net_pc, this_block, next, received>>
diskVars == <<disk_pc, datagram, stored>>
vars     == <<ringVars, datagrams, ring, waiting, netVars, diskVars>>

Init ==
    /\ base_data = 0 /\ count_data = 0 /\ count_reserved = 0
    /\ data_ready = FALSE /\ space_ready = TRUE
    /\ datagrams = [s \in 0 .. N-1 |-> Blank]
    /\ ring = "live"
    /\ waiting = {}
    /\ program \in {"tsunami", "rttsunami"}
    /\ net_pc = "recv" /\ this_block = Stop /\ next = 0 /\ received = {}
    /\ disk_pc = "peek" /\ datagram = 0 /\ stored = <<>>

-------------------------------------------------------------------------------
(* What the operations of ring.c are made of.  A definition whose name ends *)
(* in "Wrong" is a slip the checks must notice; no action uses it.         *)

(* ring_full answers from the flag alone.                                  *)
RingFullWrong == FALSE
RingFull == ~ space_ready

(* Slot numbers wrap around at the end of the ring.                        *)
Slot(x) == x % N

(* The slot after the data and the reserved slot.                          *)
NextSlotWrong == Slot(base_data + count_data + 1)
NextSlot == Slot(base_data + count_data + count_reserved)

(* Is there space left once "slot" is reserved?                            *)
SpaceAfterWrong(slot) == count_data # N
SpaceAfter(slot) == Slot(slot + 1) # base_data

(* pthread_cond_signal wakes the one thread that may be waiting.           *)
SignalWrong(t) == waiting
Signal(t) == waiting \ {t}

(* The reservation count once ring_confirm has turned it into data.        *)
UnreservedWrong == count_reserved
Unreserved == count_reserved - 1

(* ring_pop: is there data left once one slot is popped?                   *)
DataAfterPopWrong == TRUE
DataAfterPop == count_data - 1 # 0

-------------------------------------------------------------------------------
(* The network thread. *)

(* A datagram arrives: a new block goes on to ring_reserve.                *)
TakeBlock(b) ==
    /\ net_pc = "recv"
    /\ b \notin received
    /\ this_block' = b
    /\ net_pc' = "reserve"
    /\ UNCHANGED <<ringVars, datagrams, ring, waiting, next, received, diskVars, program>>

(* A terminating datagram, not a new block, ends the loop: the stop block  *)
(* is next.                                                                *)
BreakLoop ==
    /\ net_pc = "recv"
    /\ this_block' = Stop
    /\ net_pc' = "reserve"
    /\ UNCHANGED <<ringVars, datagrams, ring, waiting, next, received, diskVars, program>>

(* A datagram that finds the ring full is dropped, the terminating one too.*)
Receive(b) == program = "tsunami" /\ ~ RingFull /\ TakeBlock(b)
Break == program = "tsunami" /\ ~ RingFull /\ BreakLoop

(* The real-time client takes it whether the ring is full or not, and so   *)
(* may wait for the disk in the midst of its loop.                         *)
ReceiveRealTime(b) == program = "rttsunami" /\ TakeBlock(b)
BreakRealTime == program = "rttsunami" /\ BreakLoop

(* The abort label: the ring goes away while the disk thread still runs.   *)
Abort ==
    /\ MayAbort
    /\ net_pc = "recv"
    /\ net_pc' = "aborted"
    /\ ring' = "destroyed"
    /\ UNCHANGED <<ringVars, datagrams, waiting, this_block, next, received, diskVars, program>>

(* The end of ring_reserve: wait while there is no space, else take "slot".*)
ReserveOrWait(slot) ==
    \/ /\ ~ space_ready
       /\ waiting' = waiting \cup {"net"}
       /\ net_pc' = "reserve_wait"
       /\ UNCHANGED ringVars
    \/ /\ space_ready
       /\ count_reserved' = count_reserved + 1
       /\ space_ready' = SpaceAfter(slot)
       /\ net_pc' = "copy"
       /\ UNCHANGED <<base_data, count_data, data_ready, waiting>>

(* ring_reserve fixes the slot before it waits for space ...               *)
RingReserve ==
    /\ net_pc = "reserve"
    /\ next' = NextSlot
    /\ ReserveOrWait(NextSlot)
    /\ UNCHANGED <<datagrams, ring, this_block, received, diskVars, program>>

(* ... and uses that same slot when it has been woken.                     *)
RingReserveWoken ==
    /\ net_pc = "reserve_wait"
    /\ "net" \notin waiting
    /\ ReserveOrWait(next)
    /\ UNCHANGED <<datagrams, ring, this_block, next, received, diskVars, program>>

CopyIn ==
    /\ net_pc = "copy"
    /\ datagrams' = [datagrams EXCEPT ![next] = this_block]
    /\ net_pc' = "confirm"
    /\ UNCHANGED <<ringVars, ring, waiting, this_block, next, received, diskVars, program>>

(* ring_confirm, and what the network thread does with the block then: a   *)
(* block is marked as received and, if it was the terminating one, may end *)
(* the loop; after the stop block it waits for the disk thread.            *)
RingConfirm ==
    /\ net_pc = "confirm"
    /\ count_data' = count_data + 1
    /\ count_reserved' = Unreserved
    /\ data_ready' = TRUE
    /\ waiting' = Signal("disk")
    /\ \/ /\ this_block = Stop
          /\ net_pc' = "join"
          /\ UNCHANGED <<this_block, received>>
       \/ /\ this_block # Stop
          /\ received' = received \cup {this_block}
          /\ \/ net_pc' = "recv" /\ UNCHANGED this_block
             \/ net_pc' = "reserve" /\ this_block' = Stop
    /\ UNCHANGED <<base_data, space_ready, datagrams, ring, next, diskVars, program>>

DiskThreadDone == disk_pc \in {"ended", "failed"}

JoinAndDestroy ==
    /\ net_pc = "join"
    /\ DiskThreadDone
    /\ net_pc' = "done"
    /\ ring' = "destroyed"
    /\ UNCHANGED <<ringVars, datagrams, waiting, this_block, next, received, diskVars, program>>

-------------------------------------------------------------------------------
(* The disk thread.  After an abort it would run on in freed memory: what  *)
(* it does then is undefined and not modelled.                             *)

RingPeek ==
    /\ ring = "live"
    /\ disk_pc = "peek"
    /\ "disk" \notin waiting
    /\ \/ /\ ~ data_ready
          /\ waiting' = waiting \cup {"disk"}
          /\ UNCHANGED <<disk_pc, datagram>>
       \/ /\ data_ready
          /\ datagram' = base_data
          /\ disk_pc' = "use"
          /\ UNCHANGED waiting
    /\ UNCHANGED <<ringVars, datagrams, ring, netVars, stored>>

SeeStop ==
    /\ ring = "live"
    /\ disk_pc = "use"
    /\ datagrams[datagram] = Stop
    /\ disk_pc' = "ended"
    /\ UNCHANGED <<ringVars, datagrams, ring, waiting, netVars, datagram, stored>>

AcceptBlock ==
    /\ ring = "live"
    /\ disk_pc = "use"
    /\ datagrams[datagram] # Stop
    /\ stored' = Append(stored, datagrams[datagram])
    /\ disk_pc' = "pop"
    /\ UNCHANGED <<ringVars, datagrams, ring, waiting, netVars, datagram>>

(* accept_block fails: the thread returns and the block stays in the ring. *)
AcceptBlockFails ==
    /\ DiskMayFail
    /\ ring = "live"
    /\ disk_pc = "use"
    /\ datagrams[datagram] # Stop
    /\ disk_pc' = "failed"
    /\ UNCHANGED <<ringVars, datagrams, ring, waiting, netVars, datagram, stored>>

(* ring_pop would wait for data too, but never has to: see DataAtPop.      *)
RingPop ==
    /\ ring = "live"
    /\ disk_pc = "pop"
    /\ data_ready
    /\ base_data' = Slot(base_data + 1)
    /\ count_data' = count_data - 1
    /\ data_ready' = DataAfterPop
    /\ space_ready' = TRUE
    /\ waiting' = Signal("net")
    /\ disk_pc' = "peek"
    /\ UNCHANGED <<count_reserved, datagrams, ring, netVars, datagram, stored>>

SpuriousWakeup(t) ==
    /\ t \in waiting
    /\ waiting' = waiting \ {t}
    /\ UNCHANGED <<ringVars, datagrams, ring, netVars, diskVars>>

-------------------------------------------------------------------------------
Arrival ==
    \/ \E b \in Block : Receive(b) \/ ReceiveRealTime(b)
    \/ Break \/ BreakRealTime
    \/ Abort
NetThread  == RingReserve \/ RingReserveWoken \/ CopyIn \/ RingConfirm \/ JoinAndDestroy
DiskThread == RingPeek \/ SeeStop \/ AcceptBlock \/ RingPop

(* The transfer is over; what is left of the program is not modelled.      *)
Terminated == net_pc \in {"done", "aborted"} /\ UNCHANGED vars

Next ==
    \/ Arrival
    \/ NetThread
    \/ DiskThread
    \/ AcceptBlockFails
    \/ \E t \in {"net", "disk"} : SpuriousWakeup(t)
    \/ Terminated

Spec == Init /\ [][Next]_vars

(* Both threads are scheduled.  Datagrams need not arrive, writes need not *)
(* fail, and nobody is owed a spurious wake-up.                            *)
FairSpec == Spec /\ WF_vars(NetThread) /\ WF_vars(DiskThread)

-------------------------------------------------------------------------------
(* Properties.                                                             *)

Contents == [i \in 1 .. count_data |-> datagrams[Slot(base_data + i - 1)]]
Entries(seq) == {seq[i] : i \in DOMAIN seq}

(* Every variable has its type; the counts stay within the ring.           *)
TypeOK ==
    /\ base_data \in 0 .. N-1 /\ count_data \in 0 .. N
    /\ count_reserved \in {0, 1}
    /\ data_ready \in BOOLEAN /\ space_ready \in BOOLEAN
    /\ datagrams \in [0 .. N-1 -> Block \cup {Stop, Blank}]
    /\ ring \in {"live", "destroyed"}
    /\ waiting \subseteq {"net", "disk"}
    /\ program \in {"tsunami", "rttsunami"}
    /\ net_pc \in {"recv", "reserve", "reserve_wait", "copy", "confirm",
                   "join", "done", "aborted"}
    /\ this_block \in Block \cup {Stop} /\ next \in 0 .. N-1
    /\ received \subseteq Block
    /\ disk_pc \in {"peek", "use", "pop", "ended", "failed"}
    /\ datagram \in 0 .. N-1
    /\ stored \in Seq(Block)

(* The flags the threads wait on say what the counts say: data_ready that  *)
(* there is data, space_ready that not every slot is data or reserved.     *)
FlagsMatchCounts ==
    /\ data_ready <=> count_data > 0
    /\ space_ready <=> count_data + count_reserved < N

(* A thread sleeps only while what it waits for is not there: no signal of *)
(* ring_confirm or ring_pop is missed.                                     *)
NoLostWakeup ==
    /\ "disk" \in waiting => ~ data_ready
    /\ "net" \in waiting => ~ space_ready

(* The slot the network thread fills, outside the mutex, is none of the    *)
(* data slots, so not the one the disk thread is storing from.             *)
SlotsDisjoint ==
    net_pc \in {"copy", "confirm"} =>
        /\ \A i \in 0 .. count_data-1 : next # Slot(base_data + i)
        /\ disk_pc \in {"use", "pop"} => next # datagram

(* The disk thread finds the slot it stored still at the head when it pops *)
(* it, so ring_pop never waits.                                            *)
DataAtPop == disk_pc = "pop" => data_ready /\ datagram = base_data

(* ring_full keeps the receive loop, which must go on listening, out of    *)
(* ring_reserve's wait ("don't let disk-I/O freeze stop feedback of stats  *)
(* to server"): only the stop block may wait for space.                    *)
LoopNeverBlocks ==
    program = "tsunami" /\ net_pc = "reserve_wait" => this_block = Stop

(* The ring is a bounded first-in first-out queue with a stop marker.  A   *)
(* block leaves it, abstractly, when it is stored.                         *)
Queue == INSTANCE BlockQueue WITH
    Capacity <- N,
    queue <- IF disk_pc = "pop" THEN Tail(Contents) ELSE Contents,
    reader <- IF DiskThreadDone THEN disk_pc ELSE "running"

ImplementsBlockQueue == Queue!Spec

(* What is in the queue is served, if both threads are scheduled, unless   *)
(* the transfer is aborted.                                                *)
ServesBlockQueue == Queue!Served \/ <>(net_pc = "aborted")

(* A transfer whose loop has broken gets past its stop block and the join, *)
(* unless a failed write has ended the disk thread.                        *)
ShutdownCompletes ==
    net_pc = "reserve" /\ this_block = Stop ~> net_pc = "done" \/ disk_pc = "failed"
===============================================================================
