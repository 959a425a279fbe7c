------------------------------ MODULE BlockQueue ------------------------------
(***************************************************************************)
(* What the client's ring buffer promises to the two threads around it: a  *)
(* bounded first-in first-out queue between the network thread, which puts *)
(* every datagram it accepts, and the disk thread, which stores them in    *)
(* that order until it takes the stop marker or a store fails.             *)
(* RingBuffer.tla is shown to implement this.                              *)
(***************************************************************************)
EXTENDS Integers, Sequences

CONSTANTS
    Capacity,   \* how many entries the queue holds at most
    Block,      \* the numbers of the blocks of a file
    Stop        \* the block number that tells the disk thread to quit

VARIABLES
    queue,      \* entries put and not yet stored
    stored,     \* the blocks stored so far, in the order they were stored
    reader      \* the disk thread: "running", "ended" (took Stop), "failed"

vars == <<queue, stored, reader>>

Init ==
    /\ queue = <<>>
    /\ stored = <<>>
    /\ reader = "running"

Put(b) ==
    /\ Len(queue) < Capacity
    /\ queue' = Append(queue, b)
    /\ UNCHANGED <<stored, reader>>

Store ==
    /\ reader = "running"
    /\ queue # <<>>
    /\ Head(queue) # Stop
    /\ queue' = Tail(queue)
    /\ stored' = Append(stored, Head(queue))
    /\ UNCHANGED reader

TakeStop ==
    /\ reader = "running"
    /\ queue # <<>>
    /\ Head(queue) = Stop
    /\ reader' = "ended"
    /\ UNCHANGED <<queue, stored>>

StoreFails ==
    /\ reader = "running"
    /\ queue # <<>>
    /\ Head(queue) # Stop
    /\ reader' = "failed"
    /\ UNCHANGED <<queue, stored>>

Next ==
    \/ \E b \in Block \cup {Stop} : Put(b)
    \/ Store
    \/ TakeStop
    \/ StoreFails

Spec == Init /\ [][Next]_vars

(* A reader that is running and has something to take eventually takes it. *)
Served == WF_vars(Store \/ TakeStop)
===============================================================================
