----------------------------- MODULE MCRingBuffer -----------------------------
(* Small rings for TLC: fewer slots than blocks, so that the ring fills.   *)
EXTENDS RingBuffer
===============================================================================
