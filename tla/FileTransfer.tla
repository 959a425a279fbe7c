----------------------------- MODULE FileTransfer -----------------------------
(***************************************************************************)
(* What a transfer promises its user: a file is copied block by block, in  *)
(* any order, each block with its own contents, and the transfer, if it is *)
(* lossless, is over only when every block is there.  Transfer.tla is shown*)
(* to implement this.                                                      *)
(***************************************************************************)
CONSTANTS
    Blocks,         \* the blocks of the file
    Contents(_)     \* what a block holds

VARIABLES
    lossless,       \* parameter->lossless; never changes
    copy,           \* the client's file so far: a function from blocks to contents
    status          \* "copying", then "complete"

vars == <<lossless, copy, status>>

Init ==
    /\ lossless \in BOOLEAN
    /\ copy = [b \in {} |-> Contents(b)]
    /\ status = "copying"

(* The last block may come and end the transfer in one step.               *)
GoOnOrEnd ==
    /\ status' \in {"copying", "complete"}
    /\ status' = "complete" => ~ lossless \/ DOMAIN copy' = Blocks

CopyBlock(b) ==
    /\ status = "copying"
    /\ b \notin DOMAIN copy
    /\ copy' = [c \in DOMAIN copy \cup {b} |-> IF c = b THEN Contents(b) ELSE copy[c]]
    /\ GoOnOrEnd
    /\ UNCHANGED lossless

Complete ==
    /\ status = "copying"
    /\ UNCHANGED <<lossless, copy>>
    /\ GoOnOrEnd

Next == (\E b \in Blocks : CopyBlock(b)) \/ Complete

Spec == Init /\ [][Next]_vars

(* The transfer is over in the end.                                        *)
Completes == <>(status = "complete")
===============================================================================
