------------------------------ MODULE ReceiveLoop ------------------------------
(***************************************************************************)
(* The receive loop of command_get (client/command.c) with the bookkeeping *)
(* of missing blocks in ttp_request_retransmit and ttp_repeat_retransmit   *)
(* (client/protocol.c).                                                    *)
(*                                                                         *)
(* The loop runs in one thread and shares only the ring with the disk      *)
(* thread, so one turn of the loop is one step.  The environment sends any *)
(* datagram a server of this file may send, any number of times, in any    *)
(* order or never; it retransmits only what it was asked for.  A turn is a *)
(* composition of functions on the record "xfer", each for one stretch of  *)
(* the loop's body, in the code's order; its last ones give the set of     *)
(* outcomes a turn may have.  Datagrams carry no data here, and statistics *)
(* are left out but for the moment they are sent, which is open.           *)
(***************************************************************************)
EXTENDS Integers, Sequences, FiniteSets

CONSTANTS
    BlockCount,        \* xfer->block_count
    MaxRetransmission, \* MAX_RETRANSMISSION_BUFFER
    TableLimit,        \* 32*MAX_RETRANSMISSION_BUFFER, the table's last size
    OnWireEstimate,    \* xfer->on_wire_estimate
    Width,             \* 2^32: block numbers are u_int32_t
    Sessions           \* the user's parameters, and what may fail, in a session

(* lossless: parameter->lossless.  loss_windows: the blocks the loss window*)
(* may hold; {} if losswindow is 0.  recv_fails: recvfrom may return an    *)
(* error.  feedback_fails: writing to the server may fail.                 *)
ASSUME ReceiveAssumption ==
    /\ BlockCount \in Nat
    /\ MaxRetransmission \in Nat \ {0}
    /\ TableLimit \in Nat /\ TableLimit >= MaxRetransmission
    /\ OnWireEstimate \in Nat
    /\ Width \in Nat /\ Width > 1 /\ Width > BlockCount + OnWireEstimate
    /\ Sessions \subseteq [lossless : BOOLEAN, loss_windows : SUBSET (0 .. BlockCount),
                           recv_fails : BOOLEAN, feedback_fails : BOOLEAN]

VARIABLES
    session,         \* one of Sessions, for the whole transfer
    xfer,            \* the client's state of the transfer, and (history, in
                     \* xfer.dropped) whether a full table has dropped a request
    local_datagram,  \* the buffer recvfrom fills
    sent,            \* the feedback the last turn has written to the server
    asked,           \* the blocks asked to be retransmitted so far
    phase            \* "receiving", "stopped" (told the server), "aborted"

vars == <<session, xfer, local_datagram, sent, asked, phase>>

Block == 1 .. BlockCount
Lower(a, b) == IF a < b THEN a ELSE b

(* What a server may send: the last block is always the terminating one,   *)
(* and of an empty file that is block 0; what it retransmits is in the file*)
(* and has been asked for.                                                 *)
Datagram ==
    [block : 1 .. BlockCount-1, type : {"original"}]
      \cup [block : {BlockCount}, type : {"terminate"}]
      \cup [block : asked \cap Block, type : {"retransmission"}]

Retransmit(b) == [type |-> "retransmit", block |-> b]
Restart(b)    == [type |-> "restart", block |-> b]
ErrorRate     == [type |-> "error_rate", block |-> 0]
StopRequest   == [type |-> "stop", block |-> 0]

NewTransfer ==
    [received |-> {}, blocks_left |-> BlockCount,
     next_block |-> 1, gapless_to_block |-> 0, table |-> <<>>,
     restart_pending |-> FALSE, restart_lastidx |-> 0, restart_wireclearidx |-> 0,
     dropped |-> FALSE]

Init ==
    /\ session \in Sessions
    /\ xfer = NewTransfer
    /\ local_datagram = [block |-> 0, type |-> "blank"]
    /\ sent = <<>>
    /\ asked = {}
    /\ phase = "receiving"

-------------------------------------------------------------------------------
(* The table of blocks to be retransmitted.                                *)

GotBlock(x, b) == b > BlockCount \/ b \in x.received
Wanted(x) == {b \in 0 .. BlockCount : ~ GotBlock(x, b)}

(* What is left of a sequence of blocks without those that are not in "set".*)
Keep(seq, set) ==
    LET kept[i \in 0 .. Len(seq)] ==
            IF i = 0 THEN <<>>
            ELSE IF seq[i] \in set THEN Append(kept[i-1], seq[i]) ELSE kept[i-1]
    IN  kept[Len(seq)]

(* The blocks lo .. hi-1, in this order.                                   *)
From(lo, hi) == [i \in 1 .. (IF lo < hi THEN hi - lo ELSE 0) |-> lo + i - 1]

(* ttp_request_retransmit for the blocks lo .. hi-1.  A full table takes no*)
(* more and says nothing.                                                  *)
RequestRetransmitWrong(x, lo, hi) ==
    [x EXCEPT !.table = @ \o Keep(From(lo + 1, hi), Wanted(x))]
RequestRetransmit(x, lo, hi) ==
    LET longer == x.table \o Keep(From(lo, hi), Wanted(x))
    IN  [x EXCEPT !.table = SubSeq(longer, 1, Lower(TableLimit, Len(longer))),
                  !.dropped = @ \/ Len(longer) > TableLimit]

(* The block after the gapless ones.                                       *)
PastGapless(x) == (x.gapless_to_block + 1) % Width

(* ttp_repeat_retransmit: what it keeps, and when that is too much.        *)
OutstandingWrong(x) == Keep(x.table, 1 .. BlockCount)
Outstanding(x) == Keep(x.table, Wanted(x) \ {0})
TooMany(x) == Len(Outstanding(x)) >= MaxRetransmission

RestartBlockWrong(x) == Lower(BlockCount, x.next_block)
RestartBlock(x) == Lower(BlockCount, PastGapless(x))

WireClearWrong(last) == last + OnWireEstimate
WireClear(last) == Lower(BlockCount, last + OnWireEstimate)

Repeated(x) ==
    IF TooMany(x)
    THEN LET last == x.table[Len(x.table)]
         IN  [x EXCEPT !.restart_pending = TRUE,
                       !.restart_lastidx = last,
                       !.restart_wireclearidx = WireClear(last),
                       !.table = <<>>,
                       !.next_block = RestartBlock(x)]
    ELSE [x EXCEPT !.table = Outstanding(x)]

(* What is left when the request to restart could not be written: the front*)
(* of the table is compacted already, its length is not cut yet.           *)
Unrepeated(x) ==
    IF TooMany(x)
    THEN [x EXCEPT !.table = [i \in DOMAIN @ |->
              IF i <= MaxRetransmission THEN Outstanding(x)[i] ELSE @[i]]]
    ELSE Repeated(x)

Requests(x) ==
    IF TooMany(x)
    THEN <<Restart(RestartBlock(x))>>
    ELSE [i \in DOMAIN Outstanding(x) |-> Retransmit(Outstanding(x)[i])]

-------------------------------------------------------------------------------
(* The stretches of the loop's body.                                       *)

InsertWrong(x, b) ==
    [x EXCEPT !.received = @ \cup {b}, !.blocks_left = IF @ > 0 THEN @ - 1 ELSE @]
Insert(x, b) ==
    IF GotBlock(x, b) THEN x
    ELSE [x EXCEPT !.received = @ \cup {b},
                   !.blocks_left = IF @ > 0 THEN @ - 1 ELSE @]

(* A block that was on the wire when the restart was asked for.            *)
IgnoredAfterRestart(x, d) ==
    /\ x.restart_pending
    /\ d.type # "terminate"
    /\ x.restart_lastidx < d.block
    /\ d.block <= x.restart_wireclearidx

(* The first block inside a loss window of w blocks.  The code computes it *)
(* in floating point; out of range it wraps, as the conversion does.       *)
EarliestBlock(x, b, w) ==
    IF x.gapless_to_block <= b THEN b - Lower(w, b - x.gapless_to_block)
                               ELSE (b - w) % Width

QueueMissingWrong(x, b, w) ==
    IF b <= x.next_block THEN x
    ELSE LET earliest == EarliestBlock(x, b, w)
         IN  [RequestRetransmit(x, earliest, b) EXCEPT !.next_block = earliest]
QueueMissing(x, b, w) ==
    IF b <= x.next_block THEN x
    ELSE IF session.lossless THEN RequestRetransmit(x, x.next_block, b)
    ELSE IF session.loss_windows = {} THEN [x EXCEPT !.gapless_to_block = b]
    ELSE LET earliest == EarliestBlock(x, b, w)
         IN  [RequestRetransmit(x, earliest, b) EXCEPT
                 !.next_block = earliest, !.gapless_to_block = earliest]

AdvanceGapless(x) ==
    IF x.gapless_to_block >= BlockCount THEN x
    ELSE LET Gapless(g) == x.gapless_to_block + 1 .. g \subseteq x.received
         IN  [x EXCEPT !.gapless_to_block =
                 CHOOSE g \in x.gapless_to_block .. BlockCount :
                     Gapless(g) /\ (g = BlockCount \/ g + 1 \notin x.received)]

ExpectSuccessor(x, d) ==
    IF d.type = "original" THEN [x EXCEPT !.next_block = d.block + 1] ELSE x

ClearRestartWrong(x) == x
ClearRestart(x) ==
    [x EXCEPT !.restart_pending = @ /\ x.next_block < x.restart_lastidx]

Accept(x, d, w) ==
    LET y == Insert(x, d.block)
    IN  IF IgnoredAfterRestart(y, d) THEN y
        ELSE ClearRestart(ExpectSuccessor(
                 AdvanceGapless(QueueMissing(y, d.block, w)), d))

(* A datagram that changes something: new, terminating, or after a restart.*)
Relevant(x, d) ==
    ~ GotBlock(x, d.block) \/ d.type = "terminate" \/ x.restart_pending

(* All blocks are there or, if losses are allowed, none is being waited for.*)
CompleteAnyway(x) == ~ session.lossless \/ x.blocks_left = 0
Complete(x) ==
    \/ x.blocks_left = 0
    \/ ~ session.lossless /\ x.table = <<>> /\ ~ x.restart_pending

-------------------------------------------------------------------------------
(* The outcomes of one turn of the loop: the transfer's new state, the     *)
(* feedback written, and whether the loop goes on.                         *)

Outcome(x, out, end) == [xfer |-> x, sent |-> out, phase |-> end]

IfFeedbackFails(outcomes) == IF session.feedback_fails THEN outcomes ELSE {}

(* send_stats: the turn ends here, and if it is time, requests and an error*)
(* rate go out; a failure to write the requests ends the transfer.         *)
Stats(x, out) ==
    {Outcome(Repeated(x), out \o Requests(x) \o <<ErrorRate>>, "receiving")}
      \cup IfFeedbackFails({Outcome(Repeated(x), out \o Requests(x), "receiving"),
                            Outcome(Repeated(x), out, "aborted"),
                            Outcome(Unrepeated(x), out, "aborted")})

SendStats(x, out) == {Outcome(x, out, "receiving")} \cup Stats(x, out)

(* The loop breaks, and ttp_request_stop follows.                          *)
Finish(x, out) ==
    {Outcome(x, Append(out, StopRequest), "stopped")}
      \cup IfFeedbackFails({Outcome(x, out, "aborted")})

(* Ask for everything that is missing below the last block.  Here a failed *)
(* write goes unnoticed.                                                   *)
AskForRest(x, out) ==
    LET y == RequestRetransmit(x, PastGapless(x), BlockCount)
    IN  SendStats(Repeated(y), out \o Requests(y))
          \cup IfFeedbackFails(SendStats(Repeated(y), out) \cup SendStats(Unrepeated(y), out))

(* A datagram that is not passed over.                                     *)
Process(x, d, w, out) ==
    LET y == Accept(x, d, w)
    IN  CASE d.type # "terminate" -> SendStats(y, out)
          [] d.type = "terminate" /\ Complete(y) -> Finish(y, out)
          [] OTHER -> AskForRest(y, out)

Processed(x, d, out) ==
    IF Relevant(x, d)
    THEN UNION {Process(x, d, w, out) : w \in session.loss_windows \cup {0}}
    ELSE SendStats(x, out)

(* The turn after recvfrom, with datagram d in the buffer.  A full ring can*)
(* make the loop pass over any datagram.                                   *)
Turn(x, d, out) == SendStats(x, out) \cup Processed(x, d, out)

-------------------------------------------------------------------------------
(* The loop.                                                               *)

Entries(seq) == {seq[i] : i \in DOMAIN seq}

RetransmitsIn(out) == {r.block : r \in {r \in Entries(out) : r.type = "retransmit"}}

Take(o) ==
    /\ xfer' = o.xfer
    /\ sent' = o.sent
    /\ asked' = asked \cup RetransmitsIn(o.sent)
    /\ phase' = o.phase
    /\ UNCHANGED session

Receive(d) ==
    /\ phase = "receiving"
    /\ local_datagram' = d
    /\ \E o \in Turn(xfer, d, <<>>) : Take(o)

(* recvfrom fails: requests are repeated, and the loop goes on with what   *)
(* is in the buffer from the turn before.                                  *)
ReceiveFails ==
    /\ session.recv_fails
    /\ phase = "receiving"
    /\ \E o \in Turn(Repeated(xfer), local_datagram, Requests(xfer))
              \cup IfFeedbackFails({Outcome(Repeated(xfer), <<>>, "aborted"),
                                    Outcome(Unrepeated(xfer), <<>>, "aborted")}) :
          Take(o)
    /\ UNCHANGED local_datagram

Ended == phase # "receiving" /\ UNCHANGED vars

Next ==
    \/ \E d \in Datagram : Receive(d)
    \/ ReceiveFails
    \/ Ended

Spec == Init /\ [][Next]_vars

-------------------------------------------------------------------------------
(* Properties.                                                             *)

Missing == Block \ xfer.received

Transfers ==
    [received : SUBSET (0 .. BlockCount), blocks_left : 0 .. BlockCount,
     next_block : 0 .. Width-1, gapless_to_block : 0 .. Width-1,
     table : Seq(0 .. BlockCount), restart_pending : BOOLEAN,
     restart_lastidx : 0 .. BlockCount, restart_wireclearidx : 0 .. BlockCount,
     dropped : BOOLEAN]

(* Every variable has its type.                                            *)
TypeOK ==
    /\ xfer \in Transfers /\ Len(xfer.table) <= TableLimit
    /\ phase \in {"receiving", "stopped", "aborted"}

(* Not yet has a failed recvfrom made the loop take the blank buffer for   *)
(* block 0, and count it (see ReceiveFails).                               *)
NoBlankCounted == 0 \notin xfer.received

(* blocks_left counts the missing blocks, whatever arrives how often.      *)
BlocksLeftCounts == NoBlankCounted => xfer.blocks_left = Cardinality(Missing)

(* No block is lost track of: one that was passed over and that the loop   *)
(* has not given up on is in the table, unless that was full.              *)
MissingIsTracked ==
    ~ xfer.dropped =>
        \A b \in Missing : xfer.gapless_to_block < b /\ b < xfer.next_block
            => b \in Entries(xfer.table)

(* Only what was missing when the turn began is asked for again.           *)
AsksForMissing ==
    [][\A r \in Entries(sent') : r.type = "retransmit" => r.block \in Missing]_vars

(* A restart ("restart from first missing block", ttp_repeat_retransmit)   *)
(* skips nothing: no block before it is missing.                           *)
RestartsSkipNothing ==
    [][\A r \in Entries(sent') : session.lossless /\ r.type = "restart" =>
          \A b \in Missing' : r.block <= b]_vars

(* A lossless transfer that has told the server to stop has every block    *)
(* (else command_get prints "please file a bug report").                   *)
NoneLost == phase = "stopped" /\ session.lossless => Missing = {}

(* The same but for the blank buffer.                                      *)
LosslessIsComplete == NoBlankCounted => NoneLost

(* A transfer that is over has lost nothing but what the loop hopped over  *)
(* or a full table dropped, again but for the blank buffer.                *)
NothingLeftPastGapless ==
    phase = "stopped" /\ NoBlankCounted /\ ~ xfer.dropped =>
        xfer.gapless_to_block + 1 .. BlockCount \subseteq xfer.received
===============================================================================
