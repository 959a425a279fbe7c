------------------------------- MODULE Transfer -------------------------------
(***************************************************************************)
(* One transfer of a file that is not empty: the client's receive loop     *)
(* (ReceiveLoop) and the server's blasting loop (ClientHandler), with the  *)
(* UDP flow between them, which loses, repeats and reorders datagrams, and *)
(* the TCP connection, which delivers requests in order.  The transfer is  *)
(* lossless, has a loss window, or asks for nothing again.                 *)
(*                                                                         *)
(* The two loops are taken from their modules as functions; what they share*)
(* is here.  Left to those modules are requests that arrive in parts, dead *)
(* clients, missed heartbeats and failures of the connection or of         *)
(* recvfrom; error rates only change how fast the server sends.            *)
(***************************************************************************)
EXTENDS Integers, Sequences, FiniteSets

CONSTANTS
    BlockCount,        \* the blocks of the file
    MaxRetransmission, \* as in ReceiveLoop
    TableLimit,
    OnWireEstimate,
    Width,
    LossWindows,       \* the blocks a loss window may hold, where there is one
    MaxUnread,         \* bound: requests TCP holds before the client must wait
    MaxInFlight        \* bound: datagrams in the flow before the server must wait

Session(lossless, windows) ==
    [lossless |-> lossless, loss_windows |-> windows,
     recv_fails |-> FALSE, feedback_fails |-> FALSE]

Sessions == {Session(TRUE, {}), Session(FALSE, LossWindows), Session(FALSE, {})}

(* A block missing at the end of the file gets into the table twice; with a*)
(* loss window, the one before it, which gapless_to_block has hopped to,   *)
(* once more.  If three requests were too many to be repeated, the client  *)
(* would ask for a restart each time instead, and a restart passes over the*)
(* block it names and those before it.                                     *)
ASSUME TransferAssumption ==
    /\ BlockCount \in Nat \ {0}
    /\ MaxRetransmission \in Nat /\ MaxRetransmission > 3
    /\ TableLimit \in Nat /\ TableLimit >= MaxRetransmission
    /\ OnWireEstimate \in Nat
    /\ Width \in Nat /\ Width > BlockCount + OnWireEstimate
    /\ LossWindows \subseteq 0 .. BlockCount
    /\ MaxUnread \in Nat /\ MaxUnread >= MaxRetransmission - 1
    /\ MaxInFlight \in Nat \ {0}

VARIABLES
    session,      \* one of Sessions, for the whole transfer
    xfer,         \* the client's state of the transfer
    client,       \* "receiving", then "stopped": it has told the server to stop
    copy,         \* what the client's ring and file hold, by block
    flow,         \* the datagrams on their way or in the socket's buffer
    to_server,    \* the requests on their way
    server,       \* "blasting", then "opening": it waits for a file name
    block,        \* the server's xfer->block
    last_block,   \* build_datagram's static
    position      \* the file's position, in blocks

clientVars == <<session, xfer, client, copy>>
serverVars == <<server, block, last_block, position>>
vars == <<clientVars, serverVars, flow, to_server>>

R == INSTANCE ReceiveLoop WITH
    phase <- client, local_datagram <- [block |-> 0, type |-> "blank"], sent <- <<>>, asked <- {}

H == INSTANCE ClientHandler WITH
    FileSizes <- {BlockCount}, MaxTransfers <- 1, MaxRequests <- MaxUnread,
    Networks <- {{}}, network <- {},
    client <- "getting", transfers <- 1, stream <- to_server, phase <- server,
    block_count <- BlockCount, retransmission <- <<>>, errno <- "EAGAIN",
    datagram <- <<>>, written <- <<>>, handled <- <<>>

Block == 1 .. BlockCount

(* Both sides have just opened the transfer.  The statics of the server's  *)
(* process may be left from a transfer before.                             *)
Init ==
    /\ session \in Sessions
    /\ xfer = R!NewTransfer
    /\ client = "receiving"
    /\ copy = [b \in {} |-> 0]
    /\ flow = {}
    /\ to_server = <<>>
    /\ server = "blasting"
    /\ block = 0
    /\ last_block \in 0 .. BlockCount
    /\ position = H!Rewound(BlockCount)

-------------------------------------------------------------------------------
(* The client: a turn of the receive loop.                                 *)

Heeded(out) == R!Keep(out, {r \in R!Entries(out) : r.type # "error_rate"})

(* A turn has one of its outcomes.  A block that is new goes into the ring.*)
(* The client waits in fwrite while the connection is full.                *)
TakeTurn(d, outcomes) ==
    /\ client = "receiving"
    /\ \E o \in outcomes :
          /\ Len(to_server) + Len(Heeded(o.sent)) <= MaxUnread
          /\ xfer' = o.xfer
          /\ client' = o.phase
          /\ to_server' = to_server \o Heeded(o.sent)
          /\ copy' = [b \in o.xfer.received |->
                         IF b \in DOMAIN copy THEN copy[b] ELSE d.data]
    /\ UNCHANGED <<session, serverVars>>

(* The datagram is taken from the flow, or a copy of it stays; all is gone *)
(* when the client closes its socket.                                      *)
Deliver(d) ==
    flow' \in IF client' = "receiving" THEN {flow, flow \ {d}} ELSE {{}}

(* The ring is full: the datagram is passed over, and as good as lost.     *)
PassOver(d) == TakeTurn(d, R!SendStats(xfer, <<>>)) /\ Deliver(d)

Receive(d) == TakeTurn(d, R!Processed(xfer, d, <<>>)) /\ Deliver(d)

-------------------------------------------------------------------------------
(* The server: a turn of the blasting loop.                                *)

(* A datagram is lost if the client has closed its socket, and may be lost *)
(* elsewhere: it is never received.                                        *)
SendDatagram(b, type) ==
    /\ flow' = IF client = "receiving" THEN flow \cup {H!Built(b, type)} ELSE {}
    /\ Cardinality(flow') <= MaxInFlight
    /\ position' = H!PositionAfter(b)
    /\ last_block' = b

SendBlock ==
    /\ server = "blasting"
    /\ SendDatagram(H!NextBlock, H!BlockType)
    /\ block' = H!NextBlock
    /\ UNCHANGED <<clientVars, server, to_server>>

NextRequest(r) ==
    /\ server = "blasting"
    /\ to_server # <<>> /\ Head(to_server) = r
    /\ to_server' = Tail(to_server)
    /\ UNCHANGED clientVars

AnswerRetransmit(b) ==
    /\ NextRequest(H!Retransmit(b))
    /\ SendDatagram(b, "retransmission")
    /\ UNCHANGED <<server, block>>

AnswerRestart(b) ==
    /\ NextRequest(H!Restart(b))
    /\ block' = H!RestartAt(b)
    /\ UNCHANGED <<server, last_block, position, flow>>

AnswerStop ==
    /\ NextRequest(H!StopRequest)
    /\ server' = "opening"
    /\ UNCHANGED <<block, last_block, position, flow>>

ReadRequest ==
    \/ \E b \in Block : AnswerRetransmit(b)
    \/ \E b \in 0 .. BlockCount : AnswerRestart(b)
    \/ AnswerStop

-------------------------------------------------------------------------------
(* The transfer is over on both sides.                                     *)
Over == client # "receiving" /\ server = "opening" /\ UNCHANGED vars

Next ==
    \/ \E d \in flow : Receive(d) \/ PassOver(d)
    \/ SendBlock
    \/ ReadRequest
    \/ Over

Spec == Init /\ [][Next]_vars

Datagram ==
    [block : Block, type : {"original", "terminate", "retransmission"}, data : 0 .. BlockCount]

(* Strong fairness for the datagrams of a block and a type, with what makes*)
(* the client able to take one written out: a datagram that is in the flow *)
(* again and again is not lost every time, nor is the ring always full     *)
(* when it comes: one is processed in the end.  (After the terminating one *)
(* the client must be able to write its requests.)                         *)
Deliverable(b, type) ==
    /\ client = "receiving"
    /\ type = "terminate" => Len(to_server) + MaxRetransmission - 1 <= MaxUnread
    /\ \E d \in flow : d.block = b /\ d.type = type

ReceiveSome(b, type) == \E d \in flow : d.block = b /\ d.type = type /\ Receive(d)

NotLostForEver(b, type) ==
    []<>Deliverable(b, type) => []<><<ReceiveSome(b, type)>>_vars

(* The network repeats datagrams, but not for ever: each copy of the last  *)
(* block's may make the client ask for a restart, and restarts without end *)
(* would keep the server from getting anywhere.                            *)
RepeatsEnd == <>[][UNCHANGED flow => SendBlock \/ ReadRequest]_vars

(* The server sends, and reads what has arrived, though MaxInFlight may    *)
(* make it wait now and then.                                              *)
FairSpec ==
    /\ Spec
    /\ RepeatsEnd
    /\ WF_vars(SendBlock)
    /\ WF_vars(ReadRequest)
    /\ NotLostForEver(BlockCount, "terminate")
    /\ \A b \in 1 .. BlockCount-1 :
          NotLostForEver(b, "original") /\ NotLostForEver(b, "retransmission")

-------------------------------------------------------------------------------
(* Properties.                                                             *)

(* Every variable has its type.                                            *)
TypeOK ==
    /\ R!TypeOK /\ session \in Sessions
    /\ client \in {"receiving", "stopped"} /\ server \in {"blasting", "opening"}
    /\ flow \subseteq Datagram
    /\ to_server \in Seq({H!Retransmit(b) : b \in Block} \cup {H!Restart(b) : b \in 0 .. BlockCount}
                            \cup {H!StopRequest})
    /\ block \in 0 .. BlockCount /\ last_block \in 0 .. BlockCount
    /\ position \in 0 .. BlockCount

DataOf(b) == b

Copying == INSTANCE FileTransfer WITH
    Blocks <- Block, Contents <- DataOf, lossless <- session.lossless,
    status <- IF client = "receiving" THEN "copying" ELSE "complete"

(* The transfer is a copy of the file: blocks arrive with their contents,  *)
(* none is replaced, and the client of a lossless one stops when all of    *)
(* them are there.                                                         *)
CopiesFile == Copying!Spec

(* The transfer comes to its end, lossless or not, although the network    *)
(* loses datagrams, the table drops requests when it is full, restarts     *)
(* overtake one another, and the end waits for a restart to be over.       *)
CopyCompletes == Copying!Completes

===============================================================================
