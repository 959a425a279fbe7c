----------------------------- MODULE ClientHandler -----------------------------
(***************************************************************************)
(* A server session: client_handler (server/main.c), the loop that blasts  *)
(* a file's blocks over UDP while it reads requests from a TCP connection, *)
(* with ttp_accept_retransmit (server/protocol.c) and build_datagram       *)
(* (server/io.c).                                                          *)
(*                                                                         *)
(* The connection carries requests of three parts each, which may arrive   *)
(* part by part, and file names.  One turn of the loop is one step; what   *)
(* opens a transfer (the exchange of parameters and of the UDP port) is    *)
(* taken to succeed in one step.  The client is the environment: it sends  *)
(* any feedback it likes during a transfer, then a request to stop.  Once  *)
(* its heartbeat is so late that the server gives the transfer up it is    *)
(* dead, and writes no more.                                               *)
(***************************************************************************)
EXTENDS Integers, Sequences

CONSTANTS
    FileSizes,      \* the numbers of blocks of the files there are
    MaxTransfers,   \* bound: file names the client writes in a session
    MaxRequests,    \* bound: requests the client writes in a session
    Networks        \* what the network may do to requests, in a session

(* "splits": requests may arrive part by part.  "delays": a live client may*)
(* be silent for half a second.                                            *)
ASSUME HandlerAssumption ==
    /\ FileSizes \subseteq Nat
    /\ MaxTransfers \in Nat /\ MaxRequests \in Nat
    /\ Networks \subseteq SUBSET {"splits", "delays"}

VARIABLES
    network,        \* one of Networks, for the whole session
    client,         \* "idle", "asked", "getting", "silent", "gone"
    transfers,      \* the file names written so far
    stream,         \* the parts on their way to the server
    phase,          \* "opening", "parameters", "blasting", "exited"
    block_count,    \* param->block_count
    block,          \* xfer->block
    retransmission, \* the parts of a request read so far (retransmitlen)
    errno,          \* "EAGAIN" or "other"
    last_block,     \* build_datagram's static
    position,       \* the file's position, in blocks
    datagram,       \* the last datagram sent
    written,        \* the requests written
    handled         \* the requests the server has acted on

clientVars == <<client, transfers, written, network>>
fileVars   == <<last_block, position>>
vars == <<network, client, transfers, stream, phase, block_count, block, retransmission,
          errno, last_block, position, datagram, written, handled>>

MaySplit == "splits" \in network
MayLoseHeartbeat == "delays" \in network

Lower(a, b) == IF a < b THEN a ELSE b

Retransmit(b) == [type |-> "retransmit", block |-> b]
Restart(b)    == [type |-> "restart", block |-> b]
ErrorRate     == [type |-> "error_rate", block |-> 0]
StopRequest   == [type |-> "stop", block |-> 0]
FileName      == [type |-> "name", block |-> 0]

(* On the wire: type, block and error rate.                                *)
RequestParts == 3
Parts(r) == [i \in 1 .. RequestParts |-> [of |-> r, part |-> i]]
Name     == <<[of |-> FileName, part |-> 1]>>

(* The request in the buffer; its fields may come from different requests. *)
Assembled(parts) == [type |-> parts[1].of.type, block |-> parts[2].of.block]

NoDatagram == [block |-> 0, type |-> "none", data |-> 0]

Init ==
    /\ network \in Networks
    /\ client = "idle" /\ transfers = 0
    /\ stream = <<>>
    /\ phase = "opening"
    /\ block_count = 0 /\ block = 0
    /\ retransmission = <<>>
    /\ errno \in {"EAGAIN", "other"}
    /\ last_block = 0 /\ position = 0
    /\ datagram = NoDatagram
    /\ written = <<>> /\ handled = <<>>

-------------------------------------------------------------------------------
(* The client.                                                             *)

Feedback ==
    {Retransmit(b) : b \in 1 .. block_count-1}
      \cup {Restart(b) : b \in 1 .. block_count} \cup {ErrorRate}

Serving == UNCHANGED <<network, phase, block_count, block, retransmission, errno,
                       fileVars, datagram, handled>>

AskForFile ==
    /\ client = "idle" /\ transfers < MaxTransfers
    /\ client' = "asked" /\ transfers' = transfers + 1
    /\ stream' = stream \o Name
    /\ UNCHANGED written /\ Serving

WriteRequest(r) ==
    /\ stream' = stream \o Parts(r)
    /\ written' = Append(written, r)
    /\ UNCHANGED transfers /\ Serving

(* A client asks for blocks only after it has received one.                *)
WriteFeedback ==
    /\ client = "getting" /\ Len(written) < MaxRequests
    /\ \E r \in Feedback : (r # ErrorRate => block > 0) /\ WriteRequest(r)
    /\ UNCHANGED client

WriteStop ==
    /\ client = "getting"
    /\ WriteRequest(StopRequest)
    /\ client' = "idle"

(* The client's host goes away without a word, or closes the connection.   *)
Die ==
    /\ client \notin {"silent", "gone"}
    /\ client' \in {"silent", "gone"}
    /\ UNCHANGED <<transfers, stream, written>> /\ Serving

-------------------------------------------------------------------------------
(* The files.                                                              *)

(* build_datagram and sendto: seek unless the file is read in sequence.    *)
SeekToWrong(b) == IF b <= last_block THEN b - 1 ELSE position
SeekTo(b) == IF b # last_block + 1 THEN b - 1 ELSE position

Readable(p) == p \in 0 .. block_count-1

Built(b, type) ==
    LET p == SeekTo(b)
    IN  [block |-> b, type |-> type, data |-> IF Readable(p) THEN p + 1 ELSE 0]

PositionAfter(b) == IF Readable(SeekTo(b)) THEN SeekTo(b) + 1 ELSE SeekTo(b)

BuildDatagram(b, type) ==
    /\ datagram' = Built(b, type)
    /\ position' = PositionAfter(b)
    /\ last_block' = b

(* Where ttp_open_transfer leaves the file after it has taken its size.    *)
RewoundWrong(n) == n
Rewound(n) == 0

-------------------------------------------------------------------------------
(* Between transfers: ttp_open_transfer.                                   *)

Open ==
    /\ phase = "opening"
    /\ stream # <<>> /\ Head(stream).of = FileName
    /\ client \notin {"silent", "gone"}
    /\ stream' = Tail(stream)
    /\ \E n \in FileSizes :
          /\ block_count' = n
          /\ position' = Rewound(n)
    /\ block' = 0
    /\ retransmission' = <<>>
    /\ phase' = "blasting"
    /\ client' = "getting"
    /\ UNCHANGED <<network, transfers, written, errno, last_block, datagram, handled>>

(* There is no such file, or there is none of that name because this is not*)
(* a name but what a transfer given up has left in the stream.             *)
Refuse ==
    /\ phase = "opening"
    /\ stream # <<>>
    /\ stream' = Tail(stream)
    /\ client' = IF client = "asked" THEN "idle" ELSE client
    /\ UNCHANGED <<network, transfers, written, phase, block_count, block, retransmission,
                   errno, fileVars, datagram, handled>>

(* The file is there but no client any more: full_read waits for parameters*)
(* for ever, and at the end of the stream it even spins.                   *)
AwaitParameters ==
    /\ phase = "opening"
    /\ stream # <<>> /\ Head(stream).of = FileName
    /\ client \in {"silent", "gone"}
    /\ stream' = Tail(stream)
    /\ phase' = "parameters"
    /\ UNCHANGED <<clientVars, block_count, block, retransmission, errno,
                   fileVars, datagram, handled>>

(* read_line meets the end of the stream: error() ends the process.        *)
HangUp ==
    /\ phase = "opening"
    /\ stream = <<>> /\ client = "gone"
    /\ phase' = "exited"
    /\ UNCHANGED <<clientVars, stream, block_count, block, retransmission, errno,
                   fileVars, datagram, handled>>

-------------------------------------------------------------------------------
(* One turn of the loop that blasts the blocks.                            *)

Room == RequestParts - Len(retransmission)

(* How many parts read() may return.                                       *)
ReadSizes ==
    LET most == Lower(Room, Len(stream))
    IN  IF MaySplit THEN 0 .. most
        ELSE IF most = 0 THEN {0} ELSE {0, most}

Read(k) == stream' = SubSeq(stream, k + 1, Len(stream))

Buffer(k) == retransmission \o SubSeq(stream, 1, k)

(* At the end of the stream read() returns 0 and leaves errno alone.       *)
AtEnd == stream = <<>> /\ client = "gone"
ErrnoAfter(k) == IF k = 0 /\ ~ AtEnd THEN "EAGAIN" ELSE errno

NextBlockWrong == block + 1
NextBlock == Lower(block + 1, block_count)

BlockType == IF NextBlock = block_count THEN "terminate" ELSE "original"

RestartAtWrong(b) == b
RestartAt(b) == IF b = 0 \/ b > block_count THEN block ELSE b

(* ttp_accept_retransmit.  A retransmission that cannot be sent is as good *)
(* as lost.                                                                *)
Answer(r) ==
    \/ r.type = "retransmit" /\ BuildDatagram(r.block, "retransmission") /\ UNCHANGED block
    \/ /\ r.type = "restart"
       /\ block' = RestartAt(r.block)
       /\ UNCHANGED <<fileVars, datagram>>
    \/ r.type \notin {"retransmit", "restart"} /\ UNCHANGED <<block, fileVars, datagram>>

IsStopNever(r) == FALSE
IsStopToo(r) == r.type \in {"stop", "restart"}
IsStop(r) == r.type = "stop"

LeftoverWrong(parts) == parts
Leftover(parts) == <<>>

(* A request is complete.  A request to stop ends the transfer.            *)
HandleRequest(k) ==
    LET r == Assembled(Buffer(k))
    IN  /\ Len(Buffer(k)) = RequestParts
        /\ Read(k)
        /\ errno' = ErrnoAfter(k)
        /\ handled' = Append(handled, r)
        /\ \/ /\ IsStop(r)
              /\ phase' = "opening"
              /\ block' = 0
              /\ retransmission' = Buffer(k)
              /\ UNCHANGED <<fileVars, datagram>>
           \/ /\ ~ IsStop(r)
              /\ Answer(r)
              /\ retransmission' = Leftover(Buffer(k))
              /\ UNCHANGED phase
        /\ UNCHANGED <<clientVars, block_count>>

(* No request is complete: the next block is sent.                         *)
SendBlock(k) ==
    /\ Len(Buffer(k)) < RequestParts
    /\ AtEnd => errno = "EAGAIN"
    /\ Read(k)
    /\ errno' = ErrnoAfter(k)
    /\ BuildDatagram(NextBlock, BlockType)
    /\ UNCHANGED <<clientVars, block_count, handled>>

BlastBlock(k) ==
    /\ SendBlock(k)
    /\ block' = NextBlock
    /\ retransmission' = Buffer(k)
    /\ UNCHANGED phase

(* sendto fails: the block is passed over, and the heartbeat is not looked *)
(* at.                                                                     *)
SendFails(k) ==
    /\ Len(Buffer(k)) < RequestParts
    /\ AtEnd => errno = "EAGAIN"
    /\ Read(k)
    /\ errno' = "other"
    /\ BuildDatagram(NextBlock, "unsent")
    /\ block' = NextBlock
    /\ retransmission' = Buffer(k)
    /\ UNCHANGED <<clientVars, phase, block_count, handled>>

(* A heartbeat has been missed: the error rate is raised by way of the     *)
(* buffer for requests.                                                    *)
OverwrittenBuffer(k) == SubSeq(Parts(ErrorRate), 1, Len(Buffer(k)))

HeartbeatLost(k) ==
    /\ MayLoseHeartbeat \/ client \in {"silent", "gone"}
    /\ SendBlock(k)
    /\ block' = NextBlock
    /\ retransmission' = OverwrittenBuffer(k)
    /\ UNCHANGED phase

(* It has been missed for hb_timeout seconds: the transfer is over.        *)
TimedOutWrong == client = "gone"
TimedOut == client \in {"silent", "gone"}

HeartbeatTimeout ==
    /\ TimedOut
    /\ SendBlock(0)
    /\ block' = 0
    /\ retransmission' = OverwrittenBuffer(0)
    /\ phase' = "opening"

(* read() fails with something else than EAGAIN: error() ends the process. *)
ReadFails ==
    /\ AtEnd /\ errno # "EAGAIN"
    /\ phase' = "exited"
    /\ UNCHANGED <<clientVars, stream, block_count, block, retransmission, errno,
                   fileVars, datagram, handled>>

ReadAndServe(k) == HandleRequest(k) \/ BlastBlock(k) \/ SendFails(k) \/ HeartbeatLost(k)

Turn ==
    /\ phase = "blasting"
    /\ \/ \E k \in ReadSizes : ReadAndServe(k)
       \/ HeartbeatTimeout
       \/ ReadFails

-------------------------------------------------------------------------------
(* The process is gone or waits for a client that writes no more.          *)
Closed ==
    /\ \/ phase \in {"parameters", "exited"}
       \/ phase = "opening" /\ stream = <<>> /\ client = "silent"
    /\ UNCHANGED vars

Next ==
    \/ AskForFile \/ WriteFeedback \/ WriteStop \/ Die
    \/ Open \/ Refuse \/ AwaitParameters \/ HangUp
    \/ Turn
    \/ Closed

Spec == Init /\ [][Next]_vars

(* The process runs, TCP delivers what was written, and a clock that says  *)
(* the client is dead is looked at in the end, for some blocks do get sent.*)
ReadWhatIsThere ==
    phase = "blasting" /\ \E k \in ReadSizes \ {0} : ReadAndServe(k)

FairSpec ==
    /\ Spec
    /\ WF_vars(Open \/ Refuse \/ AwaitParameters \/ HangUp)
    /\ WF_vars(ReadWhatIsThere)
    /\ WF_vars(phase = "blasting" /\ (HeartbeatTimeout \/ ReadFails))

-------------------------------------------------------------------------------
(* Properties.                                                             *)

Alive == client \notin {"silent", "gone"}

TypeOK ==
    /\ client \in {"idle", "asked", "getting", "silent", "gone"}
    /\ transfers \in 0 .. MaxTransfers
    /\ phase \in {"opening", "parameters", "blasting", "exited"}
    /\ block_count \in FileSizes \cup {0}
    /\ block \in 0 .. block_count
    /\ Len(retransmission) <= RequestParts
    /\ last_block \in Nat /\ position \in -1 .. block_count
    /\ errno \in {"EAGAIN", "other"}

(* A datagram holds the data of the block it names, whatever was sent or   *)
(* opened before it: build_datagram's shortcut around fseeko never goes    *)
(* astray.                                                                 *)
DatagramHoldsBlock == datagram.type # "none" => datagram.data = datagram.block

(* The requests of a live client are acted on as it wrote them, each once  *)
(* and in order, however TCP splits them.                                  *)
RequestsInOrder ==
    Alive => Len(handled) <= Len(written) /\ handled = SubSeq(written, 1, Len(handled))

(* No file name is taken for a part of a request: after it has asked for a *)
(* file a client finds its name still unread.                              *)
NameSurvives ==
    client = "asked" => \E i \in DOMAIN stream : stream[i].of = FileName

(* Between two transfers a live client's stream starts with a file name.   *)
StreamInStep ==
    phase = "opening" /\ Alive => stream = <<>> \/ Head(stream).of = FileName

(* "if it's a stop request, go back to waiting for a filename": a request  *)
(* to stop is never taken for another.                                     *)
StopsAreObeyed ==
    \A i \in DOMAIN handled :
        Alive /\ written[i] = StopRequest => handled[i] = StopRequest

(* A client that has asked the server to stop, or for a file, is served.   *)
ClientIsServed ==
    /\ client = "idle" ~> phase # "blasting"
    /\ client = "asked" ~> client # "asked"

(* The server does not send to a dead client for ever.                     *)
DeadClientEndsTransfer == ~ Alive ~> phase # "blasting"
===============================================================================
