---------------------------- MODULE RealTimeServer ----------------------------
(***************************************************************************)
(* The real-time server (rtserver): it blasts what a VSIB board records    *)
(* while it records it and, if the client's file name has a directory, also*)
(* writes the blocks to a local backup file.  There is one board, so there *)
(* is one process that serves one client after the other.                  *)
(*                                                                         *)
(* Modelled are the accept loop of main, client_handler (rtserver/main.c), *)
(* ttp_open_transfer and ttp_open_port (rtserver/protocol.c) as far as they*)
(* hold the board, and build_datagram (rtserver/io.c).  A client is the    *)
(* environment; how its requests arrive, and error rates, are as in        *)
(* ClientHandler and left to it.  The board is taken for a file that can be*)
(* sought in and never ends, as the code does.                             *)
(***************************************************************************)
EXTENDS Integers, Sequences

CONSTANTS
    Recordings,   \* what clients ask for: blocks, and whether to keep a backup
    MaxClients    \* bound: clients that connect

ASSUME RecordingsAssumption ==
    /\ Recordings \subseteq [blocks : Nat \ {0}, backup : BOOLEAN]
    /\ MaxClients \in Nat

VARIABLES
    phase,         \* "accepting", "negotiating", "opening", "agreeing" (parameters
                   \* and port), "blasting"; for ever: "stuck" (waits for a dead
                   \* client), "exited"
    client,        \* "none", "live", "silent", "gone"
    clients,       \* the clients that have connected so far
    board,         \* "closed", "held", or "lost": open for ever, its stream forgotten
    fileout,       \* param->fileout: keep a backup
    block_count,   \* param->block_count
    block,         \* xfer->block
    position,      \* the board's position, in blocks
    last_written_vsib_block,  \* build_datagram's static
    backup,        \* the blocks in the backup file, or Spoilt
    datagram,      \* the last datagram built
    failed,        \* history: a write to the backup has failed in this transfer
    again          \* history: block 1 has been built again in this transfer

fileVars == <<position, last_written_vsib_block, backup, datagram, failed, again>>
transferVars == <<fileout, block_count, block>>
vars == <<phase, client, clients, board, transferVars, fileVars>>

Lower(a, b) == IF a < b THEN a ELSE b

(* A backup that has some block cut short or out of its place.             *)
Spoilt == -1

NoDatagram == [block |-> 0, type |-> "none", data |-> 0]

Init ==
    /\ phase = "accepting" /\ client = "none" /\ clients = 0 /\ board = "closed"
    /\ fileout = FALSE
    /\ block_count = 0 /\ block = 0
    /\ position = 0 /\ last_written_vsib_block = 0
    /\ backup = 0 /\ datagram = NoDatagram
    /\ failed = FALSE /\ again = FALSE

-------------------------------------------------------------------------------
(* The clients.                                                            *)

Connect ==
    /\ phase = "accepting" /\ clients < MaxClients
    /\ clients' = clients + 1
    /\ client' = "live"
    /\ phase' = "negotiating"
    /\ UNCHANGED <<board, transferVars, fileVars>>

(* A client goes away without a word, or closes the connection.            *)
Die ==
    /\ client = "live"
    /\ client' \in {"silent", "gone"}
    /\ UNCHANGED <<phase, clients, board, transferVars, fileVars>>

-------------------------------------------------------------------------------
(* Between transfers.                                                      *)

(* Protocol revisions and secrets agree, or error() ends the process.      *)
Negotiate ==
    /\ phase = "negotiating" /\ client = "live"
    /\ phase' \in {"opening", "exited"}
    /\ UNCHANGED <<client, clients, board, transferVars, fileVars>>

(* ttp_open_transfer fails, for want of a name, a board or a backup file,  *)
(* or it has listed the recordings: client_handler returns, and main closes*)
(* the connection.                                                         *)
Refuse ==
    /\ phase = "opening" /\ client \in {"live", "gone"}
    /\ phase' = "accepting"
    /\ client' = "none"
    /\ UNCHANGED <<clients, board, transferVars, fileVars>>

(* The name has been read: the board is opened, the backup begun and, at   *)
(* the time the name gives, the board started.  The server does not look at*)
(* its client meanwhile.  block_count and block, which are set later, are  *)
(* not read before.                                                        *)
OpenBoard(r) ==
    /\ phase = "opening" /\ client = "live"
    /\ phase' = "agreeing"
    /\ board' = IF board = "lost" THEN "lost" ELSE "held"
    /\ fileout' = r.backup
    /\ block_count' = r.blocks
    /\ block' = 0
    /\ position' = 0
    /\ backup' = 0
    /\ datagram' = NoDatagram
    /\ failed' = FALSE
    /\ again' = FALSE
    /\ UNCHANGED <<client, clients, last_written_vsib_block>>

(* The parameters and the port have come and the file's size has gone out. *)
StartTransfer ==
    /\ phase = "agreeing" /\ client = "live"
    /\ phase' = "blasting"
    /\ UNCHANGED <<client, clients, board, transferVars, fileVars>>

(* There is no UDP socket: the server waits for another name.              *)
NoSocket ==
    /\ phase = "agreeing" /\ client = "live"
    /\ phase' = "opening"
    /\ board' = "lost"
    /\ UNCHANGED <<client, clients, transferVars, fileVars>>

(* A write to the client fails: client_handler returns, or SIGPIPE ends the*)
(* process.                                                                *)
WriteFails ==
    /\ phase = "agreeing" /\ client \in {"silent", "gone"}
    /\ \/ phase' = "accepting" /\ client' = "none" /\ board' = "lost"
       \/ phase' = "exited" /\ UNCHANGED <<client, board>>
    /\ UNCHANGED <<clients, transferVars, fileVars>>

(* The client is dead and the server reads its revision, its proof, a name,*)
(* parameters or a port: it waits, or spins (full_read), for ever.         *)
AwaitDead ==
    /\ phase \in {"negotiating", "opening", "agreeing"} /\ client \in {"silent", "gone"}
    /\ phase' = "stuck"
    /\ UNCHANGED <<client, clients, board, transferVars, fileVars>>

-------------------------------------------------------------------------------
(* build_datagram.                                                         *)

(* The static last_block stays 0, so only block 1 is read without a seek.  *)
SeekTo(b) == IF b # 1 THEN b - 1 ELSE position

(* Block 1 begins the backup anew, as far as the count goes.               *)
WrittenBeforeWrong(b) == last_written_vsib_block
WrittenBefore(b) == IF b = 1 THEN 0 ELSE last_written_vsib_block

GoesToBackup(b) == fileout /\ b = WrittenBefore(b) + 1

(* What the board delivers after the recording is not told apart.          *)
ReadFrom(p) == Lower(p + 1, block_count + 1)

Appended(data) == IF data = backup + 1 /\ data <= block_count THEN data ELSE Spoilt

(* What is done whether or not the block can be written to the backup.     *)
Read(b) ==
    /\ position' = ReadFrom(SeekTo(b))
    /\ last_written_vsib_block' = WrittenBefore(b) + (IF GoesToBackup(b) THEN 1 ELSE 0)
    /\ again' = (again \/ (b = 1 /\ datagram # NoDatagram))

BuildDatagram(b, type) ==
    LET data == ReadFrom(SeekTo(b))
    IN  /\ Read(b)
        /\ datagram' = [block |-> b, type |-> type, data |-> data]
        /\ backup' = IF GoesToBackup(b) THEN Appended(data) ELSE backup

(* Nothing of the block, or a part of it, could be written to the backup:  *)
(* there is no datagram, and the block counts as written.                  *)
BuildFails(b) ==
    /\ GoesToBackup(b)
    /\ Read(b)
    /\ backup' \in {backup, Spoilt}
    /\ failed' = TRUE
    /\ UNCHANGED datagram

(* A transfer is over: the backup is closed, of which the last bytes may   *)
(* fail to be written only now, and the board is stopped and closed.       *)
FreedBoard == IF board = "lost" THEN "lost" ELSE "closed"

CloseFiles ==
    /\ phase' = "opening"
    /\ board' = FreedBoard
    /\ failed' \in {failed, failed \/ fileout}

-------------------------------------------------------------------------------
(* One turn of the loop that blasts the blocks.                            *)

NextBlock == Lower(block + 1, block_count)
BlockType == IF NextBlock = block_count THEN "terminate" ELSE "original"

(* The client asks for blocks, or for a restart, only below what it has    *)
(* been sent.  That a block cannot be written is no more than warned of.   *)
AnswerRetransmit(b) ==
    /\ client = "live"
    /\ \/ BuildDatagram(b, "retransmission") /\ UNCHANGED failed
       \/ BuildFails(b)
    /\ UNCHANGED <<phase, client, clients, board, transferVars>>

RestartAtWrong(b) == b + 1
RestartAt(b) == b

AnswerRestart(b) ==
    /\ client = "live"
    /\ block' = RestartAt(b)
    /\ UNCHANGED <<phase, client, clients, board, fileout, block_count, fileVars>>

AnswerStop ==
    /\ client = "live"
    /\ CloseFiles
    /\ UNCHANGED <<client, clients, transferVars, position, last_written_vsib_block,
                   backup, datagram, again>>

(* The next block is sent, or sendto fails.  If the block cannot be        *)
(* written error() ends the process.                                       *)
SendBlock ==
    /\ block' = NextBlock
    /\ \/ BuildDatagram(NextBlock, BlockType) /\ UNCHANGED <<phase, failed>>
       \/ BuildFails(NextBlock) /\ phase' = "exited"
    /\ UNCHANGED <<client, clients, board, fileout, block_count>>

(* The heartbeat has been missed for hb_timeout seconds.  A transfer with  *)
(* a backup goes on until its last block.                                  *)
GivesUpWrong == TRUE
GivesUpNever == ~ fileout
GivesUp == fileout => BlockType = "terminate"

HeartbeatTimeout ==
    /\ client \in {"silent", "gone"}
    /\ GivesUp
    /\ BuildDatagram(NextBlock, BlockType)
    /\ block' = NextBlock
    /\ CloseFiles
    /\ UNCHANGED <<client, clients, fileout, block_count>>

(* The connection is at its end and errno is not EAGAIN (say, because      *)
(* sendto has failed): error(), unless there is a backup to be made.       *)
ReadFails ==
    /\ client = "gone" /\ ~ fileout
    /\ phase' = "exited"
    /\ UNCHANGED <<client, clients, board, transferVars, fileVars>>

Turn ==
    /\ phase = "blasting"
    /\ \/ \E b \in 1 .. block : AnswerRetransmit(b) \/ AnswerRestart(b)
       \/ AnswerStop
       \/ SendBlock
       \/ HeartbeatTimeout
       \/ ReadFails

-------------------------------------------------------------------------------
(* There are no more clients, or the process is stuck or gone.             *)
Idle ==
    /\ \/ phase = "accepting" /\ clients = MaxClients
       \/ phase \in {"stuck", "exited"}
    /\ UNCHANGED vars

Next ==
    \/ Connect \/ Die
    \/ Negotiate \/ Refuse
    \/ \E r \in Recordings : OpenBoard(r)
    \/ StartTransfer \/ NoSocket \/ WriteFails \/ AwaitDead
    \/ Turn
    \/ Idle

Spec == Init /\ [][Next]_vars

(* The process runs: it looks at its clock when a block has been sent.     *)
FairSpec ==
    /\ Spec
    /\ WF_vars(phase = "blasting" /\ SendBlock)
    /\ WF_vars(phase = "blasting" /\ HeartbeatTimeout)

-------------------------------------------------------------------------------
(* Properties.                                                             *)

(* Every variable has its type.                                            *)
TypeOK ==
    /\ phase \in {"accepting", "negotiating", "opening", "agreeing", "blasting",
                 "stuck", "exited"}
    /\ client \in {"none", "live", "silent", "gone"}
    /\ clients \in 0 .. MaxClients
    /\ board \in {"closed", "held", "lost"}
    /\ fileout \in BOOLEAN /\ failed \in BOOLEAN /\ again \in BOOLEAN
    /\ block_count \in Nat /\ block \in 0 .. block_count
    /\ position \in Nat /\ last_written_vsib_block \in Nat
    /\ backup \in 0 .. block_count \cup {Spoilt}
    /\ datagram.block \in 0 .. block_count /\ datagram.data \in 0 .. block_count+1

(* build_datagram makes a datagram "to hold the given block of data".      *)
HoldsGivenBlock == datagram # NoDatagram => datagram.data = datagram.block

(* The recording that is sent, and the backup, are right until block 1 is  *)
(* asked for again: whatever else is retransmitted or restarted, each block*)
(* holds its data and is in the backup, in its place.                      *)
RightUntilAgain ==
    phase = "blasting" /\ ~ again =>
        HoldsGivenBlock /\ (fileout => backup >= block)

(* "realtime with local backup": if the client dies its transfer ends only *)
(* when the backup has every block, or a write to it has failed, or block 1*)
(* has been built again.  Of the writes that fail, the one of the last     *)
(* bytes, when the backup is closed, goes unnoticed; one in the sequence of*)
(* blocks ends the process.                                                *)
BackupSurvivesClient ==
    [][phase = "blasting" /\ phase' # "blasting" /\ client # "live" /\ fileout
          => again' \/ failed' \/ backup' = block_count]_vars

(* A transfer that has begun does not hold the board for a dead client for *)
(* ever, unless the process ends.  This is not so before it has begun, nor *)
(* of a stream that was lost before.                                       *)
TransferFreesBoard ==
    phase = "blasting" /\ client \in {"silent", "gone"} ~> phase = "exited" \/ board # "held"
===============================================================================
