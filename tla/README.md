# Tsunami UDP in TLA+

Models, model-checking runs and proofs about the Tsunami file transfer protocol
as this repository implements it: a server that blasts a file's blocks over UDP,
and a client that reassembles the file and asks over TCP for what is missing.

Contents: [the system](#the-system), [modules](#modules),
[runs](#runs), [fairness](#fairness), [proofs](#proofs),
[disagreements between code and comments](#disagreements),
[what is left out](#what-is-left-out), [plan](#plan).

## The system

Line numbers below are those of the source. `client/`, `server/` and `common/`
are the program; `rtclient/` and `rtserver/` are the real-time client and server, near
copies for VLBI hardware; `mk5server/` is an older copy of the server.

| Component | Code | State | Operations |
|---|---|---|---|
| Receive loop | `client/command.c` 437-608 | `xfer`: received bitmap, `blocks_left`, `next_block`, `gapless_to_block`, restart window | one turn per datagram: insert, queue missing blocks, advance, end of file, statistics |
| Retransmission table | `client/protocol.c` 310-499 | `xfer.retransmit` (table of block numbers) | `ttp_request_retransmit`, `ttp_repeat_retransmit`, `ttp_request_stop` |
| Ring buffer | `client/ring.c` | indices, two flags, two condition variables, slots | `ring_create`, `_full`, `_reserve`, `_confirm`, `_peek`, `_pop`, `_destroy` |
| Disk thread | `client/command.c` 922-954, `client/io.c` | the slot it works on, the file | peek, `accept_block`, pop, until the stop block |
| Client session | `client/command.c` 93-433, 611-733, `client/protocol.c` 94-298 | TCP and UDP sockets, parameters | connect, authenticate, negotiate, open a transfer, `GET *`, dir, close |
| Server session | `server/main.c` 188-467 | block counter, a partly read request, `errno`, time of the last feedback | per turn of the loop: read request, answer or send next block, look at the heartbeat |
| Server requests | `server/protocol.c` 102-180, `server/io.c` | file position, `build_datagram`'s static `last_block` | retransmit, restart, error rate |
| Opening a transfer | `server/protocol.c` 203-687 | parameters, file | negotiate, authenticate, dir, `GET *`, parameters, UDP port |
| Rate control | `client/protocol.c` 575-619, `server/protocol.c` 116-129, `server/main.c` 364-380 | smoothed error rate, inter-packet delay | report, react to a report, react to a missed heartbeat |
| Pacing | `server/main.c` 270-282, 415-421 | time owed, the longest delay | measure a turn, sleep |
| Real-time server | `rtserver/main.c`, `rtserver/protocol.c`, `rtserver/io.c`, `rtserver/vsibctl.c` | as the server, with the board, a backup file and two more statics | accept, open a recording, build a datagram and write the backup |
| Real-time client | `rtclient/` | as the client | as the client, without `ring_full` |
| Server process | `server/main.c` 97-179, 624-635 | listening socket, children | accept, fork, reap |
| Helpers | `common/common.c` | none | `read_line`, `full_read`, `full_write` |

How they interact:

```
   server session  ---- UDP datagrams (block, type, data) ---->  receive loop --+
        ^   ^                                                        |          | ring_reserve
        |   |                                                        |          | ring_confirm
        |   +---- TCP: retransmit, restart, error rate, stop --------+          v
        |                                                                   ring buffer
        +------- TCP: file name, parameters, port (between transfers) ---       | ring_peek
                                             client session                     v ring_pop
                                                                           disk thread -> file
```

The receive loop and the disk thread share nothing but the ring, under one mutex.
A server session is a process of its own with one thread. Client and server share
the TCP connection, on which file names and requests follow each other with nothing
to tell them apart but the state both sides believe to be in, and the UDP flow,
which may lose, repeat and reorder.

What is hard here, and what makes each part correct:

* **Ring and disk thread.** Two threads, a slot used outside the lock, a slot index
  computed before a wait, two flags to tell a full ring from an empty one, a full
  ring that must not stop the receive loop, and an end that needs a stop block to
  pass through. Correct: every accepted block is stored once and in order, no
  wake-up is lost, slots are not shared, the shutdown completes.
* **Receive loop and table.** Blocks come in any order, repeated or never; requests
  are queued, compacted, replaced by a restart; block counters go back. Correct: no
  missing block is forgotten, only missing blocks are asked for, a restart starts at
  the first missing block, and a transfer ends neither too early nor never.
* **Server session.** Requests come in pieces while blocks go out, a static shortcut
  around `fseeko` outlives the file, missed heartbeats are fed in through the buffer
  that holds half a request, and after a stop the same bytes mean file names. Correct:
  a datagram holds the block it names, requests are acted on as written and in order,
  no byte crosses from one transfer to the next, and a dead client does not keep the
  server sending.
* **Client and server together.** The table overflows, duplicates in it count towards a
  restart, restarts overtake one another, and the server passes over the block that a restart
  names. Correct: the blocks are copied as they are, a lossless transfer ends with
  all of them, and every transfer ends.
* **Rate.** The error rate is smoothed and late, the ring's fill is an integer division, the
  delay starts out of its range, and the loop makes up for time it has lost. Correct: loss never
  makes the server faster, it recovers its rate, slows down when it must, and does not burst.
* **Real-time server.** One process and one board for all clients, statics that outlive a
  transfer, a block that is read without a seek, a backup that has to be finished when the client
  is dead, a board that is open from before the transfer begins, writes to the backup that fail.
  Correct: blocks and backup are right, and the board is given back.
* **Control connection.** Either side may fail between two steps of an exchange,
  and nothing resynchronises the other; one side writes bytes it does not flush, and
  reads its input to the end of the connection or for ever. Correct: each side
  takes what it reads for what was written, the two never wait for each other, a
  command ends, and a closed connection ends the server's process.

`PROJECT.json` lists these hazards one by one, at the line where each bites, with the
properties that watch it or the reason why none does yet.

## Modules

| Module | Models |
|---|---|
| `BlockQueue` | what the ring promises: a bounded first-in first-out queue with a stop marker, and a reader |
| `RingBuffer` | `client/ring.c` with the network thread, of either client, and the disk thread; refines `BlockQueue` |
| `ReceiveLoop` | the receive loop of `command_get` and the table of `client/protocol.c` |
| `ClientHandler` | the server session: `client_handler`, `ttp_accept_retransmit`, `build_datagram` |
| `FileTransfer` | what a transfer promises: a copy of the file, whole if it is lossless |
| `Transfer` | composes `ReceiveLoop` and `ClientHandler` over a UDP flow and a TCP connection; refines `FileTransfer` |
| `Control` | the commands of a client and the child process that serves it, on one control connection |
| `RateControl` | error reports and the inter-packet delay they set |
| `Pacing` | how the server's loop keeps to that delay |
| `RealTimeServer` | the real-time server: its accept loop, `client_handler`, `build_datagram` with board and backup |
| `RingBuffer_proofs`, `ReceiveLoop_proofs`, `ClientHandler_proofs`, `Transfer_proofs`, `Control_proofs`, `RateControl_proofs`, `Pacing_proofs`, `RealTimeServer_proofs` | the theorems |
| `MCRingBuffer`, `MCReceiveLoop`, `MCClientHandler`, `MCTransfer`, `MCControl`, `MCRateControl`, `MCPacing`, `MCRealTimeServer` | instances for TLC |

Definitions keep the names of the C code where they can. A definition whose name ends
in `Wrong`, `Anyway`, `Never` or `Too` stands before the one it is a slip of:
no action uses it, and putting it in place of the right one makes a run fail. That is
how each property is known to watch the code (`mutants` in `PROJECT.json`).

### RingBuffer

Each critical section of `ring.c` is one action, because all of them hold
`ring->mutex` from beginning to end or to a `pthread_cond_wait`. A wait puts the
thread in `waiting`; it is woken by a signal or spuriously and tests its condition
again in a new step (`RingReserveWoken`, `RingPeek`), with the slot computed before
the wait, as in the code. Filling a slot (`CopyIn`) and storing from one
(`AcceptBlock`, `SeeStop`) happen outside the mutex and are actions of their own.
`ring_full` is read in a separate critical section (`Receive`, `Break`).
`program`, which never changes, says which client it is: `rttsunami` has the same ring
and disk thread, but its loop does not ask whether the ring is full (`ReceiveRealTime`,
`BreakRealTime`) and may sleep for the disk in the middle of a transfer.
A block is its number. `Terminated` allows the end of a transfer.

| Action | Code |
|---|---|
| `Receive`, `Break`, `ReceiveRealTime`, `BreakRealTime`, `Abort` | the receive loop decides: a new block, the end, the abort label |
| `RingReserve`, `RingReserveWoken`, `CopyIn`, `RingConfirm` | 472-480 of `command.c` and the functions they call |
| `JoinAndDestroy` | 611-632, `ring_destroy` |
| `RingPeek`, `SeeStop`, `AcceptBlock`, `AcceptBlockFails`, `RingPop` | `disk_thread` |
| `SpuriousWakeup` | what POSIX allows `pthread_cond_wait` |

### ReceiveLoop

The loop is one thread and shares only the ring, so one turn of the loop is one step.
`xfer` is a record, and a turn is a composition of functions on it in the code's order:
`Insert`, `QueueMissing`, `AdvanceGapless`, `ExpectSuccessor`, `ClearRestart`, then the
end of the file (`Complete`, `Finish`, `AskForRest`) and, if it is time,
`ttp_update_stats` with the repeated requests (`SendStats`). The bitmap is the set
`received`. Index 0 of the table in C is index 1 here. `Keep` is the loop that compacts the table
(and the one that fills it): a recursive function over the sequence, as the proofs need it;
`From` is the range it is given. `xfer.dropped` is the only history in the record: it says that a
full table has dropped a request, which the code does silently. `got_block` says that blocks
beyond the file have been received, as in C.

`Sessions` is the set of what a session may be: lossless or not, with a loss window or
without, with failures of `recvfrom` or of writing to the server, or without; `session` is
one of them for the whole transfer.

The environment is any server: each block may come as an original, the last one always
as a terminating datagram, and what has been asked for as a retransmission; each any
number of times, in any order or never. Statistics go out or not, at any turn. The
ring may be full at any turn, whereupon the datagram has no effect. A failed
`recvfrom` repeats the requests and processes the buffer as it is; that buffer is
blank at first (the build zero-fills it or not; block 0 is what a zeroed buffer says).
Counting that block as received is a fault of its own (see `receive_stale_buffer`), so
the properties that count blocks are stated for runs of the loop in which it has not happened
(`NoBlankCounted`); what a failed `recvfrom` does once a datagram has come is covered.
A failed write to the server ends the transfer at the places where the code
checks for it and is ignored at the one (575) where it does not.

### ClientHandler

One turn of the server's loop is one step. A request has three parts on the wire
(type, block, error rate), and `read` returns any number of them, so a request may be
half read, and half of it come later. `errno` is state because the code looks at it
after a `read` that returned 0. `position` and `last_block` are the file's position
and `build_datagram`'s static. `written` and `handled` record the requests for the
properties. The client writes any feedback it may write while it receives (blocks only
once a datagram has been sent: its table is empty until then), then a request to stop,
then the next file name. It may die, silently or by closing the connection.
`network` says what may happen to requests in a session: TCP may split them, or a
live client may be quiet for half a second. Both at once are the subject of
`server_split_stop`.

Opening a transfer is one step here (`Open`, `Refuse`, or `AwaitParameters` when the
client is gone); `Control` has the exchange inside it.
`HeartbeatTimeout` happens to a dead client only: what follows when a live client is
cut off is a matter of the control connection, and in `Control`.

### Transfer

The two loops run as in their modules: `Transfer` instantiates both and uses their
functions (`R!Processed` for a turn of the client, `H!Built`, `H!NextBlock`, `H!RestartAt`
for the server) on its own state. What is new is what lies between them. `flow` is
the set of datagrams on their way or in the socket's buffer, each with the data
it was built with; receiving one takes it out or leaves a copy, and any may be left
for ever. `to_server` is a first-in first-out sequence of requests. `copy` is what the
client has put into its ring, by block. `Heeded` leaves error reports out of what a turn
writes. Sending to a client that has closed its socket leaves
no datagram. A datagram may be passed over because the ring is full. The sessions are
lossless, with a loss window, or without retransmission; failures are left to
`ReceiveLoop` and `ClientHandler`. Error reports are not put into `to_server`: they only
change the rate.

| Action | Code |
|---|---|
| `Receive`, `PassOver` | a turn of `command_get`'s loop |
| `SendBlock` | a turn of `client_handler`'s loop in which no request is complete |
| `AnswerRetransmit`, `AnswerRestart`, `AnswerStop` | a turn in which one is |

`FileTransfer` is the promise: `CopyBlock` adds one block with its contents, and the
transfer may end at any time, or if it is lossless when all blocks are there. The copy
is not the file on disk; that the blocks get there in the ring's order is
`RingBuffer`'s part.

### RateControl and Pacing

`RateControl` has the error rate of `ttp_update_stats` (`Report`), the reports on
their way, and the server's answer to each (`Reads`, 116-129 of `server/protocol.c`)
and to a missed heartbeat (`MissesHeartbeat`). What the network and the disk are going
through is one variable, `condition`, that may change at any time (`Change`). The code computes in
floating point; the model in integers, with reports rounded down as the message is, and a
delay that is made longer rounded up, so that it changes where it changes in the code.

`Pacing` has the loop's clock: a turn takes what the last one slept and an arbitrary
stall, `ipd_time` is corrected by the difference, and the loop sleeps if it is
positive, longer after a terminating block, and not at all when `sendto` fails
or a heartbeat was just missed. `burst` and `longest` are history variables: how far the
stretch of turns that ends now is ahead of its delays, at worst, and the longest turn.

### RealTimeServer

Modelled where it differs from the server. `Connect` and the return to `"accepting"` are the accept
loop, which serves one client after another in one process. Opening a transfer is split where the
server may be left alone with the board. `OpenBoard` is `ttp_open_transfer` up to the start of the
recording (446-520 of `rtserver/protocol.c`); in phase `"agreeing"` the server tells the client, reads its parameters
and its port, and then blasts (`StartTransfer`), has no socket (`NoSocket`: back to reading names), finds a write
failing (`WriteFails`) or waits for, or spins on, a client that has died (`AwaitDead`, which ends in phase `"stuck"`).
`board` says whether `/dev/vsib` is open: `"held"` by a transfer, or `"lost"`, open with nobody left to close it,
which is how `WriteFails` and `NoSocket` leave it. Clients may die at any time (`Die`).

`BuildDatagram` and `BuildFails` are `build_datagram` with and without a successful write
to the backup: `SeekTo` with its shortcut that never moves on (`last_block` stays 0),
the board as a file (`position`, `ReadFrom`), and the backup file with the static
that counts its blocks (`GoesToBackup`, `WrittenBefore`, `Appended`); `backup` is the number of
blocks in it, in order, or `Spoilt`. The static counts a block before it is written (`Read`), so a failed write
is not made up for. In sequence it ends the process (`SendBlock`), in a retransmission it is only warned of
(`AnswerRetransmit`), and what `fclose` cannot write nobody hears of (`CloseFiles`); `failed` is the history
variable that says that one of them has happened in this transfer. `GivesUp` is the timeout with and without a
backup.

### Control

Both sides are sequential programs, so each is a program counter (`client`, `server`)
that mostly names what the side waits to read, and a step is the code from one read to
the next. What one exchange writes is one item on a first-in first-out stream. The
client's stdio buffer is state (`unflushed`): the bytes that acknowledge a directory
listing and a file list are written and not flushed, and go out with whatever is
flushed next. `full_read` takes the end of the connection for "no data yet", so a
server that meets it there spins (`MeetEnd`); elsewhere it exits.

The client ends a command without telling the server when it cannot open its file or its
socket (`OpenFileAndPort`), or when it cannot write a request in the middle of a transfer (`GiveUp`), and the server goes back to waiting for a name when it has no
socket or gives the client up (`OpenPort`, `HeartbeatTimeout`). From then on each takes the other's
bytes for something else; the ghost `deserted` records it and the model stops there.
Those are hazards in `PROJECT.json`; the properties say what holds until then.
The transfer is reduced to feedback and a request to stop.

| Action | Code |
|---|---|
| `SendRevision` to `ReadVerdict` | `command_connect`, `ttp_negotiate`, `ttp_authenticate` of the client |
| `Dir`, `GetAll`, `Get`, `Close` and the reads after them | `command_dir`, `command_get` 294-354, `command_close` |
| `RequestFile` to `OpenFileAndPort`, `Finish`, `GiveUp` | `ttp_open_transfer`, `ttp_open_port`, the file loop of `command_get` and its abort path |
| `SendServerRevision` to `CheckProof` | `client_handler`, `ttp_negotiate`, `ttp_authenticate` of the server |
| `ServeDir`, `ServeAll` to `AgreeOnFile`, `OpenPort` | `ttp_open_transfer`, `ttp_open_port` of the server |
| `BlastBlocks` to `HeartbeatTimeout`, `MeetEnd` | the loop of `client_handler`, `full_read`, `read_line` |

## Runs

Every run takes less than three minutes with two workers. What each shows:

| Run | Instance | Shows |
|---|---|---|
| `ring` | ring of 3, 5 blocks, both clients, writes may fail, transfers may be aborted | safety of the ring, the refinement of `BlockQueue`, every block handed on, the shutdown |
| `receive` | 5 blocks, restart at 3 requests, lossless, with loss windows, without retransmission | the bookkeeping of missing blocks, and what a transfer that ends has |
| `server_session` | files of 0 or 3 blocks, 2 transfers, 2 requests | datagrams, requests and file names of a session; clients are served, dead ones given up |
| `transfer` | 3 blocks, restart at 4 requests, table of 5, lossless, loss windows of 1 or 2, no retransmission | the refinement of `FileTransfer`, and that every transfer ends |
| `control_session` | sessions of up to 5 commands, lists of 0, 1 or 3 files with a hook | the two sides stay in step, commands end, closing ends the server's process |
| `rate` | three target delays, one beyond the range, one near it | the reaction to loss within the range, recovery, backing off |
| `pacing` | delays of 1 or 2, stalls of up to 2, a pause of ten delays | no burst |
| `realtime` | three clients, recordings of 1, 3 or 4 blocks with and without a backup | blocks and backup, and that a transfer gives the board back |
| `receive_stale_buffer`, `server_split_stop`, `control_no_files`, `realtime_first_block` | small | [disagreements](#disagreements), each a violation |

The properties:

* `NoLostWakeup`, `SlotsDisjoint`, `FlagsMatchCounts`, `LoopNeverBlocks`,
  `ImplementsBlockQueue`, `ServesBlockQueue`, `ShutdownCompletes` (`RingBuffer`).
* `BlocksLeftCounts`, `MissingIsTracked`, `AsksForMissing`,
  `RestartsSkipNothing`, `LosslessIsComplete`, `NothingLeftPastGapless`
  (`ReceiveLoop`). `MissingIsTracked` is the one the others rest on: a missing block
  between `gapless_to_block` and `next_block` is in the table, unless the table has dropped requests.
  `RestartsSkipNothing` says that no block before the one a restart names is missing. It may name
  one that has come: see below.
* `DatagramHoldsBlock`, `RequestsInOrder`, `NameSurvives`, `StreamInStep`,
  `ClientIsServed`, `DeadClientEndsTransfer` (`ClientHandler`).
* `CopiesFile`, `CopyCompletes` (`Transfer`).
* `InStep`, `NoMutualWait`, `CommandEnds`, `ClosedEndsServer` (`Control`).
* `NoSpeedUpInRange`, `Recovers`, `BacksOff` (`RateControl`) and `BurstBounded` (`Pacing`).
* `RightUntilAgain`, `BackupSurvivesClient`, `TransferFreesBoard` (`RealTimeServer`).

What they do not say:

* `MissingIsTracked` and `NothingLeftPastGapless` are relative to `gapless_to_block`. With a loss window that
  may wrap (`earliest_block`, `client/command.c:508`) to a number beyond the file, and from then on
  both hold of anything. What a transfer lacks that has wrapped is not stated; that it ends is (`CopyCompletes`).
* `InStep`, `NoMutualWait` and `CommandEnds` are about exchanges that nobody has deserted: they say nothing
  of a client that gives up, nor of one that is alive and was given up by the server.
* `BacksOff` starts from a client that reports a full ring. Its integer division keeps it from doing so until the
  last slot is taken, and no property is about that.
* `NoSpeedUpInRange` lets a report of loss cut a delay beyond the range to the range's end, which is what
  it does at the start (see what was noted while modelling, below).
* `BackupSurvivesClient` excuses a transfer in which a write to the backup has failed (or block 1 was built again), and
  `TransferFreesBoard` is about transfers that have begun: before that a dead client does keep the board.

Bounds, and why they are enough:

* `N` = 3 slots with 5 blocks and a stop block: the ring fills, empties and its
  indices wrap around; a full ring with a reserved slot differs from one without.
  The proofs hold for every `N`.
* `BlockCount` = 5 with `MaxRetransmission` = 3 (`receive`): a first, a last and three
  blocks between, so there are two disjoint gaps, restarts with blocks before,
  inside and after the restart window, and blocks on the wire after it.
* `TableLimit` is `BlockCount` in `receive`. In C it is 32 * 2048 entries, and a full table
  silently takes no more. That happens in the run, in turns that find the table partly filled:
  a table may hold a block twice. `MissingIsTracked` and
  `NothingLeftPastGapless` are about transfers whose table has dropped nothing (`xfer.dropped`);
  after that blocks are forgotten until the end of the file is reached again. Losslessness
  does not depend on it, and that a transfer completes nevertheless is checked in `transfer`,
  whose table of 5 is filled by duplicates of two missing blocks.
* `transfer` has a first block, a last and one between, 4 requests that are too many, and
  2 datagrams in flight: every terminating datagram adds the two missing blocks to the table
  twice, so restarts and a full table happen, in lossless sessions and in those with a loss window,
  and a datagram can overtake another. `MaxRetransmission` must be more than 3 (2048 in C): fewer
  requests than a single missing block can cause would be answered by restarts without end,
  which TLC shows when the assumption is dropped.
* `Width` stands for 2^32, for the subtraction that may wrap (`EarliestBlock`) and the successor of what it gives
  (`PastGapless`: 0, at which the server refuses to restart). It is more than 1, and more than any block number or estimate, as 2^32 is.
  `LossWindows` is the set of values the loss window may have in blocks: the code
  computes it from the measured rate, so it may differ from turn to turn.
* `MaxCommands` = 5 allows every kind of command after every other, with an unflushed
  byte or none between them; a list of 3 files has a first, a middle and a last
  one. `Hook` is set because without one a server that shares nothing leaves both sides waiting
  (`control_no_files`). `MaxFeedback` = 2 puts feedback in front of a request to stop.
* `MaxTransfers` = 2 and `MaxRequests` = 2: a second transfer sees what the first has
  left behind in statics, buffers and stream, and a request to stop follows one that
  was split. `FileSizes` are the empty file and one with a first, a middle and a last block.
* `rate`: delays up to 30 and error rates up to 40 stand for 10000 us and 100000. The target of 50 is
  beyond the highest delay, that of 12 starts (at three times the target) beyond it, that of 2 does
  not. Slower by 25/24 and faster by 5/6 are the defaults; History is 25 percent, as is the default.
* `pacing`: `ipd_time` is bounded by what turns may take; a pause of ten delays and stalls as long
  as a delay make the loop both late and early. The theorems have no bounds.
* `realtime`: a client may die in any state and be followed by two others, which is what it takes for
  one transfer to leave something in the statics, the next to use it, and a third to find the board.

Only `ring` turns deadlock checking off: a failed disk thread leaves the ring full and the
network thread, of either client, waiting for space, which is what the code does. That
neither thread gets stuck otherwise is `ShutdownCompletes` and `ServesBlockQueue`.

## Fairness

* `RingBuffer!FairSpec`: weak fairness of the network thread's steps after a datagram
  is taken, and of the disk thread. Both are threads of one process, and no step but a
  wait blocks; waits are not enabled steps. Datagrams need not arrive, writes
  need not fail, spurious wake-ups need not happen.
* `ClientHandler!FairSpec`: the process runs, so what opens a transfer is done
  (`WF` of `Open`, `Refuse`, `AwaitParameters`, `HangUp`), bytes that have
  arrived are read (`WF` of a turn that reads), and if a client stays dead the
  heartbeat is looked at (`WF` of `HeartbeatTimeout`, `ReadFails`). The last
  assumes that some `sendto` succeeds: after one that fails the code does not look at
  the clock (350-354 of `server/main.c`). Nothing is assumed of the client.
* `Transfer!FairSpec`: the server sends and reads (`WF` of `SendBlock` and `ReadRequest`).
  A block that is sent again and again is received in the end (`NotLostForEver`: strong
  fairness of receiving the datagrams of a block and type, with its enabling condition
  written out), and the network does not repeat datagrams for ever (`RepeatsEnd`). Without the first nothing can
  complete over a network that loses; without the second TLC finds restarts without end, one
  for each copy of the last block.
* `RateControl!FairSpec`: the client reports, the server reads and looks at its clock (`WF`
  of `Report`, `Reads`, `MissesHeartbeat`). Conditions need not change; the properties are about
  those that stay.
* `RealTimeServer!FairSpec`: the loop goes on sending and looks at its clock (`WF` of
  `SendBlock` and `HeartbeatTimeout`). Nobody need connect, ask or die.
* `Control!FairSpec`: both processes run on what is in the connection and the
  transfer of the data comes to its end (`WF` of `ClientStep` and `ServerStep`; what
  makes it end is `Transfer`). Nobody need give
  a command, close, die or time out.

## Proofs

Every model is proved about, each from its assumption about the constants; two theorems of
`ClientHandler` and one of `Control` have a hypothesis besides, which says which constants make the
property false. Each invariant that a passing run checks is a theorem for all values of the
constants, and so is each action property and both refinements. The order of a proof is the same in each
module: facts about the operators, the inductive invariant (`IInv`, which TLC checked on the run's
instance before it was proved), one lemma per action or per stretch of a turn, and the theorems.

### The ring

`RingBuffer_proofs` proves for a ring of any size `N` > 0, any `BlockCount` and with
or without failures, from `RingAssumption` alone:

| Theorem | States |
|---|---|
| `TypeCorrect` | `Spec => []TypeOK` |
| `FlagsTellCounts` | `Spec => []FlagsMatchCounts` |
| `NoWakeupLost` | `Spec => []NoLostWakeup` |
| `NoSlotShared` | `Spec => []SlotsDisjoint` |
| `PopNeverWaits` | `Spec => []DataAtPop` |
| `ReceiveLoopNeverBlocks` | `Spec => []LoopNeverBlocks` |
| `RingImplementsQueue` | `Spec => ImplementsBlockQueue` |

All but the last are conjuncts of the inductive invariant `RingInv`, or follow from
it (`RingInvariant`). None of them is inductive alone. That the flags match the
counts needs the reservation count to be 1 exactly while the network thread is between
`ring_reserve` and `ring_confirm`, and the counts never to exceed `N`; that slots
are disjoint needs the slot the network thread holds to be
`(base_data + count_data) % N`, which
stays true across the disk thread's pops because `base_data` grows by what
`count_data` shrinks; and that holds even when the slot was computed before a wait,
because only the network thread confirms. That ring_pop never waits needs the peeked
slot to be still at the head. `RingImplementsQueue` uses the invariant in
every step: each action either leaves the queue alone or is its `Put`, `Store`,
`TakeStop` or `StoreFails`. The arithmetic of wrapping indices is kept in lemmas about
`Slot`.

### The receive loop

`ReceiveLoop_proofs`, for files of any length, tables of any size, any estimate of what is on the wire
and sessions of any kind, with failures of `recvfrom` and of writes:

| Theorem | States |
|---|---|
| `Inductive` | `Spec => []IInv` |
| `TypeCorrect` | `Spec => []TypeOK` |
| `BlocksLeftIsRight` | `Spec => []BlocksLeftCounts` |
| `NoneOutOfSight` | `Spec => []MissingIsTracked` |
| `LosslessHasAll` | `Spec => []LosslessIsComplete` |
| `LossyHasTheRest` | `Spec => []NothingLeftPastGapless` |
| `OnlyMissingAskedFor` | `Spec => AsksForMissing` |
| `NoneBeforeRestart` | `Spec => RestartsSkipNothing` |

The invariant is about `xfer` alone, so that it can be followed through a turn: `Good(x)` says that
`x` has its types, that `blocks_left` counts what the bitmap lacks, and that in a lossless
session everything up to `gapless_to_block` is there; `TrackedBelow(x, n)` that what is missing
between `gapless_to_block` and `n` is in the table. Between turns `n` is `next_block`. Inside a
turn it is not: `QueueMissing` makes it the block that has come, `ExpectSuccessor` brings it and
`next_block` together again, and a terminating datagram makes it the file's length. This is what
`LossyHasTheRest` needs: with an empty table and nothing to be restarted, nothing between
`gapless_to_block` and the end is missing. There is one lemma for each stretch of the turn
(`RequestRetransmitFacts` to `AcceptFacts`), then one for each set of outcomes. `FeedbackRight`
goes along with them, relating what a turn writes to the blocks that had come before it and those that have
come after it; the two action properties follow.

What the table's loops do is shown by induction over the table (`KeepFacts`): there
is no least place at which the claim fails, since the natural numbers are well-founded.

`MissingIsTracked` had to be stated with a history variable. "As long as there is room in the
table" is not enough: a table that has dropped a request and been compacted has room, and lacks the
block.

### The server session

`ClientHandler_proofs`, for files of any sizes, any number of transfers and requests, and networks of any
kind: `TypeCorrect`, `DatagramsAreRight` (`DatagramHoldsBlock`), `NothingIsLeftOver`
(`StreamInStep`), and, under `NeverBoth`, `ActsAsWritten` (`RequestsInOrder`) and
`NamesAreNotRequests` (`NameSurvives`). `NeverBoth` says that no session has a network that both splits
requests and delays them by half a second. Without it the two are false, which is what
`server_split_stop` shows; sessions with either are covered.

The invariant counts. In a transfer the parts read so far and those in the stream are three for each request
that has been written and not acted on, in their order, and one more for a file name behind them (`Layout`);
part `i` is the part `i mod 3` of its request. This holds even
when a missed heartbeat has overwritten the first part in the buffer, so a live client's stream
starts with a name when the transfer has ended (`Between`). With `InOrder` the parts in the buffer are moreover
those of the first request not acted on. `Positioned` is what makes the shortcut around `fseeko` right, as
in `Transfer`, here also for empty files and from one transfer to the next.

### The transfer

`Transfer_proofs` proves `Copies`, `Spec => CopiesFile`: for a file of any length,
tables, windows and queues of any size, a network that loses, repeats and reorders, and
whatever is asked for and restarted, each block in the copy has its own contents, none is
replaced, and a lossless client stops only with all of them. `Invariance` is the inductive
invariant it rests on, in three parts:

* `ClientInv`: the bitmap is within the file, `blocks_left` is the number of blocks it
  lacks (a cardinality, so the facts about finite sets are cited), the copy holds exactly the blocks of the
  bitmap, and a lossless client that has stopped lacks none.
* `FlowInv`: a datagram holds the block it names.
* `ServerInv`: the file's position is `last_block` once a block has been sent; before, it
  is at the beginning, nothing can have been asked for, and the statics, which may be from
  another transfer, do no harm. This makes `build_datagram`'s shortcut around `fseeko` right.

The first part of the module is about `ReceiveLoop`'s operators: nothing in a turn but `Insert`
changes the bitmap or the count (`ProcessedInserts`). The table does not matter for
the copy; it does for completion, which is model-checked.

The last part carries over what is proved of the receive loop for any server to the client of this one:
`Transfer` uses `ReceiveLoop`'s functions, so that its turns are turns of `ReceiveLoop` once their
datagrams are shown to be of the kinds a server sends (`FlowTypes`, `SameTurn`, `OutcomesRight`). Two
theorems follow: `TypeCorrect`, by which no request names a block outside the file (but for a restart at block 0,
which is refused) and the file is never read beyond its end, and `BookkeepingRight`, that the count, the bitmap and the table agree here too.

### The control connection

`Control_proofs`, for lists of any sizes, sessions of any number of commands and any amount of feedback:
`TypeCorrect`, `StayInStep` (`InStep`), and `NeverWaitForEachOther` (`NoMutualWait`) for a server that
has a hook or shares at least one file: `control_no_files` shows that the two do wait for each other
otherwise.

Neither property is inductive: whether the next item is the right one depends on everything written
before it. `InExchange` therefore says, for each place the client may be at, where the server may be
and exactly what is on its way in both directions. The client writes ahead where the server does not answer: the
acknowledgement of a list that stays unflushed, the stop at the end of a transfer, and the next command behind it.
`Returns`, `GetsToList` and `TakesNext` describe such a stretch of input as one that takes the server from where it
is to where it reads a command. When the client has gone the server is left with a beginning of what
it would have read (`Understood`). Once a side has deserted, only the types are claimed.

### Rate control

`RateControl_proofs`: `TypeCorrect` and `LossSlowsDownInRange` (`NoSpeedUpInRange`), for any factors,
thresholds and targets. The types include where the delay is: between its target and the end of its range (which is
the target if that is greater), or at three times the target, where it starts and where reports that
ask for no change leave it. What is to be shown are bounds on products and quotients: that slowing down by a
factor of at least 1 and rounding up does not shorten a delay, and that clamping does not either
unless the delay was beyond the range.

### Pacing

`Pacing_proofs`: `TypeCorrect`, and `BurstIsBounded`, for any delays, stalls and
failures. `BurstBounded` is inductive together with `TypeOK`: a turn whose time is accounted for moves
`burst` and `ipd_time` alike, and one that is forgiven (`DelayAfter`'s second case) is
not shorter than its delay, so that it cannot lengthen a burst.

### The real-time server

`RealTimeServer_proofs`: `TypeCorrect`, `RightUntilFirstAgain` and `BackupIsFinished`, for recordings
of any length and any number of clients, and writes to the backup that fail at any block. `BeginsAtStart` says that the board is at its
beginning until the first block is built, which is what block 1 without a seek depends
on; `BackupCounted` that until block 1 comes again the static counts the backup's blocks, which are
no fewer than those sent: before that only a write in sequence can fail, which ends the process. `BackupIsFinished` has
both exemptions: block 1 built again, and a failed write.

### Only model-checked

Liveness, which is out of the proof system's reach: `ServesBlockQueue`, `ShutdownCompletes`,
`ClientIsServed`, `DeadClientEndsTransfer`, `CommandEnds`, `ClosedEndsServer`, `CopyCompletes`,
`Recovers`, `BacksOff`, `TransferFreesBoard`.

## Disagreements

Where the code does not do what a comment says. Each is a run that TLC
finds violated.

* `receive_stale_buffer`: a failed `recvfrom` (441) is reported and the loop goes on
  with the buffer as it was. Before the first datagram that is block 0, which is counted
  as a block; a lossless transfer then ends with one block missing, the case
  for which line 671 asks the user to "file a bug report".
* `server_split_stop`: the fake error rate of a missed heartbeat is written into the
  buffer that holds the part of a request read so far (`server/main.c:376`). If that
  was the beginning of a request to stop, the server takes it for an error rate and
  goes on sending.
* `control_no_files`: `GET *` at a server that shares no files. The client goes on to "get the
  \x008 failure signal" (`client/command.c:326`). Only a server with a hook (`--allhook`)
  sends it at once, from `open` of a file named "*"; the other first waits for the 8
  bytes "got list", which the client does not send, so both wait for ever.

* `realtime_first_block`: the real-time server's `build_datagram` "Constructs to hold the given
  block of data" (`rtserver/io.c:70`). The line that remembers `last_block` is commented
  out (152), so block 1 alone is never sought: asked for again, it is sent, and written to
  the backup, with what is at the board's position.

Noted while modelling, without a run:

* The disk thread is said to run "until the network thread sends it a datagram with a block
  number of 0" (`client/command.c:918`). It returns when a write fails (946) and nobody
  notices; the ring fills up, every datagram is dropped, and the stop block waits for space for ever.
* "Restart the transfer at the given block" (`server/protocol.c:93`) goes on after it (153, and
  `server/main.c:340`). The client asks for a restart at its first missing block, and that
  block is the one not sent; it is asked for again later, and `CopyCompletes` shows that this suffices.
* The datagram of an empty file names block 0 although the comment at `client/command.c:451`
  says 1 and more. It works because the block is inserted like any other and the terminating datagram
  ends the loop; the disk thread takes it for the stop block.
* A restart is meant to be "from first missing block" (`client/protocol.c`, `ttp_repeat_retransmit`), and may
  name a block that has come. With a loss window `gapless_to_block` hops, and the blocks hopped over before it
  are not sent again. In a lossless transfer a block that comes inside the window of a restart is marked
  and the turn ends there (`client/command.c:490`), so `gapless_to_block` may stay behind the first gap. That
  costs blocks sent again and loses none: `RestartsSkipNothing`.
* While a restart is pending each datagram of a block that has come is processed like a new one, and queues what is
  missing before it once more. Enough of them fill a table of any size with duplicates.
* `ringfill_fraction` (`client/protocol.c:595`) is a quotient of integers: 0 until the ring is
  full, then 1.
* "Check if the client is still connected after the long(?) wait", says `rtserver/protocol.c:512`, and the lines that
  would close the board and return are commented out. A client that dies during the wait, or before it has
  sent its parameters and port, leaves the server in `full_read` with the board started; there is one process, so nobody
  is served any more (in the model, phase `"stuck"` with `board` `"held"`). If instead a write to the client fails, the server goes on
  to the next client and the stream of the board is forgotten (`"lost"`).
* A missed heartbeat is to "throttle IPD with fake 100% loss report" (`server/main.c:374`). The delay starts at
  three times its target, and the clamp that goes with a report (`server/protocol.c:129`) cuts it to 10000 or, if that is more, the
  target. When three times the target is more than that, the first report, of whatever loss, makes the server faster
  (in `rate`, the target of 12 starts at a delay of 36 and is cut to 30).
* "realtime with local backup" (`rtserver/main.c:406`) goes on for a client that is dead until the backup is complete, and
  a write that fails on the way ends the process (349-352), backup and all. A failing `fclose` (458) is not noticed.
* The heartbeat timeout "disconnects" (`server/main.c:364`) by waiting for another file name.

## What is left out

* The content of blocks, checksums and file formats; block numbers stand for blocks.
* Statistics but the error rate. When they go out is left open. Adjusting the target rate after
  a transfer (`rateadjust`, `client/command.c:706`) is floating-point arithmetic on a measured time.
* Memory: what the disk thread does after the abort path has freed the ring is
  undefined, and its steps stop there.
* Client shell, configuration, sockets, logs and transcripts: no state that
  the protocol depends on. MD5, the Windows layer, utilities and examples:
  vendored or apart from the program.
* Accepting connections: sessions of different clients are processes that share nothing.
  Where `fork` or `accept` fails the server goes on with the next, and the client waits.
* `rtclient` beyond its use of the ring: its `got_block` does not check the range of a
  block, it closes its UDP socket after telling the server to stop, and it does not read the failure
  signal of an empty list; otherwise it is the client's code, and what is shown of that holds for it.
* `rtserver` where it is the server's code; the names of recordings, the driver of the board, the
  mode that packs 3 of 4 channels.
* `mk5server`: an older copy of the server, with the Mark5 API for the file; nothing in it but
  the calls of that API is not in `server`.

Most of the repository's C code is not the program's own: the Windows threads library and
its tests (`win32compat`), and copies of client and server. Of `client`, `server` and
`rtserver`, what remains outside the map is output, option parsing, socket calls and the
change logs in comments at the end of files.

## Plan

1. `RingBuffer` with `BlockQueue`, `ReceiveLoop`, `ClientHandler`, `Transfer` with
   `FileTransfer`, `RateControl`, `Pacing`, `RealTimeServer` (done, checked, their safety proved).
2. `Control` (done, checked, its safety proved). Left: what each side makes of the other's bytes after
   one has deserted, connecting again without closing, and the client shell's dispatch.
3. Proofs next: safety facts behind the liveness properties, such as that a lossless
   transfer that is not complete always has something to ask for or to receive; that `RealTimeServer`'s
   statics agree with the board in every transfer but those that ask for block 1 again; a bound
   on what the server has on its way in terms of the table.
