-------------------------------- MODULE Control --------------------------------
(***************************************************************************)
(* The control connection: the commands of a client (client/command.c,     *)
(* client/protocol.c) and the child process that serves it (client_handler *)
(* in server/main.c, server/protocol.c), from connect to close.            *)
(*                                                                         *)
(* Both sides are sequential programs that write to and read from one TCP  *)
(* connection.  A step is the code from one read to the next.  What is     *)
(* written by one exchange is one item, named by what it is; nothing on the*)
(* wire says so, it is the reader's place in its program that tells.  The  *)
(* client writes through a stdio stream: what it does not flush stays in   *)
(* "unflushed" until the next flush or read.  The transfer itself is       *)
(* reduced to what the connection sees of it: see ReceiveLoop and          *)
(* ClientHandler.                                                          *)
(***************************************************************************)
EXTENDS Integers, Sequences

CONSTANTS
    ListSizes,     \* the numbers of files a server may share
    Hook,          \* param->allhook: a program makes the list for GET *
    MaxCommands,   \* bound: commands of a session
    MaxFeedback    \* bound: requests of a transfer in flight

ASSUME ControlAssumption ==
    /\ ListSizes \subseteq Nat
    /\ Hook \in BOOLEAN
    /\ MaxCommands \in Nat /\ MaxFeedback \in Nat

VARIABLES
    same_revision, same_secret,  \* what the two sides have in common
    client,      \* what the client is at; mostly what it waits for
    commands,    \* commands given so far
    files,       \* files the command has left to get
    unflushed,   \* written by the client and still in its stream's buffer
    server,      \* what the server is at; mostly what it waits for
    listed,      \* files in the list it has announced
    to_server, to_client,  \* the connection
    arriving,    \* datagrams of the client's transfer are on their way
    deserted     \* one side has left an exchange the other is still in

clientVars == <<client, commands, files, unflushed>>
serverVars == <<server, listed>>
vars == <<same_revision, same_secret, clientVars, serverVars, to_server, to_client,
          arriving, deserted>>

Item(kind)   == [kind |-> kind, value |-> 0]
Result(byte) == [kind |-> "result", value |-> byte]
Sizes(n)     == [kind |-> "sizes", value |-> n]

(* What each side can make of the next item, where it reads one.           *)
ClientReads ==
    [revision |-> {"revision"}, challenge |-> {"challenge"}, verdict |-> {"result"},
     listing |-> {"listing"}, sizes |-> {"sizes"}, no_files |-> {"result"},
     names |-> {"names"}, result |-> {"result"}, parameters |-> {"file"}]
ServerReads ==
    [revision |-> {"revision"}, proof |-> {"proof"}, name |-> {"dir", "all", "name"},
     ack |-> {"ack"}, got_size |-> {"got_size"}, got_list |-> {"got_list"},
     listed_name |-> {"name"}, parameters |-> {"parameters"}, port |-> {"port"},
     blasting |-> {"feedback", "stop"}]

Init ==
    /\ same_revision \in BOOLEAN /\ same_secret \in BOOLEAN
    /\ client = "connected" /\ commands = 0 /\ files = 0 /\ unflushed = <<>>
    /\ server = "connected" /\ listed = 0
    /\ to_server = <<>> /\ to_client = <<>>
    /\ arriving = FALSE /\ deserted = FALSE

-------------------------------------------------------------------------------
(* The client.  ClientIs and ClientGets are the ways its steps begin.      *)

ClientUnchanged == UNCHANGED <<same_revision, same_secret, serverVars>>

ClientIs(place) == client = place /\ ClientUnchanged /\ UNCHANGED to_client

ClientGets(place, kind) ==
    /\ client = place /\ ClientUnchanged
    /\ to_client # <<>> /\ Head(to_client).kind = kind
    /\ to_client' = Tail(to_client)

(* fflush, fclose, or fread on a stream last written to.                   *)
FlushedWrong(kinds) == to_server \o [i \in DOMAIN kinds |-> Item(kinds[i])]
Flushed(kinds) == to_server \o unflushed \o [i \in DOMAIN kinds |-> Item(kinds[i])]

Flush(kinds) == to_server' = Flushed(kinds) /\ unflushed' = <<>>

(* command_connect: ttp_negotiate and ttp_authenticate.                    *)
SendRevision ==
    /\ ClientIs("connected")
    /\ Flush(<<"revision">>)
    /\ client' = "revision"
    /\ UNCHANGED <<commands, files, arriving, deserted>>

CheckServerRevision ==
    /\ ClientGets("revision", "revision")
    /\ client' = IF same_revision THEN "challenge" ELSE "closed"
    /\ UNCHANGED <<commands, files, unflushed, to_server, arriving, deserted>>

AnswerChallenge ==
    /\ ClientGets("challenge", "challenge")
    /\ Flush(<<"proof">>)
    /\ client' = "verdict"
    /\ UNCHANGED <<commands, files, arriving, deserted>>

ReadVerdict ==
    /\ ClientGets("verdict", "result")
    /\ client' = IF Head(to_client).value = 0 THEN "ready" ELSE "closed"
    /\ UNCHANGED <<commands, files, unflushed, to_server, arriving, deserted>>

(* A command begins; "place" is where it waits for an answer.              *)
Command(kinds, place) ==
    /\ ClientIs("ready") /\ commands < MaxCommands
    /\ commands' = commands + 1
    /\ Flush(kinds)
    /\ client' = place
    /\ UNCHANGED <<files, arriving, deserted>>

Dir == Command(<<"dir">>, "listing")
GetAll == Command(<<"all">>, "sizes")

Get ==
    /\ ClientIs("ready") /\ commands < MaxCommands
    /\ commands' = commands + 1
    /\ files' = 1
    /\ client' = "request"
    /\ UNCHANGED <<unflushed, to_server, arriving, deserted>>

(* The byte that acknowledges the list is written and not flushed.         *)
ReadListing ==
    /\ ClientGets("listing", "listing")
    /\ unflushed' = Append(unflushed, Item("ack"))
    /\ client' = "ready"
    /\ UNCHANGED <<commands, files, to_server, arriving, deserted>>

ReadSizes ==
    /\ ClientGets("sizes", "sizes")
    /\ Flush(<<"got_size">>)
    /\ files' = Head(to_client).value
    /\ client' = IF Head(to_client).value = 0 THEN "no_files" ELSE "names"
    /\ UNCHANGED <<commands, arriving, deserted>>

ReadFailureSignal ==
    /\ ClientGets("no_files", "result")
    /\ client' = "ready"
    /\ UNCHANGED <<commands, files, unflushed, to_server, arriving, deserted>>

ReadNames ==
    /\ ClientGets("names", "names")
    /\ unflushed' = Append(unflushed, Item("got_list"))
    /\ client' = "request"
    /\ UNCHANGED <<commands, files, to_server, arriving, deserted>>

(* ttp_open_transfer.                                                      *)
RequestFile ==
    /\ ClientIs("request")
    /\ Flush(<<"name">>)
    /\ client' = "result"
    /\ UNCHANGED <<commands, files, arriving, deserted>>

ReadResult ==
    /\ ClientGets("result", "result")
    /\ \/ /\ Head(to_client).value = 0
          /\ Flush(<<"parameters">>)
          /\ client' = "parameters"
       \/ /\ Head(to_client).value # 0
          /\ client' = "ready"
          /\ UNCHANGED <<unflushed, to_server>>
    /\ UNCHANGED <<commands, files, arriving, deserted>>

(* The local file is opened, and ttp_open_port sends the port of a new     *)
(* socket.  If either fails the command ends without telling the server.   *)
OpenFileAndPort ==
    /\ ClientGets("parameters", "file")
    /\ \/ /\ Flush(<<"port">>)
          /\ client' = "receiving"
          /\ UNCHANGED deserted
       \/ /\ client' = "ready"
          /\ deserted' = TRUE
          /\ UNCHANGED <<unflushed, to_server>>
    /\ UNCHANGED <<commands, files, arriving>>

WriteFeedback ==
    /\ ClientIs("receiving") /\ arriving
    /\ Len(to_server) < MaxFeedback
    /\ Flush(<<"feedback">>)
    /\ UNCHANGED <<client, commands, files, arriving, deserted>>

MoreFilesWrong == files > 0
MoreFiles == files > 1

(* The transfer is complete: ttp_request_stop, and the next file, if any.  *)
Finish ==
    /\ ClientIs("receiving") /\ arriving
    /\ Flush(<<"stop">>)
    /\ arriving' = FALSE
    /\ files' = files - 1
    /\ client' = IF MoreFiles THEN "request" ELSE "ready"
    /\ UNCHANGED <<commands, deserted>>

(* A request to the server cannot be written, in the transfer or at its    *)
(* end: the command is given up, and the server is not told.               *)
GiveUp ==
    /\ ClientIs("receiving") /\ arriving
    /\ client' = "ready"
    /\ arriving' = FALSE /\ deserted' = TRUE
    /\ UNCHANGED <<commands, files, unflushed, to_server>>

(* command_close or command_quit.                                          *)
Close ==
    /\ ClientIs("ready")
    /\ Flush(<<>>)
    /\ client' = "closed"
    /\ UNCHANGED <<commands, files, arriving, deserted>>

(* The client's process dies; the connection closes.                       *)
Die ==
    /\ client \notin {"closed", "dead"}
    /\ ClientUnchanged
    /\ client' = "dead"
    /\ unflushed' = <<>>
    /\ UNCHANGED <<commands, files, to_server, to_client, arriving, deserted>>

ClientStep ==
    \/ SendRevision \/ CheckServerRevision \/ AnswerChallenge \/ ReadVerdict
    \/ ReadListing \/ ReadSizes \/ ReadFailureSignal \/ ReadNames
    \/ RequestFile \/ ReadResult \/ OpenFileAndPort \/ Finish

-------------------------------------------------------------------------------
(* The server's child process.                                             *)

ServerUnchanged == UNCHANGED <<same_revision, same_secret, clientVars>>

ServerIs(place) == server = place /\ ServerUnchanged /\ UNCHANGED to_server

ServerGets(place, kind) ==
    /\ server = place /\ ServerUnchanged
    /\ to_server # <<>> /\ Head(to_server).kind = kind
    /\ to_server' = Tail(to_server)

Reply(item) == to_client' = Append(to_client, item)

(* ttp_negotiate and ttp_authenticate.  The process ends if they fail.     *)
SendServerRevision ==
    /\ ServerIs("connected")
    /\ Reply(Item("revision"))
    /\ server' = "revision"
    /\ UNCHANGED <<listed, arriving, deserted>>

CheckRevision ==
    /\ ServerGets("revision", "revision")
    /\ \/ same_revision /\ Reply(Item("challenge")) /\ server' = "proof"
       \/ ~ same_revision /\ server' = "exited" /\ UNCHANGED to_client
    /\ UNCHANGED <<listed, arriving, deserted>>

CheckProof ==
    /\ ServerGets("proof", "proof")
    /\ \/ same_secret /\ Reply(Result(0)) /\ server' = "name"
       \/ ~ same_secret /\ Reply(Result(1)) /\ server' = "exited"
    /\ UNCHANGED <<listed, arriving, deserted>>

(* ttp_open_transfer for a directory.                                      *)
AfterListingWrong == "name"
AfterListing == "ack"

ServeDir ==
    /\ ServerGets("name", "dir")
    /\ Reply(Item("listing"))
    /\ server' = AfterListing
    /\ UNCHANGED <<listed, arriving, deserted>>

ReadAck ==
    /\ ServerGets("ack", "ack")
    /\ server' = "name"
    /\ UNCHANGED <<listed, to_client, arriving, deserted>>

(* ttp_open_transfer for "*", with the hook's list or the server's own.    *)
ServeAll ==
    /\ ServerGets("name", "all")
    /\ \E n \in ListSizes : Reply(Sizes(n)) /\ listed' = n
    /\ server' = "got_size"
    /\ UNCHANGED <<arriving, deserted>>

(* Only a hook's list that is empty ends the exchange here: the server goes*)
(* on to open a file named "*", and fails.                                 *)
EndsHereWrong == FALSE
EndsHere == Hook /\ listed = 0

SendNames ==
    /\ ServerGets("got_size", "got_size")
    /\ \/ EndsHere /\ Reply(Result(8)) /\ server' = "name"
       \/ /\ ~ EndsHere
          /\ server' = "got_list"
          /\ IF listed > 0 THEN Reply(Item("names")) ELSE UNCHANGED to_client
    /\ UNCHANGED <<listed, arriving, deserted>>

ReadGotList ==
    /\ ServerGets("got_list", "got_list")
    /\ server' = "listed_name"
    /\ UNCHANGED <<listed, to_client, arriving, deserted>>

(* ttp_open_transfer for a file, which can be read or not.                 *)
OpenFile ==
    /\ \E place \in {"name", "listed_name"} : ServerGets(place, "name")
    /\ \/ Reply(Result(0)) /\ server' = "parameters"
       \/ Reply(Result(8)) /\ server' = "name"
    /\ UNCHANGED <<listed, arriving, deserted>>

AgreeOnFile ==
    /\ ServerGets("parameters", "parameters")
    /\ Reply(Item("file"))
    /\ server' = "port"
    /\ UNCHANGED <<listed, arriving, deserted>>

(* ttp_open_port.  If there is no socket the client is not told.           *)
OpenPort ==
    /\ ServerGets("port", "port")
    /\ \/ server' = "blasting" /\ UNCHANGED deserted
       \/ server' = "name" /\ deserted' = TRUE
    /\ UNCHANGED <<listed, to_client, arriving>>

(* client_handler's loop.                                                  *)
BlastBlocks ==
    /\ ServerIs("blasting")
    /\ client = "receiving" /\ ~ arriving
    /\ arriving' = TRUE
    /\ UNCHANGED <<serverVars, to_client, deserted>>

ReadFeedback ==
    /\ ServerGets("blasting", "feedback")
    /\ UNCHANGED <<serverVars, to_client, arriving, deserted>>

AfterStopWrong == "blasting"
AfterStop == "name"

ReadStop ==
    /\ ServerGets("blasting", "stop")
    /\ server' = AfterStop
    /\ UNCHANGED <<listed, to_client, arriving, deserted>>

(* Nothing has been heard of the client for hb_timeout seconds.            *)
HeartbeatTimeout ==
    /\ ServerIs("blasting")
    /\ to_server = <<>>
    /\ server' = "name"
    /\ deserted' = TRUE
    /\ UNCHANGED <<listed, to_client, arriving>>

(* The connection is at its end.  read_line ends the process, and so does  *)
(* the loop, by a failed read or by way of its heartbeat; full_read, which *)
(* takes the end for no data yet, reads again for ever.                    *)
MeetEnd ==
    /\ server \in DOMAIN ServerReads
    /\ ServerUnchanged
    /\ to_server = <<>> /\ client \in {"closed", "dead"}
    /\ server' = IF server \in {"name", "listed_name", "blasting"} THEN "exited"
                                                                   ELSE "spinning"
    /\ UNCHANGED <<listed, to_server, to_client, arriving, deserted>>

ServerStep ==
    \/ SendServerRevision \/ CheckRevision \/ CheckProof
    \/ ServeDir \/ ReadAck \/ ServeAll \/ SendNames \/ ReadGotList
    \/ OpenFile \/ AgreeOnFile \/ OpenPort
    \/ BlastBlocks \/ ReadFeedback \/ ReadStop \/ MeetEnd

-------------------------------------------------------------------------------
(* The session is over; or the two are out of step, and what they make of  *)
(* each other's bytes from then on is not modelled.                        *)
Over == client \in {"closed", "dead"} /\ server \in {"exited", "spinning"}

Ended == (Over \/ deserted) /\ UNCHANGED vars

Next ==
    \/ ClientStep \/ Dir \/ GetAll \/ Get \/ WriteFeedback \/ GiveUp \/ Close \/ Die
    \/ ServerStep \/ HeartbeatTimeout
    \/ Ended

Spec == Init /\ [][Next]_vars

(* Both processes run, TCP delivers what is flushed, and the transfer of   *)
(* the data comes to its end.  Nobody need give a command, close or die.   *)
FairSpec == Spec /\ WF_vars(ClientStep) /\ WF_vars(ServerStep)

-------------------------------------------------------------------------------
(* Properties.                                                             *)

ClientWaits == client \in DOMAIN ClientReads
ServerWaits == server \in DOMAIN ServerReads

TypeOK ==
    /\ client \in DOMAIN ClientReads
                    \cup {"connected", "ready", "request", "receiving", "closed", "dead"}
    /\ server \in DOMAIN ServerReads \cup {"connected", "exited", "spinning"}
    /\ commands \in 0 .. MaxCommands
    /\ files \in Nat /\ listed \in Nat
    /\ unflushed \in Seq({Item("ack"), Item("got_list")}) /\ Len(unflushed) <= 1

(* Each side takes what it reads for what the other has written, although  *)
(* nothing on the wire says what it is, as long as nobody has deserted.    *)
InStep ==
    ~ deserted =>
        /\ ClientWaits /\ to_client # <<>> => Head(to_client).kind \in ClientReads[client]
        /\ ServerWaits /\ to_server # <<>> => Head(to_server).kind \in ServerReads[server]

(* The two never wait for each other.                                      *)
NoMutualWait ==
    ~ deserted /\ ClientWaits /\ ServerWaits => to_client # <<>> \/ to_server # <<>>

(* Every command comes to an end, whatever the server has to offer.        *)
CommandEnds ==
    client \notin {"ready", "closed", "dead"} ~>
        client \in {"ready", "closed", "dead"} \/ deserted

(* A client that closes the connection leaves no process behind.  (One that*)
(* dies within an exchange does: its server spins in full_read.)           *)
ClosedEndsServer == client = "closed" ~> server = "exited" \/ deserted

(* A client told that there are no files can "get the \x008 failure signal"*)
(* (command_get).                                                          *)
FailureIsSignalled ==
    client = "no_files" ~> client # "no_files" \/ to_client # <<>>
===============================================================================
