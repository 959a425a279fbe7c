---------------------------- MODULE Control_proofs ----------------------------
(***************************************************************************)
(* Proofs about Control, for lists of any size, sessions of any length and *)
(* any amount of feedback: as long as nobody has deserted an exchange each *)
(* side takes what it reads for what the other has written, and, if a      *)
(* server without a hook has a file to share, the two never wait for each  *)
(* other.                                                                  *)
(*                                                                         *)
(* The invariant says where the server is and what is on its way for each  *)
(* place the client may be at.  What the client writes ahead is always the *)
(* same: the end of an exchange that the server does not answer, and the   *)
(* next command behind it.                                                 *)
(***************************************************************************)
EXTENDS Control, SequenceTheorems, TLAPS

Kinds == {"revision", "challenge", "proof", "result", "dir", "listing", "ack",
          "all", "sizes", "got_size", "names", "got_list", "name", "parameters",
          "file", "port", "feedback", "stop"}
Items == [kind : Kinds, value : Nat]

Types ==
    /\ TypeOK
    /\ same_revision \in BOOLEAN /\ same_secret \in BOOLEAN
    /\ arriving \in BOOLEAN /\ deserted \in BOOLEAN
    /\ to_server \in Seq(Items) /\ to_client \in Seq(Items)
    /\ unflushed \in Seq(Items)
    /\ arriving => client \in {"receiving", "dead"}
    /\ client \notin {"ready", "request"} => unflushed = <<>>
    /\ client \in {"names", "request", "result", "parameters", "receiving"} => files > 0

-------------------------------------------------------------------------------
(* The invariant.                                                          *)

Gone == client \in {"closed", "dead"}

(* Where the server is, and what is on its way in either direction.        *)
Is(place, sent, answered) ==
    server = place /\ to_server = sent /\ to_client = answered

(* What the server is going to read, flushed or not.                       *)
Coming == to_server \o unflushed

AllFeedback(q) == \A i \in 1 .. Len(q) : q[i] = Item("feedback")

(* By reading q a server at this place gets to where it takes a command, or*)
(* the name of a file that it has listed; it does not answer.              *)
Returns(place, q) ==
    \/ place = "name" /\ q = <<>>
    \/ place = "ack" /\ q = <<Item("ack")>>
    \/ /\ place = "blasting"
       /\ \E r \in Seq(Items) : AllFeedback(r) /\ q = Append(r, Item("stop"))

GetsToList(place, q) ==
    \/ place = "listed_name" /\ q = <<>>
    \/ place = "got_list" /\ q = <<Item("got_list")>>

TakesNext(place, kind, q) ==
    \/ Returns(place, q)
    \/ kind = "name" /\ GetsToList(place, q)

(* The last thing written is a command the server has not come to yet.     *)
Asked(kind) ==
    \E q \in Seq(Items) : to_server = Append(q, Item(kind)) /\ TakesNext(server, kind, q)

(* The server takes what it reads for what it is.                          *)
Understood ==
    \/ server \in {"exited", "spinning"}
    \/ server = "connected" /\ to_server \in {<<>>, <<Item("revision")>>}
    \/ ServerWaits /\ to_server = <<>>
    \/ ServerWaits /\ \E kind \in ServerReads[server] : to_server = <<Item(kind)>>
    \/ server = "blasting" /\ AllFeedback(to_server)
    \/ TakesNext(server, "name", to_server)
    \/ \E kind \in {"dir", "all", "name"} : Asked(kind)

(* The exchange the client is in, and how far the server has come.         *)
Greeting ==
    /\ client = "connected" =>
          \/ Is("connected", <<>>, <<>>)
          \/ Is("revision", <<>>, <<Item("revision")>>)
    /\ client = "revision" =>
          \/ Is("connected", <<Item("revision")>>, <<>>)
          \/ Is("revision", <<Item("revision")>>, <<Item("revision")>>)
          \/ same_revision /\ Is("proof", <<>>, <<Item("revision"), Item("challenge")>>)
          \/ ~ same_revision /\ Is("exited", <<>>, <<Item("revision")>>)
    /\ client = "challenge" =>
          /\ same_revision
          /\ \/ Is("revision", <<Item("revision")>>, <<>>)
             \/ Is("proof", <<>>, <<Item("challenge")>>)
    /\ client = "verdict" =>
          \/ Is("proof", <<Item("proof")>>, <<>>)
          \/ Is("name", <<>>, <<Result(0)>>)
          \/ Is("exited", <<>>, <<Result(1)>>)

Listing ==
    /\ client = "listing" =>
          \/ Asked("dir") /\ to_client = <<>>
          \/ Is("ack", <<>>, <<Item("listing")>>)
    /\ client = "sizes" =>
          \/ Asked("all") /\ to_client = <<>>
          \/ listed \in ListSizes /\ Is("got_size", <<>>, <<Sizes(listed)>>)
    /\ client = "no_files" =>
          /\ listed = 0 /\ listed \in ListSizes
          /\ \/ Is("got_size", <<Item("got_size")>>, <<>>)
             \/ Hook /\ Is("name", <<>>, <<Result(8)>>)
             \/ ~ Hook /\ Is("got_list", <<>>, <<>>)
    /\ client = "names" =>
          /\ listed > 0
          /\ \/ Is("got_size", <<Item("got_size")>>, <<>>)
             \/ Is("got_list", <<>>, <<Item("names")>>)

Getting ==
    /\ client = "result" =>
          \/ Asked("name") /\ to_client = <<>>
          \/ Is("parameters", <<>>, <<Result(0)>>)
          \/ Is("name", <<>>, <<Result(8)>>)
    /\ client = "parameters" =>
          \/ Is("parameters", <<Item("parameters")>>, <<>>)
          \/ Is("port", <<>>, <<Item("file")>>)
    /\ client = "receiving" =>
          /\ to_client = <<>>
          /\ \/ server = "port" /\ to_server = <<Item("port")>> /\ ~ arriving
             \/ server = "blasting" /\ AllFeedback(to_server)

BetweenCommands ==
    /\ client = "ready" => to_client = <<>> /\ Returns(server, Coming)
    /\ client = "request" => to_client = <<>> /\ TakesNext(server, "name", Coming)

InExchange == Greeting /\ Listing /\ Getting /\ BetweenCommands

IInv ==
    /\ Types
    /\ ~ deserted /\ ~ Gone => InExchange
    /\ ~ deserted /\ Gone => Understood

-------------------------------------------------------------------------------
(* Items and what is written of them.                                      *)

LEMMA ItemFacts ==
    /\ \A kind \in Kinds : Item(kind) \in Items /\ Item(kind).kind = kind
    /\ \A n \in Nat : /\ Result(n) \in Items /\ Result(n).kind = "result" /\ Result(n).value = n
                      /\ Sizes(n) \in Items /\ Sizes(n).kind = "sizes" /\ Sizes(n).value = n
BY DEF Item, Result, Sizes, Items, Kinds

LEMMA OneItem ==
    ASSUME NEW x \in Items
    PROVE  /\ <<x>> \in Seq(Items) /\ <<x>> # <<>> /\ Head(<<x>>) = x /\ Tail(<<x>>) = <<>>
           /\ Append(<<>>, x) = <<x>>
<1>1. <<>> \in Seq(Items) /\ Append(<<>>, x) = <<x>>
  OBVIOUS
<1>2. Append(<<>>, x) \in Seq(Items) /\ Append(<<>>, x) # <<>>
  BY <1>1, AppendProperties
<1> QED
  BY <1>1, <1>2, HeadTailAppend

LEMMA TwoItems ==
    ASSUME NEW x \in Items, NEW y \in Items
    PROVE  /\ Append(<<x>>, y) = <<x, y>> /\ <<x, y>> \in Seq(Items) /\ <<x, y>> # <<>>
           /\ Head(<<x, y>>) = x /\ Tail(<<x, y>>) = <<y>>
<1>1. <<x>> \in Seq(Items) /\ <<x>> # <<>> /\ Head(<<x>>) = x /\ Tail(<<x>>) = <<>>
      /\ Append(<<>>, y) = <<y>>
  BY OneItem
<1>2. Len(<<x>>) = 1 /\ <<x>>[1] = x
  OBVIOUS
<1>3. <<x, y>> \in Seq(Items) /\ Len(<<x, y>>) = 2 /\ <<x, y>>[1] = x /\ <<x, y>>[2] = y
  OBVIOUS
<1>4. /\ Append(<<x>>, y) \in Seq(Items) /\ Append(<<x>>, y) # <<>>
      /\ Len(Append(<<x>>, y)) = 2
      /\ Append(<<x>>, y)[1] = x /\ Append(<<x>>, y)[2] = y
  BY <1>1, <1>2, AppendProperties
<1>5. Append(<<x>>, y) = <<x, y>>
  <2>1. \A i \in 1 .. 2 : i = 1 \/ i = 2
    OBVIOUS
  <2>2. \A i \in 1 .. 2 : Append(<<x>>, y)[i] = <<x, y>>[i]
    BY <1>3, <1>4, <2>1
  <2> QED
    BY <1>3, <1>4, <2>2, SeqEqual
<1> QED
  BY <1>1, <1>3, <1>4, <1>5, HeadTailAppend

(* What is flushed is all that was coming, and a new item behind it.       *)
LEMMA FlushFacts ==
    ASSUME Types
    PROVE  /\ Coming \in Seq(Items)
           /\ unflushed = <<>> => Coming = to_server
           /\ Flushed(<<>>) = Coming
           /\ \A kind \in Kinds : Flushed(<<kind>>) = Append(Coming, Item(kind))
<1>1. to_server \in Seq(Items) /\ unflushed \in Seq(Items)
  BY DEF Types
<1>2. Coming \in Seq(Items) /\ (unflushed = <<>> => Coming = to_server)
  BY <1>1, ConcatProperties, ConcatEmptySeq DEF Coming
<1>3. Flushed(<<>>) = Coming
  <2>1. [i \in DOMAIN <<>> |-> Item(<<>>[i])] = <<>>
    OBVIOUS
  <2>2. Flushed(<<>>) = Coming \o <<>>
    BY <2>1 DEF Flushed, Coming
  <2> QED
    BY <1>2, <2>2, ConcatEmptySeq
<1>4. ASSUME NEW kind \in Kinds
      PROVE  Flushed(<<kind>>) = Append(Coming, Item(kind))
  <2>1. [i \in DOMAIN <<kind>> |-> Item(<<kind>>[i])] = <<Item(kind)>>
    OBVIOUS
  <2>2. Flushed(<<kind>>) = Coming \o <<Item(kind)>>
    BY <2>1 DEF Flushed, Coming
  <2> QED
    BY <1>2, <2>2, ItemFacts, AppendIsConcat
<1> QED
  BY <1>2, <1>3, <1>4

(* A sequence is read from its front, whatever is behind it.               *)
LEMMA ConcatTail ==
    ASSUME NEW S, NEW s \in Seq(S), NEW t \in Seq(S), s # <<>>
    PROVE  Head(s \o t) = Head(s) /\ Tail(s \o t) = Tail(s) \o t
<1>1. /\ s \o t \in Seq(S) /\ Len(s \o t) = Len(s) + Len(t)
      /\ \A i \in 1 .. Len(s) + Len(t) : (s \o t)[i] = IF i <= Len(s) THEN s[i] ELSE t[i - Len(s)]
  BY ConcatProperties
<1>2. Len(s) \in Nat /\ Len(s) > 0 /\ Len(t) \in Nat
  BY EmptySeq, LenProperties
<1>3. s \o t # <<>>
  BY <1>1, <1>2, EmptySeq
<1>4. /\ Tail(s \o t) \in Seq(S) /\ Len(Tail(s \o t)) = Len(s) + Len(t) - 1
      /\ \A i \in 1 .. Len(s) + Len(t) - 1 : Tail(s \o t)[i] = (s \o t)[i+1]
  BY <1>1, <1>3, HeadTailProperties
<1>5. /\ Tail(s) \in Seq(S) /\ Len(Tail(s)) = Len(s) - 1
      /\ \A i \in 1 .. Len(s) - 1 : Tail(s)[i] = s[i+1]
  BY HeadTailProperties
<1>6. /\ Tail(s) \o t \in Seq(S) /\ Len(Tail(s) \o t) = Len(s) - 1 + Len(t)
      /\ \A i \in 1 .. Len(s) - 1 + Len(t) :
            (Tail(s) \o t)[i] = IF i <= Len(s) - 1 THEN Tail(s)[i] ELSE t[i - (Len(s) - 1)]
  BY <1>5, ConcatProperties
<1>7. \A i \in 1 .. Len(s) + Len(t) - 1 : Tail(s \o t)[i] = (Tail(s) \o t)[i]
  <2> TAKE i \in 1 .. Len(s) + Len(t) - 1
  <2>1. Tail(s \o t)[i] = IF i + 1 <= Len(s) THEN s[i+1] ELSE t[i + 1 - Len(s)]
    BY <1>1, <1>2, <1>4
  <2>2. (Tail(s) \o t)[i] = IF i <= Len(s) - 1 THEN s[i+1] ELSE t[i - (Len(s) - 1)]
    BY <1>2, <1>5, <1>6
  <2>3. i + 1 - Len(s) = i - (Len(s) - 1) /\ (i + 1 <= Len(s) <=> i <= Len(s) - 1)
    BY <1>2
  <2> QED
    BY <2>1, <2>2, <2>3
<1>8. Tail(s \o t) = Tail(s) \o t
  BY <1>2, <1>4, <1>6, <1>7, SeqEqual
<1> QED
  BY <1>1, <1>2, <1>3, <1>8

LEMMA FeedbackTail ==
    ASSUME NEW q \in Seq(Items), q # <<>>, AllFeedback(q)
    PROVE  Tail(q) \in Seq(Items) /\ Head(q) = Item("feedback") /\ AllFeedback(Tail(q))
<1>1. /\ Tail(q) \in Seq(Items) /\ Len(Tail(q)) = Len(q) - 1 /\ Len(q) \in Nat /\ Len(q) > 0
      /\ \A i \in 1 .. Len(Tail(q)) : Tail(q)[i] = q[i+1]
  BY HeadTailProperties, EmptySeq, LenProperties
<1>2. \A i \in 1 .. Len(q) - 1 : i + 1 \in 1 .. Len(q)
  BY <1>1
<1>3. AllFeedback(Tail(q))
  BY <1>1, <1>2 DEF AllFeedback
<1>4. 1 \in 1 .. Len(q) /\ Head(q) = q[1]
  BY <1>1
<1> QED
  BY <1>1, <1>3, <1>4 DEF AllFeedback

(* The end of an exchange that the server has to read, item by item.       *)
LEMMA ReturnsTail ==
    ASSUME NEW place, NEW q \in Seq(Items), q # <<>>, Returns(place, q)
    PROVE  \/ place = "ack" /\ Head(q) = Item("ack") /\ Tail(q) = <<>>
           \/ place = "blasting" /\ Head(q) = Item("stop") /\ Tail(q) = <<>>
           \/ place = "blasting" /\ Head(q) = Item("feedback") /\ Returns(place, Tail(q))
<1>1. CASE place = "ack" /\ q = <<Item("ack")>>
  BY <1>1, ItemFacts, OneItem DEF Kinds
<1>2. CASE /\ place = "blasting"
           /\ \E r \in Seq(Items) : AllFeedback(r) /\ q = Append(r, Item("stop"))
  <2>1. PICK r \in Seq(Items) : AllFeedback(r) /\ q = Append(r, Item("stop"))
    BY <1>2
  <2>2. CASE r = <<>>
    BY <1>2, <2>1, <2>2, HeadTailAppend
  <2>3. CASE r # <<>>
    <3>1. Head(q) = Head(r) /\ Tail(q) = Append(Tail(r), Item("stop"))
      BY <2>1, <2>3, HeadTailAppend
    <3>2. Tail(r) \in Seq(Items) /\ Head(r) = Item("feedback") /\ AllFeedback(Tail(r))
      BY <2>1, <2>3, FeedbackTail
    <3> QED
      BY <1>2, <3>1, <3>2 DEF Returns
  <2> QED
    BY <2>2, <2>3
<1> QED
  BY <1>1, <1>2 DEF Returns

-------------------------------------------------------------------------------
(* Types.                                                                  *)

LEMMA Writes ==
    ASSUME Types
    PROVE  /\ \A kind \in Kinds :
                 Flush(<<kind>>) => /\ to_server' = Append(Coming, Item(kind))
                                    /\ to_server' \in Seq(Items) /\ unflushed' = <<>>
           /\ Flush(<<>>) => /\ to_server' = Coming /\ to_server' \in Seq(Items)
                             /\ unflushed' = <<>>
           /\ \A x \in Items : Reply(x) => to_client' = Append(to_client, x)
                                           /\ to_client' \in Seq(Items)
<1>1. Coming \in Seq(Items) /\ to_client \in Seq(Items)
  BY FlushFacts DEF Types
<1>2. \A kind \in Kinds : Append(Coming, Item(kind)) \in Seq(Items)
  BY <1>1, ItemFacts, AppendProperties
<1>3. \A x \in Items : Append(to_client, x) \in Seq(Items)
  BY <1>1, AppendProperties
<1> QED
  BY <1>1, <1>2, <1>3, FlushFacts DEF Flush, Reply

LEMMA Reads ==
    ASSUME Types
    PROVE  /\ to_client # <<>> => /\ Head(to_client) \in Items /\ Head(to_client).value \in Nat
                                  /\ Tail(to_client) \in Seq(Items)
           /\ to_server # <<>> => Head(to_server) \in Items /\ Tail(to_server) \in Seq(Items)
<1>1. to_server \in Seq(Items) /\ to_client \in Seq(Items)
  BY DEF Types
<1>2. to_client # <<>> => Head(to_client) \in Items /\ Tail(to_client) \in Seq(Items)
  BY <1>1, HeadTailProperties
<1>3. to_server # <<>> => Head(to_server) \in Items /\ Tail(to_server) \in Seq(Items)
  BY <1>1, HeadTailProperties
<1> QED
  BY <1>2, <1>3 DEF Items

LEMMA Places ==
    /\ DOMAIN ClientReads = {"revision", "challenge", "verdict", "listing", "sizes", "no_files",
                             "names", "result", "parameters"}
    /\ DOMAIN ServerReads = {"revision", "proof", "name", "ack", "got_size", "got_list",
                             "listed_name", "parameters", "port", "blasting"}
BY DEF ClientReads, ServerReads

LEMMA AckTypes ==
    ASSUME NEW x \in {Item("ack"), Item("got_list")}
    PROVE  /\ Append(<<>>, x) = <<x>>
           /\ <<x>> \in Seq({Item("ack"), Item("got_list")}) /\ Len(<<x>>) <= 1
           /\ <<x>> \in Seq(Items)
<1>1. x \in Items
  BY ItemFacts DEF Kinds
<1>2. <<x>> \in Seq({Item("ack"), Item("got_list")}) /\ Len(<<x>>) = 1
  OBVIOUS
<1> QED
  BY <1>1, <1>2, OneItem

LEMMA ClientTypes ==
    ASSUME Types,
           ClientStep \/ Dir \/ GetAll \/ Get \/ WriteFeedback \/ GiveUp \/ Close \/ Die
    PROVE  Types'
<1> USE Places DEF ClientIs, ClientGets, ClientUnchanged, serverVars
<1>1. CASE SendRevision
  BY <1>1, Writes DEF SendRevision, Types, TypeOK, Kinds
<1>2. CASE CheckServerRevision
  BY <1>2, Reads DEF CheckServerRevision, Types, TypeOK, Kinds
<1>3. CASE AnswerChallenge
  BY <1>3, Reads, Writes DEF AnswerChallenge, Types, TypeOK, Kinds
<1>4. CASE ReadVerdict
  BY <1>4, Reads DEF ReadVerdict, Types, TypeOK, Kinds
<1>5. CASE ReadListing
  <2>1. unflushed = <<>> /\ to_client # <<>>
    BY <1>5 DEF ReadListing, Types
  <2>2. unflushed' = <<Item("ack")>>
    BY <1>5, <2>1, AckTypes DEF ReadListing
  <2> QED
    BY <1>5, <2>1, <2>2, AckTypes, Reads DEF ReadListing, Types, TypeOK, Kinds
<1>6. CASE ReadSizes
  <2>1. to_server' \in Seq(Items) /\ unflushed' = <<>>
    BY <1>6, Writes DEF ReadSizes, Kinds
  <2> QED
    BY <1>6, <2>1, Reads DEF ReadSizes, Types, TypeOK
<1>7. CASE ReadFailureSignal
  BY <1>7, Reads DEF ReadFailureSignal, Types, TypeOK, Kinds
<1>8. CASE ReadNames
  <2>1. unflushed = <<>> /\ to_client # <<>>
    BY <1>8 DEF ReadNames, Types
  <2>2. unflushed' = <<Item("got_list")>>
    BY <1>8, <2>1, AckTypes DEF ReadNames
  <2> QED
    BY <1>8, <2>1, <2>2, AckTypes, Reads DEF ReadNames, Types, TypeOK, Kinds
<1>9. CASE RequestFile
  <2>1. to_server' \in Seq(Items) /\ unflushed' = <<>>
    BY <1>9, Writes DEF RequestFile, Kinds
  <2> QED
    BY <1>9, <2>1 DEF RequestFile, Types, TypeOK
<1>10. CASE ReadResult
  BY <1>10, Reads, Writes DEF ReadResult, Types, TypeOK, Kinds
<1>11. CASE OpenFileAndPort
  BY <1>11, Reads, Writes DEF OpenFileAndPort, Types, TypeOK, Kinds
<1>12. CASE Finish
  <2>1. to_server' \in Seq(Items) /\ unflushed' = <<>>
    BY <1>12, Writes DEF Finish, Kinds
  <2>2. /\ client = "receiving" /\ files' = files - 1
        /\ client' = IF files > 1 THEN "request" ELSE "ready"
        /\ arriving' = FALSE
        /\ UNCHANGED <<same_revision, same_secret, commands, server, listed, to_client, deserted>>
    BY <1>12 DEF Finish, MoreFiles
  <2> QED
    <3>1. files' \in Nat /\ (client' = "request" => files' > 0)
      BY <2>2 DEF Types, TypeOK
    <3> QED
      BY <2>1, <2>2, <3>1 DEF Types, TypeOK
<1>13. CASE Dir \/ GetAll
  <2>1. to_server' \in Seq(Items) /\ unflushed' = <<>>
    BY <1>13, Writes DEF Dir, GetAll, Command, Kinds
  <2>2. /\ client = "ready" /\ client' \in {"listing", "sizes"}
        /\ commands < MaxCommands /\ commands' = commands + 1
        /\ UNCHANGED <<same_revision, same_secret, files, server, listed, to_client, arriving,
                       deserted>>
    BY <1>13 DEF Dir, GetAll, Command
  <2> QED
    BY <2>1, <2>2, ControlAssumption DEF Types, TypeOK
<1>14. CASE Get
  BY <1>14, ControlAssumption DEF Get, Types, TypeOK, Kinds
<1>15. CASE WriteFeedback
  BY <1>15, Writes DEF WriteFeedback, Types, TypeOK, Kinds
<1>16. CASE Close
  <2>1. to_server' \in Seq(Items) /\ unflushed' = <<>>
    BY <1>16, Writes DEF Close, Kinds
  <2> QED
    BY <1>16, <2>1 DEF Close, Types, TypeOK
<1>17. CASE Die
  BY <1>17 DEF Die, Types, TypeOK, Kinds
<1>18. CASE GiveUp
  BY <1>18 DEF GiveUp, Types, TypeOK, Kinds
<1> QED
  BY <1>1, <1>2, <1>3, <1>4, <1>5, <1>6, <1>7, <1>8, <1>9, <1>10, <1>11, <1>12, <1>13,
     <1>14, <1>15, <1>16, <1>17, <1>18 DEF ClientStep

LEMMA ServerTypes ==
    ASSUME Types, ServerStep \/ HeartbeatTimeout
    PROVE  Types'
<1> USE Places DEF ServerIs, ServerGets, ServerUnchanged, clientVars, serverVars
<1>1. CASE SendServerRevision
  BY <1>1, Writes, ItemFacts DEF SendServerRevision, Types, TypeOK, Kinds
<1>2. CASE CheckRevision
  BY <1>2, Reads, Writes, ItemFacts DEF CheckRevision, Types, TypeOK, Kinds
<1>3. CASE CheckProof
  BY <1>3, Reads, Writes, ItemFacts DEF CheckProof, Types, TypeOK, Kinds
<1>4. CASE ServeDir
  BY <1>4, Reads, Writes, ItemFacts DEF ServeDir, AfterListing, Types, TypeOK, Kinds
<1>5. CASE ReadAck
  BY <1>5, Reads DEF ReadAck, Types, TypeOK, Kinds
<1>6. CASE ServeAll
  BY <1>6, Reads, Writes, ItemFacts, ControlAssumption DEF ServeAll, Types, TypeOK, Kinds
<1>7. CASE SendNames
  BY <1>7, Reads, Writes, ItemFacts DEF SendNames, EndsHere, Types, TypeOK, Kinds
<1>8. CASE ReadGotList
  BY <1>8, Reads DEF ReadGotList, Types, TypeOK, Kinds
<1>9. CASE OpenFile
  BY <1>9, Reads, Writes, ItemFacts DEF OpenFile, Types, TypeOK, Kinds
<1>10. CASE AgreeOnFile
  BY <1>10, Reads, Writes, ItemFacts DEF AgreeOnFile, Types, TypeOK, Kinds
<1>11. CASE OpenPort
  BY <1>11, Reads DEF OpenPort, Types, TypeOK, Kinds
<1>12. CASE BlastBlocks
  BY <1>12 DEF BlastBlocks, Types, TypeOK
<1>13. CASE ReadFeedback
  BY <1>13, Reads DEF ReadFeedback, Types, TypeOK, Kinds
<1>14. CASE ReadStop
  BY <1>14, Reads DEF ReadStop, AfterStop, Types, TypeOK, Kinds
<1>15. CASE MeetEnd
  BY <1>15 DEF MeetEnd, Types, TypeOK, Kinds
<1>16. CASE HeartbeatTimeout
  BY <1>16 DEF HeartbeatTimeout, Types, TypeOK, Kinds
<1> QED
  BY <1>1, <1>2, <1>3, <1>4, <1>5, <1>6, <1>7, <1>8, <1>9, <1>10, <1>11, <1>12, <1>13,
     <1>14, <1>15, <1>16 DEF ServerStep

-------------------------------------------------------------------------------
(* What the server may find where it is, while the client is there.        *)

LEMMA TakesNextTail ==
    ASSUME NEW place, NEW kind, NEW q \in Seq(Items), q # <<>>, TakesNext(place, kind, q)
    PROVE  \/ place = "ack" /\ Head(q) = Item("ack") /\ TakesNext("name", kind, Tail(q))
           \/ /\ place = "got_list" /\ Head(q) = Item("got_list")
              /\ TakesNext("listed_name", kind, Tail(q))
           \/ place = "blasting" /\ Head(q) = Item("stop") /\ TakesNext("name", kind, Tail(q))
           \/ place = "blasting" /\ Head(q) = Item("feedback") /\ TakesNext(place, kind, Tail(q))
<1>1. CASE Returns(place, q)
  BY <1>1, ReturnsTail DEF TakesNext, Returns
<1>2. CASE kind = "name" /\ GetsToList(place, q)
  <2>1. place = "got_list" /\ q = <<Item("got_list")>>
    BY <1>2 DEF GetsToList
  <2>2. Head(q) = Item("got_list") /\ Tail(q) = <<>>
    BY <2>1, ItemFacts, OneItem DEF Kinds
  <2> QED
    BY <1>2, <2>1, <2>2 DEF TakesNext, GetsToList
<1> QED
  BY <1>1, <1>2 DEF TakesNext

LEMMA TakesNextEmpty ==
    ASSUME NEW place, NEW kind, NEW q \in Seq(Items), TakesNext(place, kind, q)
    PROVE  /\ place \in {"name", "ack", "blasting", "listed_name", "got_list"}
           /\ place \in {"name", "listed_name"} => q = <<>>
           /\ place \notin {"name", "listed_name"} => q # <<>>
           /\ kind # "name" => place \in {"name", "ack", "blasting"}
<1>1. /\ <<Item("ack")>> # <<>> /\ <<Item("got_list")>> # <<>>
      /\ \A r \in Seq(Items) : Append(r, Item("stop")) # <<>>
  BY OneItem, ItemFacts, AppendProperties DEF Kinds
<1> QED
  BY <1>1 DEF TakesNext, Returns, GetsToList

(* What is coming, whatever is behind it, is read from its front.          *)
LEMMA ReadAhead ==
    ASSUME Types, NEW kind, NEW q \in Seq(Items), q # <<>>, TakesNext(server, kind, q),
           to_server # <<>>, Head(to_server) = Head(q),
           client # "receiving",
           ServerStep \/ HeartbeatTimeout
    PROVE  /\ to_server' = Tail(to_server) /\ TakesNext(server', kind, Tail(q))
           /\ UNCHANGED <<same_revision, same_secret, client, commands, files, unflushed, listed,
                          to_client, arriving, deserted>>
<1>1. Item("ack").kind = "ack" /\ Item("got_list").kind = "got_list"
      /\ Item("stop").kind = "stop" /\ Item("feedback").kind = "feedback"
  BY DEF Item
<1> USE DEF SendServerRevision, CheckRevision, CheckProof, ServeDir, ReadAck, ServeAll, SendNames,
        ReadGotList, OpenFile, AgreeOnFile, OpenPort, BlastBlocks, ReadFeedback, ReadStop, MeetEnd,
        HeartbeatTimeout, ServerStep, ServerIs, ServerGets, ServerUnchanged, clientVars, serverVars,
        AfterStop
<1>2. CASE server = "ack" /\ Head(q) = Item("ack") /\ TakesNext("name", kind, Tail(q))
  <2>1. ReadAck
    BY <1>1, <1>2
  <2> QED
    BY <1>2, <2>1
<1>3. CASE /\ server = "got_list" /\ Head(q) = Item("got_list")
           /\ TakesNext("listed_name", kind, Tail(q))
  <2>1. ReadGotList
    BY <1>1, <1>3
  <2> QED
    BY <1>3, <2>1
<1>4. CASE server = "blasting" /\ Head(q) = Item("stop") /\ TakesNext("name", kind, Tail(q))
  <2>1. ReadStop
    BY <1>1, <1>4
  <2> QED
    BY <1>4, <2>1
<1>5. CASE server = "blasting" /\ Head(q) = Item("feedback") /\ TakesNext(server, kind, Tail(q))
  <2>1. ReadFeedback
    BY <1>1, <1>5
  <2> QED
    BY <1>5, <2>1
<1> QED
  BY <1>2, <1>3, <1>4, <1>5, TakesNextTail

(* The server reads the end of an exchange the client has left behind.     *)
LEMMA AheadKeeps ==
    ASSUME Types, ~ Gone, InExchange,
           server \in {"ack", "got_list", "blasting"}, to_server # <<>>, client # "receiving",
           ServerStep \/ HeartbeatTimeout
    PROVE  InExchange' /\ deserted' = deserted /\ client' = client
<1> DEFINE Steps(kind, q) ==
              /\ to_server' = Tail(to_server) /\ TakesNext(server', kind, Tail(q))
              /\ UNCHANGED <<same_revision, same_secret, client, commands, files, unflushed,
                             listed, to_client, arriving, deserted>>
<1>1. ASSUME NEW kind, NEW q \in Seq(Items), q # <<>>, TakesNext(server, kind, q),
             Head(to_server) = Head(q)
      PROVE  Steps(kind, q)
  BY <1>1, ReadAhead DEF Gone
<1> HIDE DEF Steps
<1>2. to_server \in Seq(Items) /\ unflushed \in Seq(Items) /\ Coming \in Seq(Items)
  BY FlushFacts DEF Types
<1>3. CASE client \in {"ready", "request"}
  <2> DEFINE kind == IF client = "ready" THEN "dir" ELSE "name"
  <2>1. to_client = <<>> /\ TakesNext(server, kind, Coming)
    BY <1>3 DEF InExchange, BetweenCommands, TakesNext
  <2>2. /\ Coming # <<>> /\ Head(Coming) = Head(to_server)
        /\ Tail(Coming) = Tail(to_server) \o unflushed
    BY <1>2, <2>1, TakesNextEmpty, ConcatTail DEF Coming
  <2>3. Steps(kind, Coming)
    BY <1>1, <1>2, <2>1, <2>2
  <2>4. /\ client' = client /\ to_client' = <<>> /\ deserted' = deserted
        /\ TakesNext(server', kind, Coming')
    BY <2>1, <2>2, <2>3 DEF Steps, Coming
  <2>5. /\ client' = "ready" => Returns(server', Coming')
        /\ client' = "request" => TakesNext(server', "name", Coming')
    BY <2>4 DEF TakesNext
  <2>6. BetweenCommands'
    BY <2>4, <2>5 DEF BetweenCommands
  <2> QED
    BY <1>3, <2>4, <2>6 DEF InExchange, Greeting, Listing, Getting
<1>4. ASSUME NEW kind \in {"dir", "all", "name"}, Asked(kind), to_client = <<>>
      PROVE  Asked(kind)' /\ to_client' = <<>> /\ client' = client /\ deserted' = deserted
  <2>1. PICK q \in Seq(Items) : to_server = Append(q, Item(kind)) /\ TakesNext(server, kind, q)
    BY <1>4 DEF Asked
  <2>2. q # <<>>
    BY <2>1, TakesNextEmpty
  <2>3. /\ Head(to_server) = Head(q) /\ Tail(to_server) = Append(Tail(q), Item(kind))
        /\ Tail(q) \in Seq(Items)
    BY <2>1, <2>2, HeadTailAppend, HeadTailProperties
  <2>4. Steps(kind, q)
    BY <1>1, <2>1, <2>2, <2>3
  <2>5. to_server' = Append(Tail(q), Item(kind)) /\ TakesNext(server', kind, Tail(q))
    BY <2>3, <2>4 DEF Steps
  <2> QED
    BY <1>4, <2>3, <2>4, <2>5 DEF Steps, Asked
<1>5. CASE client = "listing"
  <2>1. Asked("dir") /\ to_client = <<>>
    BY <1>5 DEF InExchange, Listing, Is
  <2>2. Asked("dir")' /\ to_client' = <<>> /\ client' = client /\ deserted' = deserted
    BY <1>4, <2>1
  <2> QED
    BY <1>5, <2>2 DEF InExchange, Greeting, Listing, Getting, BetweenCommands
<1>6. CASE client = "sizes"
  <2>1. Asked("all") /\ to_client = <<>>
    BY <1>6 DEF InExchange, Listing, Is
  <2>2. Asked("all")' /\ to_client' = <<>> /\ client' = client /\ deserted' = deserted
    BY <1>4, <2>1
  <2> QED
    BY <1>6, <2>2 DEF InExchange, Greeting, Listing, Getting, BetweenCommands
<1>7. CASE client = "result"
  <2>1. Asked("name") /\ to_client = <<>>
    BY <1>7 DEF InExchange, Getting, Is
  <2>2. Asked("name")' /\ to_client' = <<>> /\ client' = client /\ deserted' = deserted
    BY <1>4, <2>1
  <2> QED
    BY <1>7, <2>2 DEF InExchange, Greeting, Listing, Getting, BetweenCommands
<1>8. CASE client \notin {"ready", "request", "listing", "sizes", "result"}
  <2>1. client \in {"connected", "revision", "challenge", "verdict", "no_files", "names",
                    "parameters"}
    BY <1>8, Places DEF Types, TypeOK, Gone
  <2> QED
    BY <2>1 DEF InExchange, Greeting, Listing, Getting, Is
<1> QED
  BY <1>3, <1>5, <1>6, <1>7, <1>8

(* The client leaves an acknowledgement unflushed only when the server has *)
(* nothing else to read.                                                   *)
LEMMA Unanswered ==
    ASSUME Types, TakesNext(server, "name", Coming), unflushed # <<>>
    PROVE  server \in {"ack", "got_list"} /\ to_server = <<>>
<1> DEFINE A == {Item("ack"), Item("got_list")}
<1>1. /\ unflushed \in Seq(Items) /\ to_server \in Seq(Items)
      /\ unflushed \in Seq(A) /\ Len(unflushed) <= 1
  BY DEF Types, TypeOK
<1>2. Item("stop") \notin A
  BY ItemFacts DEF Kinds
<1> HIDE DEF A
<1>3. Len(unflushed) \in Nat /\ Len(unflushed) # 0 /\ Len(unflushed) <= 1
  BY <1>1, EmptySeq
<1>4. Len(unflushed) = 1
  <2>1. \A n \in Nat : n # 0 /\ n <= 1 => n = 1
    OBVIOUS
  <2> QED
    BY <1>3, <2>1
<1>5. unflushed[1] \in A
  <2>1. 1 \in 1 .. Len(unflushed)
    BY <1>4
  <2> QED
    BY <1>1, <2>1, ElementOfSeq
<1>6. Len(to_server) \in Nat /\ (Len(to_server) = 0 => to_server = <<>>)
  BY <1>1, EmptySeq, LenProperties
<1>7. Len(Coming) = Len(to_server) + 1 /\ Coming[Len(to_server) + 1] = unflushed[1]
  <2>1. /\ Len(Coming) = Len(to_server) + Len(unflushed)
        /\ \A i \in 1 .. Len(to_server) + Len(unflushed) :
              Coming[i] = IF i <= Len(to_server) THEN to_server[i]
                                                 ELSE unflushed[i - Len(to_server)]
    BY <1>1, ConcatProperties DEF Coming
  <2>2. /\ Len(to_server) + 1 \in 1 .. Len(to_server) + Len(unflushed)
        /\ ~ (Len(to_server) + 1 <= Len(to_server))
        /\ Len(to_server) + 1 - Len(to_server) = 1
    BY <1>4, <1>6
  <2> QED
    BY <1>4, <2>1, <2>2
<1>8. CASE server \in {"ack", "got_list"}
  <2>1. Coming = <<Item("ack")>> \/ Coming = <<Item("got_list")>>
    BY <1>8 DEF TakesNext, Returns, GetsToList
  <2>2. Len(Coming) = 1 /\ Len(Coming) = Len(to_server) + 1 /\ Len(to_server) \in Nat
    BY <1>6, <1>7, <2>1
  <2>3. Len(to_server) = 0
    BY <2>2
  <2> QED
    BY <1>6, <1>8, <2>3
<1>9. CASE server \in {"name", "listed_name"}
  <2>1. Coming = <<>>
    BY <1>9 DEF TakesNext, Returns, GetsToList
  <2>2. Len(Coming) = 0
    BY <2>1
  <2> QED
    BY <1>6, <1>7, <2>2
<1>10. CASE server = "blasting"
  <2>1. PICK r \in Seq(Items) : Coming = Append(r, Item("stop"))
    BY <1>10 DEF TakesNext, Returns, GetsToList
  <2>2. Len(Coming) = Len(r) + 1 /\ Len(r) \in Nat /\ Coming[Len(r) + 1] = Item("stop")
    BY <2>1, ItemFacts, AppendProperties, LenProperties DEF Kinds
  <2>3. Len(to_server) = Len(r)
    BY <1>6, <1>7, <2>2
  <2> QED
    BY <1>2, <1>5, <1>7, <2>2, <2>3
<1> QED
  BY <1>8, <1>9, <1>10 DEF TakesNext, Returns, GetsToList

(* Where the server has something to read it is what it expects, and it    *)
(* tells what the client is waiting for.                                   *)
LEMMA AtPlace ==
    ASSUME Types, ~ Gone, InExchange
    PROVE  /\ server = "connected" =>
                 \/ client = "connected" /\ Is("connected", <<>>, <<>>)
                 \/ client = "revision" /\ Is("connected", <<Item("revision")>>, <<>>)
           /\ server = "revision" /\ to_server # <<>> =>
                 \/ client = "revision"
                    /\ Is("revision", <<Item("revision")>>, <<Item("revision")>>)
                 \/ client = "challenge" /\ same_revision
                    /\ Is("revision", <<Item("revision")>>, <<>>)
           /\ server = "proof" /\ to_server # <<>> =>
                 client = "verdict" /\ Is("proof", <<Item("proof")>>, <<>>)
           /\ server = "name" /\ to_server # <<>> =>
                 \/ client = "listing" /\ Is("name", <<Item("dir")>>, <<>>)
                 \/ client = "sizes" /\ Is("name", <<Item("all")>>, <<>>)
                 \/ client = "result" /\ Is("name", <<Item("name")>>, <<>>)
           /\ server = "listed_name" /\ to_server # <<>> =>
                 client = "result" /\ Is("listed_name", <<Item("name")>>, <<>>)
           /\ server = "got_size" /\ to_server # <<>> =>
                 /\ Is("got_size", <<Item("got_size")>>, <<>>)
                 /\ \/ client = "no_files" /\ listed = 0 /\ listed \in ListSizes
                    \/ client = "names" /\ listed > 0
           /\ server = "parameters" /\ to_server # <<>> =>
                 client = "parameters" /\ Is("parameters", <<Item("parameters")>>, <<>>)
           /\ server = "port" /\ to_server # <<>> =>
                 client = "receiving" /\ Is("port", <<Item("port")>>, <<>>) /\ ~ arriving
           /\ server = "blasting" =>
                 \/ client = "receiving" /\ to_client = <<>> /\ AllFeedback(to_server)
                 \/ client # "receiving" /\ to_server # <<>>
<1>1. client \in {"connected", "revision", "challenge", "verdict", "listing", "sizes", "no_files",
                  "names", "result", "parameters", "ready", "request", "receiving"}
  BY Places DEF Types, TypeOK, Gone
<1>2. ASSUME NEW kind \in {"dir", "all", "name"}, Asked(kind)
      PROVE  /\ server \in {"name", "ack", "blasting"} \/ kind = "name"
             /\ server \in {"name", "ack", "blasting", "listed_name", "got_list"}
             /\ server \in {"name", "listed_name"} => to_server = <<Item(kind)>>
             /\ to_server # <<>>
  <2>1. PICK q \in Seq(Items) : to_server = Append(q, Item(kind)) /\ TakesNext(server, kind, q)
    BY <1>2 DEF Asked
  <2>2. Item(kind) \in Items
    BY ItemFacts DEF Kinds
  <2>3. /\ server \in {"name", "ack", "blasting", "listed_name", "got_list"}
        /\ server \in {"name", "listed_name"} => q = <<>>
        /\ kind # "name" => server \in {"name", "ack", "blasting"}
    BY <2>1, TakesNextEmpty
  <2>4. to_server # <<>> /\ Append(<<>>, Item(kind)) = <<Item(kind)>>
    BY <2>1, <2>2, OneItem, AppendProperties
  <2> QED
    BY <2>1, <2>3, <2>4
<1>3. CASE client \in {"connected", "revision", "challenge", "verdict"}
  BY <1>3, OneItem, ItemFacts DEF InExchange, Greeting, Is, Kinds
<1>4. CASE client \in {"listing", "sizes", "result"}
  BY <1>2, <1>4 DEF InExchange, Listing, Getting, Is
<1>5. CASE client \in {"no_files", "names"}
  BY <1>5 DEF InExchange, Listing, Is
<1>6. CASE client \in {"parameters", "receiving"}
  BY <1>6 DEF InExchange, Getting, Is
<1>7. CASE client \in {"ready", "request"}
  <2>1. /\ server \in {"name", "ack", "blasting", "listed_name", "got_list"}
        /\ server \in {"name", "listed_name"} => Coming = <<>>
    BY <1>7, FlushFacts, TakesNextEmpty DEF InExchange, BetweenCommands, TakesNext
  <2>2. to_server # <<>> => Coming # <<>>
    BY FlushFacts, ConcatEqualIffEmpty DEF Types, Coming
  <2>3. ASSUME server = "blasting", to_server = <<>>
        PROVE  FALSE
    <3>1. TakesNext(server, "name", Coming) /\ Coming # <<>>
      BY <1>7, <2>3, FlushFacts, TakesNextEmpty DEF InExchange, BetweenCommands, TakesNext
    <3>2. unflushed # <<>>
      BY <2>3, <3>1, FlushFacts
    <3> QED
      BY <2>3, <3>1, <3>2, Unanswered
  <2> QED
    BY <1>7, <2>1, <2>2, <2>3
<1> QED
  BY <1>1, <1>3, <1>4, <1>5, <1>6, <1>7

-------------------------------------------------------------------------------
(* The server's steps, while the client is there and nobody has deserted.  *)

LEMMA ServerKeeps ==
    ASSUME Types, ~ deserted, ~ Gone, InExchange, ServerStep \/ HeartbeatTimeout
    PROVE  /\ client' = client
           /\ ~ deserted' => InExchange'
<1> USE DEF ServerIs, ServerGets, ServerUnchanged, clientVars
<1>1. /\ \A x \in Items : /\ Head(<<x>>) = x /\ Tail(<<x>>) = <<>> /\ <<x>> # <<>>
                          /\ Append(<<>>, x) = <<x>>
      /\ \A x, y \in Items : Append(<<x>>, y) = <<x, y>>
  BY OneItem, TwoItems
<1>2. /\ \A kind \in Kinds : Item(kind) \in Items /\ Item(kind).kind = kind
      /\ \A n \in Nat : Result(n) \in Items /\ Sizes(n) \in Items
  BY ItemFacts
<1>3. CASE SendServerRevision
  <2>1. /\ server' = "revision" /\ to_server' = to_server
        /\ to_client' = Append(to_client, Item("revision"))
    BY <1>3 DEF SendServerRevision, Reply
  <2>2. \/ client = "connected" /\ Is("connected", <<>>, <<>>)
        \/ client = "revision" /\ Is("connected", <<Item("revision")>>, <<>>)
    BY <1>3, AtPlace DEF SendServerRevision
  <2>3. to_client' = <<Item("revision")>>
    <3>1. Append(<<>>, Item("revision")) = <<Item("revision")>>
      BY <1>1, <1>2 DEF Kinds
    <3>2. to_client = <<>>
      BY <2>2 DEF Is
    <3> QED
      BY <2>1, <3>1, <3>2
  <2> QED
    BY <1>3, <2>1, <2>2, <2>3 DEF SendServerRevision, InExchange, Greeting, Listing,
       Getting, BetweenCommands, Is
<1>4. CASE CheckRevision
  <2>1. \/ /\ client = "revision"
           /\ Is("revision", <<Item("revision")>>, <<Item("revision")>>)
        \/ client = "challenge" /\ same_revision /\ Is("revision", <<Item("revision")>>, <<>>)
    BY <1>4, AtPlace DEF CheckRevision
  <2>2. to_server' = <<>>
    <3>1. to_server = <<Item("revision")>> /\ to_server' = Tail(to_server)
      BY <1>4, <2>1 DEF CheckRevision, Is
    <3>2. Tail(<<Item("revision")>>) = <<>>
      BY <1>1, <1>2 DEF Kinds
    <3> QED
      BY <3>1, <3>2
  <2>3. /\ Append(<<>>, Item("challenge")) = <<Item("challenge")>>
        /\ Append(<<Item("revision")>>, Item("challenge"))
              = <<Item("revision"), Item("challenge")>>
    BY <1>1, <1>2 DEF Kinds
  <2> QED
    BY <1>4, <2>1, <2>2, <2>3 DEF CheckRevision, Reply, InExchange, Greeting, Listing,
       Getting, BetweenCommands, Is
<1>5. CASE CheckProof
  <2>1. client = "verdict" /\ Is("proof", <<Item("proof")>>, <<>>)
    BY <1>5, AtPlace DEF CheckProof
  <2>2. to_server' = <<>>
    BY <1>1, <1>2, <1>5, <2>1 DEF CheckProof, Is, Kinds
  <2>3. Append(<<>>, Result(0)) = <<Result(0)>> /\ Append(<<>>, Result(1)) = <<Result(1)>>
    BY <1>1, <1>2
  <2> QED
    BY <1>5, <2>1, <2>2, <2>3 DEF CheckProof, Reply, InExchange, Greeting, Listing,
       Getting, BetweenCommands, Is
<1>6. CASE ServeDir
  <2>1. client = "listing" /\ Is("name", <<Item("dir")>>, <<>>)
    BY <1>2, <1>1, <1>6, AtPlace DEF ServeDir, Is, Kinds
  <2>2. to_server' = <<>> /\ to_client' = <<Item("listing")>>
    BY <1>1, <1>2, <1>6, <2>1 DEF ServeDir, Reply, Is, Kinds
  <2> QED
    BY <1>6, <2>1, <2>2 DEF ServeDir, AfterListing, InExchange, Greeting, Listing,
       Getting, BetweenCommands, Is
<1>7. CASE ServeAll
  <2>1. client = "sizes" /\ Is("name", <<Item("all")>>, <<>>)
    BY <1>2, <1>1, <1>7, AtPlace DEF ServeAll, Is, Kinds
  <2>2. PICK n \in ListSizes : Reply(Sizes(n)) /\ listed' = n
    BY <1>7 DEF ServeAll
  <2>3. to_server' = <<>> /\ to_client' = <<Sizes(n)>>
    BY <1>1, <1>2, <1>7, <2>1, <2>2, ControlAssumption DEF ServeAll, Reply, Is, Kinds
  <2> QED
    BY <1>7, <2>1, <2>2, <2>3 DEF ServeAll, InExchange, Greeting, Listing, Getting,
       BetweenCommands, Is
<1>8. CASE SendNames
  <2>1. /\ Is("got_size", <<Item("got_size")>>, <<>>)
        /\ \/ client = "no_files" /\ listed = 0 /\ listed \in ListSizes
           \/ client = "names" /\ listed > 0
    BY <1>8, AtPlace DEF SendNames
  <2>2. to_server' = <<>>
    BY <1>1, <1>2, <1>8, <2>1 DEF SendNames, Is, Kinds
  <2>3. Append(<<>>, Result(8)) = <<Result(8)>> /\ Append(<<>>, Item("names")) = <<Item("names")>>
    BY <1>1, <1>2 DEF Kinds
  <2>4. CASE client = "no_files" /\ listed = 0
    BY <1>8, <2>1, <2>2, <2>3, <2>4 DEF SendNames, EndsHere, Reply, InExchange, Greeting,
       Listing, Getting, BetweenCommands, Is
  <2>5. CASE client = "names" /\ listed > 0
    BY <1>8, <2>1, <2>2, <2>3, <2>5 DEF SendNames, EndsHere, Reply, InExchange, Greeting,
       Listing, Getting, BetweenCommands, Is
  <2> QED
    BY <2>1, <2>4, <2>5
<1>9. CASE OpenFile
  <2>1. client = "result" /\ to_server = <<Item("name")>> /\ to_client = <<>>
    BY <1>1, <1>2, <1>9, AtPlace DEF OpenFile, Is, Kinds
  <2>2. to_server' = <<>>
    BY <1>1, <1>2, <1>9, <2>1 DEF OpenFile, Kinds
  <2>3. Append(<<>>, Result(0)) = <<Result(0)>> /\ Append(<<>>, Result(8)) = <<Result(8)>>
    BY <1>1, <1>2
  <2> QED
    BY <1>9, <2>1, <2>2, <2>3 DEF OpenFile, Reply, InExchange, Greeting, Listing, Getting,
       BetweenCommands, Is
<1>10. CASE AgreeOnFile
  <2>1. client = "parameters" /\ Is("parameters", <<Item("parameters")>>, <<>>)
    BY <1>10, AtPlace DEF AgreeOnFile
  <2>2. to_server' = <<>> /\ to_client' = <<Item("file")>>
    BY <1>1, <1>2, <1>10, <2>1 DEF AgreeOnFile, Reply, Is, Kinds
  <2> QED
    BY <1>10, <2>1, <2>2 DEF AgreeOnFile, InExchange, Greeting, Listing, Getting,
       BetweenCommands, Is
<1>11. CASE OpenPort
  <2>1. client = "receiving" /\ Is("port", <<Item("port")>>, <<>>) /\ ~ arriving
    BY <1>11, AtPlace DEF OpenPort
  <2>2. to_server' = <<>> /\ to_client' = <<>>
    BY <1>1, <1>2, <1>11, <2>1 DEF OpenPort, Is, Kinds
  <2>3. AllFeedback(<<>>) /\ unflushed = <<>>
    BY <2>1 DEF AllFeedback, Types
  <2>4. CASE server' = "blasting" /\ UNCHANGED deserted
    BY <1>11, <2>1, <2>2, <2>3, <2>4 DEF OpenPort, InExchange, Greeting, Listing, Getting,
       BetweenCommands, Is
  <2>5. CASE server' = "name" /\ deserted' = TRUE
    BY <1>11, <2>5 DEF OpenPort
  <2> QED
    BY <1>11, <2>4, <2>5 DEF OpenPort
<1>12. CASE (ReadAck \/ ReadGotList \/ ReadFeedback \/ ReadStop) /\ client # "receiving"
  <2>1. server \in {"ack", "got_list", "blasting"} /\ to_server # <<>>
    BY <1>12 DEF ReadAck, ReadGotList, ReadFeedback, ReadStop
  <2> QED
    BY <1>12, <2>1, AheadKeeps
<1>13. CASE (ReadAck \/ ReadGotList \/ ReadStop) /\ client = "receiving"
  <2>1. AllFeedback(to_server) /\ to_server # <<>> /\ ReadStop
    BY <1>13 DEF ReadAck, ReadGotList, ReadStop, InExchange, Getting
  <2>2. Head(to_server) = Item("feedback")
    BY <2>1, FeedbackTail DEF Types
  <2> QED
    BY <1>2, <2>1, <2>2 DEF ReadStop, Kinds
<1>14. CASE ReadFeedback /\ client = "receiving"
  <2>1. to_client = <<>> /\ AllFeedback(to_server) /\ to_server # <<>>
    BY <1>14 DEF ReadFeedback, InExchange, Getting
  <2>2. AllFeedback(Tail(to_server))
    BY <2>1, FeedbackTail DEF Types
  <2>3. /\ server' = "blasting" /\ to_server' = Tail(to_server) /\ to_client' = <<>>
        /\ client' = "receiving" /\ deserted' = deserted
    BY <1>14, <2>1 DEF ReadFeedback, serverVars
  <2>4. AllFeedback(to_server)'
    BY <2>2, <2>3 DEF AllFeedback
  <2> QED
    BY <1>14, <2>3, <2>4 DEF InExchange, Greeting, Listing, Getting, BetweenCommands, Is
<1>15. CASE BlastBlocks
  <2>1. /\ server' = "blasting" /\ to_server' = to_server /\ to_client' = to_client
        /\ client = "receiving" /\ client' = "receiving" /\ deserted' = deserted
    BY <1>15 DEF BlastBlocks, serverVars
  <2>2. to_client = <<>> /\ AllFeedback(to_server)
    BY <1>15, <2>1 DEF BlastBlocks, InExchange, Getting
  <2>3. AllFeedback(to_server)'
    BY <2>1, <2>2 DEF AllFeedback
  <2> QED
    BY <2>1, <2>2, <2>3 DEF InExchange, Greeting, Listing, Getting, BetweenCommands, Is
<1>16. CASE MeetEnd
  BY <1>16 DEF MeetEnd, Gone
<1>17. CASE HeartbeatTimeout
  BY <1>17 DEF HeartbeatTimeout
<1> QED
  BY <1>3, <1>4, <1>5, <1>6, <1>7, <1>8, <1>9, <1>10, <1>11, <1>12, <1>13, <1>14, <1>15,
     <1>16,
     <1>17 DEF ServerStep

-------------------------------------------------------------------------------
(* The client's steps, while nobody has deserted.                          *)

(* A command that is given, or the name of a file, once the client is back *)
(* from the exchange before.                                               *)
LEMMA Asks ==
    ASSUME Types, NEW kind \in {"dir", "all", "name"}, TakesNext(server, kind, Coming),
           Flush(<<kind>>), server' = server
    PROVE  Asked(kind)'
<1>1. Coming \in Seq(Items) /\ to_server' = Append(Coming, Item(kind))
  BY FlushFacts, Writes DEF Kinds
<1> QED
  BY <1>1 DEF Asked

LEMMA ClientKeeps ==
    ASSUME Types, ~ deserted, ~ Gone, InExchange,
           ClientStep \/ Dir \/ GetAll \/ Get \/ WriteFeedback
    PROVE  /\ ~ deserted' /\ ~ Gone' => InExchange'
           /\ ~ deserted' /\ Gone' => Understood'
<1> USE DEF ClientIs, ClientGets, ClientUnchanged, serverVars
<1>1. /\ \A x \in Items : /\ Head(<<x>>) = x /\ Tail(<<x>>) = <<>> /\ <<x>> # <<>>
                          /\ Append(<<>>, x) = <<x>>
      /\ \A x, y \in Items : /\ Head(<<x, y>>) = x /\ Tail(<<x, y>>) = <<y>>
                             /\ <<x, y>> # <<>>
  BY OneItem, TwoItems
<1>2. /\ \A kind \in Kinds : Item(kind) \in Items /\ Item(kind).kind = kind
      /\ \A n \in Nat : /\ Result(n) \in Items /\ Result(n).value = n
                        /\ Sizes(n) \in Items /\ Sizes(n).value = n
  BY ItemFacts
<1>3. unflushed = <<>> =>
          /\ Coming = to_server
          /\ \A kind \in Kinds : to_server = <<>> /\ Flush(<<kind>>) =>
                to_server' = <<Item(kind)>> /\ unflushed' = <<>>
  BY <1>1, <1>2, FlushFacts, Writes
<1>4. CASE SendRevision
  <2>1. /\ client = "connected" /\ unflushed = <<>> /\ to_server = <<>>
        /\ \/ server = "connected" /\ to_client = <<>>
           \/ server = "revision" /\ to_client = <<Item("revision")>>
    BY <1>4 DEF SendRevision, Types, InExchange, Greeting, Is
  <2>2. to_server' = <<Item("revision")>>
    BY <1>3, <1>4, <2>1 DEF SendRevision, Kinds
  <2> QED
    BY <1>4, <2>1, <2>2 DEF SendRevision, Gone, InExchange, Greeting, Listing, Getting,
       BetweenCommands, Is
<1>5. CASE CheckServerRevision
  <2>1. /\ client = "revision" /\ to_client # <<>>
        /\ to_client' = Tail(to_client) /\ to_server' = to_server /\ server' = server
        /\ same_revision' = same_revision /\ deserted' = deserted
        /\ client' = IF same_revision THEN "challenge" ELSE "closed"
    BY <1>5 DEF CheckServerRevision
  <2>2. \/ Is("revision", <<Item("revision")>>, <<Item("revision")>>)
        \/ /\ same_revision
           /\ Is("proof", <<>>, <<Item("revision"), Item("challenge")>>)
        \/ ~ same_revision /\ Is("exited", <<>>, <<Item("revision")>>)
    BY <2>1 DEF InExchange, Greeting, Is
  <2>3. /\ Tail(<<Item("revision")>>) = <<>>
        /\ Tail(<<Item("revision"), Item("challenge")>>) = <<Item("challenge")>>
    BY <1>1, <1>2 DEF Kinds
  <2>4. CASE same_revision
    BY <2>1, <2>2, <2>3, <2>4 DEF Gone, InExchange, Greeting, Listing, Getting,
       BetweenCommands, Is
  <2>5. CASE ~ same_revision
    <3>1. Gone' /\ ~ deserted'
      BY <2>1, <2>5 DEF Gone
    <3>2. \/ server' = "exited"
          \/ server' = "revision" /\ to_server' = <<Item("revision")>>
      BY <2>1, <2>2, <2>5 DEF Is
    <3>3. "revision" \in DOMAIN ServerReads /\ "revision" \in ServerReads["revision"]
      BY DEF ServerReads
    <3>4. Understood'
      BY <3>2, <3>3 DEF Understood, ServerWaits
    <3> QED
      BY <3>1, <3>4
  <2> QED
    BY <2>4, <2>5
<1>6. CASE AnswerChallenge
  <2>1. /\ client = "challenge" /\ unflushed = <<>> /\ to_client # <<>>
    BY <1>6 DEF AnswerChallenge, Types
  <2>2. Is("proof", <<>>, <<Item("challenge")>>)
    BY <2>1 DEF InExchange, Greeting, Is
  <2>3. to_server' = <<Item("proof")>> /\ to_client' = <<>>
    BY <1>1, <1>2, <1>3, <1>6, <2>1, <2>2 DEF AnswerChallenge, Is, Kinds
  <2> QED
    BY <1>6, <2>2, <2>3 DEF AnswerChallenge, Gone, InExchange, Greeting, Listing, Getting,
       BetweenCommands, Is
<1>7. CASE ReadVerdict
  <2>1. /\ unflushed = <<>>
        /\ \/ Is("name", <<>>, <<Result(0)>>)
           \/ Is("exited", <<>>, <<Result(1)>>)
    BY <1>7 DEF ReadVerdict, Types, InExchange, Greeting, Is
  <2>2. /\ to_client' = <<>> /\ to_server' = <<>> /\ server' = server /\ unflushed' = <<>>
        /\ Coming' = <<>> /\ deserted' = deserted
    <3>1. /\ to_client' = Tail(to_client) /\ to_server' = to_server /\ server' = server
          /\ unflushed' = <<>> /\ deserted' = deserted
      BY <1>7, <2>1 DEF ReadVerdict
    <3>2. Tail(<<Result(0)>>) = <<>> /\ Tail(<<Result(1)>>) = <<>>
      BY <1>1, <1>2
    <3>3. to_client' = <<>> /\ to_server' = <<>>
      BY <2>1, <3>1, <3>2 DEF Is
    <3> QED
      BY <3>1, <3>3, ConcatEmptySeq, EmptySeq DEF Coming
  <2>3. \/ Head(to_client).value = 0 /\ server = "name"
        \/ Head(to_client).value # 0 /\ server = "exited"
    BY <1>1, <1>2, <2>1 DEF Is
  <2>4. CASE client' = "ready" /\ server = "name"
    BY <2>2, <2>4 DEF Gone, Returns, InExchange, Greeting, Listing, Getting,
       BetweenCommands, Is
  <2>5. CASE client' = "closed" /\ server = "exited"
    BY <2>2, <2>5 DEF Gone, Understood
  <2> QED
    BY <1>7, <2>3, <2>4, <2>5 DEF ReadVerdict
<1>8. CASE Dir
  <2>1. /\ client = "ready" /\ client' = "listing" /\ Flush(<<"dir">>) /\ server' = server
        /\ to_client' = to_client /\ deserted' = deserted
    BY <1>8 DEF Dir, Command
  <2>2. to_client = <<>> /\ TakesNext(server, "dir", Coming)
    BY <2>1 DEF InExchange, BetweenCommands, TakesNext
  <2>3. Asked("dir")'
    BY <2>1, <2>2, Asks
  <2> QED
    BY <2>1, <2>2, <2>3 DEF Gone, InExchange, Greeting, Listing, Getting, BetweenCommands,
       Is
<1>9. CASE GetAll
  <2>1. /\ client = "ready" /\ client' = "sizes" /\ Flush(<<"all">>) /\ server' = server
        /\ to_client' = to_client /\ deserted' = deserted
    BY <1>9 DEF GetAll, Command
  <2>2. to_client = <<>> /\ TakesNext(server, "all", Coming)
    BY <2>1 DEF InExchange, BetweenCommands, TakesNext
  <2>3. Asked("all")'
    BY <2>1, <2>2, Asks
  <2> QED
    BY <2>1, <2>2, <2>3 DEF Gone, InExchange, Greeting, Listing, Getting, BetweenCommands,
       Is
<1>10. CASE Get
  <2>1. /\ client = "ready" /\ client' = "request" /\ server' = server
        /\ to_client' = to_client /\ deserted' = deserted /\ Coming' = Coming
    BY <1>10 DEF Get, Coming
  <2>2. to_client = <<>> /\ TakesNext(server, "name", Coming)
    BY <2>1 DEF InExchange, BetweenCommands, TakesNext
  <2> QED
    BY <2>1, <2>2 DEF Gone, InExchange, Greeting, Listing, Getting, BetweenCommands, Is
<1>11. CASE ReadListing
  <2>1. client = "listing" /\ unflushed = <<>> /\ to_client # <<>>
    BY <1>11 DEF ReadListing, Types
  <2>2. Is("ack", <<>>, <<Item("listing")>>)
    BY <2>1 DEF InExchange, Listing
  <2>3. /\ to_client' = <<>> /\ to_server' = <<>> /\ unflushed' = <<Item("ack")>>
        /\ server' = "ack" /\ deserted' = deserted /\ client' = "ready"
    BY <1>1, <1>2, <1>11, <2>1, <2>2 DEF ReadListing, Is, Kinds
  <2>4. Coming' = <<Item("ack")>>
    <3>1. <<Item("ack")>> \in Seq(Items)
      BY OneItem, <1>2 DEF Kinds
    <3>2. <<>> \o <<Item("ack")>> = <<Item("ack")>>
      BY <3>1, ConcatEmptySeq
    <3> QED
      BY <2>3, <3>2 DEF Coming
  <2> QED
    BY <2>3, <2>4 DEF Gone, Returns, InExchange, Greeting, Listing, Getting,
       BetweenCommands, Is
<1>12. CASE ReadSizes
  <2>1. client = "sizes" /\ unflushed = <<>> /\ to_client # <<>>
    BY <1>12 DEF ReadSizes, Types
  <2>2. listed \in ListSizes /\ Is("got_size", <<>>, <<Sizes(listed)>>)
    BY <2>1 DEF InExchange, Listing
  <2>3. listed \in Nat /\ Head(to_client).value = listed
    BY <1>1, <1>2, <2>2, ControlAssumption DEF Is
  <2>4. to_server' = <<Item("got_size")>> /\ to_client' = <<>>
    BY <1>1, <1>2, <1>3, <1>12, <2>1, <2>2, <2>3 DEF ReadSizes, Is, Kinds
  <2>5. client' = (IF listed = 0 THEN "no_files" ELSE "names") /\ listed' = listed
        /\ server' = "got_size"
    BY <1>12, <2>2, <2>3 DEF ReadSizes, Is
  <2>6. deserted' = deserted
    BY <1>12 DEF ReadSizes
  <2> QED
    BY <2>2, <2>3, <2>4, <2>5, <2>6 DEF Gone, InExchange, Greeting, Listing, Getting,
       BetweenCommands, Is
<1>13. CASE ReadFailureSignal
  <2>1. client = "no_files" /\ unflushed = <<>> /\ to_client # <<>>
    BY <1>13 DEF ReadFailureSignal, Types
  <2>2. Is("name", <<>>, <<Result(8)>>)
    BY <2>1 DEF InExchange, Listing, Is
  <2>3. /\ to_client' = <<>> /\ to_server' = <<>> /\ unflushed' = <<>>
        /\ server' = "name" /\ deserted' = deserted /\ client' = "ready"
    BY <1>1, <1>2, <1>13, <2>1, <2>2 DEF ReadFailureSignal, Is
  <2>4. Coming' = <<>>
    BY <2>3, ConcatEmptySeq, EmptySeq DEF Coming
  <2> QED
    BY <2>3, <2>4 DEF Gone, Returns, InExchange, Greeting, Listing, Getting,
       BetweenCommands, Is
<1>14. CASE ReadNames
  <2>1. client = "names" /\ unflushed = <<>> /\ to_client # <<>>
    BY <1>14 DEF ReadNames, Types
  <2>2. Is("got_list", <<>>, <<Item("names")>>)
    BY <2>1 DEF InExchange, Listing, Is
  <2>3. /\ to_client' = <<>> /\ to_server' = <<>> /\ unflushed' = <<Item("got_list")>>
        /\ server' = "got_list" /\ deserted' = deserted /\ client' = "request"
    BY <1>1, <1>2, <1>14, <2>1, <2>2 DEF ReadNames, Is, Kinds
  <2>4. Coming' = <<Item("got_list")>>
    <3>1. <<Item("got_list")>> \in Seq(Items)
      BY OneItem, <1>2 DEF Kinds
    <3>2. <<>> \o <<Item("got_list")>> = <<Item("got_list")>>
      BY <3>1, ConcatEmptySeq
    <3> QED
      BY <2>3, <3>2 DEF Coming
  <2> QED
    BY <2>3, <2>4 DEF Gone, TakesNext, GetsToList, InExchange, Greeting, Listing, Getting,
       BetweenCommands, Is
<1>15. CASE RequestFile
  <2>1. /\ client = "request" /\ client' = "result" /\ Flush(<<"name">>) /\ server' = server
        /\ to_client' = to_client /\ deserted' = deserted
    BY <1>15 DEF RequestFile
  <2>2. to_client = <<>> /\ TakesNext(server, "name", Coming)
    BY <2>1 DEF InExchange, BetweenCommands
  <2>3. Asked("name")'
    BY <2>1, <2>2, Asks
  <2> QED
    BY <2>1, <2>2, <2>3 DEF Gone, InExchange, Greeting, Listing, Getting, BetweenCommands,
       Is
<1>16. CASE ReadResult
  <2>1. client = "result" /\ unflushed = <<>> /\ to_client # <<>>
    BY <1>16 DEF ReadResult, Types
  <2>2. \/ Is("parameters", <<>>, <<Result(0)>>) /\ Head(to_client).value = 0
        \/ Is("name", <<>>, <<Result(8)>>) /\ Head(to_client).value # 0
    BY <1>1, <1>2, <2>1 DEF InExchange, Getting, Is
  <2>3. to_client' = <<>> /\ server' = server /\ deserted' = deserted
    <3>1. to_client' = Tail(to_client) /\ server' = server /\ deserted' = deserted
      BY <1>16 DEF ReadResult
    <3>2. Tail(<<Result(0)>>) = <<>> /\ Tail(<<Result(8)>>) = <<>>
      BY <1>1, <1>2
    <3> QED
      BY <2>2, <3>1, <3>2 DEF Is
  <2>4. CASE Head(to_client).value = 0
    <3>1. to_server' = <<Item("parameters")>> /\ client' = "parameters"
      BY <1>3, <1>16, <2>1, <2>2, <2>4 DEF ReadResult, Is, Kinds
    <3> QED
      BY <2>2, <2>3, <2>4, <3>1 DEF Gone, InExchange, Greeting, Listing, Getting,
         BetweenCommands, Is
  <2>5. CASE Head(to_client).value # 0
    <3>1. to_server' = <<>> /\ unflushed' = <<>> /\ client' = "ready" /\ server' = "name"
      BY <1>16, <2>1, <2>2, <2>5 DEF ReadResult, Is
    <3>2. Coming' = <<>>
      BY <3>1, ConcatEmptySeq, EmptySeq DEF Coming
    <3> QED
      BY <2>3, <3>1, <3>2 DEF Gone, Returns, InExchange, Greeting, Listing, Getting,
         BetweenCommands, Is
  <2> QED
    BY <2>4, <2>5
<1>17. CASE OpenFileAndPort
  <2>1. client = "parameters" /\ unflushed = <<>> /\ to_client # <<>>
    BY <1>17 DEF OpenFileAndPort, Types
  <2>2. Is("port", <<>>, <<Item("file")>>) /\ ~ arriving
    BY <2>1 DEF InExchange, Getting, Is, Types
  <2>3. to_client' = <<>> /\ server' = "port" /\ arriving' = arriving
    BY <1>1, <1>2, <1>17, <2>2 DEF OpenFileAndPort, Is, Kinds
  <2>4. CASE Flush(<<"port">>) /\ client' = "receiving" /\ UNCHANGED deserted
    <3>1. to_server' = <<Item("port")>>
      BY <1>3, <2>1, <2>2, <2>4 DEF Is, Kinds
    <3> QED
      BY <2>2, <2>3, <2>4, <3>1 DEF Gone, InExchange, Greeting, Listing, Getting,
         BetweenCommands, Is
  <2>5. CASE client' = "ready" /\ deserted' = TRUE /\ UNCHANGED <<unflushed, to_server>>
    BY <2>5
  <2> QED
    BY <1>17, <2>4, <2>5 DEF OpenFileAndPort
<1>18. CASE WriteFeedback \/ Finish
  <2>1. /\ client = "receiving" /\ unflushed = <<>> /\ to_client = <<>>
        /\ server = "blasting" /\ AllFeedback(to_server)
        /\ server' = server /\ to_client' = to_client /\ deserted' = deserted
        /\ to_server \in Seq(Items)
    BY <1>18 DEF WriteFeedback, Finish, Types, InExchange, Getting
  <2>2. CASE WriteFeedback
    <3>1. client' = "receiving" /\ to_server' = Append(to_server, Item("feedback"))
      BY <1>3, <2>1, <2>2, Writes DEF WriteFeedback, Kinds
    <3>2. AllFeedback(to_server)'
      <4>1. /\ Len(to_server') = Len(to_server) + 1 /\ Len(to_server) \in Nat
            /\ \A i \in 1 .. Len(to_server) : to_server'[i] = to_server[i]
            /\ to_server'[Len(to_server) + 1] = Item("feedback")
        BY <1>2, <2>1, <3>1, AppendProperties, LenProperties DEF Kinds
      <4> QED
        BY <2>1, <4>1 DEF AllFeedback
    <3> QED
      BY <2>1, <3>1, <3>2 DEF Gone, InExchange, Greeting, Listing, Getting,
         BetweenCommands, Is
  <2>3. CASE Finish
    <3>1. /\ client' \in {"request", "ready"} /\ unflushed' = <<>>
          /\ to_server' = Append(to_server, Item("stop")) /\ to_server' \in Seq(Items)
      BY <1>3, <2>1, <2>3, Writes DEF Finish, Kinds
    <3>2. Coming' = to_server'
      BY <3>1, ConcatEmptySeq DEF Coming
    <3>3. Returns(server', Coming')
      BY <2>1, <3>1, <3>2 DEF Returns
    <3> QED
      BY <2>1, <3>1, <3>3 DEF Gone, TakesNext, InExchange, Greeting, Listing, Getting,
         BetweenCommands, Is
  <2> QED
    BY <1>18, <2>2, <2>3
<1> QED
  BY <1>4, <1>5, <1>6, <1>7, <1>8, <1>9, <1>10, <1>11, <1>12, <1>13, <1>14, <1>15, <1>16,
     <1>17, <1>18 DEF ClientStep

-------------------------------------------------------------------------------
(* The server alone.                                                       *)

LEMMA ReadsKinds ==
    /\ \A place \in DOMAIN ServerReads : ServerReads[place] \subseteq Kinds
    /\ ServerReads["revision"] = {"revision"} /\ ServerReads["proof"] = {"proof"}
    /\ ServerReads["name"] = {"dir", "all", "name"} /\ ServerReads["ack"] = {"ack"}
    /\ ServerReads["got_size"] = {"got_size"} /\ ServerReads["got_list"] = {"got_list"}
    /\ ServerReads["listed_name"] = {"name"} /\ ServerReads["parameters"] = {"parameters"}
    /\ ServerReads["port"] = {"port"} /\ ServerReads["blasting"] = {"feedback", "stop"}
BY DEF ServerReads, Kinds

(* A client that goes leaves the server with what it understands.          *)
LEMMA LeavesUnderstood ==
    ASSUME Types, ~ Gone, InExchange
    PROVE  Understood
<1> USE Places, ReadsKinds
<1>1. client \in {"connected", "revision", "challenge", "verdict", "listing", "sizes", "no_files",
                  "names", "result", "parameters", "ready", "request", "receiving"}
  BY DEF Types, TypeOK, Gone
<1>2. CASE client \in {"connected", "revision", "challenge", "verdict"}
  BY <1>2 DEF InExchange, Greeting, Is, Understood, ServerWaits
<1>3. CASE client \in {"listing", "sizes", "result"}
  BY <1>3 DEF InExchange, Listing, Getting, Is, Understood, ServerWaits
<1>4. CASE client \in {"no_files", "names"}
  BY <1>4 DEF InExchange, Listing, Is, Understood, ServerWaits
<1>5. CASE client \in {"parameters", "receiving"}
  BY <1>5 DEF InExchange, Getting, Is, Understood, ServerWaits
<1>6. CASE client \in {"ready", "request"}
  <2>1. TakesNext(server, "name", Coming)
    BY <1>6 DEF InExchange, BetweenCommands, TakesNext
  <2>2. CASE unflushed = <<>>
    BY <2>1, <2>2, FlushFacts DEF Understood
  <2>3. CASE unflushed # <<>>
    BY <2>1, <2>3, Unanswered DEF Understood, ServerWaits
  <2> QED
    BY <2>2, <2>3
<1> QED
  BY <1>1, <1>2, <1>3, <1>4, <1>5, <1>6

(* The ways a server moves when there is no client.                        *)
LEMMA ServerAlone ==
    ASSUME Gone, ServerStep \/ HeartbeatTimeout
    PROVE  /\ client' = client
           /\ \/ server = "connected" /\ server' = "revision" /\ to_server' = to_server
              \/ /\ ServerWaits /\ to_server = <<>> /\ to_server' = <<>>
                 /\ server' \in {"name", "exited", "spinning"}
              \/ /\ ServerWaits /\ to_server # <<>> /\ to_server' = Tail(to_server)
                 /\ server' \in DOMAIN ServerReads \cup {"exited"}
<1> USE Places DEF ServerIs, ServerGets, ServerUnchanged, clientVars, serverVars, ServerWaits
<1>1. CASE SendServerRevision
  BY <1>1 DEF SendServerRevision
<1>2. CASE CheckRevision \/ CheckProof
  BY <1>2 DEF CheckRevision, CheckProof
<1>3. CASE ServeDir \/ ReadAck \/ ServeAll
  BY <1>3 DEF ServeDir, ReadAck, ServeAll, AfterListing
<1>4. CASE SendNames \/ ReadGotList
  BY <1>4 DEF SendNames, ReadGotList
<1>5. CASE OpenFile \/ AgreeOnFile \/ OpenPort
  BY <1>5 DEF OpenFile, AgreeOnFile, OpenPort
<1>6. CASE BlastBlocks
  BY <1>6 DEF BlastBlocks, Gone
<1>7. CASE ReadFeedback \/ ReadStop
  BY <1>7 DEF ReadFeedback, ReadStop, AfterStop
<1>8. CASE MeetEnd \/ HeartbeatTimeout
  BY <1>8 DEF MeetEnd, HeartbeatTimeout
<1> QED
  BY <1>1, <1>2, <1>3, <1>4, <1>5, <1>6, <1>7, <1>8 DEF ServerStep

LEMMA UnderstoodKeeps ==
    ASSUME Types, Gone, Understood, ServerStep \/ HeartbeatTimeout
    PROVE  Understood'
<1> USE Places, ReadsKinds
<1>1. /\ \A x \in Items : Tail(<<x>>) = <<>> /\ <<x>> # <<>>
      /\ \A kind \in Kinds : Item(kind) \in Items
  BY OneItem, ItemFacts
<1>2. CASE server = "connected"
  <2>1. server' = "revision" /\ to_server' = to_server
    BY <1>2, ServerAlone DEF ServerWaits
  <2>2. to_server \in {<<>>, <<Item("revision")>>}
    <3>1. \A kind, q : ~ TakesNext(server, kind, q)
      BY <1>2 DEF TakesNext, Returns, GetsToList
    <3>2. \A kind : ~ Asked(kind)
      BY <3>1 DEF Asked
    <3> QED
      BY <1>2, <3>1, <3>2 DEF Understood, ServerWaits
  <2> QED
    BY <2>1, <2>2 DEF Understood, ServerWaits
<1>3. CASE server # "connected" /\ to_server = <<>>
  <2>1. to_server' = <<>> /\ server' \in {"name", "exited", "spinning"}
    BY <1>3, ServerAlone
  <2> QED
    BY <2>1 DEF Understood, ServerWaits
<1>4. ASSUME ServerWaits, NEW kind \in Kinds, to_server = <<Item(kind)>>
      PROVE  Understood'
  <2>1. to_server' = <<>> /\ server' \in DOMAIN ServerReads \cup {"exited"}
    BY <1>1, <1>4, ServerAlone DEF ServerWaits
  <2> QED
    BY <2>1 DEF Understood, ServerWaits
<1>5. CASE server = "blasting" /\ AllFeedback(to_server) /\ to_server # <<>>
  <2>1. /\ to_server \in Seq(Items) /\ Head(to_server) = Item("feedback")
        /\ AllFeedback(Tail(to_server))
    BY <1>5, FeedbackTail DEF Types
  <2>2. Head(to_server).kind = "feedback"
    BY <2>1, ItemFacts DEF Kinds
  <2>3. ReadFeedback
    BY <1>5, <2>2 DEF ServerStep, SendServerRevision, CheckRevision, CheckProof, ServeDir,
       ReadAck,
       ServeAll, SendNames, ReadGotList, OpenFile, AgreeOnFile, OpenPort, BlastBlocks, ReadStop,
       MeetEnd, HeartbeatTimeout, ServerIs, ServerGets, Gone
  <2>4. server' = "blasting" /\ to_server' = Tail(to_server)
    BY <1>5, <2>3 DEF ReadFeedback, ServerGets, serverVars
  <2>5. AllFeedback(to_server)'
    BY <2>1, <2>4 DEF AllFeedback
  <2> QED
    BY <2>4, <2>5 DEF Understood
<1>6. CASE TakesNext(server, "name", to_server) /\ to_server # <<>>
  <2>1. /\ to_server' = Tail(to_server) /\ TakesNext(server', "name", Tail(to_server))
    BY <1>6, ReadAhead DEF Types, Gone
  <2> QED
    BY <2>1 DEF Understood
<1>7. ASSUME NEW kind \in {"dir", "all", "name"}, Asked(kind)
      PROVE  Understood'
  <2>1. PICK q \in Seq(Items) : to_server = Append(q, Item(kind)) /\ TakesNext(server, kind, q)
    BY <1>7 DEF Asked
  <2>2. Item(kind) \in Items /\ to_server # <<>>
    BY <1>1, <2>1, AppendProperties DEF Kinds
  <2>3. CASE q = <<>>
    <3>1. to_server = <<Item(kind)>> /\ ServerWaits
      BY <2>1, <2>2, <2>3, OneItem, TakesNextEmpty DEF ServerWaits
    <3> QED
      BY <1>4, <3>1 DEF Kinds
  <2>4. CASE q # <<>>
    <3>1. /\ Head(to_server) = Head(q) /\ Tail(to_server) = Append(Tail(q), Item(kind))
          /\ Tail(q) \in Seq(Items)
      BY <2>1, <2>4, HeadTailAppend, HeadTailProperties
    <3>2. to_server' = Append(Tail(q), Item(kind)) /\ TakesNext(server', kind, Tail(q))
      BY <2>1, <2>2, <2>4, <3>1, ReadAhead DEF Gone
    <3> QED
      BY <3>1, <3>2 DEF Understood, Asked
  <2> QED
    BY <2>3, <2>4
<1>8. server \notin {"exited", "spinning"}
  BY ServerAlone DEF ServerWaits
<1>9. ASSUME ServerWaits, NEW kind \in ServerReads[server], to_server = <<Item(kind)>>
      PROVE  Understood'
  BY <1>4, <1>9 DEF ServerWaits
<1> QED
  BY <1>2, <1>3, <1>5, <1>6, <1>7, <1>8, <1>9 DEF Understood

-------------------------------------------------------------------------------
(* The invariant holds.                                                    *)

LEMMA IInvInit ==
    ASSUME Init
    PROVE  IInv
<1>1. Types
  <2>1. /\ <<>> \in Seq(Items) /\ <<>> \in Seq({Item("ack"), Item("got_list")})
        /\ Len(<<>>) = 0
    BY EmptySeq
  <2>2. /\ commands = 0 /\ files = 0 /\ listed = 0 /\ unflushed = <<>>
        /\ to_server = <<>> /\ to_client = <<>>
        /\ client = "connected" /\ server = "connected"
    BY DEF Init
  <2>3. TypeOK
    BY <2>1, <2>2, ControlAssumption DEF TypeOK
  <2>4. /\ same_revision \in BOOLEAN /\ same_secret \in BOOLEAN
        /\ ~ arriving /\ arriving \in BOOLEAN /\ deserted \in BOOLEAN
    BY DEF Init
  <2> QED
    BY <2>1, <2>2, <2>3, <2>4 DEF Types
<1> QED
  BY <1>1 DEF Init, IInv, InExchange, Greeting, Listing, Getting, BetweenCommands, Is, Gone

LEMMA IInvNext ==
    ASSUME IInv, [Next]_vars
    PROVE  IInv'
<1>1. Types
  BY DEF IInv
<1>2. CASE ClientStep \/ Dir \/ GetAll \/ Get \/ WriteFeedback
  <2>1. Types' /\ ~ Gone
    BY <1>1, <1>2, ClientTypes DEF Gone, ClientStep, SendRevision, CheckServerRevision,
       AnswerChallenge, ReadVerdict, Dir, GetAll, Command, Get, ReadListing, ReadSizes,
       ReadFailureSignal, ReadNames, RequestFile, ReadResult, OpenFileAndPort, WriteFeedback,
       Finish, ClientIs, ClientGets
  <2>2. CASE deserted
    <3>1. deserted'
      BY <1>2, <2>2 DEF ClientStep, SendRevision, CheckServerRevision, AnswerChallenge,
         ReadVerdict, Dir, GetAll, Command, Get, ReadListing, ReadSizes, ReadFailureSignal,
         ReadNames, RequestFile, ReadResult, OpenFileAndPort, WriteFeedback, Finish
    <3> QED
      BY <2>1, <3>1 DEF IInv
  <2>3. CASE ~ deserted
    BY <1>1, <1>2, <2>1, <2>3, ClientKeeps DEF IInv
  <2> QED
    BY <2>2, <2>3
<1>3. CASE Close
  <2>1. Types' /\ client = "ready" /\ client' = "closed" /\ deserted' = deserted
        /\ server' = server /\ to_server' = Coming
    BY <1>1, <1>3, ClientTypes, Writes DEF Close, ClientIs, ClientUnchanged, serverVars
  <2>2. ~ deserted => TakesNext(server, "name", Coming)
    BY <2>1 DEF IInv, Gone, InExchange, BetweenCommands, TakesNext
  <2> QED
    BY <2>1, <2>2 DEF IInv, Gone, Understood
<1>4. CASE Die
  <2>1. Types' /\ ~ Gone /\ client' = "dead" /\ deserted' = deserted
        /\ server' = server /\ to_server' = to_server
    BY <1>1, <1>4, ClientTypes DEF Die, ClientUnchanged, serverVars, Gone
  <2>2. ~ deserted => Understood
    BY <2>1, LeavesUnderstood DEF IInv
  <2>3. ~ deserted => Understood'
    BY <2>1, <2>2 DEF Understood, ServerWaits, Asked
  <2> QED
    BY <2>1, <2>3 DEF IInv, Gone
<1>5. CASE ServerStep \/ HeartbeatTimeout
  <2>1. Types'
    BY <1>1, <1>5, ServerTypes
  <2>2. CASE ~ deserted /\ Gone
    <3>1. client' = client
      BY <1>5, <2>2, ServerAlone
    <3>2. Gone'
      BY <2>2, <3>1 DEF Gone
    <3>3. Understood'
      BY <1>1, <1>5, <2>2, UnderstoodKeeps DEF IInv
    <3> QED
      BY <2>1, <3>2, <3>3 DEF IInv
  <2>3. CASE deserted
    <3>1. deserted'
      BY <1>5, <2>3 DEF ServerStep, SendServerRevision, CheckRevision, CheckProof, ServeDir,
         ReadAck, ServeAll, SendNames, ReadGotList, OpenFile, AgreeOnFile, OpenPort,
         BlastBlocks, ReadFeedback, ReadStop, MeetEnd, HeartbeatTimeout
    <3> QED
      BY <2>1, <3>1 DEF IInv
  <2>4. CASE ~ deserted /\ ~ Gone
    <3>1. client' = client /\ (~ deserted' => InExchange')
      BY <1>1, <1>5, <2>4, ServerKeeps DEF IInv
    <3>2. ~ Gone'
      BY <2>4, <3>1 DEF Gone
    <3> QED
      BY <2>1, <3>1, <3>2 DEF IInv
  <2> QED
    BY <2>2, <2>3, <2>4
<1>6. CASE UNCHANGED vars
  <2>1. /\ same_revision' = same_revision /\ same_secret' = same_secret /\ client' = client
        /\ commands' = commands /\ files' = files /\ unflushed' = unflushed
        /\ server' = server /\ listed' = listed /\ to_server' = to_server
        /\ to_client' = to_client /\ arriving' = arriving /\ deserted' = deserted
    BY <1>6 DEF vars, clientVars, serverVars
  <2>2. Types' = Types
    BY <2>1 DEF Types, TypeOK
  <2>3. InExchange' = InExchange
    BY <2>1 DEF InExchange, Greeting, Listing, Getting, BetweenCommands, Is, Asked, Coming
  <2>4. Understood' = Understood
    BY <2>1 DEF Understood, ServerWaits, Asked
  <2>5. Gone' = Gone /\ deserted' = deserted
    BY <2>1 DEF Gone
  <2> QED
    BY <2>1, <2>2, <2>3, <2>4, <2>5 DEF IInv
<1>7. CASE GiveUp
  BY <1>1, <1>7, ClientTypes DEF GiveUp, IInv
<1> QED
  BY <1>2, <1>3, <1>4, <1>5, <1>6, <1>7 DEF Next, Ended

(* The inductive invariant holds.                                          *)
THEOREM Inductive == Spec => []IInv
<1>1. Init => IInv
  BY IInvInit
<1>2. IInv /\ [Next]_vars => IInv'
  BY IInvNext
<1> QED
  BY <1>1, <1>2, PTL DEF Spec

(* TypeOK: both programs stay where they can be, and the client never has  *)
(* more than one acknowledgement in its stream's buffer.                   *)
THEOREM TypeCorrect == Spec => []TypeOK
<1>1. IInv => TypeOK
  BY DEF IInv, Types
<1> QED
  BY <1>1, Inductive, PTL

-------------------------------------------------------------------------------
(* What follows.                                                           *)

LEMMA ReadsUnderstood ==
    ASSUME Types, Understood, ServerWaits, to_server # <<>>
    PROVE  Head(to_server).kind \in ServerReads[server]
<1> USE ReadsKinds
<1>1. ASSUME NEW kind \in ServerReads[server], to_server = <<Item(kind)>>
      PROVE  Head(to_server).kind \in ServerReads[server]
  <2>1. kind \in Kinds
    BY <1>1 DEF ServerWaits
  <2> QED
    BY <1>1, <2>1, ItemFacts, OneItem
<1>2. CASE server = "blasting" /\ AllFeedback(to_server)
  <2>1. Head(to_server) = Item("feedback")
    BY <1>2, FeedbackTail DEF Types
  <2> QED
    BY <1>2, <2>1, ItemFacts DEF Kinds
<1>3. ASSUME NEW kind, NEW q \in Seq(Items), q # <<>>, TakesNext(server, kind, q),
             Head(to_server) = Head(q)
      PROVE  Head(to_server).kind \in ServerReads[server]
  <2>1. \/ server = "ack" /\ Head(to_server) = Item("ack")
        \/ server = "got_list" /\ Head(to_server) = Item("got_list")
        \/ server = "blasting" /\ Head(to_server) \in {Item("stop"), Item("feedback")}
    BY <1>3, TakesNextTail
  <2>2. /\ Item("ack").kind = "ack" /\ Item("got_list").kind = "got_list"
        /\ Item("stop").kind = "stop" /\ Item("feedback").kind = "feedback"
    BY DEF Item
  <2> QED
    BY <2>1, <2>2
<1>4. ASSUME NEW kind \in {"dir", "all", "name"}, Asked(kind)
      PROVE  Head(to_server).kind \in ServerReads[server]
  <2>1. PICK q \in Seq(Items) : to_server = Append(q, Item(kind)) /\ TakesNext(server, kind, q)
    BY <1>4 DEF Asked
  <2>2. kind \in Kinds /\ Item(kind) \in Items
    BY ItemFacts DEF Kinds
  <2>3. CASE q = <<>>
    <3>1. Head(to_server) = Item(kind)
      BY <2>1, <2>2, <2>3, HeadTailAppend
    <3>2. \/ server = "name"
          \/ server = "listed_name" /\ kind = "name"
      BY <2>1, <2>3, TakesNextEmpty
    <3> QED
      BY <2>2, <3>1, <3>2, ItemFacts
  <2>4. CASE q # <<>>
    BY <1>3, <2>1, <2>2, <2>4, HeadTailAppend
  <2> QED
    BY <2>3, <2>4
<1>5. server \notin {"exited", "spinning", "connected"}
  BY Places DEF ServerWaits
<1> QED
  BY <1>1, <1>2, <1>3, <1>4, <1>5 DEF Understood, Types

(* InStep: as long as nobody has deserted, whatever commands are given, and*)
(* whenever the client dies, each side takes what it reads for what it is. *)
THEOREM StayInStep == Spec => []InStep
<1>1. IInv => InStep
  <2> SUFFICES ASSUME IInv, ~ deserted
               PROVE  /\ ClientWaits /\ to_client # <<>> =>
                            Head(to_client).kind \in ClientReads[client]
                      /\ ServerWaits /\ to_server # <<>> =>
                            Head(to_server).kind \in ServerReads[server]
    BY DEF InStep
  <2>1. Types /\ Understood
    BY LeavesUnderstood DEF IInv
  <2>2. ASSUME ClientWaits, to_client # <<>>
        PROVE  Head(to_client).kind \in ClientReads[client]
    <3>1. InExchange /\ client \in DOMAIN ClientReads
      BY <2>2, Places DEF IInv, Gone, ClientWaits
    <3>2. /\ \A kind \in Kinds : /\ Head(<<Item(kind)>>).kind = kind
                                 /\ Head(<<Item(kind), Item("challenge")>>).kind = kind
          /\ \A n \in Nat : Head(<<Result(n)>>).kind = "result" /\ Head(<<Sizes(n)>>).kind = "sizes"
      BY ItemFacts, OneItem, TwoItems DEF Kinds
    <3>3. CASE client \in {"revision", "challenge", "verdict"}
      BY <2>2, <3>1, <3>2, <3>3 DEF InExchange, Greeting, Is, ClientReads, Kinds
    <3>4. CASE client \in {"listing", "sizes", "no_files", "names"}
      <4>1. \/ client = "listing" /\ to_client = <<Item("listing")>>
            \/ client = "sizes" /\ listed \in ListSizes /\ to_client = <<Sizes(listed)>>
            \/ client = "no_files" /\ to_client = <<Result(8)>>
            \/ client = "names" /\ to_client = <<Item("names")>>
        BY <2>2, <3>1, <3>4 DEF InExchange, Listing, Is
      <4>2. listed \in ListSizes => Head(<<Sizes(listed)>>).kind = "sizes"
        BY <3>2, ControlAssumption
      <4> QED
        BY <3>2, <4>1, <4>2 DEF ClientReads, Kinds
    <3>5. CASE client \in {"result", "parameters"}
      BY <2>2, <3>1, <3>2, <3>5 DEF InExchange, Getting, Is, ClientReads, Kinds
    <3> QED
      BY <3>1, <3>3, <3>4, <3>5, Places
  <2> QED
    BY <2>1, <2>2, ReadsUnderstood
<1> QED
  BY <1>1, Inductive, PTL

(* NoMutualWait: the two never wait for each other, unless a server without*)
(* a hook has no file to share (FailureIsSignalled is what is wrong then). *)
THEOREM NeverWaitForEachOther == ASSUME Hook \/ 0 \notin ListSizes PROVE Spec => []NoMutualWait
<1>1. IInv => NoMutualWait
  <2> SUFFICES ASSUME IInv, ~ deserted, ClientWaits, ServerWaits, to_client = <<>>
               PROVE  to_server # <<>>
    BY DEF NoMutualWait
  <2>1. InExchange /\ client \in DOMAIN ClientReads /\ server \in DOMAIN ServerReads
    BY Places DEF IInv, Gone, ClientWaits, ServerWaits
  <2>2. /\ \A x \in Items : <<x>> # <<>>
        /\ \A x, y \in Items : <<x, y>> # <<>>
        /\ \A q \in Seq(Items), x \in Items : Append(q, x) # <<>>
        /\ \A kind \in Kinds : Item(kind) \in Items
        /\ \A n \in Nat : Result(n) \in Items /\ Sizes(n) \in Items
    BY ItemFacts, OneItem, TwoItems, AppendProperties
  <2>3. \A kind \in Kinds : Asked(kind) => to_server # <<>>
    BY <2>2 DEF Asked
  <2>4. CASE client \in {"revision", "challenge", "verdict"}
    <3>1. /\ <<Item("revision")>> # <<>> /\ <<Item("revision"), Item("challenge")>> # <<>>
          /\ <<Item("challenge")>> # <<>> /\ <<Item("proof")>> # <<>>
          /\ <<Result(0)>> # <<>> /\ <<Result(1)>> # <<>>
      BY <2>2 DEF Kinds
    <3> QED
      BY <2>1, <2>4, <3>1, Places DEF InExchange, Greeting, Is
  <2>5. CASE client \in {"listing", "sizes", "no_files", "names"}
    BY <2>1, <2>2, <2>3, <2>5, ControlAssumption DEF InExchange, Listing, Is, Kinds
  <2>6. CASE client \in {"result", "parameters"}
    BY <2>1, <2>2, <2>3, <2>6 DEF InExchange, Getting, Is, Kinds
  <2> QED
    BY <2>1, <2>4, <2>5, <2>6, Places
<1> QED
  BY <1>1, Inductive, PTL
===============================================================================
