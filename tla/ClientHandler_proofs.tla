------------------------- MODULE ClientHandler_proofs -------------------------
(***************************************************************************)
(* Proofs about ClientHandler, for files of any size, any number of        *)
(* transfers and requests and every way the network may split or delay     *)
(* them: datagrams hold the block they name, and, as long as splitting and *)
(* delays do not come together, requests are acted on as written and the   *)
(* stream stays in step.  (Together they make the server take a request to *)
(* stop for another: see StopsAreObeyed.)                                  *)
(*                                                                         *)
(* The invariant counts: in a transfer the parts that have been read and   *)
(* those on their way are three for each request that has been written and *)
(* not been acted on, and one for a file name after them.                  *)
(***************************************************************************)
EXTENDS ClientHandler, SequenceTheorems, TLAPS

Request == [type : {"retransmit", "restart", "error_rate", "stop", "name"}, block : Nat]
Part    == [of : Request, part : 1 .. RequestParts]

Types ==
    /\ TypeOK
    /\ network \in Networks
    /\ stream \in Seq(Part) /\ retransmission \in Seq(Part)
    /\ written \in Seq(Request) /\ handled \in Seq(Request)

-------------------------------------------------------------------------------
(* The invariant.                                                          *)

Unhandled  == Len(written) - Len(handled)
Pending(i) == written[Len(handled) + i]
PartsLeft  == Len(retransmission) + Len(stream)

(* What a client may ask for: it has received a block, and asks for blocks *)
(* of the file.                                                            *)
Legal(r) ==
    r.type \in {"retransmit", "restart"} => block > 0 /\ r.block \in 1 .. block_count

(* The p-th part of the i-th unhandled request is, if it has not been read,*)
(* where it should be.                                                     *)
AsWritten ==
    \A i \in 1 .. Unhandled, p \in 1 .. 3 :
        3 * (i - 1) + p > Len(retransmission) =>
            stream[3 * (i - 1) + p - Len(retransmission)].of = Pending(i)

(* What has been read are the first parts of the first one, or the fake    *)
(* report of a missed heartbeat has been written over them.                *)
ReadAsWritten == \A j \in 1 .. Len(retransmission) : retransmission[j].of = Pending(1)
Overwritten   == Len(retransmission) > 0 /\ retransmission[1].of = ErrorRate

(* A transfer: where requests and the file name are, and what they ask.    *)
Layout ==
    /\ Unhandled \in Nat
    /\ Len(retransmission) < 3
    /\ PartsLeft \in {3 * Unhandled, 3 * Unhandled + 1}
    /\ client \in {"getting", "idle"} => PartsLeft = 3 * Unhandled
    /\ client = "asked" => PartsLeft = 3 * Unhandled + 1
    /\ AsWritten
    /\ Unhandled > 0 => ReadAsWritten \/ Overwritten
    /\ client = "asked" /\ 3 * Unhandled + 1 > Len(retransmission) =>
          stream[3 * Unhandled + 1 - Len(retransmission)].of = FileName
    /\ \A i \in 1 .. Unhandled : i < Unhandled \/ client = "getting" => Pending(i).type # "stop"
    /\ \A i \in 1 .. Unhandled : Legal(Pending(i))

(* The shortcut around fseeko: the file is where build_datagram believes it*)
(* to be, from the first block on; before that it is at its beginning.     *)
Positioned ==
    /\ block = 0 /\ block_count > 0 => position = 0
    /\ block > 0 => last_block \in 1 .. block_count /\ position = last_block

(* Between two transfers of a live client.                                 *)
Between ==
    /\ client \in {"idle", "asked"}
    /\ Unhandled = 0
    /\ Len(stream) = IF client = "asked" THEN 1 ELSE 0
    /\ client = "asked" => stream[1].of = FileName

InOrder ==
    /\ \A i \in 1 .. Len(handled) : handled[i] = written[i]
    /\ phase = "blasting" =>
          /\ ReadAsWritten
          /\ ~ MaySplit => Len(retransmission) = 0
          /\ client \in {"idle", "asked"} =>
                Unhandled > 0 /\ written[Len(written)].type = "stop"

IInv ==
    /\ Types
    /\ DatagramHoldsBlock
    /\ phase = "blasting" => Layout /\ Positioned
    /\ Alive => \/ phase = "blasting"
                \/ phase = "opening" /\ Between
    /\ Alive /\ ~ (MaySplit /\ MayLoseHeartbeat) => InOrder

-------------------------------------------------------------------------------
(* The files.                                                              *)

(* A block sent in a transfer holds its data, and the file is left behind  *)
(* it.                                                                     *)
LEMMA BuildFacts ==
    ASSUME Positioned, block_count \in Nat, block \in 0 .. block_count,
           last_block \in Nat, position \in -1 .. block_count,
           NEW b \in 0 .. block_count, NEW type,
           b = 0 => block_count = 0, block = 0 => b = Lower(1, block_count)
    PROVE  /\ Built(b, type).data = b
           /\ PositionAfter(b) = IF block_count = 0 THEN -1 ELSE b
<1>1. CASE block_count = 0
  <2>1. SeekTo(b) = -1 /\ ~ Readable(SeekTo(b)) /\ b = 0
    BY <1>1 DEF SeekTo, Readable
  <2> QED
    BY <1>1, <2>1 DEF Built, PositionAfter
<1>2. CASE block_count > 0
  <2>1. b > 0 /\ SeekTo(b) = b - 1
    BY <1>2 DEF SeekTo, Positioned, Lower
  <2>2. Readable(SeekTo(b))
    BY <2>1 DEF Readable
  <2> QED
    BY <1>2, <2>1, <2>2 DEF Built, PositionAfter
<1> QED
  BY <1>1, <1>2

(* Sending a block keeps the types and the file in its place.              *)
LEMMA BuildKeeps ==
    ASSUME Types, Positioned, NEW b \in 0 .. block_count, NEW type,
           b = 0 => block_count = 0, block = 0 => b = Lower(1, block_count),
           BuildDatagram(b, type), block_count' = block_count
    PROVE  /\ DatagramHoldsBlock'
           /\ last_block' \in Nat /\ position' \in -1 .. block_count
           /\ block' \in {block, b} /\ (block = 0 => block' = b) =>
                 block' \in 0 .. block_count /\ Positioned'
<1>1. /\ block_count \in Nat /\ block \in 0 .. block_count
      /\ last_block \in Nat /\ position \in -1 .. block_count
  BY HandlerAssumption DEF Types, TypeOK
<1>2. /\ Built(b, type).data = b
      /\ PositionAfter(b) = IF block_count = 0 THEN -1 ELSE b
  BY <1>1, BuildFacts
<1>3. datagram' = Built(b, type) /\ position' = PositionAfter(b) /\ last_block' = b
  BY DEF BuildDatagram
<1>4. DatagramHoldsBlock'
  <2>1. Built(b, type).block = b
    BY DEF Built
  <2> QED
    BY <1>2, <1>3, <2>1 DEF DatagramHoldsBlock
<1>5. ASSUME block' \in {block, b}, block = 0 => block' = b
      PROVE  block' \in 0 .. block_count /\ Positioned'
  BY <1>1, <1>2, <1>3, <1>5 DEF Positioned, Lower
<1> QED
  BY <1>1, <1>2, <1>3, <1>4, <1>5

(* The block the loop sends next.                                          *)
LEMMA NextBlockFacts ==
    ASSUME block_count \in Nat, block \in 0 .. block_count
    PROVE  /\ NextBlock \in 0 .. block_count
           /\ NextBlock = 0 => block_count = 0
           /\ block = 0 => NextBlock = Lower(1, block_count)
BY DEF NextBlock, Lower

-------------------------------------------------------------------------------
(* The stream.                                                             *)

LEMMA PartsFacts ==
    /\ ErrorRate \in Request /\ StopRequest \in Request /\ FileName \in Request
    /\ Name \in Seq(Part) /\ Len(Name) = 1 /\ Name[1].of = FileName
    /\ \A r \in Request : /\ Parts(r) \in Seq(Part) /\ Len(Parts(r)) = 3
                          /\ \A p \in 1 .. 3 : Parts(r)[p].of = r
<1>1. ErrorRate \in Request /\ StopRequest \in Request /\ FileName \in Request
  BY DEF ErrorRate, StopRequest, FileName, Request
<1>2. Name \in Seq(Part) /\ Len(Name) = 1 /\ Name[1].of = FileName
  BY <1>1 DEF Name, Part, RequestParts
<1>3. ASSUME NEW r \in Request
      PROVE  /\ Parts(r) \in Seq(Part) /\ Len(Parts(r)) = 3
             /\ \A p \in 1 .. 3 : Parts(r)[p].of = r
  <2>1. Parts(r) = [i \in 1 .. 3 |-> [of |-> r, part |-> i]]
    BY DEF Parts, RequestParts
  <2>2. \A i \in 1 .. 3 : [of |-> r, part |-> i] \in Part
    BY <1>3 DEF Part, RequestParts
  <2>3. Parts(r) \in [1 .. 3 -> Part]
    BY <2>1, <2>2
  <2> QED
    BY <2>1, <2>3
<1> QED
  BY <1>1, <1>2, <1>3

(* Reading k parts moves them from the stream into the buffer.             *)
LEMMA ReadFacts ==
    ASSUME Types, Len(retransmission) < 3, NEW k \in ReadSizes
    PROVE  /\ k \in 0 .. 3 /\ k <= Len(stream) /\ Len(retransmission) + k <= 3
           /\ Len(stream) \in Nat /\ Len(retransmission) \in Nat
           /\ ~ MaySplit /\ Len(retransmission) = 0 => k \in {0, Lower(3, Len(stream))}
           /\ Buffer(k) \in Seq(Part) /\ Len(Buffer(k)) = Len(retransmission) + k
           /\ \A j \in 1 .. Len(retransmission) : Buffer(k)[j] = retransmission[j]
           /\ \A j \in 1 .. k : Buffer(k)[Len(retransmission) + j] = stream[j]
           /\ LET rest == SubSeq(stream, k + 1, Len(stream))
              IN  /\ rest \in Seq(Part) /\ Len(rest) = Len(stream) - k
                  /\ \A j \in 1 .. Len(stream) - k : rest[j] = stream[k + j]
<1>1. /\ stream \in Seq(Part) /\ retransmission \in Seq(Part)
      /\ Len(stream) \in Nat /\ Len(retransmission) \in Nat
  BY LenProperties DEF Types
<1>2. /\ k \in 0 .. 3 /\ k <= Len(stream) /\ Len(retransmission) + k <= 3
      /\ ~ MaySplit /\ Len(retransmission) = 0 => k \in {0, Lower(3, Len(stream))}
  BY <1>1 DEF ReadSizes, Room, RequestParts, Lower
<1>3. \A j \in 1 .. Len(stream) : stream[j] \in Part
  BY <1>1, ElementOfSeq
<1> DEFINE front == SubSeq(stream, 1, k)
           rest  == SubSeq(stream, k + 1, Len(stream))
<1>4. front \in Seq(Part) /\ Len(front) = k /\ \A j \in 1 .. k : front[j] = stream[j]
  <2>1. \A i \in 1 .. k : stream[i] \in Part
    BY <1>1, <1>2, <1>3
  <2>2. /\ front \in Seq(Part) /\ Len(front) = IF 1 <= k THEN k - 1 + 1 ELSE 0
        /\ \A i \in 1 .. k - 1 + 1 : front[i] = stream[1 + i - 1]
    BY <1>2, <2>1, SubSeqProperties
  <2> HIDE DEF front
  <2> QED
    BY <1>2, <2>2
<1>5. /\ rest \in Seq(Part) /\ Len(rest) = Len(stream) - k
      /\ \A j \in 1 .. Len(stream) - k : rest[j] = stream[k + j]
  <2>1. k + 1 \in Nat /\ \A i \in k + 1 .. Len(stream) : stream[i] \in Part
    BY <1>1, <1>2, <1>3
  <2>2. /\ rest \in Seq(Part)
        /\ Len(rest) = IF k + 1 <= Len(stream) THEN Len(stream) - (k + 1) + 1 ELSE 0
        /\ \A i \in 1 .. Len(stream) - (k + 1) + 1 : rest[i] = stream[k + 1 + i - 1]
    BY <1>1, <1>2, <2>1, SubSeqProperties
  <2> HIDE DEF rest
  <2> QED
    BY <1>1, <1>2, <2>2
<1> HIDE DEF front, rest
<1>6. Buffer(k) = retransmission \o front
  BY DEF Buffer, front
<1>7. /\ Buffer(k) \in Seq(Part) /\ Len(Buffer(k)) = Len(retransmission) + k
      /\ \A j \in 1 .. Len(retransmission) : Buffer(k)[j] = retransmission[j]
      /\ \A j \in 1 .. k : Buffer(k)[Len(retransmission) + j] = stream[j]
  <2>1. /\ Buffer(k) \in Seq(Part) /\ Len(Buffer(k)) = Len(retransmission) + Len(front)
        /\ \A i \in 1 .. Len(retransmission) + Len(front) :
              Buffer(k)[i] = IF i <= Len(retransmission) THEN retransmission[i]
                             ELSE front[i - Len(retransmission)]
    BY <1>1, <1>4, <1>6, ConcatProperties
  <2>2. \A j \in 1 .. k : /\ Len(retransmission) + j \in 1 .. Len(retransmission) + k
                          /\ ~ (Len(retransmission) + j <= Len(retransmission))
                          /\ (Len(retransmission) + j) - Len(retransmission) = j
    BY <1>1, <1>2
  <2>3. \A j \in 1 .. k : Buffer(k)[Len(retransmission) + j] = front[j]
    BY <1>4, <2>1, <2>2
  <2>4. \A j \in 1 .. Len(retransmission) :
            j \in 1 .. Len(retransmission) + Len(front) /\ j <= Len(retransmission)
    BY <1>1, <1>2, <1>4
  <2> QED
    BY <1>4, <2>1, <2>3, <2>4
<1> QED
  BY <1>1, <1>2, <1>5, <1>7 DEF rest

(* A request that is complete is the first one that has not been acted on, *)
(* or a fake report has been written over its type.                        *)
LEMMA AssembledFacts ==
    ASSUME Types, Layout, NEW k \in ReadSizes, Len(Buffer(k)) = RequestParts
    PROVE  LET r == Assembled(Buffer(k))
           IN  /\ r \in Request /\ Unhandled > 0 /\ Pending(1) \in Request
               /\ r = Pending(1) \/ r.type = "error_rate"
               /\ ReadAsWritten => r = Pending(1)
<1> DEFINE q == Len(retransmission)
           b == Buffer(k)
           r == Assembled(b)
<1>1. /\ k \in 0 .. 3 /\ k <= Len(stream) /\ Len(stream) \in Nat /\ q \in Nat /\ q + k = 3
      /\ b \in Seq(Part) /\ Len(b) = 3
      /\ \A j \in 1 .. q : b[j] = retransmission[j]
      /\ \A j \in 1 .. k : b[q + j] = stream[j]
  BY ReadFacts DEF Layout, RequestParts
<1>2. Unhandled \in Nat /\ Unhandled > 0
  BY <1>1 DEF Layout, PartsLeft
<1>3. Pending(1) \in Request
  <2>1. /\ written \in Seq(Request) /\ Len(written) \in Nat /\ Len(handled) \in Nat
    BY LenProperties DEF Types
  <2>2. Len(handled) + 1 \in 1 .. Len(written)
    BY <1>2, <2>1 DEF Unhandled
  <2> QED
    BY <2>1, <2>2, ElementOfSeq DEF Pending
<1> HIDE DEF b
<1>4. \A j \in 1 .. 3 : b[j].of \in Request
  <2>1. \A j \in 1 .. 3 : b[j] \in Part
    BY <1>1, ElementOfSeq
  <2> QED
    BY <2>1 DEF Part
<1>5. r = [type |-> b[1].of.type, block |-> b[2].of.block]
  BY DEF Assembled
<1> HIDE DEF r
<1>6. r \in Request
  <2>1. b[1].of \in Request /\ b[2].of \in Request
    BY <1>4
  <2> QED
    BY <1>5, <2>1 DEF Request
<1>7. \A j \in q + 1 .. 3 : b[j].of = Pending(1)
  <2> SUFFICES ASSUME NEW j \in q + 1 .. 3 PROVE b[j].of = Pending(1)
    OBVIOUS
  <2>1. j - q \in 1 .. k /\ q + (j - q) = j
    BY <1>1
  <2>2. b[j] = stream[j - q]
    BY <1>1, <2>1
  <2>3. 1 \in 1 .. Unhandled /\ j \in 1 .. 3 /\ 3 * (1 - 1) + j > q /\ 3 * (1 - 1) + j - q = j - q
    BY <1>1, <1>2
  <2>4. stream[3 * (1 - 1) + j - q].of = Pending(1)
    BY <2>3 DEF Layout, AsWritten
  <2> QED
    BY <2>2, <2>3, <2>4
<1>8. ASSUME ReadAsWritten PROVE r = Pending(1)
  <2>1. \A j \in 1 .. q : b[j].of = Pending(1)
    BY <1>1, <1>8 DEF ReadAsWritten
  <2>2. b[1].of = Pending(1) /\ b[2].of = Pending(1)
    BY <1>1, <1>7, <2>1
  <2>3. Pending(1) = [type |-> Pending(1).type, block |-> Pending(1).block]
    BY <1>3 DEF Request
  <2> QED
    BY <1>5, <2>2, <2>3
<1>9. ASSUME Overwritten PROVE r.type = "error_rate"
  <2>1. b[1] = retransmission[1] /\ retransmission[1].of = ErrorRate
    BY <1>1, <1>9 DEF Overwritten
  <2> QED
    BY <1>5, <2>1 DEF ErrorRate
<1>10. ReadAsWritten \/ Overwritten
  BY <1>2 DEF Layout
<1> QED
  BY <1>2, <1>3, <1>6, <1>8, <1>9, <1>10 DEF r, b

(* The requests left when the first one has been acted on.                 *)
LEMMA LayoutAfterRequest ==
    ASSUME Types, Layout, NEW k \in ReadSizes, Len(Buffer(k)) = RequestParts,
           Read(k), handled' = Append(handled, Assembled(Buffer(k))),
           UNCHANGED <<client, written, block_count>>
    PROVE  /\ stream' \in Seq(Part) /\ Len(stream') = PartsLeft - 3
           /\ handled' \in Seq(Request) /\ Unhandled' = Unhandled - 1
           /\ client = "asked" => stream'[3 * (Unhandled - 1) + 1].of = FileName
           /\ retransmission' = <<>> /\ (block > 0 => block' > 0) => Layout'
<1> DEFINE q == Len(retransmission)
           u == Unhandled
<1>1. /\ k \in 0 .. 3 /\ Len(stream) \in Nat /\ q \in Nat /\ q + k = 3
      /\ stream' \in Seq(Part) /\ Len(stream') = Len(stream) - k
      /\ \A j \in 1 .. Len(stream) - k : stream'[j] = stream[k + j]
  BY ReadFacts DEF Layout, RequestParts, Read
<1>2. u \in Nat /\ u > 0 /\ Assembled(Buffer(k)) \in Request
  BY AssembledFacts DEF Layout
<1>3. u \in Int /\ u > 0 /\ q \in Int /\ q >= 0 /\ k \in Int /\ k >= 0 /\ q + k = 3
  BY <1>1, <1>2
<1>4. /\ Len(written) \in Nat /\ Len(handled) \in Nat /\ Len(handled') = Len(handled) + 1
      /\ handled' \in Seq(Request)
  BY <1>2, LenProperties, AppendProperties DEF Types
<1>5. Unhandled' = u - 1
  BY <1>4 DEF Unhandled
<1>6. \A i \in 1 .. u - 1 : Pending(i)' = Pending(i + 1)
  BY <1>4 DEF Pending
<1>7. PartsLeft = q + Len(stream) /\ Len(stream') = PartsLeft - 3
  BY <1>1 DEF PartsLeft
<1>8. ASSUME NEW i \in 1 .. u - 1, NEW p \in 1 .. 3
      PROVE  stream'[3 * (i - 1) + p].of = Pending(i)'
  <2> HIDE DEF q, u
  <2>1. i \in Int /\ p \in Int /\ 3 * ((i + 1) - 1) + p - q = k + (3 * (i - 1) + p)
    BY <1>3
  <2>2. i + 1 \in 1 .. u /\ 3 * ((i + 1) - 1) + p > q
    BY <1>3
  <2>3. 3 * (i - 1) + p \in 1 .. Len(stream) - k
    <3>1. q + Len(stream) >= 3 * u
      BY <1>2, <1>7 DEF Layout, u
    <3> QED
      BY <1>1, <1>3, <2>1, <3>1
  <2>4. stream[3 * ((i + 1) - 1) + p - q].of = Pending(i + 1)
    BY <2>2 DEF Layout, AsWritten, q, u
  <2> QED
    BY <1>1, <1>6, <2>1, <2>3, <2>4
<1>9. ASSUME client = "asked"
      PROVE  stream'[3 * (u - 1) + 1].of = FileName
  <2>1. PartsLeft = 3 * u + 1
    BY <1>9 DEF Layout
  <2>2. /\ 3 * u + 1 > q /\ 3 * u + 1 - q = k + (3 * (u - 1) + 1)
        /\ 3 * (u - 1) + 1 \in 1 .. Len(stream) - k
    <3> HIDE DEF q, u
    <3> QED
      BY <1>1, <1>3, <1>7, <2>1
  <2>3. stream[3 * u + 1 - q].of = FileName
    BY <1>9, <2>2 DEF Layout
  <2> QED
    BY <1>1, <2>2, <2>3
<1>10. \A i \in 1 .. u - 1 :
         /\ i < u - 1 \/ client = "getting" => Pending(i)'.type # "stop"
         /\ (block > 0 => block' > 0) => Legal(Pending(i))'
  <2> SUFFICES ASSUME NEW i \in 1 .. u - 1
               PROVE  /\ i < u - 1 \/ client = "getting" => Pending(i)'.type # "stop"
                      /\ (block > 0 => block' > 0) => Legal(Pending(i))'
    OBVIOUS
  <2>1. i + 1 \in 1 .. u /\ (i < u - 1 => i + 1 < u)
    BY <1>2
  <2>2. /\ i + 1 < u \/ client = "getting" => Pending(i + 1).type # "stop"
        /\ Legal(Pending(i + 1))
    BY <2>1 DEF Layout
  <2> QED
    BY <1>6, <2>1, <2>2 DEF Legal
<1>11. ASSUME retransmission' = <<>>, block > 0 => block' > 0
       PROVE  Layout'
  <2>1. Len(retransmission') = 0
    BY <1>11
  <2>2. PartsLeft' = PartsLeft - 3
    BY <1>1, <1>7, <2>1 DEF PartsLeft
  <2>3. /\ PartsLeft' \in {3 * Unhandled', 3 * Unhandled' + 1}
        /\ client' \in {"getting", "idle"} => PartsLeft' = 3 * Unhandled'
        /\ client' = "asked" => PartsLeft' = 3 * Unhandled' + 1
    BY <1>2, <1>5, <2>2 DEF Layout
  <2>4. AsWritten'
    <3> SUFFICES ASSUME NEW i \in 1 .. Unhandled', NEW p \in 1 .. 3
                 PROVE  stream'[3 * (i - 1) + p - Len(retransmission')].of = Pending(i)'
      BY DEF AsWritten
    <3>1. i \in 1 .. u - 1 /\ 3 * (i - 1) + p - Len(retransmission') = 3 * (i - 1) + p
      BY <1>2, <1>5, <2>1
    <3> QED
      BY <1>8, <3>1
  <2>5. client' = "asked" => stream'[3 * Unhandled' + 1 - Len(retransmission')].of = FileName
    <3>1. 3 * Unhandled' + 1 - Len(retransmission') = 3 * (u - 1) + 1
      BY <1>2, <1>5, <2>1
    <3> QED
      BY <1>9, <3>1
  <2>6. ReadAsWritten'
    BY <2>1 DEF ReadAsWritten
  <2> QED
    BY <1>2, <1>5, <1>10, <1>11, <2>1, <2>3, <2>4, <2>5, <2>6 DEF Layout
<1> QED
  BY <1>1, <1>4, <1>5, <1>7, <1>9, <1>11

(* A missed heartbeat overwrites what has been read, part by part.         *)
LEMMA OverwrittenFacts ==
    ASSUME NEW k, Len(Buffer(k)) \in Nat, Len(Buffer(k)) < RequestParts
    PROVE  /\ OverwrittenBuffer(k) \in Seq(Part)
           /\ Len(OverwrittenBuffer(k)) = Len(Buffer(k))
           /\ \A j \in 1 .. Len(Buffer(k)) : OverwrittenBuffer(k)[j].of = ErrorRate
<1> DEFINE all == Parts(ErrorRate)
           n   == Len(Buffer(k))
           cut == SubSeq(all, 1, n)
<1>1. all \in Seq(Part) /\ Len(all) = 3 /\ \A p \in 1 .. 3 : all[p].of = ErrorRate
  BY PartsFacts
<1>2. OverwrittenBuffer(k) = cut /\ n \in Nat /\ n < 3
  BY DEF OverwrittenBuffer, RequestParts
<1> HIDE DEF all, n
<1>3. \A i \in 1 .. n : i \in 1 .. 3 /\ all[i] \in Part
  BY <1>1, <1>2, ElementOfSeq
<1>4. /\ cut \in Seq(Part) /\ Len(cut) = IF 1 <= n THEN n - 1 + 1 ELSE 0
      /\ \A i \in 1 .. n - 1 + 1 : cut[i] = all[1 + i - 1]
  BY <1>2, <1>3, SubSeqProperties
<1> HIDE DEF cut
<1>5. Len(cut) = n /\ \A i \in 1 .. n : cut[i] = all[i]
  BY <1>2, <1>4
<1> QED
  BY <1>1, <1>2, <1>3, <1>4, <1>5 DEF n

(* The requests when parts have been read, and maybe written over.         *)
LEMMA LayoutAfterRead ==
    ASSUME Types, Layout, NEW k \in ReadSizes, Len(Buffer(k)) < RequestParts,
           Read(k), UNCHANGED <<client, written, handled, block_count>>,
           retransmission' \in {Buffer(k), OverwrittenBuffer(k)}, block > 0 => block' > 0
    PROVE  /\ Layout' /\ Unhandled' = Unhandled
           /\ retransmission' \in Seq(Part) /\ Len(retransmission') = Len(Buffer(k))
           /\ stream' \in Seq(Part)
           /\ retransmission' = Buffer(k) /\ ReadAsWritten /\ Unhandled > 0 => ReadAsWritten'
<1> DEFINE q == Len(retransmission)
           u == Unhandled
<1>1. /\ k \in 0 .. 3 /\ k <= Len(stream) /\ Len(stream) \in Nat /\ q \in Nat /\ q + k < 3
      /\ Buffer(k) \in Seq(Part) /\ Len(Buffer(k)) = q + k
      /\ \A j \in 1 .. q : Buffer(k)[j] = retransmission[j]
      /\ \A j \in 1 .. k : Buffer(k)[q + j] = stream[j]
      /\ stream' \in Seq(Part) /\ Len(stream') = Len(stream) - k
      /\ \A j \in 1 .. Len(stream) - k : stream'[j] = stream[k + j]
  BY ReadFacts DEF Layout, RequestParts, Read
<1>2. /\ OverwrittenBuffer(k) \in Seq(Part) /\ Len(OverwrittenBuffer(k)) = q + k
      /\ \A j \in 1 .. q + k : OverwrittenBuffer(k)[j].of = ErrorRate
  BY <1>1, OverwrittenFacts
<1>3. retransmission' \in Seq(Part) /\ Len(retransmission') = q + k
  BY <1>1, <1>2
<1>4. u \in Nat /\ Unhandled' = u /\ \A i : Pending(i)' = Pending(i)
  BY DEF Unhandled, Pending, Layout
<1>5. u \in Int /\ u >= 0 /\ q \in Int /\ q >= 0 /\ k \in Int /\ k >= 0
      /\ Len(stream) \in Int
  BY <1>1, <1>4
<1>6. PartsLeft = q + Len(stream) /\ PartsLeft' = PartsLeft
  BY <1>1, <1>3 DEF PartsLeft
<1>7. AsWritten'
  <2> SUFFICES ASSUME NEW i \in 1 .. u, NEW p \in 1 .. 3, 3 * (i - 1) + p > q + k
               PROVE  stream'[3 * (i - 1) + p - (q + k)].of = Pending(i)
    BY <1>3, <1>4 DEF AsWritten
  <2> HIDE DEF q, u
  <2>1. k + (3 * (i - 1) + p - (q + k)) = 3 * (i - 1) + p - q /\ 3 * (i - 1) + p > q
        /\ i \in Int /\ p \in Int
    BY <1>5
  <2>2. 3 * (i - 1) + p - (q + k) \in 1 .. Len(stream) - k
    <3>1. q + Len(stream) >= 3 * u
      BY <1>4, <1>6 DEF Layout, u
    <3> QED
      BY <1>5, <2>1, <3>1
  <2>3. stream[3 * (i - 1) + p - q].of = Pending(i)
    BY <2>1 DEF Layout, AsWritten, q, u
  <2> QED
    BY <1>1, <2>1, <2>2, <2>3
<1>8. ASSUME u > 0, retransmission' = Buffer(k), ReadAsWritten PROVE ReadAsWritten'
  <2> SUFFICES ASSUME NEW j \in 1 .. q + k PROVE Buffer(k)[j].of = Pending(1)
    BY <1>3, <1>4, <1>8 DEF ReadAsWritten
  <2>1. CASE j <= q
    BY <1>1, <1>8, <2>1 DEF ReadAsWritten
  <2>2. CASE ~ (j <= q)
    <3>1. j - q \in 1 .. k /\ q + (j - q) = j /\ 1 \in 1 .. u /\ j \in 1 .. 3
          /\ 3 * (1 - 1) + j > q /\ 3 * (1 - 1) + j - q = j - q
      BY <1>1, <1>4, <1>8, <2>2
    <3>2. stream[3 * (1 - 1) + j - q].of = Pending(1)
      BY <3>1 DEF Layout, AsWritten
    <3> QED
      BY <1>1, <3>1, <3>2
  <2> QED
    BY <2>1, <2>2
<1>9. ASSUME u > 0 PROVE ReadAsWritten' \/ Overwritten'
  <2>1. CASE retransmission' = Buffer(k) /\ ReadAsWritten
    BY <1>8, <1>9, <2>1
  <2>2. CASE retransmission' = Buffer(k) /\ Overwritten
    <3>1. q > 0 /\ retransmission'[1] = retransmission[1]
      BY <1>1, <2>2 DEF Overwritten
    <3> QED
      BY <1>1, <1>3, <2>2, <3>1 DEF Overwritten
  <2>3. CASE retransmission' = OverwrittenBuffer(k)
    BY <1>1, <1>2, <1>3, <2>3 DEF ReadAsWritten, Overwritten
  <2>4. ReadAsWritten \/ Overwritten
    BY <1>9 DEF Layout
  <2> QED
    BY <2>1, <2>2, <2>3, <2>4
<1>10. ASSUME client' = "asked", 3 * u + 1 > q + k
      PROVE  stream'[3 * u + 1 - (q + k)].of = FileName
  <2>0. client = "asked" /\ PartsLeft = 3 * u + 1
    BY <1>10 DEF Layout
  <2>1. /\ PartsLeft = 3 * u + 1 /\ 3 * u + 1 > q /\ 3 * u + 1 - q = k + (3 * u + 1 - (q + k))
        /\ 3 * u + 1 - (q + k) \in 1 .. Len(stream) - k
    <3> HIDE DEF q, u
    <3> QED
      BY <1>5, <1>6, <1>10, <2>0
  <2>2. 3 * u + 1 - (q + k) \in 1 .. Len(stream) - k
    BY <2>1
  <2>3. stream[3 * u + 1 - q].of = FileName
    BY <1>10, <2>1 DEF Layout
  <2> QED
    BY <1>1, <2>1, <2>2, <2>3
<1>11. \A i \in 1 .. u : /\ i < u \/ client' = "getting" => Pending(i)'.type # "stop"
                         /\ Legal(Pending(i))'
  BY <1>4 DEF Layout, Legal
<1>12. Layout'
  BY <1>1, <1>3, <1>4, <1>6, <1>7, <1>9, <1>10, <1>11 DEF Layout
<1> QED
  BY <1>1, <1>3, <1>4, <1>8, <1>12

-------------------------------------------------------------------------------
(* The client's steps.                                                     *)

LEMMA StreamGrows ==
    ASSUME Types, NEW more \in Seq(Part), stream' = stream \o more
    PROVE  /\ stream' \in Seq(Part)
           /\ Len(stream) \in Nat /\ Len(more) \in Nat /\ Len(stream') = Len(stream) + Len(more)
           /\ \A j \in 1 .. Len(stream) : stream'[j] = stream[j]
           /\ \A j \in 1 .. Len(more) : stream'[Len(stream) + j] = more[j]
BY ConcatProperties, LenProperties DEF Types

(* While the stream grows, what is in it stays where it is.                *)
LEMMA AskForFileKeeps ==
    ASSUME IInv, AskForFile
    PROVE  IInv'
<1> DEFINE q == Len(retransmission)
           u == Unhandled
<1>1. /\ Types /\ client = "idle" /\ client' = "asked" /\ stream' = stream \o Name
      /\ transfers' = transfers + 1 /\ transfers < MaxTransfers /\ Alive
      /\ UNCHANGED <<written, network, phase, block_count, block, retransmission, errno,
                     last_block, position, datagram, handled>>
  BY DEF IInv, AskForFile, Serving, fileVars, Alive
<1>2. /\ stream' \in Seq(Part) /\ Len(stream) \in Nat /\ q \in Nat
      /\ Len(stream') = Len(stream) + 1
      /\ \A j \in 1 .. Len(stream) : stream'[j] = stream[j]
      /\ stream'[Len(stream) + 1].of = FileName
  <2>1. Name \in Seq(Part) /\ Len(Name) = 1 /\ Name[1].of = FileName
    BY PartsFacts
  <2>2. /\ stream' \in Seq(Part) /\ Len(stream) \in Nat
        /\ Len(stream') = Len(stream) + Len(Name)
        /\ \A j \in 1 .. Len(stream) : stream'[j] = stream[j]
        /\ \A j \in 1 .. Len(Name) : stream'[Len(stream) + j] = Name[j]
    BY <1>1, <2>1, StreamGrows
  <2>3. q \in Nat
    BY LenProperties, <1>1 DEF Types
  <2> QED
    BY <2>1, <2>2, <2>3
<1>3. Types'
  BY <1>1, <1>2, HandlerAssumption DEF Types, TypeOK
<1>4. /\ Unhandled' = u /\ (\A i : Pending(i)' = Pending(i)) /\ Alive'
      /\ MaySplit' = MaySplit /\ MayLoseHeartbeat' = MayLoseHeartbeat
      /\ DatagramHoldsBlock' = DatagramHoldsBlock /\ Positioned' = Positioned
      /\ ReadAsWritten' = ReadAsWritten /\ Overwritten' = Overwritten
  BY <1>1 DEF Unhandled, Pending, Alive, MaySplit, MayLoseHeartbeat, DatagramHoldsBlock,
     Positioned, ReadAsWritten, Overwritten
<1>5. ASSUME phase = "blasting" PROVE Layout'
  <2>1. Layout /\ u \in Nat /\ q + Len(stream) = 3 * u
    BY <1>1, <1>5 DEF IInv, Layout, PartsLeft
  <2>2. PartsLeft' = 3 * u + 1
    BY <1>1, <1>2, <2>1 DEF PartsLeft
  <2>3. AsWritten'
    <3> SUFFICES ASSUME NEW i \in 1 .. u, NEW p \in 1 .. 3, 3 * (i - 1) + p > q
                 PROVE  stream'[3 * (i - 1) + p - q].of = Pending(i)
      BY <1>1, <1>4 DEF AsWritten
    <3>1. 3 * (i - 1) + p - q \in 1 .. Len(stream)
      <4> HIDE DEF q, u
      <4> QED
        BY <1>2, <2>1
    <3>2. stream[3 * (i - 1) + p - q].of = Pending(i)
      BY <2>1 DEF Layout, AsWritten
    <3> QED
      BY <1>2, <3>1, <3>2
  <2>4. 3 * u + 1 - q = Len(stream) + 1
    BY <1>2, <2>1
  <2>5. \A i \in 1 .. u : /\ i < u \/ client' = "getting" => Pending(i)'.type # "stop"
                          /\ Legal(Pending(i))'
    BY <1>1, <1>4, <2>1 DEF Layout, Legal
  <2> QED
    BY <1>1, <1>2, <1>4, <2>1, <2>2, <2>3, <2>4, <2>5 DEF Layout
<1>6. ASSUME phase = "opening" PROVE Between'
  <2>1. Between /\ Len(stream) = 0
    BY <1>1, <1>6 DEF IInv, Between
  <2> QED
    BY <1>1, <1>2, <1>4, <2>1 DEF Between
<1>7. InOrder => InOrder'
  BY <1>1, <1>4 DEF InOrder
<1> QED
  BY <1>1, <1>3, <1>4, <1>5, <1>6, <1>7 DEF IInv

LEMMA WriteKeeps ==
    ASSUME IInv, client = "getting", NEW r \in Request, Legal(r), WriteRequest(r),
           \/ client' = "getting" /\ r.type # "stop"
           \/ client' = "idle" /\ r.type = "stop"
    PROVE  IInv'
<1> DEFINE q == Len(retransmission)
           u == Unhandled
<1>1. /\ Types /\ stream' = stream \o Parts(r) /\ written' = Append(written, r) /\ Alive
      /\ UNCHANGED <<transfers, network, phase, block_count, block, retransmission, errno,
                     last_block, position, datagram, handled>>
  BY DEF IInv, WriteRequest, Serving, fileVars, Alive
<1>2. /\ stream' \in Seq(Part) /\ Len(stream) \in Nat /\ q \in Nat
      /\ Len(stream') = Len(stream) + 3
      /\ \A j \in 1 .. Len(stream) : stream'[j] = stream[j]
      /\ \A p \in 1 .. 3 : stream'[Len(stream) + p].of = r
  <2>1. Parts(r) \in Seq(Part) /\ Len(Parts(r)) = 3 /\ \A p \in 1 .. 3 : Parts(r)[p].of = r
    BY PartsFacts
  <2>2. /\ stream' \in Seq(Part) /\ Len(stream) \in Nat
        /\ Len(stream') = Len(stream) + Len(Parts(r))
        /\ \A j \in 1 .. Len(stream) : stream'[j] = stream[j]
        /\ \A j \in 1 .. Len(Parts(r)) : stream'[Len(stream) + j] = Parts(r)[j]
    BY <1>1, <2>1, StreamGrows
  <2>3. q \in Nat
    BY LenProperties, <1>1 DEF Types
  <2> QED
    BY <2>1, <2>2, <2>3
<1>3. /\ written' \in Seq(Request) /\ Len(written) \in Nat /\ Len(handled) \in Nat
      /\ Len(written') = Len(written) + 1
      /\ \A j \in 1 .. Len(written) : written'[j] = written[j]
      /\ written'[Len(written) + 1] = r
  BY <1>1, AppendProperties, LenProperties DEF Types
<1>4. Types'
  BY <1>1, <1>2, <1>3 DEF Types, TypeOK
<1>5. phase = "blasting" /\ Layout /\ u \in Nat /\ q + Len(stream) = 3 * u
  BY <1>1 DEF IInv, Layout, PartsLeft, Between
<1>6. /\ Unhandled' = u + 1
      /\ \A i \in 1 .. u + 1 : Pending(i)' = IF i = u + 1 THEN r ELSE Pending(i)
  <2>1. Unhandled' = u + 1 /\ Len(handled) + (u + 1) = Len(written) + 1
    BY <1>1, <1>3 DEF Unhandled
  <2>2. ASSUME NEW i \in 1 .. u + 1
        PROVE  written'[Len(handled) + i] = IF i = u + 1 THEN r ELSE written[Len(handled) + i]
    <3>1. i # u + 1 => Len(handled) + i \in 1 .. Len(written)
      BY <1>3 DEF Unhandled
    <3> QED
      BY <1>3, <2>1, <3>1
  <2> QED
    BY <1>1, <2>1, <2>2 DEF Pending
<1>7. /\ Alive' /\ MaySplit' = MaySplit /\ MayLoseHeartbeat' = MayLoseHeartbeat
      /\ DatagramHoldsBlock' = DatagramHoldsBlock /\ Positioned' = Positioned
  BY <1>1 DEF Alive, MaySplit, MayLoseHeartbeat, DatagramHoldsBlock, Positioned
<1>8. PartsLeft' = 3 * (u + 1)
  BY <1>1, <1>2, <1>5 DEF PartsLeft
<1>9. AsWritten'
  <2> SUFFICES ASSUME NEW i \in 1 .. u + 1, NEW p \in 1 .. 3, 3 * (i - 1) + p > q
               PROVE  stream'[3 * (i - 1) + p - q].of = Pending(i)'
    BY <1>1, <1>6 DEF AsWritten
  <2>1. CASE i \in 1 .. u
    <3>1. 3 * (i - 1) + p - q \in 1 .. Len(stream)
      <4> HIDE DEF q, u
      <4> QED
        BY <1>2, <1>5, <2>1
    <3>2. stream[3 * (i - 1) + p - q].of = Pending(i)
      BY <1>5, <2>1 DEF Layout, AsWritten
    <3>3. Pending(i)' = Pending(i)
      BY <1>5, <1>6, <2>1
    <3> QED
      BY <1>2, <3>1, <3>2, <3>3
  <2>2. CASE i = u + 1
    <3>1. 3 * (i - 1) + p - q = Len(stream) + p
      <4> HIDE DEF q, u
      <4> QED
        BY <1>2, <1>5, <2>2
    <3>2. Pending(i)' = r
      BY <1>6, <2>2
    <3> QED
      BY <1>2, <3>1, <3>2
  <2> QED
    BY <1>5, <2>1, <2>2
<1>10. /\ ReadAsWritten' \/ Overwritten'
       /\ ReadAsWritten => ReadAsWritten'
  <2>1. CASE u = 0
    <3>1. q = 0
      BY <1>2, <1>5, <2>1
    <3> QED
      BY <1>1, <3>1 DEF ReadAsWritten
  <2>2. CASE u > 0
    <3>1. Pending(1)' = Pending(1) /\ (ReadAsWritten \/ Overwritten)
      <4>1. 1 \in 1 .. u + 1 /\ 1 # u + 1
        BY <1>5, <2>2
      <4> QED
        BY <1>5, <1>6, <2>2, <4>1 DEF Layout
    <3> QED
      BY <1>1, <3>1 DEF ReadAsWritten, Overwritten
  <2> QED
    BY <1>5, <2>1, <2>2
<1>11. \A i \in 1 .. u + 1 :
          /\ i < u + 1 \/ client' = "getting" => Pending(i)'.type # "stop"
          /\ Legal(Pending(i))'
  <2> SUFFICES ASSUME NEW i \in 1 .. u + 1
               PROVE  /\ i < u + 1 \/ client' = "getting" => Pending(i)'.type # "stop"
                      /\ Legal(Pending(i))'
    OBVIOUS
  <2>1. CASE i \in 1 .. u
    <3>1. Pending(i)' = Pending(i)
      BY <1>5, <1>6, <2>1
    <3> QED
      BY <1>1, <1>5, <2>1, <3>1 DEF Layout, Legal
  <2>2. CASE i = u + 1
    <3>1. Pending(i)' = r
      BY <1>6, <2>2
    <3> QED
      BY <1>1, <2>2, <3>1 DEF Legal
  <2> QED
    BY <1>5, <2>1, <2>2
<1>12. Layout'
  BY <1>1, <1>2, <1>5, <1>6, <1>8, <1>9, <1>10, <1>11 DEF Layout
<1>13. InOrder => InOrder'
  <2>1. /\ Unhandled' > 0
        /\ client' = "idle" => written'[Len(written')].type = "stop"
    BY <1>3, <1>5, <1>6
  <2>2. \A i \in 1 .. Len(handled) : i \in 1 .. Len(written)
    BY <1>3, <1>5 DEF Unhandled
  <2> QED
    BY <1>1, <1>3, <1>5, <1>7, <1>10, <2>1, <2>2 DEF InOrder
<1> QED
  BY <1>1, <1>4, <1>5, <1>7, <1>12, <1>13 DEF IInv

LEMMA WriteFeedbackKeeps ==
    ASSUME IInv, WriteFeedback
    PROVE  IInv'
<1>1. PICK r \in Feedback : (r # ErrorRate => block > 0) /\ WriteRequest(r)
  BY DEF WriteFeedback
<1>2. block_count \in Nat
  BY HandlerAssumption DEF IInv, Types, TypeOK
<1>3. r \in Request /\ Legal(r) /\ r.type # "stop"
  <2>1. CASE r = ErrorRate
    BY <2>1 DEF ErrorRate, Request, Legal
  <2>2. CASE r # ErrorRate
    <3>1. PICK b \in 1 .. block_count : r = Retransmit(b) \/ r = Restart(b)
      BY <1>2, <2>2 DEF Feedback
    <3> QED
      BY <1>1, <1>2, <2>2, <3>1 DEF Retransmit, Restart, Request, Legal
  <2> QED
    BY <2>1, <2>2
<1> QED
  BY <1>1, <1>3, WriteKeeps DEF WriteFeedback

LEMMA WriteStopKeeps ==
    ASSUME IInv, WriteStop
    PROVE  IInv'
<1>1. StopRequest \in Request /\ Legal(StopRequest) /\ StopRequest.type = "stop"
  BY DEF StopRequest, Request, Legal
<1> QED
  BY <1>1, WriteKeeps DEF WriteStop

LEMMA DieKeeps ==
    ASSUME IInv, Die
    PROVE  IInv'
<1>1. /\ client' \in {"silent", "gone"}
      /\ UNCHANGED <<transfers, stream, written, network, phase, block_count, block,
                     retransmission, errno, last_block, position, datagram, handled>>
  BY DEF Die, Serving, fileVars
<1>2. Types' /\ DatagramHoldsBlock' /\ (Positioned => Positioned') /\ ~ Alive'
  BY <1>1 DEF IInv, Types, TypeOK, DatagramHoldsBlock, Positioned, Alive
<1>3. Layout => Layout'
  BY <1>1 DEF Layout, Unhandled, Pending, PartsLeft, AsWritten, ReadAsWritten, Overwritten, Legal
<1> QED
  BY <1>1, <1>2, <1>3 DEF IInv

-------------------------------------------------------------------------------
(* The server's steps between transfers.                                   *)

LEMMA StreamShrinks ==
    ASSUME Types, stream # <<>>, stream' = Tail(stream)
    PROVE  /\ stream' \in Seq(Part) /\ Len(stream) \in Nat /\ Len(stream) > 0
           /\ Len(stream') = Len(stream) - 1
<1>1. stream \in Seq(Part)
  BY DEF Types
<1>2. Tail(stream) \in Seq(Part) /\ Len(Tail(stream)) = Len(stream) - 1
  BY <1>1, HeadTailProperties
<1>3. Len(stream) \in Nat /\ Len(stream) # 0
  BY <1>1, LenProperties, EmptySeq
<1> QED
  BY <1>2, <1>3

LEMMA OpenKeeps ==
    ASSUME IInv, Open
    PROVE  IInv'
<1>1. /\ phase = "opening" /\ Alive /\ stream # <<>> /\ stream' = Tail(stream)
      /\ block_count' \in FileSizes /\ position' = 0
      /\ block' = 0 /\ retransmission' = <<>> /\ phase' = "blasting" /\ client' = "getting"
      /\ UNCHANGED <<network, transfers, written, errno, last_block, datagram, handled>>
  BY DEF Open, Alive, Rewound
<1>2. Types /\ Between
  BY <1>1 DEF IInv
<1>3. /\ stream' \in Seq(Part) /\ Len(stream) \in Nat /\ Len(stream) > 0
      /\ Len(stream') = Len(stream) - 1
  BY <1>1, <1>2, StreamShrinks
<1>4. Len(stream') = 0 /\ Len(retransmission') = 0 /\ retransmission' \in Seq(Part)
  BY <1>1, <1>2, <1>3 DEF Between
<1>5. Types'
  BY <1>1, <1>2, <1>3, <1>4, HandlerAssumption DEF Types, TypeOK, RequestParts
<1>6. Unhandled' = 0 /\ PartsLeft' = 0
  BY <1>1, <1>2, <1>4 DEF Between, Unhandled, PartsLeft
<1>7. Layout' /\ ReadAsWritten'
  BY <1>1, <1>4, <1>6 DEF Layout, AsWritten, ReadAsWritten
<1>8. Positioned' /\ DatagramHoldsBlock'
  BY <1>1 DEF Positioned, DatagramHoldsBlock, IInv
<1>9. InOrder => InOrder'
  BY <1>1, <1>4, <1>7 DEF InOrder
<1> QED
  BY <1>1, <1>5, <1>7, <1>8, <1>9 DEF IInv, MaySplit, MayLoseHeartbeat

LEMMA RefuseKeeps ==
    ASSUME IInv, Refuse
    PROVE  IInv'
<1>1. /\ phase = "opening" /\ stream # <<>> /\ stream' = Tail(stream)
      /\ client' = IF client = "asked" THEN "idle" ELSE client
      /\ UNCHANGED <<network, transfers, written, phase, block_count, block, retransmission,
                     errno, last_block, position, datagram, handled>>
  BY DEF Refuse, fileVars
<1>2. /\ stream' \in Seq(Part) /\ Len(stream) \in Nat /\ Len(stream) > 0
      /\ Len(stream') = Len(stream) - 1
  BY <1>1, StreamShrinks DEF IInv
<1>3. Types' /\ DatagramHoldsBlock' /\ Alive' = Alive
  BY <1>1, <1>2 DEF IInv, Types, TypeOK, DatagramHoldsBlock, Alive
<1>4. ASSUME Alive PROVE Between' /\ (InOrder => InOrder')
  <2>1. Between /\ client = "asked" /\ Len(stream) = 1
    BY <1>1, <1>2, <1>4 DEF IInv, Between
  <2> QED
    BY <1>1, <1>2, <2>1 DEF Between, InOrder, Unhandled
<1> QED
  BY <1>1, <1>3, <1>4 DEF IInv, MaySplit, MayLoseHeartbeat

LEMMA AwaitParametersKeeps ==
    ASSUME IInv, AwaitParameters
    PROVE  IInv'
<1>1. /\ stream # <<>> /\ stream' = Tail(stream) /\ ~ Alive /\ phase' = "parameters"
      /\ UNCHANGED <<client, transfers, written, network, block_count, block, retransmission,
                     errno, last_block, position, datagram, handled>>
  BY DEF AwaitParameters, Alive, clientVars, fileVars
<1>2. stream' \in Seq(Part)
  BY <1>1, StreamShrinks DEF IInv
<1> QED
  BY <1>1, <1>2 DEF IInv, Types, TypeOK, DatagramHoldsBlock, Alive

(* The process ends, between transfers or within one.                      *)
LEMMA ExitKeeps ==
    ASSUME IInv, HangUp \/ ReadFails
    PROVE  IInv'
<1>1. /\ ~ Alive /\ phase' = "exited"
      /\ UNCHANGED <<client, transfers, written, network, stream, block_count, block,
                     retransmission, errno, last_block, position, datagram, handled>>
  BY DEF HangUp, ReadFails, AtEnd, Alive, clientVars, fileVars
<1> QED
  BY <1>1 DEF IInv, Types, TypeOK, DatagramHoldsBlock, Alive

-------------------------------------------------------------------------------
(* The server's turns.                                                     *)

LEMMA TurnFacts ==
    ASSUME IInv, phase = "blasting"
    PROVE  /\ Types /\ Layout /\ Positioned /\ DatagramHoldsBlock
           /\ block_count \in Nat /\ block \in 0 .. block_count
           /\ NextBlock \in 0 .. block_count /\ (NextBlock = 0 => block_count = 0)
           /\ block = 0 => NextBlock = Lower(1, block_count)
           /\ block > 0 => NextBlock > 0
<1>1. block_count \in Nat /\ block \in 0 .. block_count
  BY HandlerAssumption DEF IInv, Types, TypeOK
<1> QED
  BY <1>1, NextBlockFacts DEF IInv, NextBlock, Lower

(* What a complete request does to the requests still to be acted on, and  *)
(* to the order in which they are.                                         *)
LEMMA RequestInOrder ==
    ASSUME IInv, phase = "blasting", NEW k \in ReadSizes, Len(Buffer(k)) = RequestParts,
           handled' = Append(handled, Assembled(Buffer(k))),
           UNCHANGED <<client, written, network>>, InOrder
    PROVE  /\ \A i \in 1 .. Len(handled') : handled'[i] = written'[i]
           /\ ~ IsStop(Assembled(Buffer(k))) /\ client \in {"idle", "asked"} =>
                 Unhandled > 1 /\ written'[Len(written')].type = "stop"
<1> DEFINE r == Assembled(Buffer(k))
<1>1. Types /\ Layout /\ ReadAsWritten
  BY DEF IInv, InOrder
<1>2. r \in Request /\ Unhandled > 0 /\ r = Pending(1)
  BY <1>1, AssembledFacts
<1> HIDE DEF r
<1>3. /\ handled \in Seq(Request) /\ Len(handled) \in Nat /\ Len(written) \in Nat
      /\ handled' = Append(handled, r)
  BY <1>1, LenProperties DEF Types, r
<1>4. /\ Len(handled') = Len(handled) + 1
      /\ \A i \in 1 .. Len(handled) : handled'[i] = handled[i]
      /\ handled'[Len(handled) + 1] = r
  BY <1>2, <1>3, AppendProperties
<1>5. r = written[Len(handled) + 1]
  BY <1>2 DEF Pending
<1>6. \A i \in 1 .. Len(handled') : handled'[i] = written'[i]
  <2> SUFFICES ASSUME NEW i \in 1 .. Len(handled') PROVE handled'[i] = written[i]
    OBVIOUS
  <2>1. i \in 1 .. Len(handled) \/ i = Len(handled) + 1
    BY <1>3, <1>4
  <2> QED
    BY <1>4, <1>5, <2>1 DEF InOrder
<1>7. ASSUME r.type # "stop", client \in {"idle", "asked"}
      PROVE  Unhandled > 1 /\ written[Len(written)].type = "stop"
  <2>1. written[Len(written)].type = "stop"
    BY <1>7 DEF InOrder
  <2>2. Unhandled = 1 => Len(handled) + 1 = Len(written)
    BY <1>3 DEF Unhandled
  <2>3. Unhandled # 1
    BY <1>5, <1>7, <2>1, <2>2
  <2> QED
    BY <1>1, <1>2, <2>1, <2>3 DEF Layout
<1> QED
  BY <1>6, <1>7 DEF IsStop, r

LEMMA HandleStopKeeps ==
    ASSUME IInv, phase = "blasting", NEW k \in ReadSizes, HandleRequest(k),
           IsStop(Assembled(Buffer(k))), phase' = "opening", block' = 0,
           retransmission' = Buffer(k), UNCHANGED <<fileVars, datagram>>
    PROVE  IInv'
<1> DEFINE r == Assembled(Buffer(k))
<1>1. /\ Len(Buffer(k)) = RequestParts /\ Read(k) /\ errno' = ErrnoAfter(k)
      /\ handled' = Append(handled, r)
      /\ UNCHANGED <<client, transfers, written, network, block_count, last_block, position,
                     datagram>>
  BY DEF HandleRequest, clientVars, fileVars
<1>2. Types /\ Layout /\ block_count \in Nat
  BY TurnFacts
<1>3. /\ stream' \in Seq(Part) /\ Len(stream') = PartsLeft - 3
      /\ handled' \in Seq(Request) /\ Unhandled' = Unhandled - 1
      /\ client = "asked" => stream'[3 * (Unhandled - 1) + 1].of = FileName
  BY <1>1, <1>2, LayoutAfterRequest
<1>4. Buffer(k) \in Seq(Part)
  BY <1>2, ReadFacts DEF Layout
<1>5. Types'
  BY <1>1, <1>2, <1>3, <1>4 DEF Types, TypeOK, ErrnoAfter, RequestParts
<1>6. ASSUME Alive PROVE Between'
  <2>1. Unhandled > 0 /\ Pending(1).type = "stop"
    <3>1. r.type = "stop"
      BY DEF IsStop
    <3>2. Unhandled > 0 /\ (r = Pending(1) \/ r.type = "error_rate")
      BY <1>1, <1>2, AssembledFacts
    <3> HIDE DEF r
    <3> QED
      BY <3>1, <3>2
  <2>2. Unhandled = 1 /\ client # "getting"
    <3>1. Unhandled \in Nat /\ 1 \in 1 .. Unhandled
      BY <1>2, <2>1 DEF Layout
    <3> QED
      BY <1>2, <2>1, <3>1 DEF Layout
  <2>3. client \in {"idle", "asked"}
    BY <1>2, <1>6, <2>2 DEF Alive, Types, TypeOK
  <2>4. PartsLeft = IF client = "asked" THEN 4 ELSE 3
    BY <1>2, <2>2, <2>3 DEF Layout
  <2> QED
    BY <1>1, <1>3, <2>2, <2>3, <2>4 DEF Between
<1>7. InOrder => InOrder'
  BY <1>1, RequestInOrder DEF InOrder
<1> QED
  BY <1>1, <1>5, <1>6, <1>7 DEF IInv, DatagramHoldsBlock, Alive, MaySplit, MayLoseHeartbeat

LEMMA AnswerKeeps ==
    ASSUME IInv, phase = "blasting", NEW k \in ReadSizes, HandleRequest(k),
           ~ IsStop(Assembled(Buffer(k))), Answer(Assembled(Buffer(k))),
           retransmission' = <<>>, phase' = phase
    PROVE  IInv'
<1> DEFINE r == Assembled(Buffer(k))
<1>1. /\ Len(Buffer(k)) = RequestParts /\ Read(k) /\ errno' = ErrnoAfter(k)
      /\ handled' = Append(handled, r)
      /\ UNCHANGED <<client, transfers, written, network, block_count>>
  BY DEF HandleRequest, clientVars
<1>2. /\ Types /\ Layout /\ Positioned /\ DatagramHoldsBlock
      /\ block_count \in Nat /\ block \in 0 .. block_count
  BY TurnFacts
<1>3. r \in Request /\ Legal(r)
  <2>1. /\ r \in Request /\ Unhandled > 0
        /\ r = Pending(1) \/ r.type = "error_rate"
    BY <1>1, <1>2, AssembledFacts
  <2>2. Unhandled \in Nat /\ 1 \in 1 .. Unhandled
    BY <1>2, <2>1 DEF Layout
  <2>3. Legal(Pending(1))
    BY <1>2, <2>2 DEF Layout
  <2> HIDE DEF r
  <2> QED
    BY <2>1, <2>3 DEF Legal
<1>4. /\ DatagramHoldsBlock' /\ Positioned' /\ block' \in 0 .. block_count
      /\ last_block' \in Nat /\ position' \in -1 .. block_count /\ (block > 0 => block' > 0)
  <2> HIDE DEF r
  <2>1. CASE r.type = "retransmit" /\ BuildDatagram(r.block, "retransmission") /\ block' = block
    <3>1. block > 0 /\ r.block \in 1 .. block_count
      BY <1>3, <2>1 DEF Legal
    <3> QED
      BY <1>1, <1>2, <2>1, <3>1, BuildKeeps
  <2>2. CASE /\ r.type = "restart" /\ block' = RestartAt(r.block)
             /\ UNCHANGED <<last_block, position, datagram>>
    <3>1. block > 0 /\ r.block \in 1 .. block_count
      BY <1>3, <2>2 DEF Legal
    <3>2. block' = r.block
      BY <1>2, <2>2, <3>1 DEF RestartAt
    <3> QED
      BY <1>1, <1>2, <2>2, <3>1, <3>2 DEF DatagramHoldsBlock, Positioned, Types, TypeOK
  <2>3. CASE UNCHANGED <<block, last_block, position, datagram>>
    BY <1>1, <1>2, <2>3 DEF DatagramHoldsBlock, Positioned, Types, TypeOK
  <2> QED
    BY <2>1, <2>2, <2>3 DEF Answer, fileVars, r
<1>5. /\ stream' \in Seq(Part) /\ handled' \in Seq(Request) /\ Unhandled' = Unhandled - 1
      /\ Layout'
  BY <1>1, <1>2, <1>4, LayoutAfterRequest
<1>6. retransmission' \in Seq(Part) /\ Len(retransmission') = 0
  BY EmptySeq
<1>7. Types'
  BY <1>1, <1>2, <1>4, <1>5, <1>6 DEF Types, TypeOK, ErrnoAfter, RequestParts
<1>8. ASSUME InOrder PROVE InOrder'
  <2>1. /\ \A i \in 1 .. Len(handled') : handled'[i] = written'[i]
        /\ client \in {"idle", "asked"} => Unhandled > 1 /\ written'[Len(written')].type = "stop"
    BY <1>1, <1>8, RequestInOrder
  <2>2. Unhandled \in Nat
    BY <1>2 DEF Layout
  <2> QED
    BY <1>1, <1>5, <1>6, <2>1, <2>2 DEF InOrder, ReadAsWritten
<1> QED
  BY <1>1, <1>4, <1>5, <1>7, <1>8 DEF IInv, Alive, MaySplit, MayLoseHeartbeat

(* A whole request is read at once if the network does not split any, so   *)
(* nothing is read when a block is sent.                                   *)
LEMMA NothingRead ==
    ASSUME IInv, phase = "blasting", Alive, InOrder, ~ MaySplit,
           NEW k \in ReadSizes, Len(Buffer(k)) < RequestParts
    PROVE  Len(Buffer(k)) = 0
<1>1. Types /\ Layout /\ Len(retransmission) = 0
  BY DEF IInv, InOrder
<1>2. /\ k \in {0, Lower(3, Len(stream))} /\ Len(stream) \in Nat
      /\ Len(Buffer(k)) = Len(retransmission) + k
  BY <1>1, ReadFacts
<1>3. Len(stream) = 0 \/ Len(stream) >= 3
  <2>1. client \in {"idle", "asked", "getting"}
    BY <1>1 DEF Types, TypeOK, Alive
  <2>2. CASE client = "getting"
    <3>1. Len(stream) = 3 * Unhandled /\ Unhandled \in Nat
      BY <1>1, <1>2, <2>2 DEF Layout, PartsLeft
    <3> QED
      BY <3>1
  <2>3. CASE client \in {"idle", "asked"}
    <3>1. Unhandled > 0 /\ Unhandled \in Nat
          /\ Len(stream) \in {3 * Unhandled, 3 * Unhandled + 1}
      BY <1>1, <1>2, <2>3 DEF Layout, PartsLeft, InOrder
    <3> QED
      BY <3>1
  <2> QED
    BY <2>1, <2>2, <2>3
<1> QED
  BY <1>1, <1>2, <1>3 DEF Lower, RequestParts

(* A block is sent, or would have been had sendto not failed; what has been*)
(* read may be written over.                                               *)
LEMMA SendKeeps ==
    ASSUME IInv, phase = "blasting", NEW k \in ReadSizes, Len(Buffer(k)) < RequestParts,
           Read(k), errno' \in {"EAGAIN", "other"},
           NEW type, BuildDatagram(NextBlock, type), block' = NextBlock,
           \/ retransmission' = Buffer(k)
           \/ /\ retransmission' = OverwrittenBuffer(k)
              /\ MayLoseHeartbeat \/ ~ Alive,
           UNCHANGED <<clientVars, phase, block_count, handled>>
    PROVE  IInv'
<1>1. UNCHANGED <<client, transfers, written, network>>
  BY DEF clientVars
<1>2. /\ Types /\ Layout /\ Positioned
      /\ NextBlock \in 0 .. block_count /\ (NextBlock = 0 => block_count = 0)
      /\ block = 0 => NextBlock = Lower(1, block_count)
      /\ block > 0 => NextBlock > 0
  BY TurnFacts
<1>3. /\ DatagramHoldsBlock' /\ Positioned' /\ block' \in 0 .. block_count
      /\ last_block' \in Nat /\ position' \in -1 .. block_count
  <2> DEFINE b == NextBlock
  <2>1. BuildDatagram(b, type) /\ block' = b /\ b \in 0 .. block_count
        /\ (b = 0 => block_count = 0) /\ (block = 0 => b = Lower(1, block_count))
    BY <1>2
  <2> HIDE DEF b
  <2> QED
    BY <1>2, <2>1, BuildKeeps
<1>4. /\ Layout' /\ Unhandled' = Unhandled
      /\ retransmission' \in Seq(Part) /\ Len(retransmission') = Len(Buffer(k))
      /\ stream' \in Seq(Part)
      /\ retransmission' = Buffer(k) /\ ReadAsWritten /\ Unhandled > 0 => ReadAsWritten'
  BY <1>1, <1>2, LayoutAfterRead
<1>5. Types'
  <2>1. Len(retransmission') <= RequestParts
    BY <1>4 DEF RequestParts, Layout
  <2> QED
    BY <1>1, <1>2, <1>3, <1>4, <2>1 DEF Types, TypeOK
<1>6. ASSUME Alive, ~ (MaySplit /\ MayLoseHeartbeat), InOrder PROVE InOrder'
  <2>1. ~ MaySplit => Len(retransmission') = 0
    BY <1>4, <1>6, NothingRead
  <2>2. ReadAsWritten'
    <3>1. CASE Len(retransmission') = 0
      BY <3>1 DEF ReadAsWritten
    <3>2. CASE Len(retransmission') # 0
      <4>1. MaySplit /\ retransmission' = Buffer(k) /\ ReadAsWritten
        BY <1>6, <2>1, <3>2 DEF InOrder
      <4>2. Unhandled > 0
        <5>1. client \in {"idle", "asked", "getting"}
          BY <1>2, <1>6 DEF Types, TypeOK, Alive
        <5>2. CASE client = "getting"
          <6>1. PartsLeft' = 3 * Unhandled /\ Unhandled \in Nat
            BY <1>1, <1>4, <5>2 DEF Layout
          <6>2. Len(retransmission') \in Nat /\ Len(stream') \in Nat
            BY <1>4, LenProperties
          <6> QED
            BY <3>2, <6>1, <6>2 DEF PartsLeft
        <5>3. CASE client \in {"idle", "asked"}
          BY <1>6, <5>3 DEF InOrder
        <5> QED
          BY <5>1, <5>2, <5>3
      <4> QED
        BY <1>4, <4>1, <4>2
    <3> QED
      BY <3>1, <3>2
  <2> QED
    BY <1>1, <1>4, <1>6, <2>1, <2>2 DEF InOrder, MaySplit
<1> QED
  BY <1>1, <1>3, <1>4, <1>5, <1>6 DEF IInv, Alive, MaySplit, MayLoseHeartbeat

LEMMA TimeoutKeeps ==
    ASSUME IInv, phase = "blasting", HeartbeatTimeout
    PROVE  IInv'
<1>1. 0 \in ReadSizes
  <2>1. stream \in Seq(Part) /\ retransmission \in Seq(Part)
        /\ Len(stream) \in Nat /\ Len(retransmission) \in Nat /\ Len(retransmission) < 3
    BY TurnFacts, LenProperties DEF Types, Layout
  <2> QED
    BY <2>1 DEF ReadSizes, Room, RequestParts, Lower
<1>2. /\ ~ Alive /\ Len(Buffer(0)) < RequestParts /\ Read(0) /\ errno' = ErrnoAfter(0)
      /\ BuildDatagram(NextBlock, BlockType) /\ block' = 0 /\ phase' = "opening"
      /\ retransmission' = OverwrittenBuffer(0)
      /\ UNCHANGED <<client, transfers, written, network, block_count, handled>>
  BY DEF HeartbeatTimeout, TimedOut, SendBlock, Alive, clientVars
<1>3. /\ Types /\ Layout /\ Positioned /\ block_count \in Nat
      /\ NextBlock \in 0 .. block_count /\ (NextBlock = 0 => block_count = 0)
      /\ block = 0 => NextBlock = Lower(1, block_count)
  BY TurnFacts
<1>4. DatagramHoldsBlock' /\ last_block' \in Nat /\ position' \in -1 .. block_count
  <2> DEFINE b == NextBlock
  <2>1. BuildDatagram(b, BlockType) /\ b \in 0 .. block_count
        /\ (b = 0 => block_count = 0) /\ (block = 0 => b = Lower(1, block_count))
    BY <1>2, <1>3
  <2> HIDE DEF b
  <2> QED
    BY <1>2, <1>3, <2>1, BuildKeeps
<1>5. stream' \in Seq(Part) /\ retransmission' \in Seq(Part) /\ Len(retransmission') < 3
  <2>1. stream' \in Seq(Part) /\ Len(Buffer(0)) \in Nat
    BY <1>1, <1>2, <1>3, ReadFacts, LenProperties DEF Layout, Read
  <2>2. OverwrittenBuffer(0) \in Seq(Part) /\ Len(OverwrittenBuffer(0)) = Len(Buffer(0))
    BY <1>1, <1>2, <1>3, OverwrittenFacts
  <2> QED
    BY <1>2, <2>1, <2>2 DEF RequestParts
<1> QED
  BY <1>2, <1>3, <1>4, <1>5 DEF IInv, Types, TypeOK, ErrnoAfter, RequestParts, Alive

LEMMA ServeKeeps ==
    ASSUME IInv, phase = "blasting", NEW k \in ReadSizes, ReadAndServe(k)
    PROVE  IInv'
<1>1. CASE HandleRequest(k)
  <2>1. CASE /\ IsStop(Assembled(Buffer(k))) /\ phase' = "opening" /\ block' = 0
             /\ retransmission' = Buffer(k) /\ UNCHANGED <<fileVars, datagram>>
    BY <1>1, <2>1, HandleStopKeeps
  <2>2. CASE /\ ~ IsStop(Assembled(Buffer(k))) /\ Answer(Assembled(Buffer(k)))
             /\ retransmission' = <<>> /\ UNCHANGED phase
    BY <1>1, <2>2, AnswerKeeps
  <2> QED
    BY <1>1, <2>1, <2>2 DEF HandleRequest, Leftover
<1>2. CASE BlastBlock(k)
  BY <1>2, SendKeeps DEF BlastBlock, SendBlock, ErrnoAfter, IInv, Types, TypeOK
<1>3. CASE SendFails(k)
  BY <1>3, SendKeeps DEF SendFails
<1>4. CASE HeartbeatLost(k)
  BY <1>4, SendKeeps DEF HeartbeatLost, SendBlock, ErrnoAfter, IInv, Types, TypeOK, Alive
<1> QED
  BY <1>1, <1>2, <1>3, <1>4 DEF ReadAndServe

-------------------------------------------------------------------------------
(* The theorems.                                                           *)

LEMMA IInvInit ==
    Init => IInv
<1> SUFFICES ASSUME Init PROVE IInv
  OBVIOUS
<1>1. /\ network \in Networks /\ client = "idle" /\ transfers = 0 /\ stream = <<>>
      /\ phase = "opening" /\ block_count = 0 /\ block = 0 /\ retransmission = <<>>
      /\ errno \in {"EAGAIN", "other"} /\ last_block = 0 /\ position = 0
      /\ datagram = NoDatagram /\ written = <<>> /\ handled = <<>>
  BY DEF Init
<1>2. Types
  BY <1>1, HandlerAssumption, EmptySeq DEF Types, TypeOK, RequestParts
<1>3. DatagramHoldsBlock /\ Between /\ InOrder
  BY <1>1 DEF DatagramHoldsBlock, NoDatagram, Between, InOrder, Unhandled
<1> QED
  BY <1>1, <1>2, <1>3 DEF IInv

(* A step that changes nothing.                                            *)
LEMMA StutterKeeps ==
    ASSUME IInv, UNCHANGED vars
    PROVE  IInv'
<1>1. /\ network' = network /\ client' = client /\ transfers' = transfers
      /\ stream' = stream /\ phase' = phase /\ block_count' = block_count
      /\ block' = block /\ retransmission' = retransmission /\ errno' = errno
      /\ last_block' = last_block /\ position' = position /\ datagram' = datagram
      /\ written' = written /\ handled' = handled
  BY DEF vars
<1>2. Types' = Types
  BY <1>1 DEF Types, TypeOK
<1>3. DatagramHoldsBlock' = DatagramHoldsBlock /\ Positioned' = Positioned
  BY <1>1 DEF DatagramHoldsBlock, Positioned
<1>4. Alive' = Alive /\ MaySplit' = MaySplit /\ MayLoseHeartbeat' = MayLoseHeartbeat
  BY <1>1 DEF Alive, MaySplit, MayLoseHeartbeat
<1>5. Unhandled' = Unhandled /\ PartsLeft' = PartsLeft
  BY <1>1 DEF Unhandled, PartsLeft
<1>6. AsWritten' = AsWritten
  BY <1>1 DEF AsWritten, Unhandled, Pending
<1>7. ReadAsWritten' = ReadAsWritten /\ Overwritten' = Overwritten
  BY <1>1 DEF ReadAsWritten, Overwritten, Pending
<1>8. Layout' = Layout
  BY <1>1, <1>5, <1>6, <1>7 DEF Layout, Legal, Pending, Unhandled
<1>9. Between' = Between
  BY <1>1, <1>5 DEF Between
<1>10. InOrder' = InOrder
  BY <1>1, <1>4, <1>5, <1>7 DEF InOrder
<1> QED
  BY <1>1, <1>2, <1>3, <1>4, <1>8, <1>9, <1>10 DEF IInv

LEMMA IInvNext ==
    ASSUME IInv, [Next]_vars
    PROVE  IInv'
<1>1. CASE AskForFile
  BY <1>1, AskForFileKeeps
<1>2. CASE WriteFeedback
  BY <1>2, WriteFeedbackKeeps
<1>3. CASE WriteStop
  BY <1>3, WriteStopKeeps
<1>4. CASE Die
  BY <1>4, DieKeeps
<1>5. CASE Open
  BY <1>5, OpenKeeps
<1>6. CASE Refuse
  BY <1>6, RefuseKeeps
<1>7. CASE AwaitParameters
  BY <1>7, AwaitParametersKeeps
<1>8. CASE HangUp
  BY <1>8, ExitKeeps
<1>9. CASE Turn
  <2>1. CASE \E k \in ReadSizes : ReadAndServe(k)
    BY <1>9, <2>1, ServeKeeps DEF Turn
  <2>2. CASE HeartbeatTimeout
    BY <1>9, <2>2, TimeoutKeeps DEF Turn
  <2>3. CASE ReadFails
    BY <2>3, ExitKeeps
  <2> QED
    BY <1>9, <2>1, <2>2, <2>3 DEF Turn
<1>10. CASE UNCHANGED vars
  BY <1>10, StutterKeeps
<1>11. CASE Closed
  BY <1>10, <1>11 DEF Closed
<1> QED
  BY <1>1, <1>2, <1>3, <1>4, <1>5, <1>6, <1>7, <1>8, <1>9, <1>10, <1>11 DEF Next

(* The inductive invariant holds.                                          *)
THEOREM Inductive == Spec => []IInv
<1>1. Init => IInv
  BY IInvInit
<1>2. IInv /\ [Next]_vars => IInv'
  BY IInvNext
<1> QED
  BY <1>1, <1>2, PTL DEF Spec

(* TypeOK: every variable of the session has its type; the buffer never    *)
(* takes more than a request, and the block counter stays in the file.     *)
THEOREM TypeCorrect == Spec => []TypeOK
<1>1. IInv => TypeOK
  BY DEF IInv, Types
<1> QED
  BY <1>1, Inductive, PTL

(* DatagramHoldsBlock: whatever was sent or opened before, and whatever the*)
(* network does to requests, a datagram holds the data of the block it     *)
(* names (build_datagram).                                                 *)
THEOREM DatagramsAreRight == Spec => []DatagramHoldsBlock
<1>1. IInv => DatagramHoldsBlock
  BY DEF IInv
<1> QED
  BY <1>1, Inductive, PTL

(* In no session does the network both split requests and delay them.      *)
NeverBoth == \A n \in Networks : ~ ("splits" \in n /\ "delays" \in n)

LEMMA InOrderUnlessBoth ==
    ASSUME NeverBoth, IInv, Alive
    PROVE  /\ InOrder
           /\ \/ phase = "blasting" /\ Layout
              \/ phase = "opening" /\ Between
BY DEF NeverBoth, IInv, Types, MaySplit, MayLoseHeartbeat

(* RequestsInOrder: requests of a live client are acted on as written, each*)
(* once and in order, if splitting and delays do not come together.        *)
THEOREM ActsAsWritten == ASSUME NeverBoth PROVE Spec => []RequestsInOrder
<1>1. IInv => RequestsInOrder
  <2> SUFFICES ASSUME IInv, Alive
               PROVE  /\ Len(handled) <= Len(written)
                      /\ handled = SubSeq(written, 1, Len(handled))
    BY DEF RequestsInOrder
  <2>1. /\ written \in Seq(Request) /\ handled \in Seq(Request)
        /\ Len(written) \in Nat /\ Len(handled) \in Nat
    BY LenProperties DEF IInv, Types
  <2>2. InOrder /\ Len(handled) <= Len(written)
    BY <2>1, InOrderUnlessBoth DEF Layout, Between, Unhandled
  <2>3. \A i \in 1 .. Len(handled) : handled[i] = written[i]
    BY <2>2 DEF InOrder
  <2> DEFINE front == SubSeq(written, 1, Len(handled))
  <2>4. /\ front \in Seq(Request) /\ Len(front) = Len(handled)
        /\ \A i \in 1 .. Len(handled) : front[i] = written[i]
    <3>1. \A i \in 1 .. Len(handled) : i \in 1 .. Len(written)
      BY <2>1, <2>2
    <3>2. \A i \in 1 .. Len(handled) : written[i] \in Request
      BY <2>1, <3>1, ElementOfSeq
    <3>3. /\ front \in Seq(Request)
          /\ Len(front) = IF 1 <= Len(handled) THEN Len(handled) - 1 + 1 ELSE 0
          /\ \A i \in 1 .. Len(handled) - 1 + 1 : front[i] = written[1 + i - 1]
      BY <2>1, <3>2, SubSeqProperties
    <3> HIDE DEF front
    <3> QED
      BY <2>1, <3>3
  <2> HIDE DEF front
  <2>5. handled = front
    BY <2>1, <2>3, <2>4, SeqEqual
  <2> QED
    BY <2>2, <2>5 DEF front
<1> QED
  BY <1>1, Inductive, PTL

(* NameSurvives: a client that has asked for a file finds its name still   *)
(* unread; none of it is taken for a part of a request.                    *)
THEOREM NamesAreNotRequests == ASSUME NeverBoth PROVE Spec => []NameSurvives
<1>1. IInv => NameSurvives
  <2> SUFFICES ASSUME IInv, client = "asked"
               PROVE  \E i \in DOMAIN stream : stream[i].of = FileName
    BY DEF NameSurvives
  <2>1. /\ stream \in Seq(Part) /\ DOMAIN stream = 1 .. Len(stream)
        /\ Len(stream) \in Nat /\ Len(retransmission) \in Nat
    BY LenProperties DEF IInv, Types
  <2>2. /\ InOrder
        /\ \/ phase = "blasting" /\ Layout
           \/ phase = "opening" /\ Between
    BY InOrderUnlessBoth DEF Alive
  <2>3. CASE phase = "opening" /\ Between
    BY <2>1, <2>3 DEF Between
  <2>4. CASE phase = "blasting" /\ Layout
    <3> DEFINE i == 3 * Unhandled + 1 - Len(retransmission)
    <3>1. /\ Unhandled \in Nat /\ Unhandled > 0 /\ Len(retransmission) < 3
          /\ PartsLeft = 3 * Unhandled + 1
      BY <2>2, <2>4 DEF InOrder, Layout
    <3>2. i \in 1 .. Len(stream) /\ 3 * Unhandled + 1 > Len(retransmission)
      BY <2>1, <3>1 DEF PartsLeft
    <3>3. stream[i].of = FileName
      BY <2>4, <3>2 DEF Layout
    <3> HIDE DEF i
    <3> QED
      BY <2>1, <3>2, <3>3
  <2> QED
    BY <2>2, <2>3, <2>4
<1> QED
  BY <1>1, Inductive, PTL

(* StreamInStep: between transfers a live client's stream starts with a    *)
(* file name, or is empty.                                                 *)
THEOREM NothingIsLeftOver == Spec => []StreamInStep
<1>1. IInv => StreamInStep
  <2> SUFFICES ASSUME IInv, phase = "opening", Alive
               PROVE  stream = <<>> \/ Head(stream).of = FileName
    BY DEF StreamInStep
  <2>1. stream \in Seq(Part) /\ Between
    BY DEF IInv, Types
  <2>2. CASE client = "asked"
    BY <2>1, <2>2 DEF Between
  <2>3. CASE client # "asked"
    <3>1. Len(stream) = 0
      BY <2>1, <2>3 DEF Between
    <3> QED
      BY <2>1, <3>1, EmptySeq
  <2> QED
    BY <2>2, <2>3
<1> QED
  BY <1>1, Inductive, PTL
===============================================================================
