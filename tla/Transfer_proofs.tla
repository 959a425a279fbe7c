--------------------------- MODULE Transfer_proofs ---------------------------
(***************************************************************************)
(* Proofs about Transfer, for files of any length and tables and queues of *)
(* any size: whatever the network and the requests do, a transfer copies   *)
(* the file's blocks as they are, and a lossless one all of them.          *)
(*                                                                         *)
(* The first part is about ReceiveLoop's operators: only Insert changes the*)
(* bitmap and blocks_left.  Then comes the inductive invariant, the steps  *)
(* that keep it, and the refinement of FileTransfer.  The last part takes  *)
(* what is proved of ReceiveLoop for any server to the client of this one. *)
(***************************************************************************)
EXTENDS Transfer, FiniteSetTheorems, SequenceTheorems, TLAPS

-------------------------------------------------------------------------------
(* What the parts of a turn leave alone.                                   *)

(* x has the fields of ttp_transfer_t that the model keeps.                *)
IsXfer(x) ==
    DOMAIN x = {"received", "blocks_left", "next_block", "gapless_to_block", "table",
                "restart_pending", "restart_lastidx", "restart_wireclearidx", "dropped"}

(* Writing to the server does not fail.                                    *)
Writable == session.feedback_fails = FALSE

(* y has the same bitmap and count of blocks left as x.                    *)
Same(x, y) ==
    /\ IsXfer(y)
    /\ y.received = x.received
    /\ y.blocks_left = x.blocks_left

(* ttp_repeat_retransmit rewrites the table only.                           *)
LEMMA RepeatedKeeps == ASSUME NEW x, IsXfer(x) PROVE Same(x, R!Repeated(x))
BY DEF IsXfer, Same, R!Repeated

(* ttp_request_retransmit adds to the table only.                           *)
LEMMA RequestRetransmitKeeps ==
    ASSUME NEW x, IsXfer(x), NEW lo, NEW hi
    PROVE  Same(x, R!RequestRetransmit(x, lo, hi))
BY DEF IsXfer, Same, R!RequestRetransmit

(* Queueing the blocks that have been passed over changes the table only.   *)
LEMMA QueueMissingKeeps ==
    ASSUME NEW x, IsXfer(x), NEW b, NEW w
    PROVE  Same(x, R!QueueMissing(x, b, w))
BY RequestRetransmitKeeps DEF IsXfer, Same, R!QueueMissing

(* Moving gapless_to_block on changes nothing else.                         *)
LEMMA AdvanceGaplessKeeps ==
    ASSUME NEW x, IsXfer(x)
    PROVE  Same(x, R!AdvanceGapless(x))
BY DEF IsXfer, Same, R!AdvanceGapless

(* Moving next_block on changes nothing else.                               *)
LEMMA ExpectSuccessorKeeps ==
    ASSUME NEW x, IsXfer(x), NEW d
    PROVE  Same(x, R!ExpectSuccessor(x, d))
BY DEF IsXfer, Same, R!ExpectSuccessor

(* Ending a restart clears restart_pending only.                            *)
LEMMA ClearRestartKeeps ==
    ASSUME NEW x, IsXfer(x)
    PROVE  Same(x, R!ClearRestart(x))
BY DEF IsXfer, Same, R!ClearRestart

(* Marking a block keeps the fields.                                        *)
LEMMA InsertIsXfer ==
    ASSUME NEW x, IsXfer(x), NEW b
    PROVE  IsXfer(R!Insert(x, b))
BY DEF IsXfer, R!Insert

(* A block that is accepted changes the bitmap and the count as Insert does.*)
LEMMA AcceptInserts ==
    ASSUME NEW x, IsXfer(x), NEW d, NEW w
    PROVE  Same(R!Insert(x, d.block), R!Accept(x, d, w))
<1> DEFINE y == R!Insert(x, d.block)
           q == R!QueueMissing(y, d.block, w)
           g == R!AdvanceGapless(q)
           e == R!ExpectSuccessor(g, d)
           c == R!ClearRestart(e)
<1>1. IsXfer(y) /\ Same(y, y)
  BY InsertIsXfer DEF Same
<1>2. Same(y, q)
  BY <1>1, QueueMissingKeeps
<1>3. Same(q, g)
  BY <1>2, AdvanceGaplessKeeps DEF Same
<1>4. Same(g, e)
  BY <1>3, ExpectSuccessorKeeps DEF Same
<1>5. Same(e, c)
  BY <1>4, ClearRestartKeeps DEF Same
<1>6. Same(y, c)
  BY <1>2, <1>3, <1>4, <1>5 DEF Same
<1>7. R!Accept(x, d, w) = IF R!IgnoredAfterRestart(y, d) THEN y ELSE c
  BY DEF R!Accept
<1> QED
  BY <1>1, <1>6, <1>7

(* The periodic report, with or without requests, stops nothing and marks   *)
(* none.                                                                    *)
LEMMA SendStatsKeeps ==
    ASSUME NEW x, IsXfer(x), Writable, NEW out
    PROVE  \A o \in R!SendStats(x, out) : o.phase = "receiving" /\ Same(x, o.xfer)
<1>1. Same(x, x)
  BY DEF Same
<1> QED
  BY <1>1, RepeatedKeeps
  DEF R!SendStats, R!Stats, R!IfFeedbackFails, R!Outcome, Writable

(* Asking for the rest of the file stops nothing and marks nothing.         *)
LEMMA AskForRestKeeps ==
    ASSUME NEW x, IsXfer(x), Writable, NEW out
    PROVE  \A o \in R!AskForRest(x, out) : o.phase = "receiving" /\ Same(x, o.xfer)
<1> DEFINE y == R!RequestRetransmit(x, R!PastGapless(x), BlockCount)
           r == R!Repeated(y)
<1>1. Same(x, y) /\ Same(y, r)
  BY RequestRetransmitKeeps, RepeatedKeeps DEF Same
<1>2. R!AskForRest(x, out) = R!SendStats(r, out \o R!Requests(y))
  BY DEF R!AskForRest, R!IfFeedbackFails, Writable
<1>3. \A o \in R!SendStats(r, out \o R!Requests(y)) :
          o.phase = "receiving" /\ Same(r, o.xfer)
  BY <1>1, SendStatsKeeps DEF Same
<1> QED
  BY <1>1, <1>2, <1>3 DEF Same

(* A turn inserts its datagram's block, or nothing; it ends a lossless      *)
(* transfer only if no blocks are left.                                     *)
LEMMA ProcessedInserts ==
    ASSUME NEW x, IsXfer(x), Writable, NEW d, NEW o \in R!Processed(x, d, <<>>)
    PROVE  \/ o.phase = "receiving" /\ Same(x, o.xfer)
           \/ o.phase = "receiving" /\ Same(R!Insert(x, d.block), o.xfer)
           \/ /\ o.phase = "stopped" /\ Same(R!Insert(x, d.block), o.xfer)
              /\ session.lossless => o.xfer.blocks_left = 0
<1>1. CASE ~ R!Relevant(x, d)
  BY <1>1, SendStatsKeeps DEF R!Processed
<1>2. CASE R!Relevant(x, d)
  <2>1. PICK w : o \in R!Process(x, d, w, <<>>)
    BY <1>2 DEF R!Processed
  <2> DEFINE i == R!Insert(x, d.block)
             y == R!Accept(x, d, w)
  <2>2. IsXfer(i) /\ Same(i, y) /\ IsXfer(y)
    BY InsertIsXfer, AcceptInserts DEF Same
  <2>3. CASE d.type # "terminate"
    <3>1. o \in R!SendStats(y, <<>>)
      BY <2>1, <2>3 DEF R!Process
    <3> QED
      BY <3>1, <2>2, SendStatsKeeps DEF Same
  <2>4. CASE d.type = "terminate" /\ R!Complete(y)
    <3>1. o \in R!Finish(y, <<>>)
      BY <2>1, <2>4 DEF R!Process
    <3>2. o.phase = "stopped" /\ o.xfer = y
      BY <3>1 DEF R!Finish, R!IfFeedbackFails, R!Outcome, Writable
    <3>3. session.lossless => y.blocks_left = 0
      BY <2>4 DEF R!Complete
    <3> QED
      BY <3>2, <3>3, <2>2
  <2>5. CASE d.type = "terminate" /\ ~ R!Complete(y)
    <3>1. o \in R!AskForRest(y, <<>>)
      BY <2>1, <2>5 DEF R!Process
    <3> QED
      BY <3>1, <2>2, AskForRestKeeps DEF Same
  <2> QED
    BY <2>3, <2>4, <2>5
<1> QED
  BY <1>1, <1>2

-------------------------------------------------------------------------------
(* The inductive invariant.                                                *)

(* The copy holds the blocks of the bitmap, each with its contents;        *)
(* blocks_left counts the others; the client of a lossless transfer stops  *)
(* with all of them.                                                       *)
ClientInv ==
    /\ session \in Sessions
    /\ IsXfer(xfer)
    /\ xfer.received \subseteq Block
    /\ xfer.blocks_left = Cardinality(Block \ xfer.received)
    /\ copy = [b \in xfer.received |-> b]
    /\ client \in {"receiving", "stopped"}
    /\ client = "stopped" /\ session.lossless => xfer.received = Block

(* A datagram holds the contents of the block it names.                    *)
FlowInv == \A d \in flow : d.block \in Block /\ d.data = d.block

(* The file is where last_block says once a block has been sent.  Before   *)
(* that it is at its beginning, the statics may be anything, and nothing   *)
(* can be asked for.                                                       *)
ServerInv ==
    server = "blasting" =>
        /\ block \in 0 .. BlockCount /\ last_block \in 0 .. BlockCount
        /\ block = 0 => flow = {} /\ to_server = <<>> /\ position = 0
        /\ block # 0 => position = last_block

Inv == ClientInv /\ FlowInv /\ ServerInv

(* No session of this module has failures.                                  *)
LEMMA InvWritable == ASSUME Inv PROVE Writable
BY DEF Inv, ClientInv, Writable, Sessions, Session

(* blocks_left counts the blocks the bitmap lacks when ttp_client's         *)
(* got_block has marked one.                                                *)
LEMMA InsertCounts ==
    ASSUME NEW x, IsXfer(x), x.received \subseteq Block,
           x.blocks_left = Cardinality(Block \ x.received), NEW b \in Block
    PROVE  LET y == R!Insert(x, b)
           IN  /\ y.received = x.received \cup {b}
               /\ y.blocks_left = Cardinality(Block \ y.received)
<1> DEFINE y == R!Insert(x, b)
<1>1. IsFiniteSet(Block \ x.received)
  <2>1. IsFiniteSet(Block)
    BY FS_Interval, TransferAssumption DEF Block
  <2> QED
    BY <2>1, FS_Difference
<1>2. CASE b \in x.received
  BY <1>2 DEF R!Insert, R!GotBlock
<1>3. CASE b \notin x.received
  <2>1. ~ (b > BlockCount)
    BY TransferAssumption DEF Block
  <2>2. /\ y.received = x.received \cup {b}
        /\ y.blocks_left = IF x.blocks_left > 0 THEN x.blocks_left - 1 ELSE x.blocks_left
    BY <1>3, <2>1 DEF R!Insert, R!GotBlock, IsXfer
  <2>3. Cardinality((Block \ x.received) \ {b}) = Cardinality(Block \ x.received) - 1
    BY <1>1, <1>3, FS_RemoveElement
  <2>4. Cardinality(Block \ x.received) \in Nat /\ Cardinality(Block \ x.received) > 0
    BY <1>1, <1>3, FS_CardinalityType, FS_EmptySet
  <2>5. (Block \ x.received) \ {b} = Block \ y.received
    BY <2>2
  <2> QED
    BY <2>2, <2>3, <2>4, <2>5
<1> QED
  BY <1>2, <1>3

(* Both sides begin with nothing sent and nothing received.                 *)
LEMMA InitInv == Init => Inv
<1> SUFFICES ASSUME Init PROVE Inv
  OBVIOUS
<1>1. IsXfer(xfer) /\ xfer.received = {} /\ xfer.blocks_left = BlockCount
  BY DEF Init, R!NewTransfer, IsXfer
<1>2. Cardinality(Block) = BlockCount
  BY FS_Interval, TransferAssumption DEF Block
<1>3. copy = [b \in {} |-> b]
  BY DEF Init
<1>4. Block \ {} = Block
  OBVIOUS
<1>5. ClientInv
  BY <1>1, <1>2, <1>3, <1>4 DEF Init, ClientInv
<1>6. FlowInv /\ ServerInv
  BY TransferAssumption DEF Init, FlowInv, ServerInv, H!Rewound
<1> QED
  BY <1>5, <1>6 DEF Inv

(* build_datagram finds the block's place in the file, with or without      *)
(* fseek, whatever its statics held before the transfer.                    *)
LEMMA SeeksBlock ==
    ASSUME Inv, server = "blasting", NEW b \in Block, block # 0 \/ b = 1
    PROVE  H!SeekTo(b) = b - 1
<1>1. b \in Int /\ last_block \in Int
  BY TransferAssumption DEF Inv, ServerInv, Block
<1>2. CASE b # last_block + 1
  BY <1>2 DEF H!SeekTo
<1>3. CASE b = last_block + 1
  <2>1. position = b - 1
    BY <1>1, <1>3 DEF Inv, ServerInv
  <2> QED
    BY <1>3, <2>1 DEF H!SeekTo
<1> QED
  BY <1>2, <1>3

(* A datagram that is sent holds the contents of its block.                 *)
LEMMA SendsBlock ==
    ASSUME Inv, server = "blasting", NEW b \in Block, block # 0 \/ b = 1,
           NEW type, SendDatagram(b, type)
    PROVE  FlowInv' /\ position' = b /\ last_block' = b
<1>1. b - 1 \in 0 .. BlockCount-1 /\ b - 1 + 1 = b
  BY TransferAssumption DEF Block
<1>2. H!SeekTo(b) = b - 1
  BY SeeksBlock
<1>3. H!Built(b, type) = [block |-> b, type |-> type, data |-> b]
  BY <1>1, <1>2 DEF H!Built, H!Readable
<1>4. H!PositionAfter(b) = b
  BY <1>1, <1>2 DEF H!PositionAfter, H!Readable
<1> QED
  BY <1>3, <1>4 DEF SendDatagram, Inv, FlowInv

-------------------------------------------------------------------------------
(* A turn of the client adds the block of its datagram to the copy, or none.*)
LEMMA TurnInv ==
    ASSUME Inv, NEW d \in flow, TakeTurn(d, R!Processed(xfer, d, <<>>))
    PROVE  /\ ClientInv' /\ UNCHANGED session
           /\ xfer'.received \in {xfer.received, xfer.received \cup {d.block}}
           /\ client = "receiving"
<1>1. PICK o \in R!Processed(xfer, d, <<>>) :
          /\ xfer' = o.xfer
          /\ client' = o.phase
          /\ copy' = [b \in o.xfer.received |-> IF b \in DOMAIN copy THEN copy[b] ELSE d.data]
  BY DEF TakeTurn
<1> DEFINE i == R!Insert(xfer, d.block)
<1>2. IsXfer(xfer) /\ d.block \in Block /\ d.data = d.block
  BY DEF Inv, ClientInv, FlowInv
<1>3. /\ i.received = xfer.received \cup {d.block}
      /\ i.blocks_left = Cardinality(Block \ i.received)
  BY <1>2, InsertCounts DEF Inv, ClientInv
<1>4. \/ o.phase = "receiving" /\ Same(xfer, o.xfer)
      \/ o.phase = "receiving" /\ Same(i, o.xfer)
      \/ /\ o.phase = "stopped" /\ Same(i, o.xfer)
         /\ session.lossless => o.xfer.blocks_left = 0
  BY <1>2, ProcessedInserts, InvWritable
<1>5. IsXfer(xfer') /\ xfer'.received \in {xfer.received, i.received}
      /\ xfer'.blocks_left = Cardinality(Block \ xfer'.received)
  BY <1>1, <1>3, <1>4 DEF Same, Inv, ClientInv
<1>6. xfer'.received \subseteq Block
  BY <1>2, <1>3, <1>5 DEF Inv, ClientInv
<1>7. copy' = [b \in xfer'.received |-> b]
  <2>1. ASSUME NEW b \in xfer'.received
        PROVE  (IF b \in DOMAIN copy THEN copy[b] ELSE d.data) = b
    BY <1>2, <1>3, <1>5 DEF Inv, ClientInv
  <2>2. copy' = [b \in xfer'.received |-> IF b \in DOMAIN copy THEN copy[b] ELSE d.data]
    BY <1>1
  <2> QED
    BY <2>1, <2>2
<1>0. UNCHANGED session /\ session \in Sessions
  BY DEF TakeTurn, Inv, ClientInv
<1>8. client' = "stopped" /\ session'.lossless => xfer'.received = Block
  <2> SUFFICES ASSUME client' = "stopped", session'.lossless PROVE xfer'.received = Block
    OBVIOUS
  <2>1. Cardinality(Block \ xfer'.received) = 0
    BY <1>0, <1>1, <1>4, <1>5
  <2>2. IsFiniteSet(Block \ xfer'.received)
    <3>1. IsFiniteSet(Block)
      BY FS_Interval, TransferAssumption DEF Block
    <3> QED
      BY <3>1, FS_Difference
  <2>3. Block \ xfer'.received = {}
    BY <2>1, <2>2, FS_EmptySet
  <2> QED
    BY <2>3, <1>6
<1>9. client' \in {"receiving", "stopped"}
  BY <1>1, <1>4
<1> QED
  BY <1>0, <1>3, <1>5, <1>6, <1>7, <1>8, <1>9 DEF ClientInv, TakeTurn

(* A datagram passed over for a full ring leaves the copy alone.            *)
LEMMA PassOverInv ==
    ASSUME Inv, NEW d \in flow, TakeTurn(d, R!SendStats(xfer, <<>>))
    PROVE  /\ ClientInv'
           /\ UNCHANGED <<session, client, copy>>
<1>1. PICK o \in R!SendStats(xfer, <<>>) :
          /\ xfer' = o.xfer
          /\ client' = o.phase
          /\ copy' = [b \in o.xfer.received |-> IF b \in DOMAIN copy THEN copy[b] ELSE d.data]
  BY DEF TakeTurn
<1>2. o.phase = "receiving" /\ Same(xfer, o.xfer)
  BY SendStatsKeeps, InvWritable DEF Inv, ClientInv
<1>3. client = "receiving" /\ client' = client /\ session' = session
  BY <1>1, <1>2 DEF TakeTurn
<1>4. copy' = copy
  <2>1. copy = [b \in xfer.received |-> b]
    BY DEF Inv, ClientInv
  <2>2. copy' = [b \in xfer.received |-> IF b \in DOMAIN copy THEN copy[b] ELSE d.data]
    BY <1>1, <1>2 DEF Same
  <2> QED
    BY <2>1, <2>2
<1> QED
  BY <1>1, <1>2, <1>3, <1>4 DEF Same, Inv, ClientInv

(* A turn of the client takes a datagram, so the server has sent one.      *)
LEMMA TurnKeepsServer ==
    ASSUME Inv, NEW d \in flow, NEW outcomes, TakeTurn(d, outcomes), Deliver(d)
    PROVE  FlowInv' /\ ServerInv'
<1>1. flow' \subseteq flow
  BY DEF Deliver
<1>2. UNCHANGED <<server, block, last_block, position>>
  BY DEF TakeTurn, serverVars
<1>3. server = "blasting" => block # 0
  BY DEF Inv, ServerInv
<1> QED
  BY <1>1, <1>2, <1>3 DEF Inv, FlowInv, ServerInv

(* Every step keeps the invariant: one case per action.                     *)
LEMMA NextInv == ASSUME Inv, [Next]_vars PROVE Inv'
<1>1. ASSUME NEW d \in flow, Receive(d) PROVE Inv'
  BY <1>1, TurnInv, TurnKeepsServer DEF Receive, Inv
<1>2. ASSUME NEW d \in flow, PassOver(d) PROVE Inv'
  BY <1>2, PassOverInv, TurnKeepsServer DEF PassOver, Inv
<1>3. ASSUME SendBlock PROVE Inv'
  <2>1. block \in 0 .. BlockCount /\ server = "blasting"
    BY <1>3 DEF SendBlock, Inv, ServerInv
  <2>2. H!NextBlock \in Block /\ (block # 0 \/ H!NextBlock = 1)
    BY <2>1, TransferAssumption DEF H!NextBlock, H!Lower, Block
  <2>3. SendDatagram(H!NextBlock, H!BlockType) /\ block' = H!NextBlock
    BY <1>3 DEF SendBlock
  <2>4. FlowInv' /\ position' = H!NextBlock /\ last_block' = H!NextBlock
    BY <2>1, <2>2, <2>3, SendsBlock
  <2>5. ClientInv'
    BY <1>3 DEF SendBlock, clientVars, Inv, ClientInv
  <2>6. block' # 0 /\ block' \in 0 .. BlockCount
    BY <2>2, <2>3, TransferAssumption DEF Block
  <2> QED
    BY <2>3, <2>4, <2>5, <2>6 DEF Inv, ServerInv
<1>4. ASSUME NEW b \in Block, AnswerRetransmit(b) PROVE Inv'
  <2>1. server = "blasting" /\ block # 0 /\ block \in 0 .. BlockCount
    BY <1>4 DEF AnswerRetransmit, NextRequest, Inv, ServerInv
  <2>2. FlowInv' /\ position' = b /\ last_block' = b
    BY <1>4, <2>1, SendsBlock DEF AnswerRetransmit
  <2>3. ClientInv' /\ UNCHANGED <<server, block>>
    BY <1>4 DEF AnswerRetransmit, NextRequest, clientVars, Inv, ClientInv
  <2>4. b \in 0 .. BlockCount
    BY TransferAssumption DEF Block
  <2> QED
    BY <2>1, <2>2, <2>3, <2>4 DEF Inv, ServerInv
<1>5. ASSUME NEW b \in 0 .. BlockCount, AnswerRestart(b) PROVE Inv'
  <2>1. server = "blasting" /\ block # 0 /\ block \in 0 .. BlockCount
    BY <1>5 DEF AnswerRestart, NextRequest, Inv, ServerInv
  <2>2. H!RestartAt(b) \in 0 .. BlockCount /\ H!RestartAt(b) # 0
    BY <2>1, TransferAssumption DEF H!RestartAt, Block
  <2>3. block' = H!RestartAt(b) /\ UNCHANGED <<server, last_block, position, flow>>
    BY <1>5 DEF AnswerRestart
  <2>4. ClientInv'
    BY <1>5 DEF AnswerRestart, NextRequest, clientVars, Inv, ClientInv
  <2> QED
    BY <2>1, <2>2, <2>3, <2>4 DEF Inv, FlowInv, ServerInv
<1>6. ASSUME AnswerStop PROVE Inv'
  BY <1>6 DEF AnswerStop, NextRequest, clientVars, Inv, ClientInv, FlowInv, ServerInv
<1>7. ASSUME UNCHANGED vars PROVE Inv'
  BY <1>7 DEF vars, clientVars, serverVars, Inv, ClientInv, FlowInv, ServerInv
<1> QED
  BY <1>1, <1>2, <1>3, <1>4, <1>5, <1>6, <1>7 DEF Next, ReadRequest, Over

(* The invariant holds throughout.                                         *)
THEOREM Invariance == Spec => []Inv
BY InitInv, NextInv, PTL DEF Spec

-------------------------------------------------------------------------------
(* The transfer begins with an empty copy.                                  *)
LEMMA InitRefines == Init => Copying!Init
<1> SUFFICES ASSUME Init PROVE Copying!Init
  OBVIOUS
<1>1. session.lossless \in BOOLEAN
  <2>1. \E l \in BOOLEAN, w \in {LossWindows, {}} : session = Session(l, w)
    BY DEF Init, Sessions
  <2> QED
    BY <2>1 DEF Session
<1>2. copy = [b \in {} |-> 0] /\ client = "receiving"
  BY DEF Init
<1>3. copy = [b \in {} |-> DataOf(b)]
  BY <1>2
<1> QED
  BY <1>1, <1>2, <1>3 DEF Copying!Init

(* A step copies a block, ends the whole copy, or is none of the copy's.    *)
LEMMA NextRefines == ASSUME Inv, Inv', [Next]_vars PROVE [Copying!Next]_(Copying!vars)
<1> USE DEF Copying!vars
<1>1. ASSUME NEW d \in flow, Receive(d) PROVE Copying!Next \/ UNCHANGED Copying!vars
  <2>1. /\ client = "receiving" /\ d.block \in Block
        /\ xfer'.received \in {xfer.received, xfer.received \cup {d.block}}
    BY <1>1, TurnInv DEF Receive, Inv, FlowInv
  <2>2. /\ copy = [b \in xfer.received |-> b] /\ copy' = [b \in xfer'.received |-> b]
        /\ DOMAIN copy' = xfer'.received
    BY DEF Inv, ClientInv
  <2>3. client' \in {"receiving", "stopped"} /\ (client' = "stopped" /\ session'.lossless => DOMAIN copy' = Block)
    BY <2>2 DEF Inv, ClientInv
  <2>7. session' = session
    BY <1>1, TurnInv DEF Receive
  <2>4. Copying!GoOnOrEnd
    BY <2>3, <2>7 DEF Copying!GoOnOrEnd
  <2>5. CASE d.block \notin xfer.received /\ xfer'.received # xfer.received
    <3>1. Copying!CopyBlock(d.block)
      BY <2>1, <2>2, <2>4, <2>5, <2>7 DEF Copying!CopyBlock, DataOf
    <3> QED
      BY <2>1, <3>1 DEF Copying!Next
  <2>6. CASE xfer'.received = xfer.received
    <3>1. Copying!Complete
      BY <2>1, <2>2, <2>4, <2>6, <2>7 DEF Copying!Complete
    <3> QED
      BY <3>1 DEF Copying!Next
  <2> QED
    BY <2>1, <2>5, <2>6
<1>2. ASSUME NEW d \in flow, PassOver(d) PROVE UNCHANGED Copying!vars
  BY <1>2, PassOverInv DEF PassOver
<1>3. ASSUME SendBlock \/ ReadRequest \/ Over \/ UNCHANGED vars
      PROVE  UNCHANGED Copying!vars
  BY <1>3 DEF SendBlock, ReadRequest, AnswerRetransmit, AnswerRestart, AnswerStop,
              NextRequest, Over, vars, clientVars
<1> QED
  BY <1>1, <1>2, <1>3 DEF Next

(* A transfer implements FileTransfer: blocks arrive with their contents,  *)
(* none is replaced, and the client of a lossless one stops when it has    *)
(* them all, however datagrams are lost, repeated, reordered or passed     *)
(* over.                                                                   *)
THEOREM Copies == Spec => CopiesFile
<1>1. Spec => []Inv
  BY Invariance
<1> QED
  BY <1>1, InitRefines, NextRefines, PTL DEF Spec, CopiesFile, Copying!Spec
-------------------------------------------------------------------------------
(* Types.  The client's are those of ReceiveLoop, whose inductive invariant*)
(* its turns keep here too: RP has what is proved of them.  RP's operators *)
(* are R's; that each is the same as the other is shown first, for         *)
(* datagrams of which RP's have no data.                                   *)
RP == INSTANCE ReceiveLoop_proofs WITH
    phase <- client, local_datagram <- [block |-> 0, type |-> "blank"], sent <- <<>>, asked <- {}

(* What ReceiveLoop assumes of its constants is so.                         *)
LEMMA ReceiveAssumed == RP!ReceiveAssumption
<1>1. Sessions \subseteq [lossless : BOOLEAN, loss_windows : SUBSET (0 .. BlockCount),
                          recv_fails : BOOLEAN, feedback_fails : BOOLEAN]
  BY TransferAssumption DEF Sessions, Session
<1> QED
  BY <1>1, TransferAssumption DEF RP!ReceiveAssumption

(* The table's functions are the same.                                      *)
LEMMA SameTable ==
    /\ \A x, lo, hi : R!RequestRetransmit(x, lo, hi) = RP!RequestRetransmit(x, lo, hi)
    /\ \A x : R!Repeated(x) = RP!Repeated(x)
    /\ \A x : R!Requests(x) = RP!Requests(x)
    /\ \A seq, set : R!Keep(seq, set) = RP!Keep(seq, set)
<1>1. \A seq, set : R!Keep(seq, set) = RP!Keep(seq, set)
  BY DEF R!Keep, RP!Keep
<1>2. \A x : R!Wanted(x) = RP!Wanted(x)
  BY DEF R!Wanted, RP!Wanted, R!GotBlock, RP!GotBlock
<1>3. \A a, b : R!Lower(a, b) = RP!Lower(a, b)
  BY DEF R!Lower, RP!Lower
<1>4. \A lo, hi : R!From(lo, hi) = RP!From(lo, hi)
  BY DEF R!From, RP!From
<1>5. \A x : R!Outstanding(x) = RP!Outstanding(x)
  BY <1>1, <1>2 DEF R!Outstanding, RP!Outstanding
<1>6. \A x, lo, hi : R!RequestRetransmit(x, lo, hi) = RP!RequestRetransmit(x, lo, hi)
  <2> SUFFICES ASSUME NEW x, NEW lo, NEW hi
               PROVE  R!RequestRetransmit(x, lo, hi) = RP!RequestRetransmit(x, lo, hi)
    OBVIOUS
  <2> DEFINE longer == x.table \o R!Keep(R!From(lo, hi), R!Wanted(x))
  <2>1. longer = x.table \o RP!Keep(RP!From(lo, hi), RP!Wanted(x))
    BY <1>1, <1>2, <1>4
  <2>2. R!Lower(TableLimit, Len(longer)) = RP!Lower(TableLimit, Len(longer))
    BY <1>3
  <2> HIDE DEF longer
  <2> QED
    BY <2>1, <2>2 DEF longer, R!RequestRetransmit, RP!RequestRetransmit
<1>7. \A x : R!TooMany(x) = RP!TooMany(x)
  BY <1>5 DEF R!TooMany, RP!TooMany
<1>8. \A x : R!RestartBlock(x) = RP!RestartBlock(x)
  BY <1>3 DEF R!RestartBlock, RP!RestartBlock, R!PastGapless, RP!PastGapless
<1>9. \A x : R!Repeated(x) = RP!Repeated(x)
  BY <1>3, <1>5, <1>7, <1>8 DEF R!Repeated, RP!Repeated, R!WireClear, RP!WireClear
<1>10. \A x : R!Requests(x) = RP!Requests(x)
  BY <1>5, <1>7, <1>8 DEF R!Requests, RP!Requests, R!Retransmit, RP!Retransmit,
     R!Restart, RP!Restart
<1> QED
  BY <1>1, <1>6, <1>9, <1>10

(* What a datagram says but for its data.                                   *)
Label(d) == [block |-> d.block, type |-> d.type]

(* What becomes of a block that is accepted is the same.                    *)
LEMMA SameAccept == \A x, d, w : R!Accept(x, d, w) = RP!Accept(x, Label(d), w)
<1>1. \A x, b : R!Insert(x, b) = RP!Insert(x, b)
  BY DEF R!Insert, RP!Insert, R!GotBlock, RP!GotBlock
<1>2. \A x, b, w : R!EarliestBlock(x, b, w) = RP!EarliestBlock(x, b, w)
  BY DEF R!EarliestBlock, RP!EarliestBlock, R!Lower, RP!Lower
<1>3. \A x, b, w : R!QueueMissing(x, b, w) = RP!QueueMissing(x, b, w)
  <2> SUFFICES ASSUME NEW x, NEW b, NEW w PROVE R!QueueMissing(x, b, w) = RP!QueueMissing(x, b, w)
    OBVIOUS
  <2> DEFINE earliest == R!EarliestBlock(x, b, w)
  <2>1. earliest = RP!EarliestBlock(x, b, w)
    BY <1>2
  <2>2. /\ R!RequestRetransmit(x, x.next_block, b) = RP!RequestRetransmit(x, x.next_block, b)
        /\ R!RequestRetransmit(x, earliest, b) = RP!RequestRetransmit(x, earliest, b)
    BY SameTable
  <2> HIDE DEF earliest
  <2> QED
    BY <2>1, <2>2 DEF earliest, R!QueueMissing, RP!QueueMissing
<1>4. \A x : R!AdvanceGapless(x) = RP!AdvanceGapless(x)
  BY DEF R!AdvanceGapless, RP!AdvanceGapless
<1>5. \A x, d : R!ExpectSuccessor(x, d) = RP!ExpectSuccessor(x, Label(d))
  BY DEF R!ExpectSuccessor, RP!ExpectSuccessor, Label
<1>6. \A x : R!ClearRestart(x) = RP!ClearRestart(x)
  BY DEF R!ClearRestart, RP!ClearRestart
<1>7. \A x, d : R!IgnoredAfterRestart(x, d) <=> RP!IgnoredAfterRestart(x, Label(d))
  BY DEF R!IgnoredAfterRestart, RP!IgnoredAfterRestart, Label
<1>8. \A d : Label(d).block = d.block
  BY DEF Label
<1> QED
  BY <1>1, <1>3, <1>4, <1>5, <1>6, <1>7, <1>8 DEF R!Accept, RP!Accept

(* The outcomes of a turn are the same: no session here has failures.       *)
LEMMA SameTurn ==
    ASSUME Writable
    PROVE  /\ \A x, out : R!SendStats(x, out) = RP!SendStats(x, out)
           /\ \A x, d, out : R!Processed(x, d, out) = RP!Processed(x, Label(d), out)
<1>1. \A S : R!IfFeedbackFails(S) = {} /\ RP!IfFeedbackFails(S) = {}
  BY DEF R!IfFeedbackFails, RP!IfFeedbackFails, Writable
<1>2. \A x, out, end : R!Outcome(x, out, end) = RP!Outcome(x, out, end)
  BY DEF R!Outcome, RP!Outcome
<1>3. \A x, out : R!Stats(x, out) = RP!Stats(x, out)
  BY <1>1, <1>2, SameTable DEF R!Stats, RP!Stats, R!ErrorRate, RP!ErrorRate
<1>4. \A x, out : R!SendStats(x, out) = RP!SendStats(x, out)
  BY <1>2, <1>3 DEF R!SendStats, RP!SendStats
<1>5. \A x, out : R!Finish(x, out) = RP!Finish(x, out)
  BY <1>1, <1>2 DEF R!Finish, RP!Finish, R!StopRequest, RP!StopRequest
<1>6. \A x, out : R!AskForRest(x, out) = RP!AskForRest(x, out)
  BY <1>1, <1>4, SameTable DEF R!AskForRest, RP!AskForRest, R!PastGapless, RP!PastGapless
<1>7. \A x : R!Complete(x) <=> RP!Complete(x)
  BY DEF R!Complete, RP!Complete
<1>8. \A d : Label(d).type = d.type
  BY DEF Label
<1>9. \A x, d, w, out : R!Process(x, d, w, out) = RP!Process(x, Label(d), w, out)
  BY <1>4, <1>5, <1>6, <1>7, <1>8, SameAccept DEF R!Process, RP!Process
<1>10. \A x, d : R!Relevant(x, d) <=> RP!Relevant(x, Label(d))
  BY DEF R!Relevant, RP!Relevant, R!GotBlock, RP!GotBlock, Label
<1>11. \A x, d, out : R!Processed(x, d, out) = RP!Processed(x, Label(d), out)
  BY <1>4, <1>9, <1>10 DEF R!Processed, RP!Processed
<1> QED
  BY <1>4, <1>11

(* What the client may write to the server that changes its block.          *)
Heedable ==
    {H!Retransmit(b) : b \in Block} \cup {H!Restart(b) : b \in 0 .. BlockCount} \cup {H!StopRequest}

(* The server's datagrams are of the kinds ReceiveLoop expects.             *)
FlowTypes ==
    /\ flow \subseteq Datagram
    /\ \A d \in flow : /\ d.type = "original" => d.block < BlockCount
                       /\ d.type = "terminate" => d.block = BlockCount

ServerTypes ==
    /\ server \in {"blasting", "opening"}
    /\ block \in 0 .. BlockCount /\ last_block \in 0 .. BlockCount
    /\ position \in 0 .. BlockCount

Types ==
    /\ RP!IInv /\ client \in {"receiving", "stopped"}
    /\ FlowTypes /\ to_server \in Seq(Heedable) /\ ServerTypes

(* A datagram in the flow is one that ReceiveLoop's client may read.        *)
LEMMA LabelReadable == ASSUME FlowTypes, NEW d \in flow PROVE Label(d) \in RP!Readable
<1>1. d.block \in 0 .. BlockCount /\ d.type \in {"original", "retransmission", "terminate"}
  BY TransferAssumption DEF FlowTypes, Datagram, Block
<1> QED
  BY <1>1 DEF FlowTypes, Label, RP!Readable

(* Of right feedback the server heeds requests about blocks of the file, and*)
(* a restart at block 0, which it refuses.                                  *)
LEMMA HeededTypes ==
    ASSUME NEW out, NEW before, NEW after, RP!FeedbackRight(out, before, after)
    PROVE  Heeded(out) \in Seq(Heedable)
<1> DEFINE set == {r \in R!Entries(out) : r.type # "error_rate"}
           kept == RP!Keep(out, set)
<1>1. out \in Seq(RP!Request) /\ \A r \in RP!Entries(out) : RP!Right(r, before, after)
  BY DEF RP!FeedbackRight
<1>2. kept \in Seq(RP!Request) /\ \A j \in 1 .. Len(kept) : kept[j] \in set
  <2> HIDE DEF set
  <2> QED
    BY <1>1, ReceiveAssumed, RP!KeepFacts
<1>3. Heeded(out) = kept
  BY SameTable DEF Heeded
<1>4. ASSUME NEW r \in RP!Request, r.type # "error_rate", RP!Right(r, before, after)
      PROVE  r \in Heedable
  <2>1. BlockCount # 0 /\ RP!Block = Block
    BY TransferAssumption DEF RP!Block, Block
  <2>2. CASE r \in [type : {"retransmit", "restart"}, block : 0 .. BlockCount]
    <3>1. r.block \in 0 .. BlockCount /\ (r.type = "retransmit" => r.block \in Block)
      BY <1>4, <2>1, <2>2 DEF RP!Right
    <3>2. r = [type |-> r.type, block |-> r.block]
      BY <2>2
    <3>3. \/ r.type = "retransmit" /\ r = H!Retransmit(r.block)
          \/ r = H!Restart(r.block)
      BY <2>2, <3>2 DEF H!Retransmit, H!Restart
    <3> QED
      BY <3>1, <3>3 DEF Heedable
  <2>3. CASE r = RP!StopRequest
    BY <2>3 DEF Heedable, RP!StopRequest, H!StopRequest
  <2> QED
    BY <1>4, <2>2, <2>3 DEF RP!Request, RP!ErrorRate
<1>5. \A j \in 1 .. Len(kept) : kept[j] \in Heedable
  <2> SUFFICES ASSUME NEW j \in 1 .. Len(kept) PROVE kept[j] \in Heedable
    OBVIOUS
  <2>1. kept[j] \in set
    BY <1>2
  <2>2. kept[j] \in R!Entries(out) /\ kept[j].type # "error_rate"
    BY <2>1
  <2>3. R!Entries(out) = RP!Entries(out)
    BY DEF R!Entries, RP!Entries
  <2> HIDE DEF kept
  <2>4. kept[j] \in RP!Request
    BY <1>2, ElementOfSeq
  <2> QED
    BY <1>1, <1>4, <2>2, <2>3, <2>4
<1> HIDE DEF kept
<1>6. kept \in Seq(Heedable)
  BY <1>2, <1>5, ReceiveAssumed, RP!SeqOver
<1> QED
  BY <1>3, <1>6

(* Both sides begin with values of their types.                             *)
LEMMA InitTypes == Init => Types
<1> SUFFICES ASSUME Init PROVE Types
  OBVIOUS
<1>1. RP!Init
  BY DEF Init, RP!Init, R!NewTransfer, RP!NewTransfer
<1>2. RP!IInv
  BY <1>1, ReceiveAssumed, RP!IInvInit
<1>3. FlowTypes /\ ServerTypes /\ client \in {"receiving", "stopped"}
  BY TransferAssumption DEF Init, FlowTypes, ServerTypes, H!Rewound
<1>4. to_server \in Seq(Heedable)
  BY EmptySeq DEF Init
<1> QED
  BY <1>2, <1>3, <1>4 DEF Types

(* A turn of the client keeps the types of what it writes.                  *)
LEMMA TurnTypes ==
    ASSUME Types, NEW d, NEW outcomes, TakeTurn(d, outcomes),
           \A o \in outcomes : /\ RP!OutcomeOK(o, xfer.received, o.xfer.received)
                               /\ o.phase # "aborted"
    PROVE  /\ RP!IInv' /\ client' \in {"receiving", "stopped"}
           /\ to_server' \in Seq(Heedable) /\ ServerTypes'
<1>1. PICK o \in outcomes :
          /\ xfer' = o.xfer /\ client' = o.phase
          /\ to_server' = to_server \o Heeded(o.sent)
  BY DEF TakeTurn
<1>2. RP!OutcomeOK(o, xfer.received, o.xfer.received) /\ o.phase # "aborted"
  BY <1>1
<1>3. session' = session /\ ServerTypes'
  BY DEF TakeTurn, serverVars, Types, ServerTypes
<1>4. Heeded(o.sent) \in Seq(Heedable)
  BY <1>2, HeededTypes DEF RP!OutcomeOK
<1>5. to_server' \in Seq(Heedable)
  BY <1>1, <1>4, ConcatProperties DEF Types
<1>6. client' \in {"receiving", "stopped"}
  BY <1>1, <1>2 DEF RP!OutcomeOK
<1>7. RP!IInv'
  BY <1>1, <1>2, <1>3 DEF Types, RP!IInv, RP!OutcomeOK, RP!Good, RP!TrackedBelow, RP!Done,
     RP!Counted, RP!Prefixed, RP!Lacking
<1> QED
  BY <1>3, <1>5, <1>6, <1>7

(* The client's turns, whether the datagram is processed or passed over,    *)
(* have the outcomes ReceiveLoop's have.                                    *)
LEMMA OutcomesRight ==
    ASSUME Types, Writable, NEW d \in flow,
           NEW o \in R!Processed(xfer, d, <<>>) \cup R!SendStats(xfer, <<>>)
    PROVE  RP!OutcomeOK(o, xfer.received, o.xfer.received) /\ o.phase # "aborted"
<1>1. RP!FeedbackRight(<<>>, xfer.received, xfer.received)
  BY ReceiveAssumed, RP!RightForOthers
<1>2. Label(d) \in RP!Readable
  BY LabelReadable DEF Types
<1>3. o \in RP!Turn(xfer, Label(d), <<>>)
  BY SameTurn DEF RP!Turn
<1>4. /\ RP!Good(xfer) /\ RP!TrackedBelow(xfer, xfer.next_block) /\ session \in Sessions
  BY DEF Types, RP!IInv
<1>5. RP!OutcomeOK(o, xfer.received, o.xfer.received)
  BY <1>1, <1>2, <1>3, <1>4, ReceiveAssumed, RP!TurnFacts
<1>6. o.phase # "aborted"
  <2>1. \A x, out, end : R!Outcome(x, out, end).phase = end
    BY DEF R!Outcome
  <2>2. \A S : R!IfFeedbackFails(S) = {}
    BY DEF R!IfFeedbackFails, Writable
  <2>3. \A x, out : \A p \in R!SendStats(x, out) : p.phase = "receiving"
    BY <2>1, <2>2 DEF R!SendStats, R!Stats
  <2>4. \A x, out : \A p \in R!Finish(x, out) : p.phase = "stopped"
    BY <2>1, <2>2 DEF R!Finish
  <2>5. \A x, out : \A p \in R!AskForRest(x, out) : p.phase = "receiving"
    BY <2>2, <2>3 DEF R!AskForRest
  <2>6. \A x, w, out : \A p \in R!Process(x, d, w, out) : p.phase # "aborted"
    BY <2>3, <2>4, <2>5 DEF R!Process
  <2> QED
    BY <2>3, <2>6 DEF R!Processed
<1> QED
  BY <1>5, <1>6

(* Taking a datagram from the flow leaves datagrams.                        *)
LEMMA DeliverTypes == ASSUME FlowTypes, NEW d, Deliver(d) PROVE FlowTypes'
<1>1. flow' \subseteq flow
  BY DEF Deliver
<1> QED
  BY <1>1 DEF FlowTypes

(* Sending a block of the file leaves the file's position in the file.      *)
LEMMA SendTypes ==
    ASSUME Inv, Types, server = "blasting", NEW b \in Block, block # 0 \/ b = 1,
           NEW type \in {"original", "terminate", "retransmission"},
           type = "original" => b < BlockCount, type = "terminate" => b = BlockCount,
           SendDatagram(b, type)
    PROVE  FlowTypes' /\ last_block' \in 0 .. BlockCount /\ position' \in 0 .. BlockCount
<1>1. FlowInv' /\ position' = b /\ last_block' = b
  BY SendsBlock
<1>2. b \in 0 .. BlockCount
  BY TransferAssumption DEF Block
<1>3. \A d \in flow' : d \in flow \/ d = H!Built(b, type)
  BY DEF SendDatagram
<1>4. H!Built(b, type).block = b /\ H!Built(b, type).type = type
  BY DEF H!Built
<1>5. H!Built(b, type) \in Datagram
  <2>1. H!SeekTo(b) = b - 1
    BY SeeksBlock
  <2>2. H!Built(b, type) = [block |-> b, type |-> type, data |-> b]
    BY <1>2, <2>1, TransferAssumption DEF H!Built, H!Readable, Block
  <2> QED
    BY <1>2, <2>2 DEF Datagram
<1> QED
  BY <1>1, <1>2, <1>3, <1>4, <1>5 DEF Types, FlowTypes

(* A step that leaves the client alone keeps its types.                     *)
LEMMA ClientSame ==
    ASSUME Types, UNCHANGED <<session, xfer, client>>
    PROVE  RP!IInv' /\ client' \in {"receiving", "stopped"}
<1>1. RP!IInv'
  BY ReceiveAssumed, RP!StutterKeeps DEF Types, RP!vars
<1> QED
  BY <1>1 DEF Types

(* The server takes the first request, and leaves the client alone.         *)
LEMMA RequestTypes ==
    ASSUME Types, NEW r, NextRequest(r)
    PROVE  RP!IInv' /\ client' = client /\ to_server' \in Seq(Heedable)
<1>1. to_server' \in Seq(Heedable)
  BY HeadTailProperties DEF Types, NextRequest
<1>2. UNCHANGED <<session, xfer, client>>
  BY DEF NextRequest, clientVars
<1> QED
  BY <1>1, <1>2, ClientSame DEF Types

(* Every step keeps the types: one case per action.                         *)
LEMMA NextTypes == ASSUME Inv, Types, [Next]_vars PROVE Types'
<1>0. Writable
  BY InvWritable
<1>1. ASSUME NEW d \in flow, Receive(d) PROVE Types'
  <2>1. \A o \in R!Processed(xfer, d, <<>>) :
            RP!OutcomeOK(o, xfer.received, o.xfer.received) /\ o.phase # "aborted"
    BY <1>0, <1>1, OutcomesRight
  <2>2. TakeTurn(d, R!Processed(xfer, d, <<>>)) /\ FlowTypes'
    BY <1>1, DeliverTypes DEF Receive, Types
  <2> QED
    BY <2>1, <2>2, TurnTypes DEF Types
<1>2. ASSUME NEW d \in flow, PassOver(d) PROVE Types'
  <2>1. \A o \in R!SendStats(xfer, <<>>) :
            RP!OutcomeOK(o, xfer.received, o.xfer.received) /\ o.phase # "aborted"
    BY <1>0, <1>2, OutcomesRight
  <2>2. TakeTurn(d, R!SendStats(xfer, <<>>)) /\ FlowTypes'
    BY <1>2, DeliverTypes DEF PassOver, Types
  <2> QED
    BY <2>1, <2>2, TurnTypes DEF Types
<1>3. ASSUME SendBlock PROVE Types'
  <2>1. block \in 0 .. BlockCount /\ server = "blasting"
    BY <1>3 DEF SendBlock, Types, ServerTypes
  <2>2. /\ H!NextBlock \in Block /\ (block # 0 \/ H!NextBlock = 1)
        /\ H!BlockType \in {"original", "terminate"}
        /\ H!BlockType = "original" => H!NextBlock < BlockCount
        /\ H!BlockType = "terminate" => H!NextBlock = BlockCount
    BY <2>1, TransferAssumption DEF H!NextBlock, H!BlockType, H!Lower, Block
  <2>3. FlowTypes' /\ last_block' \in 0 .. BlockCount /\ position' \in 0 .. BlockCount
    BY <1>3, <2>1, <2>2, SendTypes DEF SendBlock
  <2>4. block' \in 0 .. BlockCount /\ server' = server
    BY <1>3, <2>2, TransferAssumption DEF SendBlock, Block
  <2>5. RP!IInv' /\ client' = client /\ to_server' = to_server
    BY <1>3, ClientSame DEF SendBlock, clientVars
  <2> QED
    BY <2>3, <2>4, <2>5 DEF Types, ServerTypes
<1>4. ASSUME NEW b \in Block, AnswerRetransmit(b) PROVE Types'
  <2>1. RP!IInv' /\ client' = client /\ to_server' \in Seq(Heedable)
    BY <1>4, RequestTypes DEF AnswerRetransmit
  <2>2. server = "blasting" /\ block # 0
    BY <1>4 DEF AnswerRetransmit, NextRequest, Inv, ServerInv
  <2>3. FlowTypes' /\ last_block' \in 0 .. BlockCount /\ position' \in 0 .. BlockCount
    BY <1>4, <2>2, SendTypes DEF AnswerRetransmit
  <2> QED
    BY <1>4, <2>1, <2>3 DEF AnswerRetransmit, Types, ServerTypes
<1>5. ASSUME NEW b \in 0 .. BlockCount, AnswerRestart(b) PROVE Types'
  <2>1. RP!IInv' /\ client' = client /\ to_server' \in Seq(Heedable)
    BY <1>5, RequestTypes DEF AnswerRestart
  <2>2. H!RestartAt(b) \in 0 .. BlockCount
    BY TransferAssumption DEF H!RestartAt, Block, Types, ServerTypes
  <2> QED
    BY <1>5, <2>1, <2>2 DEF AnswerRestart, Types, ServerTypes, FlowTypes
<1>6. ASSUME AnswerStop PROVE Types'
  <2>1. RP!IInv' /\ client' = client /\ to_server' \in Seq(Heedable)
    BY <1>6, RequestTypes DEF AnswerStop
  <2> QED
    BY <1>6, <2>1 DEF AnswerStop, Types, ServerTypes, FlowTypes
<1>7. ASSUME UNCHANGED vars PROVE Types'
  BY <1>7, ClientSame DEF vars, clientVars, serverVars, Types, ServerTypes, FlowTypes
<1> QED
  BY <1>1, <1>2, <1>3, <1>4, <1>5, <1>6, <1>7 DEF Next, ReadRequest, Over

(* Everything has its type throughout, and the client's bookkeeping is      *)
(* right, as it is in ReceiveLoop.                                          *)
LEMMA TypesThroughout == Spec => []Types
<1>1. Spec => []Inv
  BY Invariance
<1> QED
  BY <1>1, InitTypes, NextTypes, PTL DEF Spec

(* TypeOK: every variable has its type; requests that reach the server name *)
(* blocks of the file (or block 0, in a restart that it refuses), and the   *)
(* file is never read beyond its end.                                       *)
THEOREM TypeCorrect == Spec => []TypeOK
<1>1. Types => TypeOK
  <2> SUFFICES ASSUME Types PROVE TypeOK
    OBVIOUS
  <2>1. R!TypeOK
    BY DEF Types, RP!IInv, RP!Good, RP!Transfers, R!Transfers, R!TypeOK
  <2> QED
    BY <2>1 DEF Types, RP!IInv, FlowTypes, ServerTypes, Heedable, TypeOK
<1> QED
  BY <1>1, TypesThroughout, PTL

(* What ReceiveLoop promises of its bookkeeping for any server holds when   *)
(* the server is the one of ClientHandler and the datagrams carry data:     *)
(* blocks_left counts what is missing, what has been passed over is in the  *)
(* table, and a transfer that is over has what it should have.              *)
THEOREM BookkeepingRight ==
    Spec => [](/\ R!BlocksLeftCounts /\ R!MissingIsTracked
               /\ R!LosslessIsComplete /\ R!NothingLeftPastGapless)
<1>1. Types => /\ R!BlocksLeftCounts /\ R!MissingIsTracked
               /\ R!LosslessIsComplete /\ R!NothingLeftPastGapless
  <2> SUFFICES ASSUME Types
               PROVE  /\ R!BlocksLeftCounts /\ R!MissingIsTracked
                      /\ R!LosslessIsComplete /\ R!NothingLeftPastGapless
    OBVIOUS
  <2>1. /\ RP!Good(xfer) /\ RP!TrackedBelow(xfer, xfer.next_block)
        /\ client = "stopped" => RP!Done(xfer)
    BY DEF Types, RP!IInv
  <2>2. R!Missing = RP!Lacking(xfer)
    BY DEF R!Missing, RP!Lacking, R!Block, RP!Block
  <2>3. R!BlocksLeftCounts
    <3>1. \A S : R!Cardinality(S) = RP!Cardinality(S)
      BY DEF R!Cardinality, RP!Cardinality
    <3> QED
      BY <2>1, <2>2, <3>1 DEF R!BlocksLeftCounts, R!NoBlankCounted, RP!Good, RP!Counted
  <2>4. R!MissingIsTracked
    BY <2>1, <2>2 DEF R!MissingIsTracked, RP!TrackedBelow, R!Entries, RP!Entries
  <2>5. R!LosslessIsComplete /\ R!NothingLeftPastGapless
    BY <2>1, <2>2 DEF R!LosslessIsComplete, R!NothingLeftPastGapless, R!NoneLost,
       R!NoBlankCounted, RP!Done
  <2> QED
    BY <2>3, <2>4, <2>5
<1> QED
  BY <1>1, TypesThroughout, PTL
===============================================================================
