------------------------- MODULE RealTimeServer_proofs -------------------------
(***************************************************************************)
(* Proofs about RealTimeServer, for recordings of any length and any number*)
(* of clients: what is sent, and the backup, are right until block 1 is    *)
(* asked for again.                                                        *)
(***************************************************************************)
EXTENDS RealTimeServer, TLAPS

-------------------------------------------------------------------------------
(* The inductive invariant.                                                *)

(* The first block is read without a seek: the board is at its beginning   *)
(* when nothing has been built, and only then.                             *)
BeginsAtStart ==
    /\ block_count # 0
    /\ block = 0 => datagram = NoDatagram /\ position = 0 /\ backup = 0
    /\ block # 0 => datagram # NoDatagram

(* The static counts the blocks of the backup, which has all that were sent*)
(* in sequence.                                                            *)
BackupCounted ==
    ~ again /\ block # 0 =>
        /\ datagram.data = datagram.block
        /\ fileout => backup >= block /\ last_written_vsib_block = backup

Inv == TypeOK /\ (phase \in {"agreeing", "blasting"} => BeginsAtStart /\ BackupCounted)

(* build_datagram keeps the types of what it changes, when it fails as when*)
(* it does not.                                                            *)
LEMMA ReadKeepsType ==
    ASSUME TypeOK, NEW b \in 1 .. block_count, Read(b)
    PROVE  /\ position' \in Nat /\ last_written_vsib_block' \in Nat
           /\ again' \in BOOLEAN
<1>1. SeekTo(b) \in Nat
  BY DEF TypeOK, SeekTo
<1>2. ReadFrom(SeekTo(b)) \in Nat
  BY <1>1 DEF TypeOK, ReadFrom, Lower
<1>3. WrittenBefore(b) \in Nat
  BY DEF TypeOK, WrittenBefore
<1>4. last_written_vsib_block' \in Nat
  BY <1>3 DEF Read
<1> QED
  BY <1>2, <1>4 DEF Read

LEMMA BuildKeepsType ==
    ASSUME TypeOK, block_count # 0, NEW b \in 1 .. block_count, NEW type, BuildDatagram(b, type),
           block_count' = block_count
    PROVE  /\ position' \in Nat /\ last_written_vsib_block' \in Nat
           /\ backup' \in 0 .. block_count' \cup {Spoilt}
           /\ datagram'.block \in 0 .. block_count'
           /\ datagram'.data \in 0 .. block_count'+1
           /\ again' \in BOOLEAN
           /\ datagram' # NoDatagram
<1>1. SeekTo(b) \in Nat
  BY DEF TypeOK, SeekTo
<1>2. ReadFrom(SeekTo(b)) \in Nat /\ ReadFrom(SeekTo(b)) \in 0 .. block_count+1
  BY <1>1 DEF TypeOK, ReadFrom, Lower
<1>3. Appended(ReadFrom(SeekTo(b))) \in 0 .. block_count \cup {Spoilt}
  BY <1>2 DEF TypeOK, Appended
<1>4. backup' \in 0 .. block_count' \cup {Spoilt}
  BY <1>3 DEF BuildDatagram, TypeOK
<1>5. /\ datagram'.block = b /\ datagram'.data = ReadFrom(SeekTo(b))
      /\ datagram'.block # NoDatagram.block
  BY DEF BuildDatagram, NoDatagram
<1>6. Read(b)
  BY DEF BuildDatagram
<1> QED
  BY <1>2, <1>4, <1>5, <1>6, ReadKeepsType

LEMMA FailKeepsType ==
    ASSUME Inv, phase = "blasting", NEW b \in 1 .. block_count, BuildFails(b),
           NEW p \in {"blasting", "exited"}, phase' = p, NEW n \in 0 .. block_count, block' = n,
           UNCHANGED <<client, clients, board, fileout, block_count>>
    PROVE  TypeOK'
<1>1. Read(b) /\ backup' \in {backup, Spoilt} /\ failed' = TRUE /\ UNCHANGED datagram
  BY DEF BuildFails
<1>2. position' \in Nat /\ last_written_vsib_block' \in Nat /\ again' \in BOOLEAN
  BY <1>1, ReadKeepsType DEF Inv
<1> QED
  BY <1>1, <1>2 DEF Inv, TypeOK

(* A datagram that is no repetition of block 1 holds its block, and is in  *)
(* the backup after that if all before it are.                             *)
LEMMA BuildIsRight ==
    ASSUME Inv, phase = "blasting", NEW b \in 1 .. block_count, b <= block + 1,
           NEW type, BuildDatagram(b, type), ~ again', UNCHANGED fileout
    PROVE  /\ datagram'.data = datagram'.block
           /\ fileout => /\ backup' >= b /\ backup' >= block
                         /\ last_written_vsib_block' = backup'
<1>0. block \in Nat /\ block_count \in Nat /\ b \in Nat /\ b >= 1 /\ b <= block_count
  BY DEF Inv, TypeOK
<1>1. /\ ~ again /\ block \in Nat /\ block_count \in Nat
      /\ block = 0 => b = 1
      /\ block # 0 => b # 1
  <2>1. again' = (again \/ (b = 1 /\ datagram # NoDatagram))
    BY DEF BuildDatagram, Read
  <2>2. ~ again /\ (b # 1 \/ datagram = NoDatagram)
    BY <2>1
  <2>3. block # 0 => b # 1
    BY <2>2 DEF Inv, BeginsAtStart
  <2>4. block = 0 => b = 1
    BY <1>0
  <2> QED
    BY <1>0, <2>2, <2>3, <2>4
<1>2. SeekTo(b) = b - 1
  <2>1. CASE block = 0
    <3>1. position = 0 /\ b = 1
      BY <1>1, <2>1 DEF Inv, BeginsAtStart
    <3> QED
      BY <3>1 DEF SeekTo
  <2>2. CASE block # 0
    BY <1>1, <2>2 DEF SeekTo
  <2> QED
    BY <2>1, <2>2
<1>3. ReadFrom(SeekTo(b)) = b
  BY <1>0, <1>2 DEF ReadFrom, Lower
<1>4. datagram'.data = datagram'.block
  BY <1>3 DEF BuildDatagram
<1>5. CASE fileout /\ block = 0
  <2>1. GoesToBackup(b) /\ WrittenBefore(b) = 0 /\ backup = 0
    BY <1>1, <1>5 DEF Inv, BeginsAtStart, GoesToBackup, WrittenBefore
  <2>2. Appended(b) = 1
    BY <1>1, <1>5, <2>1 DEF Appended
  <2>3. backup' = 1 /\ last_written_vsib_block' = 1
    BY <1>3, <2>1, <2>2 DEF BuildDatagram, Read
  <2> QED
    BY <1>1, <1>4, <1>5, <2>3
<1>6. CASE fileout /\ block # 0
  <2>1. /\ backup >= block /\ last_written_vsib_block = backup /\ backup \in Nat
        /\ WrittenBefore(b) = backup
    BY <1>1, <1>6 DEF Inv, TypeOK, BackupCounted, WrittenBefore, Spoilt
  <2>2. CASE b = backup + 1
    <3>1. GoesToBackup(b) /\ Appended(b) = b
      BY <1>6, <2>1, <2>2 DEF GoesToBackup, Appended
    <3>2. backup' = b /\ last_written_vsib_block' = b
      BY <1>3, <2>1, <2>2, <3>1 DEF BuildDatagram, Read
    <3> QED
      BY <1>1, <1>4, <2>1, <2>2, <3>2
  <2>3. CASE b # backup + 1
    <3>1. ~ GoesToBackup(b)
      BY <2>1, <2>3 DEF GoesToBackup
    <3>2. backup' = backup /\ last_written_vsib_block' = backup
      BY <2>1, <3>1 DEF BuildDatagram, Read
    <3> QED
      BY <1>1, <1>4, <2>1, <2>3, <3>2
  <2> QED
    BY <2>2, <2>3
<1> QED
  BY <1>4, <1>5, <1>6

(* Nothing has been sent before the first client.                          *)
LEMMA InitInv == Init => Inv
<1> SUFFICES ASSUME Init PROVE Inv
  OBVIOUS
<1>1. datagram.block = 0 /\ datagram.data = 0
  BY DEF Init, NoDatagram
<1>2. fileout \in BOOLEAN /\ failed \in BOOLEAN /\ again \in BOOLEAN
  BY DEF Init
<1>3. TypeOK
  BY <1>1, <1>2, RecordingsAssumption DEF Init, TypeOK
<1> QED
  BY <1>3 DEF Init, Inv

-------------------------------------------------------------------------------
(* A turn of the loop keeps the invariant.                                 *)
LEMMA SendBlockInv ==
    ASSUME Inv, phase = "blasting", BuildDatagram(NextBlock, BlockType), block' = NextBlock,
           phase' \in {"blasting", "opening"}, board' \in {board, FreedBoard},
           failed' \in {failed, failed \/ fileout},
           UNCHANGED <<client, clients, fileout, block_count>>
    PROVE  Inv'
<1>1. /\ block \in 0 .. block_count /\ block_count \in Nat /\ block_count # 0
      /\ NextBlock \in 1 .. block_count /\ NextBlock <= block + 1
  BY DEF Inv, TypeOK, BeginsAtStart, NextBlock, Lower
<1>2. TypeOK' /\ datagram' # NoDatagram
  <2>1. /\ position' \in Nat /\ last_written_vsib_block' \in Nat
        /\ backup' \in 0 .. block_count' \cup {Spoilt}
        /\ datagram'.block \in 0 .. block_count'
        /\ datagram'.data \in 0 .. block_count'+1
        /\ again' \in BOOLEAN
        /\ datagram' # NoDatagram
    BY <1>1, BuildKeepsType DEF Inv
  <2> QED
    BY <1>1, <2>1 DEF Inv, TypeOK, FreedBoard
<1>3. BeginsAtStart'
  BY <1>1, <1>2 DEF BeginsAtStart
<1>4. BackupCounted'
  <2>1. ASSUME ~ again'
        PROVE  /\ datagram'.data = datagram'.block
               /\ fileout => backup' >= NextBlock /\ last_written_vsib_block' = backup'
    BY <1>1, <2>1, BuildIsRight
  <2> QED
    BY <2>1 DEF BackupCounted
<1> QED
  BY <1>2, <1>3, <1>4 DEF Inv

(* A retransmission adds to the backup the block after its last, or none,  *)
(* and cannot fail to until block 1 is built again.                        *)
LEMMA RetransmitInv ==
    ASSUME Inv, phase = "blasting", NEW b \in 1 .. block, AnswerRetransmit(b)
    PROVE  Inv'
<1>1. /\ block \in 1 .. block_count /\ block_count \in Nat /\ b \in 1 .. block_count
      /\ block_count # 0 /\ b <= block + 1
  BY DEF Inv, TypeOK, BeginsAtStart
<1>2. UNCHANGED <<phase, client, clients, board, fileout, block_count, block>>
  BY DEF AnswerRetransmit, transferVars
<1>3. CASE BuildDatagram(b, "retransmission") /\ UNCHANGED failed
  <2>1. TypeOK' /\ datagram' # NoDatagram
    <3>1. /\ position' \in Nat /\ last_written_vsib_block' \in Nat
          /\ backup' \in 0 .. block_count' \cup {Spoilt}
          /\ datagram'.block \in 0 .. block_count'
          /\ datagram'.data \in 0 .. block_count'+1
          /\ again' \in BOOLEAN
          /\ datagram' # NoDatagram
      BY <1>1, <1>2, <1>3, BuildKeepsType DEF Inv
    <3> QED
      BY <1>1, <1>2, <1>3, <3>1 DEF Inv, TypeOK
  <2>2. BeginsAtStart'
    BY <1>1, <1>2, <2>1 DEF BeginsAtStart
  <2>3. BackupCounted'
    <3>1. ASSUME ~ again'
          PROVE  /\ datagram'.data = datagram'.block
                 /\ fileout => backup' >= block /\ last_written_vsib_block' = backup'
      BY <1>1, <1>2, <1>3, <3>1, BuildIsRight
    <3> QED
      BY <1>2, <3>1 DEF BackupCounted
  <2> QED
    BY <2>1, <2>2, <2>3 DEF Inv
<1>4. CASE BuildFails(b)
  <2>1. TypeOK'
    BY <1>1, <1>2, <1>4, FailKeepsType
  <2>2. UNCHANGED datagram /\ block # 0 /\ datagram # NoDatagram
    BY <1>1, <1>4 DEF BuildFails, Inv, BeginsAtStart
  <2>3. again'
    <3> SUFFICES ASSUME ~ again' PROVE FALSE
      OBVIOUS
    <3>1. ~ again /\ b # 1 /\ b = last_written_vsib_block + 1 /\ fileout
      BY <1>4, <2>2 DEF BuildFails, Read, GoesToBackup, WrittenBefore
    <3>2. backup >= block /\ last_written_vsib_block = backup
      BY <2>2, <3>1 DEF Inv, BackupCounted
    <3>3. backup \in Int /\ block \in Nat /\ b \in Nat /\ b <= block
      BY <1>1 DEF Inv, TypeOK, Spoilt
    <3> QED
      BY <3>1, <3>2, <3>3
  <2> QED
    BY <1>1, <1>2, <2>1, <2>2, <2>3 DEF Inv, BeginsAtStart, BackupCounted
<1> QED
  BY <1>3, <1>4 DEF AnswerRetransmit

(* A restart goes back to a block that has been sent, so the backup still  *)
(* has all before it.                                                      *)
LEMMA RestartInv ==
    ASSUME Inv, phase = "blasting", NEW b \in 1 .. block, AnswerRestart(b)
    PROVE  Inv'
<1>1. /\ block' = b /\ b \in 1 .. block_count /\ b <= block /\ block # 0 /\ block \in Nat
      /\ UNCHANGED <<phase, client, clients, board, fileout, block_count, fileVars>>
  BY DEF AnswerRestart, RestartAt, Inv, TypeOK
<1>2. TypeOK'
  BY <1>1 DEF Inv, TypeOK, fileVars
<1>3. BeginsAtStart'
  BY <1>1 DEF Inv, BeginsAtStart, fileVars
<1>4. BackupCounted'
  <2>1. ASSUME ~ again', fileout' PROVE backup' >= b /\ last_written_vsib_block' = backup'
    BY <1>1, <2>1 DEF Inv, TypeOK, BackupCounted, fileVars, Spoilt
  <2>2. ASSUME ~ again' PROVE datagram'.data = datagram'.block
    BY <1>1, <2>2 DEF Inv, BackupCounted, fileVars
  <2> QED
    BY <1>1, <2>1, <2>2 DEF BackupCounted
<1> QED
  BY <1>2, <1>3, <1>4 DEF Inv

(* A board that has been opened is at its start, and the backup empty.     *)
LEMMA OpenInv == ASSUME Inv, NEW r \in Recordings, OpenBoard(r) PROVE Inv'
<1>1. r.blocks \in Nat \ {0} /\ r.backup \in BOOLEAN
  BY RecordingsAssumption
<1>2. /\ phase' = "agreeing" /\ fileout' = r.backup /\ again' = FALSE /\ failed' = FALSE
      /\ board' \in {"lost", "held"}
      /\ block_count' = r.blocks /\ block' = 0 /\ position' = 0 /\ backup' = 0
      /\ datagram' = NoDatagram
      /\ UNCHANGED <<client, clients, last_written_vsib_block>>
  BY DEF OpenBoard
<1>3. TypeOK'
  <2>1. datagram'.block = 0 /\ datagram'.data = 0
    BY <1>2 DEF NoDatagram
  <2>2. fileout' \in BOOLEAN /\ failed' \in BOOLEAN /\ again' \in BOOLEAN
    BY <1>1, <1>2
  <2>3. /\ block_count' \in Nat /\ block' \in 0 .. block_count'
        /\ position' \in Nat /\ backup' \in 0 .. block_count' \cup {Spoilt}
        /\ datagram'.block \in 0 .. block_count' /\ datagram'.data \in 0 .. block_count'+1
    BY <1>1, <1>2, <2>1
  <2> QED
    BY <1>2, <2>2, <2>3 DEF Inv, TypeOK
<1>4. BeginsAtStart' /\ BackupCounted'
  BY <1>1, <1>2 DEF BeginsAtStart, BackupCounted
<1> QED
  BY <1>3, <1>4 DEF Inv

(* Every step keeps the invariant: one case per action.                    *)
LEMMA NextInv == ASSUME Inv, [Next]_vars PROVE Inv'
<1>1. ASSUME \/ Connect \/ Die \/ Negotiate \/ Refuse \/ NoSocket \/ WriteFails \/ AwaitDead
             \/ phase = "blasting" /\ ReadFails
             \/ Idle \/ UNCHANGED vars
      PROVE  Inv'
  <2>1. UNCHANGED <<transferVars, fileVars>>
    BY <1>1
    DEF Connect, Die, Negotiate, Refuse, NoSocket, WriteFails, AwaitDead, ReadFails, Idle, vars
  <2>2. /\ phase' \in {"accepting", "negotiating", "opening", "agreeing", "blasting",
                       "stuck", "exited"}
        /\ client' \in {"none", "live", "silent", "gone"}
        /\ clients' \in 0 .. MaxClients
        /\ board' \in {"closed", "held", "lost"}
        /\ phase' \in {"agreeing", "blasting"} => phase' = phase
    BY <1>1, RecordingsAssumption
    DEF Connect, Die, Negotiate, Refuse, NoSocket, WriteFails, AwaitDead, ReadFails, Idle, vars,
        Inv, TypeOK
  <2> QED
    BY <2>1, <2>2 DEF Inv, TypeOK, BeginsAtStart, BackupCounted, transferVars, fileVars
<1>2. ASSUME NEW r \in Recordings, OpenBoard(r) PROVE Inv'
  BY <1>2, OpenInv
<1>3. ASSUME StartTransfer PROVE Inv'
  <2>1. /\ phase = "agreeing" /\ phase' = "blasting"
        /\ UNCHANGED <<client, clients, board, transferVars, fileVars>>
    BY <1>3 DEF StartTransfer
  <2> QED
    BY <2>1 DEF Inv, TypeOK, BeginsAtStart, BackupCounted, transferVars, fileVars
<1>4. ASSUME phase = "blasting", NEW b \in 1 .. block, AnswerRetransmit(b) \/ AnswerRestart(b)
      PROVE  Inv'
  BY <1>4, RetransmitInv, RestartInv
<1>5. ASSUME phase = "blasting", SendBlock PROVE Inv'
  <2>1. CASE BuildDatagram(NextBlock, BlockType) /\ UNCHANGED <<phase, failed>>
    BY <1>5, <2>1, SendBlockInv DEF SendBlock
  <2>2. CASE BuildFails(NextBlock) /\ phase' = "exited"
    <3>1. NextBlock \in 1 .. block_count
      BY <1>5 DEF Inv, TypeOK, BeginsAtStart, NextBlock, Lower
    <3>2. TypeOK'
      BY <1>5, <2>2, <3>1, FailKeepsType DEF SendBlock
    <3> QED
      BY <2>2, <3>2 DEF Inv
  <2> QED
    BY <1>5, <2>1, <2>2 DEF SendBlock
<1>6. ASSUME phase = "blasting", HeartbeatTimeout PROVE Inv'
  BY <1>6, SendBlockInv DEF HeartbeatTimeout, CloseFiles
<1>7. ASSUME phase = "blasting", AnswerStop PROVE Inv'
  BY <1>7 DEF AnswerStop, CloseFiles, FreedBoard, transferVars, Inv, TypeOK
<1> QED
  BY <1>1, <1>2, <1>3, <1>4, <1>5, <1>6, <1>7 DEF Next, Turn

(* The invariant holds throughout.                                         *)
THEOREM Invariance == Spec => []Inv
BY InitInv, NextInv, PTL DEF Spec

(* Type correctness.                                                       *)
THEOREM TypeCorrect == Spec => []TypeOK
<1>1. Inv => TypeOK
  BY DEF Inv
<1> QED
  BY <1>1, Invariance, PTL

(* Until block 1 is asked for again every datagram of rtserver holds its   *)
(* block, and the backup has every block sent so far, whatever else is     *)
(* retransmitted or restarted, and whatever the statics of build_datagram  *)
(* held before the transfer.                                               *)
THEOREM RightUntilFirstAgain == Spec => []RightUntilAgain
<1>1. Inv => RightUntilAgain
  <2> SUFFICES ASSUME Inv, phase = "blasting", ~ again PROVE HoldsGivenBlock /\ (fileout => backup >= block)
    BY DEF RightUntilAgain
  <2>1. CASE block = 0
    BY <2>1 DEF Inv, BeginsAtStart, HoldsGivenBlock
  <2>2. CASE block # 0
    BY <2>2 DEF Inv, BackupCounted, HoldsGivenBlock
  <2> QED
    BY <2>1, <2>2
<1> QED
  BY <1>1, Invariance, PTL

(* A transfer with a backup whose client is dead ends only when the backup *)
(* has the whole recording, unless block 1 was built again or a write to   *)
(* the backup has failed.                                                  *)
THEOREM BackupIsFinished == Spec => BackupSurvivesClient
<1> DEFINE Left == phase = "blasting" /\ phase' # "blasting" /\ client # "live" /\ fileout
<1>1. ASSUME Inv, [Next]_vars, Left, ~ again', ~ failed' PROVE backup' = block_count
  <2>1. HeartbeatTimeout
    BY <1>1 DEF Next, Turn, Connect, Die, Negotiate, Refuse, OpenBoard, StartTransfer, NoSocket,
                WriteFails, AwaitDead, Idle, AnswerRetransmit, AnswerRestart, AnswerStop,
                SendBlock, BuildFails, ReadFails, vars
  <2>2. /\ BlockType = "terminate" /\ BuildDatagram(NextBlock, BlockType) /\ UNCHANGED fileout
        /\ block_count' = block_count
    BY <1>1, <2>1 DEF HeartbeatTimeout, GivesUp
  <2>3. /\ NextBlock = block_count /\ NextBlock \in 1 .. block_count /\ NextBlock <= block + 1
        /\ block_count \in Nat /\ block_count # 0
    BY <1>1, <2>2 DEF Inv, TypeOK, BeginsAtStart, NextBlock, Lower, BlockType
  <2>4. backup' >= block_count
    BY <1>1, <2>2, <2>3, BuildIsRight
  <2>5. backup' \in 0 .. block_count \cup {Spoilt}
    BY <1>1, <2>2, <2>3, BuildKeepsType DEF Inv
  <2> QED
    BY <2>3, <2>4, <2>5 DEF Spoilt
<1>2. Inv /\ [Next]_vars => [Left => again' \/ failed' \/ backup' = block_count]_vars
  BY <1>1
<1> QED
  BY <1>2, Invariance, PTL DEF Spec, BackupSurvivesClient
===============================================================================
