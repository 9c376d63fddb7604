---------------------- MODULE IntegrityTransferProofs ----------------------
(***************************************************************************)
(* Proofs about IntegrityTransfer, for any file, any faults, any number of *)
(* losses and loops, and with or without back pressure, prompt drains and  *)
(* destinations that fail.                                                 *)
(*                                                                         *)
(* The argument has two halves.  The receiver's half is not repeated: each *)
(* step of the transfer is a step of IntegrityReceiver or leaves what it   *)
(* sees alone (StepsAlike), so the inductive invariant proved there        *)
(* (Side!Inv) holds here, and with it that a block in the record is in the *)
(* destination (SideFacts).  The other half is about what the two sides    *)
(* know of each other, through messages that may be late:                  *)
(*   - FromSender: a MANIFEST_ROOT has the digests of the source, flipped  *)
(*     or not, whatever fault is injected;                                 *)
(*   - FromReceiver: a COMMITTED in flight is about a block the store      *)
(*     holds already, a MANIFEST_VERIFIED in flight was sent after the     *)
(*     close;                                                              *)
(*   - DeliveryInv: a close is only started, and DELIVERED only said, when *)
(*     the store and the destination hold the whole source, and neither    *)
(*     changes after that (WholeStays);                                    *)
(*   - LoopShape: a slot names a loop that waits in it, and a loop that    *)
(*     runs has a block to do.                                             *)
(* DeliveredIsSource is not inductive without them: the sender becomes     *)
(* DELIVERED on a message, long after the close that it tells of.          *)
(***************************************************************************)
EXTENDS IntegrityTransfer, SequenceTheorems, WellFoundedInduction, TLAPS

\* The receiver's side, with what is proved of it.
Side ==
    INSTANCE IntegrityReceiverProofs WITH
        destId       <- 0,
        refused      <- FALSE,
        store        <- StoredRecord,
        QueueLengths <- Nat,
        HashLengths  <- Nat,
        MaxReloads   <- 0

-----------------------------------------------------------------------------
(* The inductive invariant.                                                  *)

\* The loops and slots of the sender.
LoopShape(s) ==
    /\ \A i \in LoopId : s.loops[i].pc # "none" => s.loops[i].todo # {}
    /\ s.ready # 0 => s.loops[s.ready].pc = "ready"
    /\ s.ack # 0 => s.loops[s.ack].pc = "ack"

SenderInv == snd \in Sender /\ LoopShape(snd) /\ fault \in Fault

ReceiverInv ==
    /\ rcv \in Receiver
    /\ final \in {"open", "closed", "aborted"}
    /\ store \in [file : {"none", "torn", "saved"}, table : Table]
    /\ store.file # "saved" => store.table = EmptyTable

NetworkInv ==
    /\ link \in {"up", "cut", "rebuilt"}
    /\ {sOpen, rOpen, noticed} \subseteq BOOLEAN
    /\ cuts \in 0 .. MaxCuts
    /\ flaps \in 0 .. MaxFlaps

\* What either side may have in flight.
FromSender == {m \in Control : m.type = "ROOT" => m.root.table = Source}

FromReceiver ==
    {m \in Control :
        /\ m.type = "COMMITTED" => m.block \in Committed(store.table)
        /\ m.type = "VERIFIED" => final = "closed"}

WiresInv ==
    /\ toReceiver \in Seq(FromSender)
    /\ toSender \in Seq(FromReceiver)
    /\ frames \in Seq(Frame)

\* The file is complete, in the store and in the destination.
Whole == store.table = Source /\ dest = Source

DeliveryInv ==
    /\ SafeBytesAreStored
    /\ final = "closed" \/ rcv.closing > 0 => Whole
    /\ "DELIVERED" \in {snd.state, rcv.state} => final = "closed"

IInv ==
    /\ Side!Inv
    /\ SenderInv
    /\ ReceiverInv
    /\ NetworkInv
    /\ WiresInv
    /\ DeliveryInv

-----------------------------------------------------------------------------
(* Seen from the receiver, every step is one of IntegrityReceiver's.         *)

\* The side's data are the transfer's: the same file, frames and digests.
LEMMA SameData ==
    /\ Side!Blocks = Blocks
    /\ Side!Digest = Digest
    /\ Side!Frame = Frame
    /\ Side!Table = Table
    /\ Side!ReceiverType = ReceiverType
    /\ Side!EmptyTable = EmptyTable
<1>1. Side!Blocks = Blocks /\ Side!Digest = Digest /\ Side!NoDigest = NoDigest
  BY DEF Side!Blocks, Blocks, Side!Digest, Digest, Side!NoDigest, NoDigest
<1>2. Side!Frame = Frame /\ Side!Table = Table /\ Side!EmptyTable = EmptyTable
  BY <1>1 DEF Side!Frame, Frame, Side!Table, Table, Side!EmptyTable, EmptyTable
<1> QED
  BY <1>1, <1>2 DEF Side!ReceiverType, ReceiverType

\* A table has the same committed, missing and first missing blocks.
LEMMA SameTables ==
    ASSUME NEW table
    PROVE  /\ Side!Committed(table) = Committed(table)
           /\ Side!FirstMissing(table) = FirstMissing(table)
           /\ Side!NewReceiver(table) = NewReceiver(table)
<1>1. Side!Blocks = Blocks /\ Side!NoDigest = NoDigest
  BY DEF Side!Blocks, Blocks, Side!NoDigest, NoDigest
<1>2. Side!Missing(table) = Missing(table)
  BY <1>1 DEF Side!Missing, Missing
<1>3. Side!FirstMissing(table) = FirstMissing(table)
  BY <1>2 DEF Side!FirstMissing, FirstMissing
<1>4. Side!Committed(table) = Committed(table)
  BY <1>1 DEF Side!Committed, Committed
<1> QED
  BY <1>1, <1>3, <1>4 DEF Side!NewReceiver, NewReceiver

\* A receiver does the same with a digest, a frame, a write and a save.
LEMMA SamePieces ==
    ASSUME NEW r
    PROVE  /\ Side!Settled(r) <=> Settled(r)
           /\ \A b : Side!AcceptsDigest(r, b) <=> AcceptsDigest(r, b)
           /\ \A d : Side!WithDigest(r, d) = WithDigest(r, d)
           /\ \A f : /\ Side!Queued(r, f) = Queued(r, f)
                     /\ Side!AcceptsFrame(r, f) <=> AcceptsFrame(r, f)
           /\ Side!Dropped(r) = Dropped(r)
           /\ Side!Hashed(r) = Hashed(r)
           /\ Side!EndsBlock(r) <=> EndsBlock(r)
           /\ Side!Verifies(r) <=> Verifies(r)
           /\ Side!Advanced(r) = Advanced(r)
           /\ Side!Nacked(r) = Nacked(r)
           /\ \A d : Side!Verified(r, d) = Verified(r, d)
           /\ Side!Saved(r) = Saved(r)
<1>1. Side!Blocks = Blocks /\ Side!NoDigest = NoDigest
  BY DEF Side!Blocks, Blocks, Side!NoDigest, NoDigest
<1>2. /\ Side!Settled(r) <=> Settled(r)
      /\ \A b : Side!AcceptsDigest(r, b) <=> AcceptsDigest(r, b)
      /\ \A f : Side!AcceptsFrame(r, f) <=> AcceptsFrame(r, f)
      /\ Side!EndsBlock(r) <=> EndsBlock(r)
      /\ Side!Verifies(r) <=> Verifies(r)
  BY <1>1 DEF Side!Settled, Settled, Side!AcceptsDigest, AcceptsDigest,
              Side!AcceptsFrame, AcceptsFrame, Side!EndsBlock, EndsBlock,
              Side!Verifies, Verifies
<1>3. /\ \A d : Side!WithDigest(r, d) = WithDigest(r, d)
      /\ \A f : Side!Queued(r, f) = Queued(r, f)
      /\ Side!Dropped(r) = Dropped(r)
      /\ Side!Hashed(r) = Hashed(r)
      /\ \A d : Side!Verified(r, d) = Verified(r, d)
  BY DEF Side!WithDigest, WithDigest, Side!Queued, Queued, Side!Dropped, Dropped,
         Side!Hashed, Hashed, Side!Verified, Verified
<1>4. /\ Side!Advanced(r) = Advanced(r)
      /\ Side!Nacked(r) = Nacked(r)
  BY <1>1, <1>3 DEF Side!Advanced, Advanced, Side!Nacked, Nacked
<1>5. Side!FirstMissing(r.table) = FirstMissing(r.table)
  BY SameTables
<1>6. Side!Saved(r) = Saved(r)
  BY <1>1, <1>3, <1>5 DEF Side!Saved, Saved
<1> QED
  BY <1>2, <1>3, <1>4, <1>6

\* The record the side sees, for each state of the transfer's store.
LEMMA RecordSeen ==
    ASSUME ReceiverInv
    PROVE  /\ StoredRecord.table = store.table
           /\ store.file = "none" <=> StoredRecord = Side!NoRecord
           /\ store.file = "torn" => StoredRecord = Side!TornRecord
           /\ store.file = "saved" <=> StoredRecord.destination = 0
<1>1. store.file \in {"none", "torn", "saved"}
  BY DEF ReceiverInv
<1>2. Side!EmptyTable = EmptyTable
  BY SameData
<1>3. store.file # "saved" => store.table = EmptyTable
  BY DEF ReceiverInv
<1>4. StoredRecord.table = store.table
  BY DEF StoredRecord
<1>5. /\ store.file = "saved" => StoredRecord.destination = 0
      /\ store.file = "none" => StoredRecord.destination = -1
      /\ store.file = "torn" => StoredRecord.destination = -2
  BY DEF StoredRecord
<1> QED
  BY <1>1, <1>2, <1>3, <1>4, <1>5 DEF StoredRecord, Side!NoRecord, Side!TornRecord

\* What a first save leaves behind, whole or torn.
LEMMA RecordWritten ==
    /\ \A table : store' = SavedRecord(table) =>
          StoredRecord' = [destination |-> 0, table |-> table]
    /\ store' = TornRecord => StoredRecord' = Side!TornRecord
    /\ store' = store => StoredRecord' = StoredRecord
<1>1. Side!EmptyTable = EmptyTable
  BY SameData
<1>2. ASSUME NEW table, store' = SavedRecord(table)
      PROVE  StoredRecord' = [destination |-> 0, table |-> table]
  <2>1. store'.file = "saved" /\ store'.table = table
    BY <1>2 DEF SavedRecord
  <2> QED
    BY <2>1 DEF StoredRecord
<1>3. ASSUME store' = TornRecord
      PROVE  StoredRecord' = Side!TornRecord
  <2>1. store'.file = "torn" /\ store'.table = Side!EmptyTable
    BY <1>1, <1>3 DEF TornRecord
  <2> QED
    BY <2>1 DEF StoredRecord, Side!TornRecord
<1>4. ASSUME store' = store
      PROVE  StoredRecord' = StoredRecord
  BY <1>4 DEF StoredRecord
<1> QED
  BY <1>2, <1>3, <1>4

\* openReceiver opens, resumes or tears the record as the side does.
LEMMA OpensAlike ==
    ASSUME ReceiverInv, ReceiverOpens
    PROVE  Side!OpenFresh \/ Side!OpenTears \/ Side!OpenResumed \/ UNCHANGED Side!vars
<1>1. Side!Settled(rx) <=> Settled(rx)
  BY SamePieces
<1>2. CASE OpenFresh
  <2>1. /\ StoredRecord = Side!NoRecord
        /\ StoredRecord' = [destination |-> 0, table |-> Side!EmptyTable]
        /\ rx' = Side!NewReceiver(Side!EmptyTable)
    BY <1>2, RecordSeen, RecordWritten, SameData, SameTables DEF OpenFresh, Opened
  <2> QED
    BY <1>1, <1>2, <2>1 DEF OpenFresh, Opened, Side!OpenFresh
<1>3. CASE OpenResumed
  <2>1. /\ StoredRecord.destination = 0
        /\ StoredRecord' = StoredRecord
        /\ rx' = Side!NewReceiver(StoredRecord.table)
    BY <1>3, RecordSeen, RecordWritten, SameTables DEF OpenResumed, Opened
  <2> QED
    BY <1>1, <1>3, <2>1 DEF OpenResumed, Opened, Side!OpenResumed
<1>4. CASE OpenFails
  <2>1. CASE store' = store
    BY <1>4, <2>1, RecordWritten DEF OpenFails, Side!vars
  <2>2. CASE store' # store
    <3>1. store.file = "none" /\ store' = TornRecord
      BY <1>4, <2>2 DEF OpenFails
    <3>2. StoredRecord = Side!NoRecord /\ StoredRecord' = Side!TornRecord
      BY <3>1, RecordSeen, RecordWritten
    <3> QED
      BY <1>1, <1>4, <3>2 DEF OpenFails, Side!OpenTears
  <2> QED
    BY <2>1, <2>2
<1> QED
  BY <1>2, <1>3, <1>4 DEF ReceiverOpens

\* A digest and a frame that the receiver takes are among those of the side's
\* environment.
LEMMA InputsAlike ==
    ASSUME Side!Inv, WiresInv, TakeDigest \/ TakeFrame
    PROVE  \/ \E block \in Side!Blocks, digest \in Side!Digest : Side!Expect(block, digest)
           \/ \E frame \in Side!Frame : Side!Arrive(frame)
           \/ UNCHANGED Side!vars
<1>1. rx \in ReceiverType
  BY SameData DEF Side!Inv, Side!TypeInv, Side!TypeOK
<1>2. CASE TakeDigest
  <2> DEFINE m == Head(toReceiver)
  <2>1. m \in Control /\ m.type = "DIGEST"
    BY <1>2 DEF TakeDigest, ReceiverTakes, Arrived, WiresInv, FromSender
  <2>2. m.block \in Blocks /\ m.digest \in Digest
    BY <2>1 DEF Control
  <2>3. StoredRecord' = StoredRecord /\ UNCHANGED <<dest, broken>>
    BY <1>2, RecordWritten DEF TakeDigest, disk
  <2>4. CASE rx' = rx
    BY <2>3, <2>4 DEF Side!vars
  <2>5. CASE rx' # rx
    <3>1. rx.step # "none" /\ AcceptsDigest(rx, m.block) /\ rx' = WithDigest(rx, m.digest)
      BY <1>2, <2>5 DEF TakeDigest
    <3>2. Side!Expect(m.block, m.digest)
      BY <2>3, <3>1, SamePieces DEF Side!Expect
    <3> QED
      BY <2>2, <3>2, SameData
  <2> QED
    BY <2>4, <2>5
<1>3. CASE TakeFrame
  <2>1. Head(frames) \in Frame
    BY <1>3 DEF TakeFrame, FrameArrived, WiresInv
  <2>2. StoredRecord' = StoredRecord /\ UNCHANGED <<dest, broken>>
    BY <1>3, RecordWritten DEF TakeFrame, disk
  <2>3. CASE rx' = rx
    BY <2>2, <2>3 DEF Side!vars
  <2>4. CASE rx' # rx
    <3>1. rx.step # "none" /\ rx' = Queued(rx, Head(frames))
      BY <1>3, <2>4 DEF TakeFrame, TakesFrames
    <3>2. Len(rx.queue) \in Nat /\ Len(rx.hash) + Len(rx.queue) \in Nat
      BY <1>1 DEF ReceiverType
    <3>3. Side!Arrive(Head(frames))
      BY <2>2, <3>1, <3>2, SamePieces DEF Side!Arrive
    <3> QED
      BY <2>1, <3>3, SameData
  <2> QED
    BY <2>3, <2>4
<1> QED
  BY <1>2, <1>3

\* process runs alike, from the check of a frame to the end of the save.
LEMMA ProcessesAlike ==
    ASSUME ReceiverProcesses
    PROVE  \/ Side!StartWrite \/ Side!RejectFrame
           \/ Side!WriteWithinBlock \/ Side!WriteThenNack \/ Side!WriteThenVerify
           \/ Side!WriteFails \/ Side!SaveEnds \/ Side!SaveFails
<1>1. store' = store => StoredRecord' = StoredRecord
  BY RecordWritten
<1>2. CASE StartWrite
  BY <1>1, <1>2, SamePieces DEF StartWrite, disk, Side!StartWrite
<1>3. CASE RejectFrame
  BY <1>1, <1>3, SamePieces DEF RejectFrame, disk, Side!RejectFrame
<1>4. CASE WriteWithinBlock
  BY <1>1, <1>4, SamePieces
     DEF WriteWithinBlock, WriteLands, Side!WriteWithinBlock, Side!WriteLands
<1>5. CASE WriteThenNack
  BY <1>1, <1>5, SamePieces
     DEF WriteThenNack, WriteLands, Side!WriteThenNack, Side!WriteLands
<1>6. CASE WriteThenVerify
  BY <1>1, <1>6, SamePieces
     DEF WriteThenVerify, WriteLands, Side!WriteThenVerify, Side!WriteLands
<1>7. CASE WriteFails
  BY <1>1, <1>7, SamePieces DEF WriteFails, Side!WriteFails
<1>8. CASE SaveEnds
  <2>1. StoredRecord' = [destination |-> 0, table |-> rx.table]
    BY <1>8, RecordWritten DEF SaveEnds
  <2> QED
    BY <1>8, <2>1, SamePieces DEF SaveEnds, Side!SaveEnds
<1>9. CASE SaveFails
  BY <1>1, <1>9, SamePieces DEF SaveFails, disk, Side!SaveFails
<1> QED
  BY <1>2, <1>3, <1>4, <1>5, <1>6, <1>7, <1>8, <1>9 DEF ReceiverProcesses

\* The side sees a failed close, and a cancel that aborts, as an Abort, and
\* nothing of what the rest of the transfer and the network do.
LEMMA OthersAlike ==
    ASSUME broken \in BOOLEAN,
           \/ Users \/ Cancels \/ SenderHandles \/ ReceiverCloses
           \/ \E i \in LoopId : LoopStep(i)
           \/ ReceiverBytesComplete \/ ReceiverRoot \/ TakeDelivered \/ TakeOffer
           \/ NetworkFails \/ NetworkRecovers \/ UNCHANGED vars
    PROVE  Side!Abort \/ UNCHANGED Side!vars
<1>1. store' = store => StoredRecord' = StoredRecord
  BY RecordWritten
<1>2. CASE CancelReceiver
  <2>1. UNCHANGED <<rx, dest, store>>
    BY <1>2 DEF CancelReceiver
  <2>2. broken' = TRUE \/ broken' = broken
    BY <1>2 DEF CancelReceiver
  <2> QED
    BY <1>1, <2>1, <2>2 DEF Side!Abort, Side!vars
<1>3. CASE ReceiverCloses
  BY <1>1, <1>3 DEF ReceiverCloses, CloseEnds, CloseFails, Side!Abort, Side!vars
<1>4. CASE Users \/ CancelSender \/ UNCHANGED vars
  BY <1>1, <1>4 DEF Users, StartOffer, Accept, CancelSender, vars, receiver, disk,
                    Side!vars
<1>5. CASE \E i \in LoopId : LoopStep(i)
  BY <1>1, <1>5 DEF LoopStep, ReadEnds, DrainEnds, DrainRejects, receiver, disk,
                    Side!vars
<1>6. CASE SenderHandles
  BY <1>1, <1>6
     DEF SenderHandles, HaveIsQueued, HaveIsOutOfPlace, HaveStartsLoop,
         HaveIsComplete, BlockReady, ReadyIgnored, BlockCommitted, BlockNacked,
         NackIgnored, SenderBytesComplete, SenderRoot, SenderVerified,
         receiver, disk, Side!vars
<1>7. CASE ReceiverBytesComplete \/ ReceiverRoot \/ TakeDelivered \/ TakeOffer
  BY <1>1, <1>7 DEF ReceiverBytesComplete, ReceiverRoot, TakeDelivered, TakeOffer,
                    receiver, disk, Side!vars
<1>8. CASE NetworkFails
  BY <1>1, <1>8
     DEF NetworkFails, Cut, ReceiverLoses, SenderChannelCloses,
         ReceiverChannelCloses, SenderFlaps, ReceiverFlaps, receiver, disk, Side!vars
<1>9. CASE NetworkRecovers
  BY <1>1, <1>9
     DEF NetworkRecovers, SenderLoses, SenderReplaces, Connect, receiver, disk,
         Side!vars
<1> QED
  BY <1>2, <1>3, <1>4, <1>5, <1>6, <1>7, <1>8, <1>9 DEF Cancels

\* Every step of the transfer is a step of the side, or none.
LEMMA StepsAlike ==
    ASSUME Side!Inv, ReceiverInv, WiresInv, [Next]_vars
    PROVE  [Side!Next]_Side!vars
<1>1. CASE ReceiverOpens
  BY <1>1, OpensAlike DEF Side!Next
<1>2. CASE TakeDigest \/ TakeFrame
  BY <1>2, InputsAlike DEF Side!Next
<1>3. CASE ReceiverProcesses
  BY <1>3, ProcessesAlike DEF Side!Next
<1>4. CASE ~ (ReceiverOpens \/ TakeDigest \/ TakeFrame \/ ReceiverProcesses)
  <2>1. broken \in BOOLEAN
    BY DEF Side!Inv, Side!TypeInv, Side!TypeOK
  <2> QED
    BY <1>4, <2>1, OthersAlike DEF Next, ReceiverHandles, Side!Next
<1> QED
  BY <1>1, <1>2, <1>3, <1>4

\* So the receiver's own invariant holds on.
LEMMA SideHolds ==
    ASSUME Side!Inv, ReceiverInv, WiresInv, [Next]_vars
    PROVE  Side!Inv'
<1>1. [Side!Next]_Side!vars
  BY StepsAlike
<1>2. Side!Shape'
  BY <1>1, M5ReceiverAssumption, Side!StepShapes DEF Side!Inv, Side!Shape
<1> QED
  BY <1>1, <1>2, M5ReceiverAssumption, Side!StepContents DEF Side!Inv, Side!Shape

-----------------------------------------------------------------------------
(* The sender: its loops and slots.                                          *)

Sound(s) == s \in Sender /\ LoopShape(s)

\* A piece of the sender that neither counts a block nor reports a delivery.
Keeps(s, t) ==
    /\ Sound(t)
    /\ t.committed = s.committed
    /\ t.state = "DELIVERED" => s.state = "DELIVERED"

\* A set of numbers that is not empty has a least member.
LEMMA LeastMember ==
    ASSUME NEW T \in SUBSET Nat, T # {}
    PROVE  \E least \in T : \A n \in T : least <= n
<1> DEFINE R == {pair \in Nat \X Nat : pair[1] < pair[2]}
<1>1. IsWellFoundedOn(R, Nat)
  BY NatLessThanWellFounded DEF OpToRel
<1>2. PICK least \in T : \A n \in T : <<n, least>> \notin R
  <2> HIDE DEF R
  <2> QED
    BY <1>1, WFMin
<1>3. ASSUME NEW n \in T
      PROVE  least <= n
  <2>1. <<n, least>> \in Nat \X Nat /\ <<n, least>> \notin R
    BY <1>2
  <2>2. ~ (n < least)
    BY <2>1
  <2> QED
    BY <2>2
<1> QED
  BY <1>3

\* The block of a loop that has blocks to do is the first of them.
LEMMA BlockToDo ==
    ASSUME NEW loop, loop.todo \in SUBSET Blocks, loop.todo # {}
    PROVE  Block(loop) \in loop.todo /\ Block(loop) \in Blocks
<1>1. loop.todo \subseteq Nat
  BY M5ReceiverAssumption DEF Blocks
<1>2. \E b \in loop.todo : \A c \in loop.todo : b <= c
  BY <1>1, LeastMember
<1> QED
  BY <1>2 DEF Block

\* send fails, the connection is lost: the slots are emptied, what ran runs on
\* with an old epoch (transportInterrupted).
LEMMA InterruptedKeeps ==
    ASSUME NEW s, Sound(s)
    PROVE  Keeps(s, InterruptedSender(s)) /\ Keeps(s, Sent(s))
<1> DEFINE gone(i) == i \in {s.ready, s.ack} \/ s.loops[i].pc = "none"
           loops == [i \in LoopId |-> IF gone(i) THEN NoLoop
                                      ELSE [s.loops[i] EXCEPT !.stale = TRUE]]
<1>1. s \in Sender /\ s.loops \in [LoopId -> Loop]
  BY DEF Sound, Sender
<1>2. NoLoop \in Loop /\ NoLoop.pc = "none"
  BY M5ReceiverAssumption DEF NoLoop, Loop
<1>3. ASSUME NEW i \in LoopId
      PROVE  /\ loops[i] \in Loop
             /\ loops[i].pc # "none" => loops[i].todo # {}
  BY <1>1, <1>2 DEF Loop, Sound, LoopShape
<1>4. InterruptedSender(s) # s =>
        InterruptedSender(s) =
           [s EXCEPT !.state = "RECONNECTING", !.sending = FALSE,
                     !.ready = 0, !.ack = 0, !.loops = loops]
  BY <1>1 DEF InterruptedSender, Interrupted, Sender
<1>5. loops \in [LoopId -> Loop]
  BY <1>3
<1> HIDE DEF loops
<1>6. ASSUME NEW t, t = [s EXCEPT !.state = "RECONNECTING", !.sending = FALSE,
                                  !.ready = 0, !.ack = 0, !.loops = loops]
      PROVE  Keeps(s, t)
  <2>1. t \in Sender
    BY <1>1, <1>5, <1>6 DEF Sender, TransferState
  <2>2. /\ t.loops = loops /\ t.ready = 0 /\ t.ack = 0
        /\ t.committed = s.committed /\ t.state = "RECONNECTING"
    BY <1>1, <1>6 DEF Sender
  <2> QED
    BY <1>3, <2>1, <2>2 DEF Keeps, Sound, LoopShape
<1>7. Keeps(s, s)
  BY DEF Keeps
<1>8. Keeps(s, InterruptedSender(s))
  BY <1>4, <1>6, <1>7
<1> QED
  BY <1>7, <1>8 DEF Sent

\* Where the loops and the slots stay as they are.
LEMMA SameLoops ==
    ASSUME NEW s, Sound(s), NEW t \in Sender,
           t.loops = s.loops, t.ready = s.ready, t.ack = s.ack,
           t.committed = s.committed,
           t.state = "DELIVERED" => s.state = "DELIVERED"
    PROVE  Keeps(s, t)
BY DEF Keeps, Sound, LoopShape

\* fail, and every plain change of the state but the report of the delivery.
LEMMA StateKeeps ==
    ASSUME NEW s, Sound(s), NEW state \in TransferState \ {"DELIVERED"}
    PROVE  Keeps(s, [s EXCEPT !.state = state]) /\ Keeps(s, Failed(s, state))
<1>1. s \in Sender
  BY DEF Sound
<1>2. Keeps(s, [s EXCEPT !.state = state]) /\ Keeps(s, s)
  BY <1>1 DEF Keeps, Sound, LoopShape, Sender
<1> QED
  BY <1>2 DEF Failed

\* One loop that is in no slot is replaced by another that is sound, or none.
LEMMA LoopReplaced ==
    ASSUME NEW s, Sound(s), NEW i \in LoopId, i \notin {s.ready, s.ack},
           NEW loop \in Loop, loop.pc # "none" => loop.todo # {}
    PROVE  Keeps(s, [s EXCEPT !.loops[i] = loop])
<1> DEFINE t == [s EXCEPT !.loops[i] = loop]
<1>1. s \in Sender /\ s.loops \in [LoopId -> Loop]
  BY DEF Sound, Sender
<1>2. [s.loops EXCEPT ![i] = loop] \in [LoopId -> Loop]
  BY <1>1
<1>3. t \in Sender
  BY <1>1, <1>2 DEF Sender
<1>4. /\ t.loops = [s.loops EXCEPT ![i] = loop]
      /\ t.ready = s.ready /\ t.ack = s.ack
      /\ t.committed = s.committed /\ t.state = s.state
  BY <1>1 DEF Sender
<1>5. ASSUME NEW j \in LoopId
      PROVE  t.loops[j] = IF j = i THEN loop ELSE s.loops[j]
  BY <1>1, <1>4
<1>6. LoopShape(t)
  BY <1>1, <1>4, <1>5 DEF Sound, LoopShape
<1> QED
  BY <1>3, <1>4, <1>6 DEF Keeps, Sound

\* Keeping is transitive.
LEMMA KeepsOn ==
    ASSUME NEW s, NEW t, NEW u, Keeps(s, t), Keeps(t, u)
    PROVE  Keeps(s, u)
BY DEF Keeps

\* The finally of a loop, whatever slots it has left before.
LEMMA EndedKeeps ==
    ASSUME NEW s, Sound(s), NEW i \in LoopId, i \notin {s.ready, s.ack}
    PROVE  Keeps(s, Ended(s, i))
<1>1. NoLoop \in Loop /\ NoLoop.pc = "none"
  BY M5ReceiverAssumption DEF NoLoop, Loop
<1>2. s \in Sender /\ s.loops \in [LoopId -> Loop]
  BY DEF Sound, Sender
<1>3. [s.loops EXCEPT ![i] = NoLoop] \in [LoopId -> Loop]
  BY <1>1, <1>2
<1>4. /\ Ended(s, i) \in Sender
      /\ Ended(s, i).loops = [s.loops EXCEPT ![i] = NoLoop]
      /\ Ended(s, i).ready = s.ready /\ Ended(s, i).ack = s.ack
      /\ Ended(s, i).committed = s.committed /\ Ended(s, i).state = s.state
  BY <1>2, <1>3 DEF Ended, Sender
<1>5. ASSUME NEW j \in LoopId
      PROVE  Ended(s, i).loops[j] = IF j = i THEN NoLoop ELSE s.loops[j]
  BY <1>2, <1>4
<1> QED
  BY <1>1, <1>2, <1>4, <1>5 DEF Keeps, Sound, LoopShape

\* A loop that takes a slot puts the loop it displaces to rest.
LEMMA AwaitingKeeps ==
    ASSUME NEW s, Sound(s), NEW i \in LoopId, i \notin {s.ready, s.ack},
           s.loops[i].todo # {}
    PROVE  Keeps(s, AwaitingReady(s, i)) /\ Keeps(s, AwaitingBlock(s, i))
<1>1. s \in Sender /\ s.loops \in [LoopId -> Loop] /\ 0 \notin LoopId
  BY DEF Sound, Sender, LoopId
<1>2. NoLoop \in Loop /\ NoLoop.pc = "none"
  BY M5ReceiverAssumption DEF NoLoop, Loop
<1>3. ASSUME NEW pc \in {"ready", "ack"}, NEW o \in LoopId \cup {0}, o # i
      PROVE  LET t == Occupied(s, o, i, pc)
             IN  /\ t \in Sender
                 /\ t.loops[i].pc = pc /\ t.loops[i].todo = s.loops[i].todo
                 /\ \A j \in LoopId \ {i} :
                       t.loops[j] = IF j = o THEN NoLoop ELSE s.loops[j]
                 /\ t.ready = s.ready /\ t.ack = s.ack
                 /\ t.committed = s.committed /\ t.state = s.state
  <2> DEFINE rest == IF o = 0 THEN s.loops ELSE [s.loops EXCEPT ![o] = NoLoop]
  <2>1. rest \in [LoopId -> Loop] /\ rest[i] = s.loops[i]
    BY <1>1, <1>2, <1>3
  <2>2. \A j \in LoopId : rest[j] = IF j = o THEN NoLoop ELSE s.loops[j]
    BY <1>1
  <2>3. Occupied(s, o, i, pc) =
           [s EXCEPT !.loops = [rest EXCEPT ![i] = [rest[i] EXCEPT !.pc = pc]]]
    BY <1>1 DEF Occupied, Sender
  <2> HIDE DEF rest
  <2>4. /\ [rest[i] EXCEPT !.pc = pc] \in Loop
        /\ [rest[i] EXCEPT !.pc = pc].pc = pc
        /\ [rest[i] EXCEPT !.pc = pc].todo = s.loops[i].todo
    BY <2>1 DEF Loop
  <2>5. [rest EXCEPT ![i] = [rest[i] EXCEPT !.pc = pc]] \in [LoopId -> Loop]
    BY <2>1, <2>4
  <2> DEFINE loops == [rest EXCEPT ![i] = [rest[i] EXCEPT !.pc = pc]]
  <2>6. /\ loops[i].pc = pc /\ loops[i].todo = s.loops[i].todo
        /\ \A j \in LoopId \ {i} : loops[j] = rest[j]
    BY <2>1, <2>4
  <2> HIDE DEF loops
  <2>7. [s EXCEPT !.loops = loops] \in Sender /\ [s EXCEPT !.loops = loops].loops = loops
    BY <1>1, <2>5 DEF Sender, loops
  <2>8. /\ [s EXCEPT !.loops = loops].ready = s.ready
        /\ [s EXCEPT !.loops = loops].ack = s.ack
        /\ [s EXCEPT !.loops = loops].committed = s.committed
        /\ [s EXCEPT !.loops = loops].state = s.state
    BY <1>1 DEF Sender
  <2>9. Occupied(s, o, i, pc) = [s EXCEPT !.loops = loops]
    BY <2>3 DEF loops
  <2> QED
    BY <2>2, <2>6, <2>7, <2>8, <2>9
<1>4. s.ready # 0 \/ s.ack # 0 => s.ready # s.ack
  BY DEF Sound, LoopShape
<1>5. Keeps(s, AwaitingReady(s, i))
  <2> DEFINE t == Occupied(s, s.ready, i, "ready")
  <2>1. /\ t \in Sender
        /\ t.loops[i].pc = "ready" /\ t.loops[i].todo = s.loops[i].todo
        /\ \A j \in LoopId \ {i} :
              t.loops[j] = IF j = s.ready THEN NoLoop ELSE s.loops[j]
        /\ t.ack = s.ack /\ t.committed = s.committed /\ t.state = s.state
    BY <1>1, <1>3 DEF Sender
  <2> HIDE DEF t
  <2> DEFINE u == [t EXCEPT !.ready = i]
  <2>2. AwaitingReady(s, i) = u
    BY DEF AwaitingReady, t
  <2>3. u \in Sender
    BY <2>1 DEF Sender
  <2>4. /\ u.loops = t.loops /\ u.ready = i /\ u.ack = s.ack
        /\ u.committed = s.committed /\ u.state = s.state
    BY <2>1 DEF Sender
  <2> HIDE DEF u
  <2>5. u.loops[i].pc = "ready" /\ u.loops[i].todo # {}
    BY <2>1, <2>4
  <2>6. \A j \in LoopId : u.loops[j].pc # "none" => u.loops[j].todo # {}
    BY <1>2, <2>1, <2>4, <2>5 DEF Sound, LoopShape
  <2>7. s.ack # 0 => u.loops[s.ack] = s.loops[s.ack]
    BY <1>1, <1>4, <2>1, <2>4 DEF Sender
  <2>8. LoopShape(u)
    BY <2>4, <2>5, <2>6, <2>7 DEF Sound, LoopShape
  <2> QED
    BY <2>2, <2>3, <2>4, <2>8 DEF Keeps, Sound
<1>6. Keeps(s, AwaitingBlock(s, i))
  <2> DEFINE t == Occupied(s, s.ack, i, "ack")
  <2>1. /\ t \in Sender
        /\ t.loops[i].pc = "ack" /\ t.loops[i].todo = s.loops[i].todo
        /\ \A j \in LoopId \ {i} :
              t.loops[j] = IF j = s.ack THEN NoLoop ELSE s.loops[j]
        /\ t.ready = s.ready /\ t.committed = s.committed /\ t.state = s.state
    BY <1>1, <1>3 DEF Sender
  <2> HIDE DEF t
  <2> DEFINE u == [t EXCEPT !.ack = i]
  <2>2. AwaitingBlock(s, i) = u
    BY DEF AwaitingBlock, t
  <2>3. u \in Sender
    BY <2>1 DEF Sender
  <2>4. /\ u.loops = t.loops /\ u.ack = i /\ u.ready = s.ready
        /\ u.committed = s.committed /\ u.state = s.state
    BY <2>1 DEF Sender
  <2> HIDE DEF u
  <2>5. u.loops[i].pc = "ack" /\ u.loops[i].todo # {}
    BY <2>1, <2>4
  <2>6. \A j \in LoopId : u.loops[j].pc # "none" => u.loops[j].todo # {}
    BY <1>2, <2>1, <2>4, <2>5 DEF Sound, LoopShape
  <2>7. s.ready # 0 => u.loops[s.ready] = s.loops[s.ready]
    BY <1>1, <1>4, <2>1, <2>4 DEF Sender
  <2>8. LoopShape(u)
    BY <2>4, <2>5, <2>6, <2>7 DEF Sound, LoopShape
  <2> QED
    BY <2>2, <2>3, <2>4, <2>8 DEF Keeps, Sound
<1> QED
  BY <1>5, <1>6

\* A run of sendVerifiedMissingBlocks begins at its first read.
LEMMA NewLoopType ==
    ASSUME NEW todo \in SUBSET Blocks
    PROVE  /\ NewLoop(todo) \in Loop
           /\ NewLoop(todo).pc = "read" /\ NewLoop(todo).todo = todo
<1>1. 0 \in 0 .. FrameCount /\ 0 \in 0 .. 3 /\ {} \in SUBSET Blocks
  BY M5ReceiverAssumption
<1>2. NoLoop \in Loop
  BY <1>1 DEF NoLoop, Loop
<1> QED
  BY <1>2 DEF NewLoop, Loop

\* The loop goes on with what is left to do, or ends.
LEMMA ContinuesKeeps ==
    ASSUME NEW s, Sound(s), NEW i \in LoopId, i \notin {s.ready, s.ack},
           NEW todo \in SUBSET Blocks, NEW retries \in 0 .. 3
    PROVE  Keeps(s, Continues(s, i, todo, retries))
<1> DEFINE loop == [NewLoop(todo) EXCEPT !.retries = retries]
<1>1. loop \in Loop /\ loop.todo = todo
  <2>1. NewLoop(todo) \in Loop /\ NewLoop(todo).todo = todo
    BY NewLoopType
  <2> QED
    BY <2>1 DEF Loop
<1>2. CASE todo = {} \/ s.loops[i].stale
  BY <1>2, EndedKeeps DEF Continues
<1>3. CASE ~ (todo = {} \/ s.loops[i].stale)
  <2>1. Continues(s, i, todo, retries) = [s EXCEPT !.loops[i] = loop]
    BY <1>3 DEF Continues
  <2> HIDE DEF loop
  <2> QED
    BY <1>1, <1>3, <2>1, LoopReplaced
<1> QED
  BY <1>2, <1>3

\* The frames of the file are frames.
LEMMA FrameOfType ==
    ASSUME NEW loop \in Loop, loop.todo # {}, NEW k \in 0 .. FrameCount - 1
    PROVE  FrameOf(loop, k) \in Frame
<1>1. Block(loop) \in Blocks
  BY BlockToDo DEF Loop
<1>2. k + 1 \in 1 .. FrameCount
  BY M5ReceiverAssumption
<1>3. Source[Block(loop)][k + 1] \in Payload /\ Corrupt \in Payload
  BY <1>1, <1>2, IntegrityTransferAssumption DEF Digest
<1> QED
  BY <1>1, <1>3 DEF FrameOf, Frame

\* A loop that streams leaves frames of its block and stays one of the loops.
LEMMA StreamsKeeps ==
    ASSUME NEW s, Sound(s), NEW i \in LoopId, i \notin {s.ready, s.ack},
           s.loops[i].todo # {},
           NEW first \in 0 .. FrameCount, NEW least \in {first, first + 1},
           frames \in Seq(Frame), Streams(s, i, first, least)
    PROVE  Keeps(s, snd') /\ frames' \in Seq(Frame)
<1> DEFINE loop == s.loops[i]
<1>1. loop \in Loop
  BY DEF Sound, Sender
<1>2. PICK upto \in least .. FrameCount :
        /\ frames' = IF link = "up"
                     THEN frames \o [n \in 1 .. upto - first |->
                                        FrameOf(s.loops[i], first + n - 1)]
                     ELSE frames
        /\ snd' = IF upto = FrameCount THEN AwaitingBlock(s, i)
                  ELSE IF s.loops[i].stale THEN Ended(s, i)
                  ELSE [s EXCEPT !.loops[i].pc = "wait",
                                 !.loops[i].frame = upto]
  BY Zenon DEF Streams
<1>3. upto \in 0 .. FrameCount /\ upto - first \in Nat
  BY M5ReceiverAssumption
<1>4. frames' \in Seq(Frame)
  <2> DEFINE sent == [n \in 1 .. upto - first |-> FrameOf(loop, first + n - 1)]
  <2>1. ASSUME NEW n \in 1 .. upto - first
        PROVE  FrameOf(loop, first + n - 1) \in Frame
    <3>1. first + n - 1 \in 0 .. FrameCount - 1
      BY <1>3, M5ReceiverAssumption
    <3> QED
      BY <1>1, <3>1, FrameOfType
  <2>2. sent \in Seq(Frame)
    BY <1>3, <2>1
  <2> HIDE DEF sent
  <2>3. frames \o sent \in Seq(Frame)
    BY <2>2, ConcatProperties
  <2> QED
    BY <1>2, <2>3 DEF sent
<1>5. Keeps(s, snd')
  <2> DEFINE waiting == [loop EXCEPT !.pc = "wait", !.frame = upto]
  <2>1. waiting \in Loop /\ waiting.todo # {}
    BY <1>1, <1>3 DEF Loop
  <2>2. [s EXCEPT !.loops[i].pc = "wait", !.loops[i].frame = upto] =
           [s EXCEPT !.loops[i] = waiting]
    BY DEF Sound, Sender
  <2> HIDE DEF waiting
  <2>3. Keeps(s, [s EXCEPT !.loops[i] = waiting])
    BY <2>1, LoopReplaced
  <2>4. Keeps(s, AwaitingBlock(s, i)) /\ Keeps(s, Ended(s, i))
    BY AwaitingKeeps, EndedKeeps
  <2> QED
    BY ONLY <1>2, <2>2, <2>3, <2>4
<1> QED
  BY <1>4, <1>5

\* A slot is emptied: the loop it named is in no slot any more.
LEMMA SlotEmptied ==
    ASSUME NEW s, Sound(s)
    PROVE  /\ Keeps(s, [s EXCEPT !.ready = 0]) /\ Keeps(s, [s EXCEPT !.ack = 0])
           /\ s.ready # 0 => /\ s.ready \in LoopId /\ s.ready # s.ack
                             /\ s.loops[s.ready].todo # {}
           /\ s.ack # 0 => /\ s.ack \in LoopId /\ s.ack # s.ready
                           /\ s.loops[s.ack].todo # {}
<1>1. s \in Sender /\ 0 \notin LoopId
  BY DEF Sound, LoopId
<1>2. Keeps(s, [s EXCEPT !.ready = 0]) /\ Keeps(s, [s EXCEPT !.ack = 0])
  BY <1>1 DEF Keeps, Sound, LoopShape, Sender
<1>3. /\ s.ready # 0 => s.ready \in LoopId /\ s.ready # s.ack
      /\ s.ack # 0 => s.ack \in LoopId /\ s.ack # s.ready
  BY <1>1 DEF Sound, LoopShape, Sender
<1>4. /\ s.ready # 0 => s.loops[s.ready].todo # {}
      /\ s.ack # 0 => s.loops[s.ack].todo # {}
  BY <1>3 DEF Sound, LoopShape
<1> QED
  BY <1>2, <1>3, <1>4

-----------------------------------------------------------------------------
(* The channels.                                                             *)

\* What the sender may say: of the roots, only the file's.
LEMMA SenderMessages ==
    /\ \A type \in {"OFFER", "BYTES_COMPLETE", "DELIVERED"} : Of(type) \in FromSender
    /\ RootToSend \in FromSender
    /\ \A b \in Blocks, d \in Digest :
          [type |-> "DIGEST", block |-> b, digest |-> d] \in FromSender
<1>1. \A type \in {"OFFER", "BYTES_COMPLETE", "DELIVERED"} : Of(type) \in FromSender
  BY DEF Of, FromSender, Control
<1>2. Source \in Table
  BY IntegrityTransferAssumption DEF Table
<1>3. RootToSend \in FromSender
  BY <1>2 DEF RootToSend, Rooted, Fires, FromSender, Control, Root
<1>4. \A b \in Blocks, d \in Digest :
         [type |-> "DIGEST", block |-> b, digest |-> d] \in FromSender
  BY DEF FromSender, Control
<1> QED
  BY <1>1, <1>3, <1>4

\* A channel takes what is sent, or loses it.
LEMMA ChannelsTake ==
    ASSUME NEW S, NEW messages \in Seq(S)
    PROVE  /\ toReceiver \in Seq(S) /\ ToReceiver(messages) => toReceiver' \in Seq(S)
           /\ toSender \in Seq(S) /\ ToSender(messages) => toSender' \in Seq(S)
<1>1. \A channel \in Seq(S) : channel \o messages \in Seq(S)
  BY ConcatProperties
<1> QED
  BY <1>1 DEF ToReceiver, ToSender

\* A handler takes the first message and leaves the others.
LEMMA ChannelsGive ==
    ASSUME WiresInv
    PROVE  /\ \A type : SenderTakes(type) =>
                 /\ Head(toSender) \in FromReceiver /\ Head(toSender).type = type
                 /\ toSender' \in Seq(FromReceiver)
           /\ \A type : ReceiverTakes(type) =>
                 /\ Head(toReceiver) \in FromSender /\ Head(toReceiver).type = type
                 /\ toReceiver' \in Seq(FromSender)
<1>1. ASSUME NEW type, SenderTakes(type)
      PROVE  /\ Head(toSender) \in FromReceiver /\ Head(toSender).type = type
             /\ toSender' \in Seq(FromReceiver)
  BY <1>1 DEF WiresInv, SenderTakes, Arrived
<1>2. ASSUME NEW type, ReceiverTakes(type)
      PROVE  /\ Head(toReceiver) \in FromSender /\ Head(toReceiver).type = type
             /\ toReceiver' \in Seq(FromSender)
  BY <1>2 DEF WiresInv, ReceiverTakes, Arrived
<1> QED
  BY <1>1, <1>2

\* What is left of a fault once it is used up is a fault.
LEMMA ConsumedType ==
    ASSUME fault \in Fault, NEW kind, NEW block
    PROVE  Consumed(kind, block) \in Fault
BY DEF Consumed, NoFault, Fault

-----------------------------------------------------------------------------
(* The sender's steps.                                                       *)

\* What a step of the sender does to itself and to its channels.
SenderGoesOn ==
    /\ Sound(snd') /\ fault' \in Fault
    /\ toReceiver' \in Seq(FromSender)
    /\ toSender' \in Seq(FromReceiver)
    /\ frames' \in Seq(Frame)
    /\ snd.committed \subseteq snd'.committed
    /\ snd'.committed \subseteq snd.committed \cup Committed(store.table)
    /\ snd'.state = "DELIVERED" => snd.state = "DELIVERED" \/ final = "closed"

\* Reads, drains and streams.
LEMMA LoopsGoOn ==
    ASSUME SenderInv, WiresInv, NEW i \in LoopId, LoopStep(i)
    PROVE  SenderGoesOn
<1>1. Sound(snd) /\ snd \in Sender /\ fault \in Fault
  BY DEF SenderInv, Sound
<1>2. snd.loops[i] \in Loop
  BY <1>1 DEF Sender
<1>3. /\ toReceiver \in Seq(FromSender) /\ toSender \in Seq(FromReceiver)
      /\ frames \in Seq(Frame)
  BY DEF WiresInv
<1>4. i \notin {snd.ready, snd.ack} /\ snd.loops[i].todo # {}
  BY <1>1 DEF LoopStep, ReadEnds, DrainEnds, DrainRejects, Sound, LoopShape, LoopId
<1>5. CASE ReadEnds(i)
  <2>1. Keeps(snd, Sent(snd))
    BY <1>1, InterruptedKeeps
  <2>2. /\ i \notin {Sent(snd).ready, Sent(snd).ack}
        /\ Sent(snd).loops[i].todo # {}
    <3>1. CASE Sent(snd) = snd
      BY <1>4, <3>1
    <3>2. CASE Sent(snd) # snd
      <4>1. /\ Sent(snd).ready = 0 /\ Sent(snd).ack = 0
            /\ Sent(snd).loops[i] = [snd.loops[i] EXCEPT !.stale = TRUE]
        BY <1>1, <1>4, <1>5, <3>2
           DEF ReadEnds, Sent, InterruptedSender, Interrupted, Sender
      <4> QED
        BY <1>2, <1>4, <4>1 DEF LoopId, Loop
    <3> QED
      BY <3>1, <3>2
  <2>3. Keeps(Sent(snd), AwaitingReady(Sent(snd), i))
    BY <2>1, <2>2, AwaitingKeeps DEF Keeps
  <2>4. Keeps(snd, snd')
    BY <1>5, <2>1, <2>3, KeepsOn DEF ReadEnds
  <2>5. Block(snd.loops[i]) \in Blocks
    BY <1>2, <1>4, BlockToDo DEF Loop
  <2> DEFINE b == Block(snd.loops[i])
             digest == IF Fires("expectedDigest", b)
                       THEN [Source[b] EXCEPT ![1] = Corrupt]
                       ELSE Source[b]
             message == [type |-> "DIGEST", block |-> b, digest |-> digest]
  <2>6. digest \in Digest
    BY <2>5, IntegrityTransferAssumption DEF Digest
  <2>7. <<message>> \in Seq(FromSender)
    <3> HIDE DEF digest, b
    <3>1. message \in FromSender
      BY <2>5, <2>6, SenderMessages DEF b
    <3> HIDE DEF message
    <3> QED
      BY <3>1
  <2>8. ToReceiver(<<message>>) /\ fault' = Consumed("expectedDigest", b)
    BY <1>5 DEF ReadEnds
  <2>9. UNCHANGED <<toSender, frames>>
    BY <1>5 DEF ReadEnds
  <2> HIDE DEF message, b
  <2> QED
    BY <1>1, <1>3, <2>4, <2>7, <2>8, <2>9, ChannelsTake, ConsumedType
       DEF SenderGoesOn, Keeps
<1>6. CASE DrainEnds(i)
  <2> DEFINE first == snd.loops[i].frame
  <2>1. first \in 0 .. FrameCount /\ Streams(snd, i, first, first + 1)
    BY <1>2, <1>6 DEF DrainEnds, Loop
  <2>2. Keeps(snd, snd') /\ frames' \in Seq(Frame)
    <3> HIDE DEF first
    <3> QED
      BY <1>1, <1>3, <1>4, <2>1, StreamsKeeps
  <2>3. UNCHANGED <<fault, toReceiver, toSender>>
    BY <1>6 DEF DrainEnds
  <2> QED
    BY <1>1, <1>3, <2>2, <2>3 DEF SenderGoesOn, Keeps
<1>7. CASE DrainRejects(i)
  <2> DEFINE s == IF snd.cancelled THEN snd ELSE Failed(snd, "FAILED")
  <2>1. Keeps(snd, s) /\ s.ready = snd.ready /\ s.ack = snd.ack
    <3>1. Keeps(snd, Failed(snd, "FAILED")) /\ Keeps(snd, snd)
      BY <1>1, StateKeeps DEF TransferState, Keeps
    <3>2. /\ Failed(snd, "FAILED").ready = snd.ready
          /\ Failed(snd, "FAILED").ack = snd.ack
      BY <1>1 DEF Failed, Sender
    <3> QED
      BY <3>1, <3>2
  <2>2. snd' = Ended(s, i)
    BY <1>7 DEF DrainRejects
  <2> HIDE DEF s
  <2>3. Keeps(snd, snd')
    BY <1>4, <2>1, <2>2, EndedKeeps, KeepsOn DEF Keeps
  <2>4. UNCHANGED <<fault, toReceiver, toSender, frames>>
    BY <1>7 DEF DrainRejects, wires
  <2> QED
    BY <1>1, <1>3, <2>3, <2>4 DEF SenderGoesOn, Keeps
<1> QED
  BY <1>5, <1>6, <1>7 DEF LoopStep

\* The loop of a slot is taken out of it and runs on.
LEMMA ReadyTaken ==
    ASSUME NEW s, Sound(s), s.ready # 0, NEW corrupt \in BOOLEAN
    PROVE  LET t == [s EXCEPT !.ready = 0, !.loops[s.ready].corrupt = corrupt]
           IN  /\ Keeps(s, t)
               /\ t.loops[s.ready].todo # {}
               /\ s.ready \in LoopId /\ s.ready \notin {t.ready, t.ack}
<1> DEFINE i == s.ready
           u == [s EXCEPT !.ready = 0]
           loop == [s.loops[i] EXCEPT !.corrupt = corrupt]
<1>1. /\ Keeps(s, u) /\ i \in LoopId /\ i # s.ack /\ s.loops[i].todo # {}
      /\ i # 0
  BY SlotEmptied
<1>2. s \in Sender /\ s.loops[i] \in Loop
  BY <1>1 DEF Sound, Sender
<1>3. loop \in Loop /\ loop.todo = s.loops[i].todo
  BY <1>2 DEF Loop
<1>4. u.ready = 0 /\ u.ack = s.ack /\ u.loops = s.loops
  BY <1>2 DEF Sender
<1>5. [s EXCEPT !.ready = 0, !.loops[s.ready].corrupt = corrupt] =
         [u EXCEPT !.loops[i] = loop]
  BY <1>2 DEF Sender
<1>6. /\ [u EXCEPT !.loops[i] = loop].loops[i] = loop
      /\ [u EXCEPT !.loops[i] = loop].ready = 0
      /\ [u EXCEPT !.loops[i] = loop].ack = s.ack
  BY <1>1, <1>2, <1>4 DEF Sender
<1> HIDE DEF u, loop
<1>7. Keeps(u, [u EXCEPT !.loops[i] = loop])
  BY <1>1, <1>3, <1>4, LoopReplaced DEF Keeps
<1>8. Keeps(s, [u EXCEPT !.loops[i] = loop])
  BY <1>1, <1>7, KeepsOn
<1> QED
  BY <1>1, <1>3, <1>5, <1>6, <1>8, Zenon

\* HAVE, in its four cases.
LEMMA HavesGoOn ==
    ASSUME SenderInv, WiresInv,
           HaveIsQueued \/ HaveIsOutOfPlace \/ HaveStartsLoop \/ HaveIsComplete
    PROVE  SenderGoesOn
<1>1. /\ Sound(snd) /\ snd \in Sender /\ fault \in Fault
      /\ toReceiver \in Seq(FromSender) /\ frames \in Seq(Frame)
  BY DEF SenderInv, Sound, WiresInv
<1>2. /\ Head(toSender) \in FromReceiver /\ Head(toSender).type = "HAVE"
      /\ toSender' \in Seq(FromReceiver)
  BY ChannelsGive
     DEF HaveIsQueued, HaveIsOutOfPlace, HaveStartsLoop, HaveIsComplete
<1>3. Head(toSender).blocks \in SUBSET Blocks
  BY <1>2 DEF FromReceiver, Control
<1>4. CASE HaveIsQueued
  <2>1. Append(snd.pages, Head(toSender).blocks) \in Seq(SUBSET Blocks)
    BY <1>1, <1>3 DEF Sender
  <2>2. snd' \in Sender
    BY <1>1, <1>4, <2>1 DEF HaveIsQueued, Sender
  <2>3. /\ snd'.loops = snd.loops /\ snd'.ready = snd.ready /\ snd'.ack = snd.ack
        /\ snd'.committed = snd.committed /\ snd'.state = snd.state
    BY <1>1, <1>4 DEF HaveIsQueued, Sender
  <2>4. Keeps(snd, snd')
    BY <1>1, <2>2, <2>3, SameLoops
  <2> QED
    BY <1>1, <1>2, <1>4, <2>4 DEF HaveIsQueued, SenderGoesOn, Keeps
<1>5. CASE HaveIsOutOfPlace
  <2> DEFINE s == [snd EXCEPT !.pages = <<>>]
  <2>1. s \in Sender
    <3>1. <<>> \in Seq(SUBSET Blocks)
      OBVIOUS
    <3> QED
      BY <1>1, <3>1 DEF Sender
  <2>2. /\ s.loops = snd.loops /\ s.ready = snd.ready /\ s.ack = snd.ack
        /\ s.committed = snd.committed /\ s.state = snd.state
    BY <1>1 DEF Sender
  <2>3. snd' = Failed(s, "FAILED")
    BY <1>5 DEF HaveIsOutOfPlace
  <2> HIDE DEF s
  <2>4. Keeps(snd, s)
    BY <1>1, <2>1, <2>2, SameLoops
  <2>5. Keeps(s, snd')
    BY <2>3, <2>4, StateKeeps DEF TransferState, Keeps
  <2>6. Keeps(snd, snd')
    BY <2>4, <2>5, KeepsOn
  <2> QED
    BY <1>1, <1>2, <1>5, <2>6 DEF HaveIsOutOfPlace, SenderGoesOn, Keeps
<1>6. CASE HaveStartsLoop
  <2> DEFINE s == [snd EXCEPT !.state = "SENDING", !.sending = TRUE]
             todo == Blocks \ Head(toSender).blocks
             i == FreeLoop
  <2>1. i \in LoopId /\ snd.loops[i].pc = "none"
    BY <1>6 DEF HaveStartsLoop, FreeLoop
  <2>2. i \notin {snd.ready, snd.ack}
    BY <1>1, <2>1 DEF Sound, LoopShape, LoopId
  <2>3. s \in Sender
    BY <1>1 DEF Sender, TransferState
  <2>4. /\ s.loops = snd.loops /\ s.ready = snd.ready /\ s.ack = snd.ack
        /\ s.committed = snd.committed /\ s.state = "SENDING"
    BY <1>1 DEF Sender
  <2>5. /\ NewLoop(todo) \in Loop /\ NewLoop(todo).todo = todo /\ todo # {}
    BY <1>6, NewLoopType DEF HaveStartsLoop
  <2>6. snd' = [s EXCEPT !.loops[i] = NewLoop(todo)]
    BY <1>6 DEF HaveStartsLoop
  <2> HIDE DEF s, todo, i
  <2>7. Keeps(snd, s)
    BY <1>1, <2>3, <2>4, SameLoops
  <2>8. Keeps(s, snd')
    BY <2>1, <2>2, <2>4, <2>5, <2>6, <2>7, LoopReplaced DEF Keeps
  <2>9. Keeps(snd, snd')
    BY <2>7, <2>8, KeepsOn
  <2> QED
    BY <1>1, <1>2, <1>6, <2>9 DEF HaveStartsLoop, SenderGoesOn, Keeps
<1>7. CASE HaveIsComplete
  <2>1. Keeps(snd, snd')
    <3> DEFINE s == [snd EXCEPT !.state = "TRANSFER_BYTES_COMPLETE"]
               u == [Sent(s) EXCEPT !.state = "VERIFYING"]
    <3>1. snd' = Sent(u)
      BY <1>7 DEF HaveIsComplete, SendsRoot
    <3>2. Keeps(snd, s)
      BY <1>1, StateKeeps DEF TransferState
    <3> HIDE DEF s
    <3>3. Keeps(s, Sent(s))
      BY <3>2, InterruptedKeeps DEF Keeps
    <3>4. Keeps(Sent(s), u)
      BY <3>3, StateKeeps DEF TransferState, Keeps
    <3> HIDE DEF u
    <3>5. Keeps(u, snd')
      BY <3>1, <3>4, InterruptedKeeps DEF Keeps
    <3> QED
      BY <3>2, <3>3, <3>4, <3>5, KeepsOn
  <2>2. <<Of("BYTES_COMPLETE"), RootToSend>> \in Seq(FromSender)
    BY SenderMessages
  <2>3. toReceiver' \in Seq(FromSender)
    BY <1>1, <1>7, <2>2, ChannelsTake DEF HaveIsComplete
  <2>4. fault' \in Fault /\ frames' = frames
    BY <1>1, <1>7, ConsumedType DEF HaveIsComplete
  <2> QED
    BY <1>1, <1>2, <2>1, <2>3, <2>4 DEF SenderGoesOn, Keeps
<1> QED
  BY <1>4, <1>5, <1>6, <1>7

\* READY, COMMITTED and NACK.
LEMMA OutcomesGoOn ==
    ASSUME SenderInv, WiresInv,
           \/ BlockReady \/ ReadyIgnored
           \/ BlockCommitted \/ BlockNacked \/ NackIgnored
    PROVE  SenderGoesOn
<1>1. /\ Sound(snd) /\ snd \in Sender /\ fault \in Fault
      /\ toReceiver \in Seq(FromSender) /\ frames \in Seq(Frame)
  BY DEF SenderInv, Sound, WiresInv
<1>2. /\ Head(toSender) \in FromReceiver
      /\ Head(toSender).type \in {"READY", "COMMITTED", "NACK"}
      /\ toSender' \in Seq(FromReceiver)
  BY ChannelsGive
     DEF BlockReady, ReadyIgnored, BlockCommitted, BlockNacked, NackIgnored
<1> DEFINE b == Head(toSender).block
<1>3. b \in Blocks
  BY <1>2 DEF FromReceiver, Control
<1>4. CASE BlockReady
  <2> DEFINE i == snd.ready
             corrupt == Fires("payload", b)
             s == [snd EXCEPT !.ready = 0, !.loops[i].corrupt = corrupt]
  <2>1. i # 0
    BY <1>4 DEF BlockReady, AwaitsReadyOf
  <2>2. corrupt \in BOOLEAN
    BY DEF Fires
  <2>3. Streams(s, i, 0, 0)
    BY <1>4 DEF BlockReady
  <2>4. fault' \in Fault /\ toReceiver' = toReceiver
    BY <1>1, <1>4, ConsumedType DEF BlockReady
  <2> HIDE DEF corrupt
  <2>5. /\ Keeps(snd, s) /\ s.loops[i].todo # {}
        /\ i \in LoopId /\ i \notin {s.ready, s.ack}
    BY <1>1, <2>1, <2>2, ReadyTaken, Zenon
  <2> HIDE DEF s, i
  <2>6. 0 \in 0 .. FrameCount
    BY M5ReceiverAssumption
  <2>7. Keeps(s, snd') /\ frames' \in Seq(Frame)
    BY <1>1, <2>3, <2>5, <2>6, StreamsKeeps DEF Keeps
  <2>8. Keeps(snd, snd')
    BY <2>5, <2>7, KeepsOn
  <2> QED
    BY <1>1, <1>2, <2>4, <2>7, <2>8 DEF SenderGoesOn, Keeps
<1>5. CASE ReadyIgnored \/ NackIgnored
  <2>1. UNCHANGED <<snd, fault, toReceiver, frames>>
    BY <1>5 DEF ReadyIgnored, NackIgnored, sender
  <2> QED
    BY <1>1, <1>2, <2>1 DEF SenderGoesOn
<1>6. CASE BlockCommitted
  <2> DEFINE counted == Counted(snd, b)
             s == [counted EXCEPT !.ack = 0]
             i == snd.ack
  <2>1. b \in Committed(store.table)
    <3>1. Head(toSender).type = "COMMITTED"
      BY <1>6 DEF BlockCommitted, SenderTakes, Arrived
    <3> QED
      BY <1>2, <3>1 DEF FromReceiver
  <2>2. /\ counted \in Sender
        /\ counted.committed = snd.committed \cup {b}
        /\ counted.loops = snd.loops /\ counted.ready = snd.ready
        /\ counted.ack = snd.ack /\ counted.state = snd.state
    BY <1>1, <1>3 DEF Counted, Sender
  <2>3. Sound(counted)
    BY <1>1, <2>2 DEF Sound, LoopShape
  <2>4. UNCHANGED <<fault, toReceiver, frames>>
    BY <1>6 DEF BlockCommitted
  <2>5. /\ Sound(snd') /\ snd'.committed = snd.committed \cup {b}
        /\ snd'.state = "DELIVERED" => snd.state = "DELIVERED"
    <3>1. CASE AwaitsOutcomeOf(b)
      <4>1. snd' = Continues(s, i, snd.loops[i].todo \ {b}, 0)
        BY <1>6, <3>1 DEF BlockCommitted
      <4>2. i # 0
        BY <3>1 DEF AwaitsOutcomeOf
      <4>3. snd.loops[i].todo \ {b} \in SUBSET Blocks /\ 0 \in 0 .. 3
        BY <1>1, <4>2, SlotEmptied DEF Sender, Loop
      <4> HIDE DEF counted
      <4>4. /\ Keeps(counted, s) /\ s.ack = 0 /\ s.ready = snd.ready
            /\ i \in LoopId /\ i # snd.ready
        BY <1>1, <2>2, <2>3, <4>2, SlotEmptied DEF Sender
      <4> HIDE DEF s, i
      <4>5. Keeps(s, snd')
        BY <4>1, <4>2, <4>3, <4>4, ContinuesKeeps DEF Keeps
      <4> QED
        BY <2>2, <4>4, <4>5 DEF Keeps
    <3>2. CASE ~ AwaitsOutcomeOf(b)
      BY <1>6, <2>2, <2>3, <3>2 DEF BlockCommitted
    <3> QED
      BY <3>1, <3>2
  <2> QED
    BY <1>1, <1>2, <2>1, <2>4, <2>5 DEF SenderGoesOn
<1>7. CASE BlockNacked
  <2> DEFINE i == snd.ack
             s == [snd EXCEPT !.ack = 0]
             loop == snd.loops[i]
  <2>1. i # 0
    BY <1>7 DEF BlockNacked, AwaitsOutcomeOf
  <2>2. /\ Keeps(snd, s) /\ s.ack = 0 /\ s.ready = snd.ready
        /\ i \in LoopId /\ i # snd.ready
    BY <1>1, <2>1, SlotEmptied DEF Sender
  <2>3. loop \in Loop
    BY <1>1, <2>2 DEF Sender
  <2>4. snd' = IF loop.retries = 3
               THEN Ended(Failed(s, "INTEGRITY_FAILED"), i)
               ELSE Continues(s, i, loop.todo, loop.retries + 1)
    BY <1>7 DEF BlockNacked
  <2>5. /\ loop.todo \in SUBSET Blocks /\ loop.retries \in 0 .. 3
        /\ loop.retries # 3 => loop.retries + 1 \in 0 .. 3
    BY <2>3 DEF Loop
  <2>6. s \in Sender
    BY <2>2 DEF Keeps, Sound
  <2> HIDE DEF s, i, loop
  <2>7. Keeps(s, snd')
    <3> DEFINE u == Failed(s, "INTEGRITY_FAILED")
    <3>1. CASE loop.retries # 3
      BY <2>1, <2>2, <2>4, <2>5, <3>1, ContinuesKeeps DEF Keeps
    <3>2. CASE loop.retries = 3
      <4>1. Keeps(s, u)
        BY <2>2, StateKeeps DEF TransferState, Keeps
      <4>2. u.ready = s.ready /\ u.ack = s.ack
        BY <2>6 DEF Failed, Sender
      <4> HIDE DEF u
      <4>3. Keeps(u, Ended(u, i))
        BY <2>1, <2>2, <4>1, <4>2, EndedKeeps DEF Keeps
      <4> QED
        BY <2>4, <3>2, <4>1, <4>3, KeepsOn DEF u
    <3> QED
      BY <3>1, <3>2
  <2>8. Keeps(snd, snd')
    BY <2>2, <2>7, KeepsOn
  <2>9. UNCHANGED <<fault, toReceiver, frames>>
    BY <1>7 DEF BlockNacked
  <2> QED
    BY <1>1, <1>2, <2>8, <2>9 DEF SenderGoesOn, Keeps
<1> QED
  BY <1>4, <1>5, <1>6, <1>7

\* The end of the transfer: MANIFEST_VERIFIED tells of a destination closed.
LEMMA EndsGoOn ==
    ASSUME SenderInv, WiresInv, SenderBytesComplete \/ SenderRoot \/ SenderVerified
    PROVE  SenderGoesOn
<1>1. /\ Sound(snd) /\ snd \in Sender /\ fault \in Fault
      /\ toReceiver \in Seq(FromSender) /\ frames \in Seq(Frame)
  BY DEF SenderInv, Sound, WiresInv
<1>2. /\ Head(toSender) \in FromReceiver
      /\ toSender' \in Seq(FromReceiver)
      /\ SenderVerified => Head(toSender).type = "VERIFIED"
  BY ChannelsGive DEF SenderBytesComplete, SenderRoot, SenderVerified
<1>3. CASE SenderBytesComplete
  <2> DEFINE s == [snd EXCEPT !.state = "VERIFYING"]
  <2>1. Keeps(snd, s)
    BY <1>1, StateKeeps DEF TransferState
  <2>2. snd' = Sent(s)
    BY <1>3 DEF SenderBytesComplete
  <2> HIDE DEF s
  <2>3. Keeps(snd, snd')
    BY <2>1, <2>2, InterruptedKeeps, KeepsOn DEF Keeps
  <2>4. <<RootToSend>> \in Seq(FromSender)
    BY SenderMessages
  <2>5. toReceiver' \in Seq(FromSender) /\ fault' \in Fault /\ frames' = frames
    BY <1>1, <1>3, <2>4, ChannelsTake, ConsumedType DEF SenderBytesComplete
  <2> QED
    BY <1>1, <1>2, <2>3, <2>5 DEF SenderGoesOn, Keeps
<1>4. CASE SenderRoot
  <2>1. Keeps(snd, snd')
    BY <1>1, <1>4, StateKeeps DEF SenderRoot, TransferState
  <2>2. UNCHANGED <<fault, toReceiver, frames>>
    BY <1>4 DEF SenderRoot
  <2> QED
    BY <1>1, <1>2, <2>1, <2>2 DEF SenderGoesOn, Keeps
<1>5. CASE SenderVerified
  <2> DEFINE matches == RootMatches(Head(toSender).root, Source)
             s == Sent(snd)
  <2>1. final = "closed"
    BY <1>2, <1>5 DEF FromReceiver
  <2>2. Keeps(snd, s)
    BY <1>1, InterruptedKeeps
  <2>3. snd' = IF matches THEN [s EXCEPT !.state = "DELIVERED"]
               ELSE Failed(snd, "INTEGRITY_FAILED")
    BY <1>5 DEF SenderVerified
  <2>4. UNCHANGED <<fault, frames>>
    BY <1>5 DEF SenderVerified
  <2>5. (IF matches THEN <<Of("DELIVERED")>> ELSE <<>>) \in Seq(FromSender)
    BY SenderMessages
  <2>6. toReceiver' \in Seq(FromSender)
    <3>1. ToReceiver(IF matches THEN <<Of("DELIVERED")>> ELSE <<>>)
      BY <1>5 DEF SenderVerified
    <3> HIDE DEF matches
    <3> QED
      BY <1>1, <2>5, <3>1, ChannelsTake
  <2> HIDE DEF s, matches
  <2>7. s \in Sender /\ Sound(s) /\ s.committed = snd.committed
    BY <2>2 DEF Keeps, Sound
  <2>8. /\ [s EXCEPT !.state = "DELIVERED"] \in Sender
        /\ [s EXCEPT !.state = "DELIVERED"].loops = s.loops
        /\ [s EXCEPT !.state = "DELIVERED"].ready = s.ready
        /\ [s EXCEPT !.state = "DELIVERED"].ack = s.ack
        /\ [s EXCEPT !.state = "DELIVERED"].committed = s.committed
    BY <2>7 DEF Sender, TransferState
  <2>9. Sound([s EXCEPT !.state = "DELIVERED"])
    BY <2>7, <2>8 DEF Sound, LoopShape
  <2>10. Keeps(snd, Failed(snd, "INTEGRITY_FAILED"))
    BY <1>1, StateKeeps DEF TransferState
  <2>11. Sound(snd') /\ snd'.committed = snd.committed
    BY <2>3, <2>7, <2>8, <2>9, <2>10 DEF Keeps
  <2> QED
    BY <1>1, <1>2, <2>1, <2>4, <2>6, <2>11 DEF SenderGoesOn
<1> QED
  BY <1>3, <1>4, <1>5

\* The user offers, or cancels.
LEMMA SenderUserGoesOn ==
    ASSUME SenderInv, WiresInv, StartOffer \/ CancelSender
    PROVE  SenderGoesOn
<1>1. /\ Sound(snd) /\ snd \in Sender /\ fault \in Fault
      /\ toReceiver \in Seq(FromSender) /\ toSender \in Seq(FromReceiver)
      /\ frames \in Seq(Frame)
  BY DEF SenderInv, Sound, WiresInv
<1>2. Keeps(snd, snd')
  <2>1. /\ snd' \in Sender /\ snd'.loops = snd.loops
        /\ snd'.ready = snd.ready /\ snd'.ack = snd.ack
        /\ snd'.committed = snd.committed /\ snd'.state # "DELIVERED"
    BY <1>1 DEF StartOffer, CancelSender, Sender, TransferState
  <2> QED
    BY <1>1, <2>1, SameLoops
<1>3. fault' = fault /\ toSender' = toSender /\ frames' = frames
  BY DEF StartOffer, CancelSender, wires
<1>4. <<Offer>> \in Seq(FromSender)
  BY SenderMessages DEF Offer
<1>5. toReceiver' \in Seq(FromSender)
  BY <1>1, <1>4, ChannelsTake DEF StartOffer, CancelSender, wires
<1> QED
  BY <1>1, <1>2, <1>3, <1>5 DEF SenderGoesOn, Keeps

\* A step of the sender's page.
SenderStep ==
    \/ StartOffer \/ CancelSender
    \/ \E i \in LoopId : LoopStep(i)
    \/ SenderHandles

\* Whatever it is, it goes on so and leaves the receiver and the network alone.
LEMMA SenderSteps ==
    ASSUME SenderInv, WiresInv, SenderStep
    PROVE  SenderGoesOn /\ UNCHANGED <<rcv, rx, disk, network>>
<1>1. SenderGoesOn
  BY LoopsGoOn, HavesGoOn, OutcomesGoOn, EndsGoOn, SenderUserGoesOn
     DEF SenderStep, SenderHandles
<1>2. CASE StartOffer \/ CancelSender \/ \E i \in LoopId : LoopStep(i)
  BY <1>1, <1>2 DEF StartOffer, CancelSender, LoopStep, ReadEnds, DrainEnds,
                    DrainRejects, receiver
<1>3. CASE SenderHandles
  BY <1>1, <1>3
     DEF SenderHandles, HaveIsQueued, HaveIsOutOfPlace, HaveStartsLoop,
         HaveIsComplete, BlockReady, ReadyIgnored, BlockCommitted, BlockNacked,
         NackIgnored, SenderBytesComplete, SenderRoot, SenderVerified, receiver
<1> QED
  BY <1>2, <1>3 DEF SenderStep

-----------------------------------------------------------------------------
(* The network's steps.                                                      *)

\* A step of the network, which can only lose what is in flight, interrupt the
\* two sides and make the sender offer again.
NetworkGoesOn ==
    /\ Keeps(snd, snd') /\ NetworkInv'
    /\ rcv' \in {rcv, Interrupted(rcv)}
    /\ toReceiver' \in {toReceiver, <<>>, <<Offer>>}
    /\ toSender' \in {toSender, <<>>}
    /\ frames' \in {frames, <<>>}

\* The old transport of the drains is remembered when it is replaced.
LEMMA ReplacedKeeps ==
    ASSUME NEW s, Sound(s)
    PROVE  Keeps(s, [s EXCEPT !.loops = [i \in LoopId |->
                        [s.loops[i] EXCEPT !.old = (s.loops[i].pc = "wait")]]])
<1> DEFINE loops == [i \in LoopId |->
                       [s.loops[i] EXCEPT !.old = (s.loops[i].pc = "wait")]]
           t == [s EXCEPT !.loops = loops]
<1>1. s \in Sender /\ \A i \in LoopId : s.loops[i] \in Loop
  BY DEF Sound, Sender
<1>2. ASSUME NEW i \in LoopId
      PROVE  /\ loops[i] \in Loop
             /\ loops[i].pc = s.loops[i].pc /\ loops[i].todo = s.loops[i].todo
  BY <1>1 DEF Loop
<1>3. loops \in [LoopId -> Loop]
  BY <1>2
<1> HIDE DEF loops
<1>4. t \in Sender
  BY <1>1, <1>3 DEF Sender
<1>5. /\ t.loops = loops /\ t.ready = s.ready /\ t.ack = s.ack
      /\ t.committed = s.committed /\ t.state = s.state
  BY <1>1 DEF Sender
<1>6. t.ready \in LoopId \cup {0} /\ t.ack \in LoopId \cup {0}
  BY <1>4 DEF Sender
<1> HIDE DEF t
<1>7. Keeps(s, t)
  BY <1>2, <1>4, <1>5, <1>6 DEF Keeps, Sound, LoopShape
<1> QED
  BY <1>7 DEF t, loops

\* Losses, closed channels, replacements and short disconnects.
LEMMA NetworkSteps ==
    ASSUME SenderInv, NetworkInv, NetworkFails \/ NetworkRecovers
    PROVE  NetworkGoesOn /\ UNCHANGED <<fault, rx, disk>>
<1>1. Sound(snd) /\ Keeps(snd, snd) /\ Keeps(snd, InterruptedSender(snd))
  BY InterruptedKeeps DEF SenderInv, Sound, Keeps
<1>2. {MaxCuts, MaxFlaps} \subseteq Nat
  BY IntegrityTransferAssumption
<1>3. CASE Cut \/ SenderFlaps
  BY <1>1, <1>2, <1>3
     DEF Cut, SenderFlaps, NetworkInv, NetworkGoesOn, sender, receiver, wires
<1>4. CASE ReceiverLoses \/ ReceiverFlaps
  BY <1>1, <1>2, <1>4
     DEF ReceiverLoses, ReceiverFlaps, NetworkInv, NetworkGoesOn, sender, wires,
         network
<1>5. CASE SenderChannelCloses \/ ReceiverChannelCloses \/ SenderLoses
  BY <1>1, <1>2, <1>5
     DEF SenderChannelCloses, ReceiverChannelCloses, SenderLoses, NetworkInv,
         NetworkGoesOn, sender, receiver, wires
<1>6. CASE SenderReplaces
  <2> DEFINE s == IF snd.cancelled THEN snd ELSE InterruptedSender(snd)
  <2>1. snd' = [s EXCEPT !.loops = [i \in LoopId |->
                   [s.loops[i] EXCEPT !.old = (s.loops[i].pc = "wait")]]]
    BY <1>6 DEF SenderReplaces
  <2>2. Keeps(snd, s)
    BY <1>1
  <2> HIDE DEF s
  <2>3. Keeps(s, snd')
    BY <2>1, <2>2, ReplacedKeeps DEF Keeps
  <2>4. Keeps(snd, snd')
    BY <2>2, <2>3, KeepsOn
  <2> QED
    BY <1>6, <2>4 DEF SenderReplaces, NetworkInv, NetworkGoesOn, receiver, wires
<1>7. CASE Connect
  BY <1>1, <1>7 DEF Connect, NetworkInv, NetworkGoesOn, sender, receiver
<1> QED
  BY <1>3, <1>4, <1>5, <1>6, <1>7 DEF NetworkFails, NetworkRecovers

-----------------------------------------------------------------------------
(* The receiver's steps.                                                     *)

\* What the receiver's own invariant says in the transfer's terms.
LEMMA SideFacts ==
    ASSUME Side!Inv, ReceiverInv
    PROVE  /\ rx \in ReceiverType /\ broken \in BOOLEAN
           /\ dest \in [Blocks -> [1 .. FrameCount -> Payload \cup {NoPayload}]]
           /\ rx.step # "none" <=> store.file = "saved"
           /\ rx.step \in {"writing", "saving"} => rx.next \in Blocks
           /\ rx.step = "writing" => store.table[rx.next] = NoDigest
           /\ rx.step = "saving" => rx.table[rx.next] # NoDigest
           /\ rx.step # "none" =>
                 \A b \in Blocks :
                    /\ store.table[b] # NoDigest => rx.table[b] = store.table[b]
                    /\ rx.table[b] # NoDigest => dest[b] = rx.table[b]
<1>1. Side!Blocks = Blocks /\ Side!NoDigest = NoDigest
  BY DEF Side!Blocks, Blocks, Side!NoDigest, NoDigest
<1>2. StoredRecord.table = store.table
  BY RecordSeen
<1>3. /\ rx \in ReceiverType /\ broken \in BOOLEAN
      /\ dest \in [Blocks -> [1 .. FrameCount -> Payload \cup {NoPayload}]]
  BY SameData DEF Side!Inv, Side!TypeInv, Side!TypeOK
<1>4. rx.step # "none" <=> store.file = "saved"
  BY RecordSeen DEF Side!Inv, Side!OwnsStore
<1>5. rx.step \in {"writing", "saving"} => rx.next \in Blocks
  BY <1>1 DEF Side!Inv, Side!TypeInv, Side!StepShape
<1>6. rx.step = "writing" => rx.pos # FrameCount
  BY <1>3, M5ReceiverAssumption DEF Side!Inv, Side!TypeInv, Side!StepShape, ReceiverType
<1>7. rx.step = "writing" => store.table[rx.next] = NoDigest
  BY <1>1, <1>2, <1>5, M5ReceiverAssumption
     DEF Side!Inv, Side!PrefixInv, Side!Prefix, Blocks
<1>8. rx.step = "saving" => rx.table[rx.next] # NoDigest
  BY <1>1 DEF Side!Inv, Side!PrefixInv
<1>9. ASSUME NEW b \in Blocks, rx.step # "none", store.table[b] # NoDigest
      PROVE  rx.table[b] = store.table[b]
  <2>1. Side!Shape
    BY DEF Side!Inv, Side!Shape
  <2> QED
    BY <1>1, <1>2, <1>9, <2>1, M5ReceiverAssumption, Side!StoredIsInMemory
<1>10. ASSUME NEW b \in Blocks, rx.step # "none", rx.table[b] # NoDigest
       PROVE  dest[b] = rx.table[b]
  BY <1>1, <1>10 DEF Side!Inv, Side!DestMatches
<1> QED
  BY <1>3, <1>4, <1>5, <1>7, <1>8, <1>9, <1>10

\* What the store holds it keeps.
StoreKept == \A b \in Committed(store.table) : store'.table[b] = store.table[b]

\* A digest is never an empty slot.
LEMMA DigestIsSome == \A d \in Digest : d # NoDigest
<1> SUFFICES ASSUME NEW d \in Digest PROVE d # NoDigest
  OBVIOUS
<1>1. 1 \in DOMAIN d
  BY M5ReceiverAssumption DEF Digest
<1>2. 1 \notin DOMAIN <<>>
  OBVIOUS
<1> QED
  BY <1>1, <1>2, Zenon DEF NoDigest

\* Once the whole file is stored no step changes the store's table or the
\* destination.
LEMMA WholeStays ==
    ASSUME Side!Inv, ReceiverInv, Whole, ReceiverInv', StoreKept,
           dest' = dest \/ rx.step = "writing"
    PROVE  Whole'
<1>1. \A b \in Blocks : Source[b] # NoDigest
  BY IntegrityTransferAssumption, DigestIsSome
<1>2. Committed(store.table) = Blocks
  BY <1>1 DEF Whole, Committed
<1>3. rx.step # "writing"
  BY <1>1, SideFacts DEF Whole
<1>4. store'.table \in Table /\ store.table \in Table
  BY DEF ReceiverInv
<1>5. store'.table = store.table
  BY <1>2, <1>4 DEF StoreKept, Table
<1> QED
  BY <1>3, <1>5 DEF Whole

\* What the receiver may always say, and what it may say once it is true.
LEMMA ReceiverMessages ==
    /\ \A m \in Control :
          m.type \notin {"COMMITTED", "VERIFIED"} => m \in FromReceiver /\ m \in FromReceiver'
    /\ \A b \in Committed(store'.table) : About("COMMITTED", b) \in FromReceiver'
    /\ final' = "closed" => \A table \in Table :
          Rooted("VERIFIED", [table |-> table, flipped |-> FALSE]) \in FromReceiver'
<1>1. \A m \in Control :
         m.type \notin {"COMMITTED", "VERIFIED"} => m \in FromReceiver /\ m \in FromReceiver'
  BY DEF FromReceiver
<1>2. ASSUME NEW b \in Committed(store'.table)
      PROVE  About("COMMITTED", b) \in FromReceiver'
  <2>1. b \in Blocks
    BY DEF Committed
  <2>2. About("COMMITTED", b) \in Control
    BY <2>1 DEF About, Control
  <2>3. /\ About("COMMITTED", b).type = "COMMITTED"
        /\ About("COMMITTED", b).block = b
    BY DEF About
  <2> QED
    BY <2>2, <2>3 DEF FromReceiver, Committed
<1>3. ASSUME final' = "closed", NEW table \in Table
      PROVE  Rooted("VERIFIED", [table |-> table, flipped |-> FALSE]) \in FromReceiver'
  <2>1. Rooted("VERIFIED", [table |-> table, flipped |-> FALSE]) \in Control
    BY DEF Rooted, Control, Root
  <2>2. Rooted("VERIFIED", [table |-> table, flipped |-> FALSE]).type = "VERIFIED"
    BY DEF Rooted
  <2> QED
    BY <1>3, <2>1, <2>2 DEF FromReceiver
<1> QED
  BY <1>1, <1>2, <1>3

\* What has been said stays true while the store and the closing are kept.
LEMMA SaidStaysTrue ==
    ASSUME StoreKept, final = "closed" => final' = "closed"
    PROVE  \A messages \in Seq(FromReceiver) : messages \in Seq(FromReceiver')
<1>1. Committed(store.table) \subseteq Committed(store'.table)
  BY DEF StoreKept, Committed
<1>2. FromReceiver \subseteq FromReceiver'
  BY <1>1 DEF FromReceiver
<1> QED
  BY <1>2, SeqMonotonic

\* The receiver's changes of state that count no block and close nothing.
Rests(r, t) ==
    /\ t \in Receiver
    /\ t.committed = r.committed /\ t.closing = r.closing
    /\ t.state = "DELIVERED" => r.state = "DELIVERED"

\* Interruptions, failures and every other state but DELIVERED are such.
LEMMA StateRests ==
    ASSUME NEW r \in Receiver, NEW state \in TransferState \ {"DELIVERED"}
    PROVE  /\ Rests(r, r)
           /\ Rests(r, Interrupted(r)) /\ Rests(r, SentBack(r))
           /\ Rests(r, Failed(r, state)) /\ Rests(r, [r EXCEPT !.state = state])
<1>1. Rests(r, r)
  BY DEF Rests
<1>2. \A other \in TransferState \ {"DELIVERED"} : Rests(r, [r EXCEPT !.state = other])
  BY DEF Rests, Receiver
<1>3. Rests(r, Interrupted(r))
  BY <1>1, <1>2 DEF Interrupted, TransferState
<1> QED
  BY <1>1, <1>2, <1>3 DEF SentBack, Failed

\* What a step of the receiver does to itself, the disk and its channels.
ReceiverGoesOn ==
    /\ ReceiverInv' /\ StoreKept
    /\ dest' = dest \/ rx.step = "writing"
    /\ final = "closed" => final' = "closed"
    /\ final' = "closed" \/ rcv'.closing > 0 =>
          final = "closed" \/ rcv.closing > 0 \/ Whole
    /\ rcv.committed \subseteq rcv'.committed
    /\ rcv'.committed \subseteq Committed(store'.table)
    /\ rcv'.state = "DELIVERED" => rcv.state = "DELIVERED" \/ final' = "closed"
    /\ toReceiver' \in Seq(FromSender)
    /\ toSender' \in Seq(FromReceiver')
    /\ frames' \in Seq(Frame)

\* A step that counts no block, saves nothing and closes nothing.
LEMMA RestingGoesOn ==
    ASSUME ReceiverInv, SafeBytesAreStored, Rests(rcv, rcv'), store' = store,
           dest' = dest \/ rx.step = "writing",
           final' = final \/ (final = "open" /\ final' = "aborted"),
           toReceiver' \in Seq(FromSender), toSender' \in Seq(FromReceiver),
           frames' \in Seq(Frame)
    PROVE  ReceiverGoesOn
<1>1. StoreKept
  BY DEF StoreKept
<1>2. toSender' \in Seq(FromReceiver')
  BY <1>1, SaidStaysTrue
<1>3. ReceiverInv'
  BY DEF ReceiverInv, Rests
<1>4. rcv.committed \subseteq rcv'.committed /\ rcv'.committed \subseteq Committed(store'.table)
  BY DEF Rests, SafeBytesAreStored
<1> QED
  BY <1>1, <1>2, <1>3, <1>4 DEF ReceiverGoesOn, Rests

\* Answering an offer, a question or the user.
LEMMA AnswersGoOn ==
    ASSUME Side!Inv, ReceiverInv, WiresInv, SafeBytesAreStored,
           \/ Accept \/ TakeOffer \/ CancelReceiver \/ ReceiverBytesComplete
           \/ TakeDelivered \/ TakeDigest
    PROVE  ReceiverGoesOn
<1>1. /\ rcv \in Receiver /\ Rests(rcv, rcv)
      /\ toReceiver \in Seq(FromSender) /\ toSender \in Seq(FromReceiver)
      /\ frames \in Seq(Frame) /\ rx.table \in Table
  BY SideFacts, SameData DEF ReceiverInv, WiresInv, Rests, ReceiverType
<1>2. \A type : ReceiverTakes(type) => toReceiver' \in Seq(FromSender)
  BY ChannelsGive
<1>3. \A r \in Receiver :
         /\ Rests(r, [r EXCEPT !.state = "VERIFYING"])
         /\ Rests(r, SentBack(r)) /\ Rests(r, Failed(r, "FAILED"))
  <2>1. {"VERIFYING", "FAILED"} \subseteq TransferState \ {"DELIVERED"}
    BY DEF TransferState
  <2> QED
    BY <2>1, StateRests
<1>4. CASE Accept \/ TakeOffer \/ CancelReceiver
  <2>1. Rests(rcv, rcv')
    <3>1. CASE Accept
      <4>1. rcv' = [rcv EXCEPT !.accepted = TRUE, !.opening = @ + 1]
        BY <3>1 DEF Accept
      <4>2. rcv.opening + 1 \in Nat
        BY <1>1 DEF Receiver
      <4>3. rcv' \in Receiver
        BY <1>1, <4>1, <4>2 DEF Receiver
      <4>4. /\ rcv'.committed = rcv.committed /\ rcv'.closing = rcv.closing
            /\ rcv'.state = rcv.state
        BY <1>1, <4>1 DEF Receiver
      <4> QED
        BY <4>3, <4>4 DEF Rests
    <3>2. CASE TakeOffer
      <4>1. rcv' = [rcv EXCEPT !.offered = TRUE, !.state = rcv'.state,
                               !.opening = rcv'.opening]
        BY <1>1, <3>2 DEF TakeOffer, Receiver
      <4>2. rcv'.state \in {rcv.state, "READY"} /\ rcv'.opening \in {rcv.opening, rcv.opening + 1}
        BY <1>1, <3>2 DEF TakeOffer, Receiver
      <4>3. rcv.state \in TransferState /\ rcv.opening \in Nat
        BY <1>1 DEF Receiver
      <4>4. rcv'.state \in TransferState /\ rcv'.opening \in Nat
        BY <4>2, <4>3 DEF TransferState
      <4> QED
        BY <1>1, <4>1, <4>2, <4>4 DEF Rests, Receiver
    <3>3. CASE CancelReceiver
      <4>1. "CANCELLED" \in TransferState
        BY DEF TransferState
      <4>2. rcv' = [rcv EXCEPT !.cancelled = TRUE, !.state = "CANCELLED"]
        BY <3>3, Zenon DEF CancelReceiver
      <4>3. rcv' \in Receiver
        BY <1>1, <4>1, <4>2 DEF Receiver
      <4>4. /\ rcv'.committed = rcv.committed /\ rcv'.closing = rcv.closing
            /\ rcv'.state = "CANCELLED"
        BY <1>1, <4>2 DEF Receiver
      <4> QED
        BY <4>3, <4>4 DEF Rests
    <3> QED
      BY <1>4, <3>1, <3>2, <3>3
  <2>2. /\ UNCHANGED <<dest, store, toSender, frames>>
        /\ final' = final \/ (final = "open" /\ final' = "aborted")
    BY <1>4 DEF Accept, TakeOffer, CancelReceiver, disk, wires
  <2>3. toReceiver' \in Seq(FromSender)
    BY <1>1, <1>2, <1>4 DEF Accept, TakeOffer, CancelReceiver, wires
  <2> QED
    BY <1>1, <2>1, <2>2, <2>3, RestingGoesOn
<1>5. CASE ReceiverBytesComplete
  <2> DEFINE r == [rcv EXCEPT !.state = "VERIFYING"]
             m == Rooted("ROOT", [table |-> rx.table, flipped |-> FALSE])
  <2>1. <<m>> \in Seq(FromReceiver)
    <3>1. m \in FromReceiver
      BY <1>1 DEF Rooted, Root, Control, FromReceiver
    <3> QED
      BY <3>1
  <2>2. ToSender(<<m>>) /\ rcv' = SentBack(r)
    BY <1>5 DEF ReceiverBytesComplete
  <2>3. Rests(rcv, r)
    BY <1>1, <1>3
  <2> HIDE DEF r, m
  <2>4. toSender' \in Seq(FromReceiver)
    BY <1>1, <2>1, <2>2, ChannelsTake
  <2>5. Rests(rcv, rcv')
    BY <1>3, <2>2, <2>3 DEF Rests
  <2> QED
    BY <1>1, <1>2, <1>5, <2>4, <2>5, RestingGoesOn DEF ReceiverBytesComplete, disk
<1>6. CASE TakeDelivered
  BY <1>1, <1>2, <1>6, RestingGoesOn DEF TakeDelivered, receiver, disk
<1>7. CASE TakeDigest
  <2> DEFINE m == Head(toReceiver)
             refuses == rx.step # "none" /\ ~ AcceptsDigest(rx, m.block)
             messages == IF refuses THEN <<>> ELSE <<About("READY", m.block)>>
  <2>1. m \in Control /\ m.type = "DIGEST"
    BY <1>7, ChannelsGive DEF TakeDigest, FromSender
  <2>2. m.block \in Blocks
    BY <2>1 DEF Control
  <2>3. About("READY", m.block) \in FromReceiver
    BY <2>2 DEF About, Control, FromReceiver
  <2>4. messages \in Seq(FromReceiver)
    BY <2>3
  <2>5. ToSender(messages) /\ rcv' \in {Failed(rcv, "FAILED"), SentBack(rcv)}
    BY <1>7 DEF TakeDigest
  <2> HIDE DEF m, refuses, messages
  <2>6. toSender' \in Seq(FromReceiver)
    BY <1>1, <2>4, <2>5, ChannelsTake
  <2>7. Rests(rcv, rcv')
    BY <1>1, <1>3, <2>5
  <2> QED
    BY <1>1, <1>2, <1>7, <2>6, <2>7, RestingGoesOn DEF TakeDigest, disk
<1> QED
  BY <1>4, <1>5, <1>6, <1>7

\* Taking, writing and refusing frames.
LEMMA FramesGoOn ==
    ASSUME ReceiverInv, WiresInv, SafeBytesAreStored, Side!Inv,
           \/ TakeFrame \/ StartWrite \/ RejectFrame \/ WriteWithinBlock
           \/ WriteThenNack \/ WriteThenVerify \/ WriteFails \/ SaveFails
    PROVE  ReceiverGoesOn
<1>1. /\ rcv \in Receiver /\ Rests(rcv, rcv) /\ Rests(rcv, SentBack(rcv))
      /\ Rests(rcv, Failed(rcv, "FAILED"))
  <2>1. rcv \in Receiver /\ "FAILED" \in TransferState \ {"DELIVERED"}
    BY DEF ReceiverInv, TransferState
  <2> QED
    BY <2>1, StateRests
<1>2. /\ toReceiver \in Seq(FromSender) /\ toSender \in Seq(FromReceiver)
      /\ frames \in Seq(Frame)
  BY DEF WiresInv
<1>3. CASE TakeFrame
  <2>1. frames' \in Seq(Frame)
    BY <1>2, <1>3 DEF TakeFrame, FrameArrived
  <2> QED
    BY <1>1, <1>2, <1>3, <2>1, RestingGoesOn DEF TakeFrame, disk
<1>4. CASE StartWrite \/ RejectFrame \/ WriteFails \/ SaveFails
  BY <1>1, <1>2, <1>4, RestingGoesOn
     DEF StartWrite, RejectFrame, WriteFails, SaveFails, disk, wires
<1>5. CASE WriteWithinBlock \/ WriteThenVerify
  BY <1>1, <1>2, <1>5, RestingGoesOn DEF WriteWithinBlock, WriteThenVerify, WriteLands
<1>6. CASE WriteThenNack
  <2>1. rx.next \in Blocks
    BY <1>6, SideFacts DEF WriteThenNack, WriteLands
  <2>2. About("NACK", rx.next) \in FromReceiver
    BY <2>1 DEF About, Control, FromReceiver
  <2>3. <<About("NACK", rx.next)>> \in Seq(FromReceiver)
    BY <2>2
  <2>4. toSender' \in Seq(FromReceiver)
    BY <1>2, <1>6, <2>3, ChannelsTake DEF WriteThenNack
  <2> QED
    BY <1>1, <1>2, <1>6, <2>4, RestingGoesOn DEF WriteThenNack, WriteLands
<1> QED
  BY <1>3, <1>4, <1>5, <1>6

\* MANIFEST_ROOT starts a close only when every block is stored and the roots
\* agree: then the destination holds the source.
LEMMA RootGoesOn ==
    ASSUME Side!Inv, ReceiverInv, WiresInv, SafeBytesAreStored, ReceiverRoot
    PROVE  ReceiverGoesOn
<1> DEFINE r == [rcv EXCEPT !.state = "VERIFYING"]
           closes == [rcv EXCEPT !.state = "VERIFYING", !.closing = @ + 1]
           root == Head(toReceiver).root
<1>1. /\ rcv \in Receiver
      /\ toReceiver' \in Seq(FromSender) /\ toSender \in Seq(FromReceiver)
      /\ frames \in Seq(Frame)
      /\ UNCHANGED <<rx, dest, final, store, toSender, frames>>
  BY ChannelsGive DEF ReceiverInv, WiresInv, ReceiverRoot, disk
<1>2. /\ Rests(rcv, r)
      /\ \A s \in {rcv, r}, state \in {"FAILED", "INTEGRITY_FAILED"} :
            Rests(rcv, Failed(s, state))
  <2>1. {"VERIFYING", "FAILED", "INTEGRITY_FAILED"} \subseteq TransferState \ {"DELIVERED"}
    BY DEF TransferState
  <2>2. Rests(rcv, r)
    BY <1>1, <2>1, StateRests
  <2> HIDE DEF r
  <2>3. ASSUME NEW state \in {"FAILED", "INTEGRITY_FAILED"}
        PROVE  Rests(rcv, Failed(rcv, state)) /\ Rests(r, Failed(r, state))
    <3>1. r \in Receiver /\ state \in TransferState \ {"DELIVERED"}
      BY <2>1, <2>2 DEF Rests
    <3> QED
      BY <1>1, <3>1, StateRests
  <2>4. ASSUME NEW state \in {"FAILED", "INTEGRITY_FAILED"}
        PROVE  Rests(rcv, Failed(r, state))
    BY <2>2, <2>3 DEF Rests
  <2> QED
    BY <2>2, <2>3, <2>4
<1>3. CASE Rests(rcv, rcv')
  BY <1>1, <1>3, RestingGoesOn
<1>4. CASE ~ Rests(rcv, rcv')
  <2>1. /\ rcv' = closes
        /\ rx.step # "none" /\ rcv.committed = Blocks /\ RootMatches(root, rx.table)
    BY <1>2, <1>4 DEF ReceiverRoot
  <2>2. root.table = rx.table
    BY <2>1 DEF RootMatches
  <2>3. root.table = Source
    BY ChannelsGive DEF ReceiverRoot, FromSender
  <2>4. \A b \in Blocks : store.table[b] # NoDigest
    BY <2>1 DEF SafeBytesAreStored, Committed
  <2>5. \A b \in Blocks : rx.table[b] # NoDigest /\ store.table[b] = Source[b] /\ dest[b] = Source[b]
    BY <2>1, <2>2, <2>3, <2>4, SideFacts
  <2>6. Whole
    <3>1. store.table \in Table /\ Source \in [Blocks -> Digest]
      BY IntegrityTransferAssumption DEF ReceiverInv
    <3>2. store.table = Source
      BY <2>5, <3>1 DEF Table
    <3>3. dest = Source
      BY <2>5, <3>1, SideFacts
    <3> QED
      BY <3>2, <3>3 DEF Whole
  <2>7. StoreKept
    BY <1>1 DEF StoreKept
  <2>8. toSender' \in Seq(FromReceiver')
    BY <1>1, <2>7, SaidStaysTrue
  <2>9. /\ closes \in Receiver /\ closes.committed = rcv.committed
        /\ closes.state # "DELIVERED"
    <3>1. "VERIFYING" \in TransferState
      BY DEF TransferState
    <3>2. rcv.closing + 1 \in Nat
      BY <1>1 DEF Receiver
    <3> QED
      BY <1>1, <3>1, <3>2 DEF Receiver
  <2> HIDE DEF closes
  <2>10. ReceiverInv'
    BY <1>1, <2>1, <2>9 DEF ReceiverInv
  <2> QED
    BY <1>1, <2>1, <2>6, <2>7, <2>8, <2>9, <2>10 DEF ReceiverGoesOn, SafeBytesAreStored
<1> QED
  BY <1>3, <1>4

\* A receiver opened counts what the store holds, which is never less than it
\* counted before.
LEMMA OpenedGoesOn ==
    ASSUME ReceiverInv, WiresInv, SafeBytesAreStored,
           NEW table \in Table, Opened(table), StoreKept,
           Committed(store.table) \subseteq Committed(table),
           store'.file = "saved", store'.table = table,
           store' \in [file : {"none", "torn", "saved"}, table : Table]
    PROVE  ReceiverGoesOn
<1> DEFINE r == SentBack(rcv)
           t == [r EXCEPT !.opening = rcv.opening - 1, !.state = "RECEIVING",
                          !.committed = Committed(table)]
<1>1. /\ rcv \in Receiver /\ rcv.opening > 0 /\ rcv' = t
      /\ ToSender(<<Have(table)>>)
      /\ UNCHANGED <<dest, final, toReceiver, frames>>
  BY DEF ReceiverInv, Opened
<1>2. r \in Receiver /\ r.closing = rcv.closing
  <2>1. "FAILED" \in TransferState \ {"DELIVERED"}
    BY DEF TransferState
  <2> QED
    BY <1>1, <2>1, StateRests DEF Rests
<1> HIDE DEF r
<1>3. /\ t \in Receiver /\ t.closing = rcv.closing /\ t.state # "DELIVERED"
      /\ t.committed = Committed(table)
  <2>1. "RECEIVING" \in TransferState /\ Committed(table) \in SUBSET Blocks
    BY DEF TransferState, Committed
  <2>2. rcv.opening - 1 \in Nat
    BY <1>1 DEF Receiver
  <2> QED
    BY <1>2, <2>1, <2>2 DEF Receiver
<1> HIDE DEF t
<1>4. toSender' \in Seq(FromReceiver')
  <2>1. toSender \in Seq(FromReceiver')
    BY <1>1, SaidStaysTrue DEF WiresInv
  <2>2. Have(table) \in Control /\ Have(table).type = "HAVE"
    BY DEF Have, Control, Committed
  <2>3. <<Have(table)>> \in Seq(FromReceiver')
    <3>1. Have(table) \in FromReceiver'
      BY <2>2, ReceiverMessages
    <3> QED
      BY <3>1
  <2> QED
    BY <1>1, <2>1, <2>3, ChannelsTake
<1>5. ReceiverInv'
  BY <1>1, <1>3 DEF ReceiverInv
<1> QED
  BY <1>1, <1>3, <1>4, <1>5 DEF ReceiverGoesOn, WiresInv, SafeBytesAreStored

\* openReceiver, whether it opens a receiver or fails.
LEMMA OpensGoOn ==
    ASSUME ReceiverInv, WiresInv, SafeBytesAreStored, ReceiverOpens
    PROVE  ReceiverGoesOn
<1>1. /\ EmptyTable \in Table /\ Committed(EmptyTable) = {}
      /\ store.table \in Table
  BY DEF EmptyTable, Table, Committed, ReceiverInv
<1>2. CASE OpenFresh
  <2>1. store.table = EmptyTable
    BY <1>2 DEF OpenFresh, ReceiverInv
  <2>2. /\ Opened(EmptyTable) /\ store'.file = "saved" /\ store'.table = EmptyTable
        /\ store' \in [file : {"none", "torn", "saved"}, table : Table]
    BY <1>1, <1>2 DEF OpenFresh, SavedRecord
  <2> QED
    BY <1>1, <2>1, <2>2, OpenedGoesOn DEF StoreKept
<1>3. CASE OpenResumed
  <2>1. /\ Opened(store.table) /\ store'.file = "saved" /\ store'.table = store.table
        /\ store' \in [file : {"none", "torn", "saved"}, table : Table]
    BY <1>3 DEF OpenResumed, ReceiverInv
  <2> QED
    BY <1>1, <2>1, OpenedGoesOn DEF StoreKept
<1>4. CASE OpenFails
  <2> DEFINE r == [rcv EXCEPT !.opening = @ - 1]
  <2>1. /\ rcv \in Receiver /\ rcv.opening > 0 /\ rcv' = Failed(r, "FAILED")
        /\ UNCHANGED <<dest, final, wires>>
        /\ store' = store \/ (store.file = "none" /\ store' = TornRecord)
    BY <1>4 DEF OpenFails, ReceiverInv
  <2>2. /\ r \in Receiver /\ r.committed = rcv.committed
        /\ r.closing = rcv.closing /\ r.state = rcv.state
    BY <2>1 DEF Receiver
  <2> HIDE DEF r
  <2>3. Rests(r, rcv')
    <3>1. "FAILED" \in TransferState \ {"DELIVERED"}
      BY DEF TransferState
    <3> QED
      BY <2>1, <2>2, <3>1, StateRests
  <2>4. /\ store'.table = store.table
        /\ store' \in [file : {"none", "torn", "saved"}, table : Table]
        /\ store'.file # "saved" => store'.table = EmptyTable
    BY <1>1, <2>1 DEF ReceiverInv, TornRecord
  <2>5. StoreKept
    BY <2>4 DEF StoreKept
  <2>6. toSender' \in Seq(FromReceiver')
    BY <2>1, <2>5, SaidStaysTrue DEF WiresInv, wires
  <2>7. ReceiverInv'
    BY <2>1, <2>3, <2>4 DEF ReceiverInv, Rests
  <2> QED
    BY <2>1, <2>2, <2>3, <2>4, <2>5, <2>6, <2>7
       DEF ReceiverGoesOn, Rests, WiresInv, wires, SafeBytesAreStored
<1> QED
  BY <1>2, <1>3, <1>4 DEF ReceiverOpens

\* COMMITTED counts a block only once the record that holds it is saved.
LEMMA SavedGoesOn ==
    ASSUME Side!Inv, ReceiverInv, WiresInv, SafeBytesAreStored, SaveEnds
    PROVE  ReceiverGoesOn
<1> DEFINE counted == Counted(rcv, rx.next)
           complete == counted.committed = Blocks
           said == IF complete THEN <<Of("BYTES_COMPLETE")>> ELSE <<>>
<1>1. /\ rcv \in Receiver /\ rx.step = "saving" /\ rx \in ReceiverType
      /\ rx.next \in Blocks /\ rx.table[rx.next] # NoDigest
      /\ store' = SavedRecord(rx.table)
      /\ UNCHANGED <<dest, final, toReceiver, frames>>
  BY SideFacts DEF ReceiverInv, SaveEnds
<1>2. /\ rcv' = SentBack(IF complete
                         THEN [counted EXCEPT !.state = "TRANSFER_BYTES_COMPLETE"]
                         ELSE counted)
      /\ ToSender(<<About("COMMITTED", rx.next)>> \o said)
  BY DEF SaveEnds
<1>3. /\ store' \in [file : {"none", "torn", "saved"}, table : Table]
      /\ store'.file = "saved" /\ store'.table = rx.table
  BY <1>1 DEF SavedRecord, ReceiverType
<1>4. /\ StoreKept /\ rx.next \in Committed(store'.table)
      /\ Committed(store.table) \subseteq Committed(store'.table)
  BY <1>1, <1>3, SideFacts DEF StoreKept, Committed
<1>5. /\ counted \in Receiver
      /\ counted.committed = rcv.committed \cup {rx.next}
      /\ counted.closing = rcv.closing /\ counted.state = rcv.state
  BY <1>1 DEF Counted, Receiver
<1> HIDE DEF counted
<1>6. Rests(counted, rcv')
  <2>1. "TRANSFER_BYTES_COMPLETE" \in TransferState \ {"DELIVERED"}
    BY DEF TransferState
  <2>2. /\ Rests(counted, counted)
        /\ Rests(counted, [counted EXCEPT !.state = "TRANSFER_BYTES_COMPLETE"])
    BY <1>5, <2>1, StateRests
  <2>3. PICK r : Rests(counted, r) /\ rcv' = SentBack(r)
    BY <1>2, <2>2
  <2>4. Rests(r, SentBack(r))
    BY <2>1, <2>3, StateRests DEF Rests
  <2> QED
    BY <2>3, <2>4 DEF Rests
<1>7. toSender' \in Seq(FromReceiver')
  <2>1. toSender \in Seq(FromReceiver')
    BY <1>1, <1>4, SaidStaysTrue DEF WiresInv
  <2>2. About("COMMITTED", rx.next) \in FromReceiver'
    BY <1>4, ReceiverMessages
  <2>3. Of("BYTES_COMPLETE") \in Control /\ Of("BYTES_COMPLETE").type = "BYTES_COMPLETE"
    BY DEF Of, Control
  <2>4. Of("BYTES_COMPLETE") \in FromReceiver'
    BY <2>3, ReceiverMessages
  <2>5. <<About("COMMITTED", rx.next)>> \in Seq(FromReceiver') /\ said \in Seq(FromReceiver')
    BY <2>2, <2>4
  <2> HIDE DEF said
  <2>6. <<About("COMMITTED", rx.next)>> \o said \in Seq(FromReceiver')
    BY <2>5, ConcatProperties
  <2> QED
    BY <1>2, <2>1, <2>6, ChannelsTake
<1>8. ReceiverInv'
  BY <1>1, <1>3, <1>6 DEF ReceiverInv, Rests
<1> QED
  BY <1>1, <1>4, <1>5, <1>6, <1>7, <1>8
     DEF ReceiverGoesOn, Rests, WiresInv, SafeBytesAreStored

\* The close, which DELIVERED and MANIFEST_VERIFIED wait for.
LEMMA ClosesGoOn ==
    ASSUME Side!Inv, ReceiverInv, WiresInv, SafeBytesAreStored, ReceiverCloses
    PROVE  ReceiverGoesOn
<1>1. /\ rcv \in Receiver /\ rcv.closing > 0 /\ rcv.closing - 1 \in Nat
      /\ UNCHANGED <<dest, store, toReceiver, frames>>
      /\ StoreKept
  BY DEF ReceiverInv, Receiver, ReceiverCloses, CloseEnds, CloseFails, wires, StoreKept
<1>2. "FAILED" \in TransferState \ {"DELIVERED"} /\ "DELIVERED" \in TransferState
  BY DEF TransferState
<1>3. CASE CloseEnds
  <2> DEFINE r == SentBack(rcv)
             m == Rooted("VERIFIED", [table |-> rx.table, flipped |-> FALSE])
  <2>1. r \in Receiver /\ r.committed = rcv.committed
    BY <1>1, <1>2, StateRests DEF Rests
  <2>2. /\ final' = "closed"
        /\ rcv' = [r EXCEPT !.closing = rcv.closing - 1, !.state = "DELIVERED"]
        /\ ToSender(<<m>>)
    BY <1>3 DEF CloseEnds
  <2>3. rx.table \in Table
    BY SideFacts DEF ReceiverType
  <2> HIDE DEF r
  <2>4. rcv' \in Receiver /\ rcv'.committed = rcv.committed
    BY <1>1, <1>2, <2>1, <2>2 DEF Receiver
  <2>5. toSender' \in Seq(FromReceiver')
    <3>1. toSender \in Seq(FromReceiver')
      BY <1>1, <2>2, SaidStaysTrue DEF WiresInv
    <3>2. <<m>> \in Seq(FromReceiver')
      <4>1. m \in FromReceiver'
        BY <2>2, <2>3, ReceiverMessages
      <4> HIDE DEF m
      <4> QED
        BY <4>1
    <3> HIDE DEF m
    <3> QED
      BY <2>2, <3>1, <3>2, ChannelsTake
  <2>6. ReceiverInv'
    BY <1>1, <2>2, <2>4 DEF ReceiverInv
  <2> QED
    BY <1>1, <2>2, <2>4, <2>5, <2>6 DEF ReceiverGoesOn, WiresInv, SafeBytesAreStored
<1>4. CASE CloseFails
  <2> DEFINE r == [rcv EXCEPT !.closing = @ - 1]
  <2>1. rcv' = Failed(r, "FAILED") /\ final' = final /\ toSender' = toSender
    BY <1>4 DEF CloseFails, wires
  <2>2. /\ r \in Receiver /\ r.committed = rcv.committed
        /\ r.state = rcv.state
    BY <1>1 DEF Receiver
  <2> HIDE DEF r
  <2>3. Rests(r, rcv')
    BY <1>2, <2>1, <2>2, StateRests
  <2>4. toSender' \in Seq(FromReceiver')
    BY <1>1, <2>1, SaidStaysTrue DEF WiresInv
  <2>5. ReceiverInv'
    BY <1>1, <2>1, <2>3 DEF ReceiverInv, Rests
  <2> QED
    BY <1>1, <2>1, <2>2, <2>3, <2>4, <2>5
       DEF ReceiverGoesOn, Rests, WiresInv, SafeBytesAreStored
<1> QED
  BY <1>3, <1>4 DEF ReceiverCloses

\* A step of the receiver's page.
ReceiverStep ==
    \/ Accept \/ CancelReceiver \/ ReceiverHandles \/ TakeFrame
    \/ ReceiverOpens \/ ReceiverProcesses \/ ReceiverCloses

\* Whatever it is, it goes on so and leaves the sender and the network alone.
LEMMA ReceiverSteps ==
    ASSUME Side!Inv, ReceiverInv, WiresInv, SafeBytesAreStored, ReceiverStep
    PROVE  ReceiverGoesOn /\ UNCHANGED <<sender, network>>
<1>1. ReceiverGoesOn
  BY AnswersGoOn, FramesGoOn, RootGoesOn, OpensGoOn, SavedGoesOn, ClosesGoOn
     DEF ReceiverStep, ReceiverHandles, ReceiverProcesses
<1>2. CASE Accept \/ CancelReceiver \/ ReceiverHandles \/ TakeFrame
  BY <1>1, <1>2 DEF Accept, CancelReceiver, ReceiverHandles, TakeOffer, TakeDigest,
                    ReceiverBytesComplete, ReceiverRoot, TakeDelivered, TakeFrame
<1>3. CASE ReceiverOpens \/ ReceiverCloses
  BY <1>1, <1>3 DEF ReceiverOpens, OpenFresh, OpenResumed, Opened, OpenFails,
                    ReceiverCloses, CloseEnds, CloseFails
<1>4. CASE ReceiverProcesses
  BY <1>1, <1>4 DEF ReceiverProcesses, StartWrite, RejectFrame, WriteWithinBlock,
                    WriteThenNack, WriteThenVerify, WriteLands, WriteFails,
                    SaveEnds, SaveFails
<1> QED
  BY <1>2, <1>3, <1>4 DEF ReceiverStep

-----------------------------------------------------------------------------
(* The transfer as a whole.                                                  *)

\* The invariant goes on, and no side counts fewer blocks than before.
GoesOn ==
    /\ SenderInv' /\ ReceiverInv' /\ NetworkInv' /\ WiresInv' /\ DeliveryInv'
    /\ snd.committed \subseteq snd'.committed
    /\ rcv.committed \subseteq rcv'.committed

\* While the receiver, the disk and the store rest, what was said of them stays.
LEMMA DiskRests ==
    ASSUME UNCHANGED disk
    PROVE  /\ \A messages \in Seq(FromReceiver) : messages \in Seq(FromReceiver')
           /\ Committed(store'.table) = Committed(store.table)
           /\ Whole' <=> Whole
           /\ rcv' \in Receiver /\ ReceiverInv => ReceiverInv'
<1>1. UNCHANGED <<dest, final, broken, store>>
  BY DEF disk
<1>2. StoreKept
  BY <1>1 DEF StoreKept
<1> QED
  BY <1>1, <1>2, SaidStaysTrue DEF Whole, ReceiverInv

\* The steps of the sender's page, ...
LEMMA SenderHolds ==
    ASSUME IInv, SenderStep
    PROVE  GoesOn
<1>1. SenderGoesOn /\ UNCHANGED <<rcv, rx, disk, network>>
  BY SenderSteps DEF IInv
<1>2. SenderInv' /\ ReceiverInv' /\ NetworkInv'
  BY <1>1, DiskRests
     DEF IInv, SenderGoesOn, SenderInv, Sound, ReceiverInv, NetworkInv, network
<1>3. WiresInv'
  BY <1>1, DiskRests DEF SenderGoesOn, WiresInv, FromSender
<1>4. final' = final /\ Committed(store'.table) = Committed(store.table) /\ (Whole' <=> Whole)
  BY <1>1, DiskRests DEF disk
<1>5. DeliveryInv'
  <2>1. SafeBytesAreStored'
    BY <1>1, <1>4 DEF IInv, DeliveryInv, SenderGoesOn, SafeBytesAreStored
  <2>2. final' = "closed" \/ rcv'.closing > 0 => Whole'
    BY <1>1, <1>4 DEF IInv, DeliveryInv
  <2>3. "DELIVERED" \in {snd'.state, rcv'.state} => final' = "closed"
    BY <1>1, <1>4 DEF IInv, DeliveryInv, SenderGoesOn
  <2> QED
    BY <2>1, <2>2, <2>3 DEF DeliveryInv
<1> QED
  BY <1>1, <1>2, <1>3, <1>5 DEF GoesOn, SenderGoesOn

\* ... those of the receiver's ...
LEMMA ReceiverHolds ==
    ASSUME IInv, ReceiverStep
    PROVE  GoesOn
<1>1. ReceiverGoesOn /\ UNCHANGED <<sender, network>>
  BY ReceiverSteps DEF IInv, DeliveryInv
<1>2. SenderInv' /\ NetworkInv' /\ snd' = snd
  BY <1>1 DEF IInv, SenderInv, LoopShape, NetworkInv, sender, network
<1>3. ReceiverInv' /\ WiresInv'
  BY <1>1 DEF ReceiverGoesOn, WiresInv, FromSender
<1>4. Whole => Whole'
  BY <1>1, WholeStays DEF IInv, ReceiverGoesOn
<1>5. DeliveryInv'
  <2>1. SafeBytesAreStored'
    <3>1. Committed(store.table) \subseteq Committed(store'.table)
      BY <1>1 DEF ReceiverGoesOn, StoreKept, Committed
    <3> QED
      BY <1>1, <1>2, <3>1 DEF IInv, DeliveryInv, ReceiverGoesOn, SafeBytesAreStored
  <2>2. final' = "closed" \/ rcv'.closing > 0 => Whole'
    BY <1>1, <1>4 DEF IInv, DeliveryInv, ReceiverGoesOn
  <2>3. "DELIVERED" \in {snd'.state, rcv'.state} => final' = "closed"
    BY <1>1, <1>2 DEF IInv, DeliveryInv, ReceiverGoesOn
  <2> QED
    BY <2>1, <2>2, <2>3 DEF DeliveryInv
<1> QED
  BY <1>1, <1>2, <1>3, <1>5 DEF GoesOn, ReceiverGoesOn

\* ... and those of the network between them.
LEMMA NetworkHolds ==
    ASSUME IInv, NetworkFails \/ NetworkRecovers
    PROVE  GoesOn
<1>1. NetworkGoesOn /\ UNCHANGED <<fault, rx, disk>>
  BY NetworkSteps DEF IInv
<1>2. Rests(rcv, rcv')
  <2>1. rcv \in Receiver /\ "FAILED" \in TransferState \ {"DELIVERED"}
    BY DEF IInv, ReceiverInv, TransferState
  <2> QED
    BY <1>1, <2>1, StateRests DEF NetworkGoesOn
<1>3. SenderInv' /\ ReceiverInv' /\ NetworkInv'
  BY <1>1, <1>2, DiskRests DEF IInv, NetworkGoesOn, SenderInv, Keeps, Sound, Rests
<1>4. WiresInv'
  <2>1. <<Offer>> \in Seq(FromSender)
    <3>1. Offer \in FromSender
      BY SenderMessages DEF Offer
    <3> QED
      BY <3>1
  <2>2. /\ toReceiver \in Seq(FromSender) /\ toSender \in Seq(FromReceiver)
        /\ frames \in Seq(Frame)
    BY DEF IInv, WiresInv
  <2>3. <<>> \in Seq(FromSender) /\ <<>> \in Seq(FromReceiver) /\ <<>> \in Seq(Frame)
    OBVIOUS
  <2>4. /\ toReceiver' \in Seq(FromSender) /\ toSender' \in Seq(FromReceiver)
        /\ frames' \in Seq(Frame)
    BY <1>1, <2>1, <2>2, <2>3 DEF NetworkGoesOn
  <2> QED
    BY <1>1, <2>4, DiskRests DEF WiresInv, FromSender
<1>5. final' = final /\ Committed(store'.table) = Committed(store.table) /\ (Whole' <=> Whole)
  BY <1>1, DiskRests DEF disk
<1>6. DeliveryInv'
  <2>1. SafeBytesAreStored'
    BY <1>1, <1>2, <1>5
       DEF IInv, DeliveryInv, NetworkGoesOn, Keeps, Rests, SafeBytesAreStored
  <2>2. final' = "closed" \/ rcv'.closing > 0 => Whole'
    BY <1>2, <1>5 DEF IInv, DeliveryInv, Rests
  <2>3. "DELIVERED" \in {snd'.state, rcv'.state} => final' = "closed"
    BY <1>1, <1>2, <1>5 DEF IInv, DeliveryInv, NetworkGoesOn, Keeps, Rests
  <2> QED
    BY <2>1, <2>2, <2>3 DEF DeliveryInv
<1> QED
  BY <1>1, <1>2, <1>3, <1>4, <1>6 DEF GoesOn, NetworkGoesOn, Keeps, Rests

\* Between them they take every step.
LEMMA StepHolds ==
    ASSUME IInv, [Next]_vars
    PROVE  GoesOn
<1>1. CASE SenderStep
  BY <1>1, SenderHolds
<1>2. CASE ReceiverStep
  BY <1>2, ReceiverHolds
<1>3. CASE NetworkFails \/ NetworkRecovers
  BY <1>3, NetworkHolds
<1>4. CASE UNCHANGED vars
  <2>1. UNCHANGED <<snd, fault, rcv, rx, disk, toReceiver, toSender, frames, network>>
    BY <1>4 DEF vars, sender, receiver, wires
  <2>2. SenderInv' /\ ReceiverInv' /\ NetworkInv'
    BY <2>1, DiskRests DEF IInv, SenderInv, LoopShape, ReceiverInv, NetworkInv, network
  <2>3. WiresInv'
    BY <2>1, DiskRests DEF IInv, WiresInv, FromSender
  <2>4. DeliveryInv'
    BY <2>1, DiskRests DEF IInv, DeliveryInv, SafeBytesAreStored, disk
  <2> QED
    BY <2>1, <2>2, <2>3, <2>4 DEF GoesOn
<1> QED
  BY <1>1, <1>2, <1>3, <1>4
     DEF Next, Users, Cancels, SenderStep, ReceiverStep

\* The side starts where IntegrityReceiver starts.
LEMMA InitAlike == Init => Side!Init
<1> SUFFICES ASSUME Init PROVE Side!Init
  OBVIOUS
<1>1. Side!Blocks = Blocks /\ Side!EmptyTable = EmptyTable
  BY SameData DEF Side!Blocks, Blocks
<1>2. Side!NewReceiver(EmptyTable) = NewReceiver(EmptyTable)
  BY SameTables
<1>3. rx = Side!NoReceiver
  BY <1>1, <1>2 DEF Init, NoReceiver, Side!NoReceiver
<1>4. dest = Side!EmptyDest
  BY <1>1 DEF Init, Side!EmptyDest
<1>5. StoredRecord = Side!NoRecord
  <2>1. store.file = "none" /\ store.table = Side!EmptyTable
    BY <1>1 DEF Init, NoRecord
  <2> QED
    BY <2>1 DEF StoredRecord, Side!NoRecord
<1> QED
  BY <1>3, <1>4, <1>5 DEF Init, Side!Init

\* The invariant holds initially.
LEMMA InitHolds == Init => IInv
<1> SUFFICES ASSUME Init PROVE IInv
  OBVIOUS
<1>1. Side!Inv
  BY InitAlike, M5ReceiverAssumption, Side!InitInv
<1>2. SenderInv
  <2>1. "IDLE" \in TransferState /\ NoLoop \in Loop /\ NoLoop.pc = "none"
    BY M5ReceiverAssumption DEF TransferState, NoLoop, Loop
  <2>2. snd \in Sender
    BY <2>1 DEF Init, Sender
  <2>3. LoopShape(snd)
    BY <2>1 DEF Init, LoopShape
  <2>4. fault \in Fault
    BY IntegrityTransferAssumption DEF Init
  <2> QED
    BY <2>2, <2>3, <2>4 DEF SenderInv
<1>3. ReceiverInv
  <2>1. "IDLE" \in TransferState /\ EmptyTable \in Table
    BY DEF TransferState, EmptyTable, Table
  <2>2. rcv \in Receiver
    BY <2>1 DEF Init, Receiver
  <2>3. store.file = "none" /\ store.table = EmptyTable
    BY DEF Init, NoRecord
  <2>4. store \in [file : {"none", "torn", "saved"}, table : Table]
    BY <2>1 DEF Init, NoRecord
  <2> QED
    BY <2>2, <2>3, <2>4 DEF Init, ReceiverInv
<1>4. NetworkInv
  <2>1. MaxCuts \in Nat /\ MaxFlaps \in Nat
    BY IntegrityTransferAssumption
  <2>2. cuts \in 0 .. MaxCuts /\ flaps \in 0 .. MaxFlaps
    BY <2>1 DEF Init
  <2>3. {sOpen, rOpen, noticed} \subseteq BOOLEAN
    BY Zenon DEF Init
  <2> QED
    BY <2>2, <2>3 DEF Init, NetworkInv
<1>5. WiresInv
  BY DEF Init, WiresInv
<1>6. DeliveryInv
  BY DEF Init, DeliveryInv, SafeBytesAreStored
<1> QED
  BY <1>1, <1>2, <1>3, <1>4, <1>5, <1>6 DEF IInv

\* The inductive invariant holds in every state of the transfer.
THEOREM InvHolds == Spec => []IInv
<1>1. IInv /\ [Next]_vars => IInv'
  <2> SUFFICES ASSUME IInv, [Next]_vars PROVE IInv'
    OBVIOUS
  <2>1. Side!Inv'
    BY SideHolds DEF IInv
  <2>2. GoesOn
    BY StepHolds
  <2> QED
    BY <2>1, <2>2 DEF IInv, GoesOn
<1> QED
  BY <1>1, InitHolds, PTL DEF Spec

(***************************************************************************)
(* Every variable of the transfer keeps its type.                          *)
(***************************************************************************)
THEOREM TypeCorrect == Spec => []TypeOK
<1>1. IInv => TypeOK
  <2> SUFFICES ASSUME IInv PROVE TypeOK
    OBVIOUS
  <2>1. FromSender \subseteq Control /\ FromReceiver \subseteq Control
    BY DEF FromSender, FromReceiver
  <2>2. toReceiver \in Seq(Control) /\ toSender \in Seq(Control)
    BY <2>1, SeqMonotonic DEF IInv, WiresInv
  <2> QED
    BY <2>2, SideFacts
       DEF IInv, SenderInv, ReceiverInv, NetworkInv, WiresInv, TypeOK
<1> QED
  BY <1>1, InvHolds, PTL

(***************************************************************************)
(* A file handed over is the file sent (DeliveredIsSource): whatever the   *)
(* network loses and whenever, whatever faults are injected and however    *)
(* many runs of sendVerifiedMissingBlocks are alive, a destination that    *)
(* has been closed holds the source, and a side that says DELIVERED says   *)
(* so after the close.                                                     *)
(***************************************************************************)
THEOREM Delivered == Spec => []DeliveredIsSource
<1>1. IInv => DeliveredIsSource
  BY DEF IInv, DeliveryInv, Whole, DeliveredIsSource
<1> QED
  BY <1>1, InvHolds, PTL

(***************************************************************************)
(* Neither side counts a block that the recovery store does not hold       *)
(* (SafeBytesAreStored).                                                   *)
(***************************************************************************)
THEOREM SafeStored == Spec => []SafeBytesAreStored
<1>1. IInv => SafeBytesAreStored
  BY DEF IInv, DeliveryInv
<1> QED
  BY <1>1, InvHolds, PTL

(***************************************************************************)
(* What a side shows as safe never becomes less (SafeNeverShrinks): the    *)
(* recount of openReceiver takes nothing back, because what was counted    *)
(* before is in the store it counts.                                       *)
(***************************************************************************)
THEOREM NeverShrinks == Spec => SafeNeverShrinks
<1>1. IInv /\ [Next]_vars =>
         [/\ snd.committed \subseteq snd'.committed
          /\ rcv.committed \subseteq rcv'.committed]_vars
  BY StepHolds DEF GoesOn
<1> QED
  BY <1>1, InvHolds, PTL DEF Spec, SafeNeverShrinks

\* The side whose invariant is used above is the one the transfer implements.
LEMMA SameSide ==
    /\ Side!Init <=> ReceiverSide!Init
    /\ Side!Next <=> ReceiverSide!Next
<1>1. /\ Side!Blocks = ReceiverSide!Blocks /\ Side!NoDigest = ReceiverSide!NoDigest
      /\ Side!Digest = ReceiverSide!Digest /\ Side!Frame = ReceiverSide!Frame
  BY DEF Side!Blocks, ReceiverSide!Blocks, Side!NoDigest, ReceiverSide!NoDigest,
         Side!Digest, ReceiverSide!Digest, Side!Frame, ReceiverSide!Frame
<1>2. /\ Side!EmptyTable = ReceiverSide!EmptyTable
      /\ \A table : Side!NewReceiver(table) = ReceiverSide!NewReceiver(table)
      /\ \A table : Side!FirstMissing(table) = ReceiverSide!FirstMissing(table)
  BY <1>1
     DEF Side!EmptyTable, ReceiverSide!EmptyTable, Side!NewReceiver,
         ReceiverSide!NewReceiver, Side!FirstMissing, ReceiverSide!FirstMissing,
         Side!Missing, ReceiverSide!Missing
<1>3. /\ Side!NoReceiver = ReceiverSide!NoReceiver
      /\ Side!NoRecord = ReceiverSide!NoRecord
      /\ Side!TornRecord = ReceiverSide!TornRecord
      /\ Side!EmptyDest = ReceiverSide!EmptyDest
  BY <1>1, <1>2
     DEF Side!NoReceiver, ReceiverSide!NoReceiver, Side!NoRecord,
         ReceiverSide!NoRecord, Side!TornRecord, ReceiverSide!TornRecord,
         Side!EmptyDest, ReceiverSide!EmptyDest
<1>4. Side!Init <=> ReceiverSide!Init
  BY <1>3 DEF Side!Init, ReceiverSide!Init
<1>5. /\ Side!OpenFresh <=> ReceiverSide!OpenFresh
      /\ Side!OpenTears <=> ReceiverSide!OpenTears
      /\ Side!OpenResumed <=> ReceiverSide!OpenResumed
      /\ Side!OpenRefused <=> ReceiverSide!OpenRefused
      /\ Side!Abort <=> ReceiverSide!Abort
      /\ Side!Reload <=> ReceiverSide!Reload
  BY <1>2, <1>3
     DEF Side!OpenFresh, ReceiverSide!OpenFresh, Side!OpenTears,
         ReceiverSide!OpenTears, Side!OpenResumed, ReceiverSide!OpenResumed,
         Side!OpenRefused, ReceiverSide!OpenRefused, Side!Settled,
         ReceiverSide!Settled, Side!Abort, ReceiverSide!Abort,
         Side!Reload, ReceiverSide!Reload
<1>6. /\ \A block, digest : Side!Expect(block, digest) <=> ReceiverSide!Expect(block, digest)
      /\ \A frame : Side!Arrive(frame) <=> ReceiverSide!Arrive(frame)
  BY <1>1
     DEF Side!Expect, ReceiverSide!Expect, Side!Arrive, ReceiverSide!Arrive,
         Side!AcceptsDigest, ReceiverSide!AcceptsDigest, Side!WithDigest,
         ReceiverSide!WithDigest, Side!Queued, ReceiverSide!Queued
<1>7. /\ Side!StartWrite <=> ReceiverSide!StartWrite
      /\ Side!RejectFrame <=> ReceiverSide!RejectFrame
      /\ Side!WriteFails <=> ReceiverSide!WriteFails
      /\ Side!SaveEnds <=> ReceiverSide!SaveEnds
      /\ Side!SaveFails <=> ReceiverSide!SaveFails
  BY <1>1, <1>2
     DEF Side!StartWrite, ReceiverSide!StartWrite, Side!RejectFrame,
         ReceiverSide!RejectFrame, Side!WriteFails, ReceiverSide!WriteFails,
         Side!SaveEnds, ReceiverSide!SaveEnds, Side!SaveFails,
         ReceiverSide!SaveFails, Side!AcceptsFrame, ReceiverSide!AcceptsFrame,
         Side!Hashed, ReceiverSide!Hashed, Side!Dropped, ReceiverSide!Dropped,
         Side!Saved, ReceiverSide!Saved
<1>8. /\ Side!WriteWithinBlock <=> ReceiverSide!WriteWithinBlock
      /\ Side!WriteThenNack <=> ReceiverSide!WriteThenNack
      /\ Side!WriteThenVerify <=> ReceiverSide!WriteThenVerify
  BY <1>1
     DEF Side!WriteWithinBlock, ReceiverSide!WriteWithinBlock,
         Side!WriteThenNack, ReceiverSide!WriteThenNack,
         Side!WriteThenVerify, ReceiverSide!WriteThenVerify,
         Side!WriteLands, ReceiverSide!WriteLands, Side!EndsBlock,
         ReceiverSide!EndsBlock, Side!Verifies, ReceiverSide!Verifies,
         Side!Advanced, ReceiverSide!Advanced, Side!Nacked, ReceiverSide!Nacked,
         Side!Verified, ReceiverSide!Verified, Side!Dropped, ReceiverSide!Dropped
<1>9. Side!Next <=> ReceiverSide!Next
  BY <1>1, <1>5, <1>6, <1>7, <1>8 DEF Side!Next, ReceiverSide!Next
<1> QED
  BY <1>4, <1>9

(***************************************************************************)
(* Seen from the receiver's side, the transfer is IntegrityReceiver with   *)
(* this sender and this network as its environment: what is proved of a    *)
(* receiver whose environment may do anything holds of the transfer.       *)
(***************************************************************************)
THEOREM IsAReceiver == Spec => ImplementsReceiver
<1>1. Init => ReceiverSide!Init
  BY InitAlike, SameSide
<1>2. IInv /\ [Next]_vars => [ReceiverSide!Next]_ReceiverSide!vars
  <2> SUFFICES ASSUME IInv, [Next]_vars
               PROVE  [ReceiverSide!Next]_ReceiverSide!vars
    OBVIOUS
  <2>1. Side!Next \/ UNCHANGED Side!vars
    BY StepsAlike DEF IInv
  <2>2. UNCHANGED Side!vars => UNCHANGED ReceiverSide!vars
    BY DEF Side!vars, ReceiverSide!vars
  <2> QED
    BY <2>1, <2>2, SameSide
<1> QED
  BY <1>1, <1>2, InvHolds, PTL DEF Spec, ImplementsReceiver, ReceiverSide!Spec
=============================================================================
