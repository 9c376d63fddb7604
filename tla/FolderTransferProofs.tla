----------------------- MODULE FolderTransferProofs -----------------------
(***************************************************************************)
(* Proofs about FolderTransfer, for any number of blocks, frames, pieces,  *)
(* loops, losses and faults.                                               *)
(*                                                                         *)
(* A block that is whole stays whole, since "replaced" counts (WholeStays):*)
(* so it is enough that a block is whole when it is committed, and that    *)
(* every block is committed when the root is accepted.  The first needs    *)
(* FilesInv, which follows the frames of a block through interruptions:    *)
(* receiveData may be suspended in a write while the block it writes is    *)
(* given up and begun again, by a frame of the next connection that waits  *)
(* behind it.  MetInv says that none of this happens before the receiver   *)
(* knows the manifest: an offer that finds none resets the block and       *)
(* leaves the write alone (ReofferThrows).                                 *)
(*                                                                         *)
(* The second half is about calm behaviours, those that lose connections   *)
(* at opportune moments and meet no other trouble.  CalmInv says that one  *)
(* thing at a time moves such a transfer on; the receiver's record is then *)
(* the persisted one, and the sender's knowledge is never ahead of it.     *)
(***************************************************************************)
EXTENDS FolderTransfer, SequenceTheorems, WellFoundedInduction, TLAPS

-----------------------------------------------------------------------------
(* The inductive invariant.                                                  *)

\* A loop past its check has a block to do, and sends its frames in order.
LoopShape(loop) ==
    /\ loop.pc \in {"read", "ready", "drain", "ack"} => loop.todo # {}
    /\ loop.pc \in {"check", "read", "ready"} => loop.frame = 0
    /\ loop.pc = "drain" => loop.frame < FrameCount

SenderOK(s) == s \in Sender /\ \A i \in LoopId : LoopShape(s.loops[i])

\* Each loss makes one more reference possible, once it has been recovered from.
SenderInv ==
    /\ SenderOK(snd)
    /\ snd.reference <= IF link = "up" THEN losses + 1 ELSE losses

NetworkInv ==
    /\ calm \in BOOLEAN
    /\ link \in {"up", "cut", "rebuilt"}
    /\ noticed \in BOOLEAN
    /\ losses \in 0 .. MaxLosses
    /\ faults \in 0 .. MaxFaults
    /\ final \in {"open", "closing", "closed", "aborted"}

AllWhole == \A b \in Blocks : Whole(b)

\* What either side may have in flight.
FromSender == {m \in Control : m.type = "digest" => rcv.record = "full"}

FromReceiver ==
    {m \in Control : /\ m.type = "have" => rcv.record = "full"
                     /\ m.type = "delivered" => AllWhole}

WiresInv ==
    /\ toReceiver \in Seq(FromSender)
    /\ toSender \in Seq(FromReceiver)
    /\ frames \in Seq(Frame)
    /\ chain \in Seq(Frame)

Loading == [at : {"load"}, existing : BOOLEAN]

\* Before the receiver has a manifest, no block is under way on either side.
MetInv ==
    rcv.record # "full" =>
        /\ rcv.block = NoBlock
        /\ work.step = "none"
        /\ rcv.ends \in Seq(Loading)
        /\ \A i \in LoopId : snd.loops[i].pc = "none"

\* A piece that is the source's, or was when the block was whole.
Held(b, k, p) == dest[b][k][p] \in {"good", "replaced"}

\* The frames of the block before the next one are in the files, if none was
\* changed.
BlockInv ==
    /\ rcv.block.index = BlockCount => rcv.block.next = 0
    /\ rcv.block.index \in Blocks /\ rcv.block.good =>
          \A k \in 0 .. FrameCount - 1 : k < rcv.block.next =>
              \A p \in 1 .. PieceCount : Held(rcv.block.index, k, p)

\* The frame that is being written: the next one of the block, or a frame
\* given up that is not before the next one.
WriteInv ==
    LET frame == Head(chain)
    IN  work.step = "write" =>
          /\ work.piece \in 1 .. PieceCount
          /\ work.live => /\ rcv.block.index = frame.block
                          /\ rcv.block.next = frame.index
          /\ rcv.block.index = frame.block => rcv.block.next <= frame.index
          /\ work.live /\ frame.content = "good" =>
                \A p \in 1 .. PieceCount :
                    p < work.piece => Held(frame.block, frame.index, p)

FilesInv ==
    /\ dest \in [Blocks -> [0 .. FrameCount - 1 -> [1 .. PieceCount -> Content]]]
    /\ store \in [file : {"none", "torn", "saved"}, blocks : SUBSET Blocks]
    /\ work \in Work
    /\ work.step # "none" => chain # <<>> /\ work.index \in Blocks
    /\ BlockInv
    /\ WriteInv
    /\ \A b \in rcv.committed \cup store.blocks \cup work.saved : Whole(b)

DeliveryInv ==
    rcv.closing > 0 \/ "DELIVERED" \in {snd.state, rcv.state} => AllWhole

IInv ==
    /\ SenderInv
    /\ rcv \in Receiver
    /\ NetworkInv
    /\ WiresInv
    /\ MetInv
    /\ FilesInv
    /\ DeliveryInv

-----------------------------------------------------------------------------
(* Sequences and numbers.                                                    *)

LEMMA ConstantFacts ==
    /\ BlockCount \in Nat \ {0}
    /\ FrameCount \in Nat \ {0}
    /\ PieceCount \in Nat \ {0}
    /\ MaxLoops \in Nat \ {0}
    /\ MaxLosses \in Nat
    /\ MaxFaults \in Nat
  BY FolderTransferAssumption

LEMMA SeqOfLarger ==
    ASSUME NEW S, NEW T, S \subseteq T, NEW s \in Seq(S)
    PROVE  s \in Seq(T)
<1>1. Len(s) \in Nat /\ s \in [1 .. Len(s) -> S]
  BY LenProperties
<1>2. s \in [1 .. Len(s) -> T]
  BY <1>1
<1> QED
  BY <1>1, <1>2, SeqDef

\* What a message taken and a message sent leave.
LEMMA Taken ==
    ASSUME NEW S, NEW s \in Seq(S), s # <<>>
    PROVE  Head(s) \in S /\ Tail(s) \in Seq(S)
  BY HeadTailProperties

LEMMA SentOn ==
    ASSUME NEW S, NEW s \in Seq(S), NEW m \in S
    PROVE  /\ s \o <<m>> \in Seq(S)
           /\ s \o <<>> \in Seq(S)
           /\ Append(s, m) \in Seq(S)
<1>1. <<m>> \in Seq(S) /\ <<>> \in Seq(S)
  OBVIOUS
<1> QED
  BY <1>1, ConcatProperties, AppendProperties

\* A set of numbers that is not empty has a least member.
LEMMA LeastMember ==
    ASSUME NEW T \in SUBSET Nat, T # {}
    PROVE  \E least \in T : \A n \in T : least <= n
<1> DEFINE R == {pair \in Nat \X Nat : pair[1] < pair[2]}
<1>1. IsWellFoundedOn(R, Nat)
  BY NatLessThanWellFounded DEF OpToRel
<1>2. PICK least \in T : \A n \in T : <<n, least>> \notin R
  <2> HIDE DEF R
  <2> QED
    BY <1>1, WFMin
<1>3. ASSUME NEW n \in T
      PROVE  least <= n
  <2>1. <<n, least>> \in Nat \X Nat /\ <<n, least>> \notin R
    BY <1>2
  <2>2. ~ (n < least)
    BY <2>1
  <2> QED
    BY <2>2
<1> QED
  BY <1>3

\* The block of a loop that has blocks to do.
LEMMA BlockToDo ==
    ASSUME NEW loop \in Loop, loop.todo # {}
    PROVE  Block(loop) \in loop.todo /\ Block(loop) \in Blocks
<1>1. loop.todo \subseteq Blocks
  BY DEF Loop
<1>2. loop.todo \in SUBSET Nat
  BY <1>1, ConstantFacts DEF Blocks
<1>3. \E b \in loop.todo : \A c \in loop.todo : b <= c
  BY <1>2, LeastMember
<1>4. Block(loop) \in loop.todo
  BY <1>3 DEF Block
<1> QED
  BY <1>1, <1>4

-----------------------------------------------------------------------------
(* The operators on the sender.                                              *)

Started(s) == \E i \in LoopId : s.loops[i].pc # "none"

\* A piece of the sender that starts no loop, makes no reference and reports
\* no delivery.
Keeps(s, t) ==
    /\ SenderOK(t)
    /\ t.reference = s.reference
    /\ t.state = "DELIVERED" => s.state = "DELIVERED"
    /\ Started(t) => Started(s)

LEMMA KeepsTwice ==
    ASSUME NEW s, NEW t, NEW u, Keeps(s, t), Keeps(t, u)
    PROVE  Keeps(s, u)
  BY DEF Keeps

LEMMA NoLoopIsOne == NoLoop \in Loop /\ LoopShape(NoLoop) /\ NoLoop.pc = "none"
  BY ConstantFacts DEF NoLoop, Loop, LoopShape

\* Every field of a sender.
LEMMA SenderFields ==
    ASSUME NEW s \in Sender
    PROVE  /\ s.state \in State
           /\ s.cancelled \in BOOLEAN
           /\ s.reference \in References
           /\ s.offers \in Nat
           /\ s.have \in SUBSET Blocks
           /\ s.known \in SUBSET Blocks
           /\ s.sending \in BOOLEAN
           /\ s.loops \in [LoopId -> Loop]
           /\ \A i \in LoopId : s.loops[i] \in Loop
  BY DEF Sender

LEMMA KeptAsIs ==
    ASSUME NEW s, SenderOK(s)
    PROVE  Keeps(s, s)
  BY DEF Keeps, SenderOK, Started

LEMMA StateChanges ==
    ASSUME NEW s, SenderOK(s), NEW state \in State, state # "DELIVERED"
    PROVE  /\ Keeps(s, [s EXCEPT !.state = state])
           /\ [s EXCEPT !.state = state].loops = s.loops
           /\ [s EXCEPT !.state = state].state = state
           /\ [s EXCEPT !.state = state].have = s.have
<1>1. s \in Sender
  BY DEF SenderOK
<1>2. /\ [s EXCEPT !.state = state] \in Sender
      /\ [s EXCEPT !.state = state].loops = s.loops
      /\ [s EXCEPT !.state = state].reference = s.reference
      /\ [s EXCEPT !.state = state].state = state
      /\ [s EXCEPT !.state = state].have = s.have
  BY <1>1 DEF Sender
<1> QED
  BY <1>2 DEF Keeps, SenderOK, Started

LEMMA SetChanges ==
    ASSUME NEW s, SenderOK(s), NEW set \in SUBSET Blocks
    PROVE  /\ Keeps(s, [s EXCEPT !.have = set])
           /\ Keeps(s, [s EXCEPT !.known = set])
           /\ [s EXCEPT !.have = set].loops = s.loops
           /\ [s EXCEPT !.known = set].loops = s.loops
<1>1. s \in Sender
  BY DEF SenderOK
<1>2. [s EXCEPT !.have = set] \in Sender /\ [s EXCEPT !.known = set] \in Sender
  BY <1>1 DEF Sender
<1>3. /\ [s EXCEPT !.have = set].loops = s.loops
      /\ [s EXCEPT !.have = set].reference = s.reference
      /\ [s EXCEPT !.have = set].state = s.state
      /\ [s EXCEPT !.known = set].loops = s.loops
      /\ [s EXCEPT !.known = set].reference = s.reference
      /\ [s EXCEPT !.known = set].state = s.state
  BY <1>1 DEF Sender
<1> QED
  BY <1>2, <1>3 DEF Keeps, SenderOK, Started

LEMMA SendingChanges ==
    ASSUME NEW s, SenderOK(s), NEW on \in BOOLEAN
    PROVE  /\ Keeps(s, [s EXCEPT !.sending = on])
           /\ [s EXCEPT !.sending = on].loops = s.loops
           /\ [s EXCEPT !.sending = on].reference = s.reference
           /\ [s EXCEPT !.sending = on].state = s.state
<1>1. s \in Sender
  BY DEF SenderOK
<1>2. /\ [s EXCEPT !.sending = on] \in Sender
      /\ [s EXCEPT !.sending = on].loops = s.loops
      /\ [s EXCEPT !.sending = on].reference = s.reference
      /\ [s EXCEPT !.sending = on].state = s.state
  BY <1>1 DEF Sender
<1> QED
  BY <1>2 DEF Keeps, SenderOK, Started

LEMMA OffersChange ==
    ASSUME NEW s, SenderOK(s), NEW n \in Nat
    PROVE  Keeps(s, [s EXCEPT !.offers = n])
<1>1. s \in Sender
  BY DEF SenderOK
<1>2. /\ [s EXCEPT !.offers = n] \in Sender
      /\ [s EXCEPT !.offers = n].loops = s.loops
      /\ [s EXCEPT !.offers = n].reference = s.reference
      /\ [s EXCEPT !.offers = n].state = s.state
  BY <1>1 DEF Sender
<1> QED
  BY <1>2 DEF Keeps, SenderOK, Started

LEMMA LoopsChange ==
    ASSUME NEW s, SenderOK(s), NEW loops \in [LoopId -> Loop],
           \A i \in LoopId : LoopShape(loops[i]),
           (\E i \in LoopId : loops[i].pc # "none") => Started(s)
    PROVE  /\ Keeps(s, [s EXCEPT !.loops = loops])
           /\ [s EXCEPT !.loops = loops].loops = loops
           /\ [s EXCEPT !.loops = loops].state = s.state
           /\ [s EXCEPT !.loops = loops].sending = s.sending
<1> DEFINE t == [s EXCEPT !.loops = loops]
<1>1. s \in Sender
  BY DEF SenderOK
<1>2. t \in Sender /\ t.loops = loops
  BY <1>1 DEF Sender
<1>3. t.reference = s.reference /\ t.state = s.state /\ t.sending = s.sending
  BY <1>1 DEF Sender
<1> HIDE DEF t
<1>4. Keeps(s, t)
  BY <1>2, <1>3 DEF Keeps, SenderOK, Started
<1> QED
  BY <1>2, <1>3, <1>4 DEF t

LEMMA LoopChanges ==
    ASSUME NEW s, SenderOK(s), NEW i \in LoopId, NEW loop \in Loop, LoopShape(loop),
           loop.pc # "none" => Started(s)
    PROVE  /\ Keeps(s, [s EXCEPT !.loops[i] = loop])
           /\ [s EXCEPT !.loops[i] = loop].loops = [s.loops EXCEPT ![i] = loop]
           /\ [s EXCEPT !.loops[i] = loop].state = s.state
<1> DEFINE loops == [s.loops EXCEPT ![i] = loop]
<1>1. s.loops \in [LoopId -> Loop] /\ \A j \in LoopId : LoopShape(s.loops[j])
  BY SenderFields DEF SenderOK
<1>2. /\ loops \in [LoopId -> Loop]
      /\ \A j \in LoopId : loops[j] = IF j = i THEN loop ELSE s.loops[j]
  BY <1>1
<1>3. [s EXCEPT !.loops[i] = loop] = [s EXCEPT !.loops = loops]
  BY DEF SenderOK, Sender
<1> HIDE DEF loops
<1>4. (\E j \in LoopId : loops[j].pc # "none") => Started(s)
  BY <1>2 DEF Started
<1>5. \A j \in LoopId : LoopShape(loops[j])
  BY <1>1, <1>2
<1> QED
  BY <1>2, <1>3, <1>4, <1>5, LoopsChange DEF loops

LEMMA InterruptedKeeps ==
    ASSUME NEW s, SenderOK(s)
    PROVE  Keeps(s, InterruptedSender(s))
<1> DEFINE loops == [i \in LoopId |-> InterruptedLoop(s.loops[i])]
           t == [s EXCEPT !.state = "RECONNECTING"]
           u == [t EXCEPT !.sending = FALSE]
<1>1. s \in Sender /\ \A i \in LoopId : s.loops[i] \in Loop /\ LoopShape(s.loops[i])
  BY SenderFields DEF SenderOK
<1>2. ASSUME NEW i \in LoopId
      PROVE  /\ InterruptedLoop(s.loops[i]) \in Loop
             /\ LoopShape(InterruptedLoop(s.loops[i]))
             /\ InterruptedLoop(s.loops[i]).pc # "none" => s.loops[i].pc # "none"
  <2> DEFINE loop == s.loops[i]
             late == [loop EXCEPT !.stale = TRUE]
  <2>1. loop \in Loop /\ LoopShape(loop)
    BY <1>1
  <2> HIDE DEF loop
  <2>2. late \in Loop /\ late.pc = loop.pc /\ late.todo = loop.todo /\ late.frame = loop.frame
    BY <2>1 DEF Loop
  <2>3. LoopShape(late)
    BY <2>1, <2>2 DEF LoopShape
  <2>4. InterruptedLoop(loop) = IF loop.pc \in {"none", "ready", "ack"} THEN NoLoop ELSE late
    BY DEF InterruptedLoop
  <2>5. CASE loop.pc \in {"none", "ready", "ack"}
    BY <2>4, <2>5, NoLoopIsOne DEF loop
  <2>6. CASE loop.pc \notin {"none", "ready", "ack"}
    BY <2>2, <2>3, <2>4, <2>6 DEF loop
  <2> QED
    BY <2>5, <2>6
<1>3. /\ loops \in [LoopId -> Loop]
      /\ \A i \in LoopId : LoopShape(loops[i]) /\ (loops[i].pc # "none" => s.loops[i].pc # "none")
  BY <1>2
<1>4. Keeps(s, t)
  BY StateChanges DEF State
<1>5. SenderOK(t)
  BY <1>4 DEF Keeps
<1>6. Keeps(t, u)
  <2> HIDE DEF t
  <2> QED
    BY <1>5, SendingChanges
<1>7. Keeps(s, u)
  BY <1>4, <1>6, KeepsTwice
<1>8. SenderOK(u) /\ u.loops = s.loops
  <2>1. u.loops = s.loops
    BY <1>1 DEF Sender
  <2> QED
    BY <1>7, <2>1 DEF Keeps
<1>9. [s EXCEPT !.state = "RECONNECTING", !.sending = FALSE, !.loops = loops]
        = [u EXCEPT !.loops = loops]
  BY <1>1 DEF Sender
<1> HIDE DEF loops, u
<1>10. (\E i \in LoopId : loops[i].pc # "none") => Started(u)
  BY <1>3, <1>8 DEF Started
<1>11. Keeps(u, [u EXCEPT !.loops = loops])
  BY <1>3, <1>8, <1>10, LoopsChange
<1>12. Keeps(s, [u EXCEPT !.loops = loops])
  BY <1>7, <1>11, KeepsTwice
<1>13. Keeps(s, s)
  BY KeptAsIs
<1> QED
  BY <1>9, <1>12, <1>13 DEF InterruptedSender, loops

LEMMA FailedKeeps ==
    ASSUME NEW s, SenderOK(s)
    PROVE  Keeps(s, Failed(s)) /\ Keeps(s, Sent(s))
<1>1. Keeps(s, Sent(s))
  BY InterruptedKeeps, KeptAsIs DEF Sent
<1>2. /\ Failed(s) \in Sender
      /\ Failed(s).loops = s.loops
      /\ Failed(s).reference = s.reference
      /\ Failed(s).state = "DELIVERED" => s.state = "DELIVERED"
  <2>1. s \in Sender
    BY DEF SenderOK
  <2> QED
    BY <2>1 DEF Failed, Sender, State
<1>3. Keeps(s, Failed(s))
  BY <1>2 DEF Keeps, SenderOK, Started
<1> QED
  BY <1>1, <1>3

LEMMA EndedKeeps ==
    ASSUME SenderOK(snd), NEW s, SenderOK(s), NEW i \in LoopId
    PROVE  Keeps(s, Ended(s, i))
<1> DEFINE t == [s EXCEPT !.loops[i] = NoLoop]
           on == IF snd.loops[i].stale THEN s.sending ELSE FALSE
<1>1. Keeps(s, t) /\ t.loops = [s.loops EXCEPT ![i] = NoLoop]
  BY LoopChanges, NoLoopIsOne
<1>2. SenderOK(t)
  BY <1>1 DEF Keeps
<1>3. on \in BOOLEAN
  BY SenderFields DEF SenderOK
<1>4. Ended(s, i) = [t EXCEPT !.sending = on]
  <2>1. s \in Sender
    BY DEF SenderOK
  <2> QED
    BY <2>1 DEF Ended, Sender
<1> HIDE DEF t, on
<1>5. Keeps(t, [t EXCEPT !.sending = on])
  BY <1>2, <1>3, SendingChanges
<1> QED
  BY <1>1, <1>4, <1>5, KeepsTwice

-----------------------------------------------------------------------------
(* The sender's steps.                                                       *)

SenderReadyToStep ==
    /\ SenderOK(snd)
    /\ toReceiver \in Seq(FromSender)
    /\ Started(snd) => rcv.record = "full"

SenderStepped == Keeps(snd, snd') /\ toReceiver' \in Seq(FromSender)

\* What the sender says that is not about a block.
LEMMA Sayable ==
    /\ \A type \in {"accept", "manifest", "root", "delivered", "fail"} :
         Of(type) \in Control /\ Of(type).type = type
    /\ \A reference \in References :
         [type |-> "offer", reference |-> reference] \in FromSender
    /\ Of("manifest") \in FromSender /\ Of("root") \in FromSender
    /\ [type |-> "fail"] \in FromSender
    /\ Of("accept") \in FromReceiver /\ [type |-> "fail"] \in FromReceiver
    /\ \A b \in Blocks, type \in {"ready", "committed", "nack"} :
         About(type, b) \in FromReceiver
  BY DEF Of, About, Control, FromSender, FromReceiver

LEMMA Says ==
    ASSUME toReceiver \in Seq(FromSender), NEW m \in FromSender,
           \/ ToReceiver(<<m>>)
           \/ ToReceiver(<<>>)
           \/ UNCHANGED toReceiver
    PROVE  toReceiver' \in Seq(FromSender)
<1>1. toReceiver \o <<m>> \in Seq(FromSender) /\ toReceiver \o <<>> \in Seq(FromSender)
  BY SentOn
<1> QED
  BY <1>1 DEF ToReceiver

LEMMA SenderFailing ==
    ASSUME SenderReadyToStep, NEW s, Keeps(snd, s), SenderFails(s)
    PROVE  SenderStepped
<1>1. Keeps(s, Failed(s))
  BY FailedKeeps DEF Keeps
<1>2. Keeps(snd, snd')
  BY <1>1, KeepsTwice DEF SenderFails
<1>3. Failure(s) = <<>> \/ Failure(s) = <<[type |-> "fail"]>>
  BY DEF Failure
<1>4. toReceiver' \in Seq(FromSender)
  BY <1>3, Says, Sayable DEF SenderFails, SenderReadyToStep
<1> QED
  BY <1>2, <1>4 DEF SenderStepped

LEMMA Proceeding ==
    ASSUME SenderReadyToStep, NEW s, Keeps(snd, s), Started(s),
           NEW i \in LoopId, NEW todo \in SUBSET Blocks, NEW retries \in 0 .. 3,
           Proceeds(s, i, todo, retries)
    PROVE  SenderStepped
<1> DEFINE loop == [NoLoop EXCEPT !.pc = "read", !.todo = todo, !.retries = retries]
<1>1. SenderOK(snd) /\ SenderOK(s)
  BY DEF SenderReadyToStep, Keeps
<1>2. Keeps(snd, Ended(s, i)) /\ Keeps(snd, Sent(Ended(s, i)))
  <2>1. Keeps(s, Ended(s, i))
    BY <1>1, EndedKeeps
  <2>2. Keeps(Ended(s, i), Sent(Ended(s, i)))
    BY <2>1, FailedKeeps DEF Keeps
  <2> QED
    BY <2>1, <2>2, KeepsTwice
<1>3. ASSUME todo # {}
      PROVE  Keeps(snd, [s EXCEPT !.loops[i] = loop])
  <2>1. loop \in Loop /\ loop.pc = "read" /\ loop.todo = todo /\ loop.frame = 0
    BY NoLoopIsOne DEF Loop, NoLoop
  <2>2. LoopShape(loop)
    BY <1>3, <2>1, ConstantFacts DEF LoopShape
  <2> HIDE DEF loop
  <2>3. Keeps(s, [s EXCEPT !.loops[i] = loop])
    BY <1>1, <2>1, <2>2, LoopChanges
  <2> QED
    BY <2>3, KeepsTwice
<1>4. Keeps(snd, snd')
  BY <1>2, <1>3 DEF Proceeds
<1>5. toReceiver' \in Seq(FromSender)
  BY Says, Sayable DEF Proceeds, SenderReadyToStep
<1> QED
  BY <1>4, <1>5 DEF SenderStepped

LEMMA Throwing ==
    ASSUME SenderReadyToStep, NEW i \in LoopId, Throws(i)
    PROVE  SenderStepped
<1>1. Keeps(snd, Ended(snd, i))
  BY EndedKeeps DEF SenderReadyToStep
<1>2. Keeps(snd, InterruptedSender(Ended(snd, i)))
  BY <1>1, InterruptedKeeps, KeepsTwice DEF Keeps
<1>3. CASE snd.state = "RECONNECTING"
  <2>1. UNCHANGED toReceiver /\ snd' \in {Ended(snd, i), InterruptedSender(Ended(snd, i))}
    BY <1>3 DEF Throws
  <2> QED
    BY <1>1, <1>2, <2>1 DEF SenderStepped, SenderReadyToStep
<1>4. CASE snd.state # "RECONNECTING"
  <2>1. SenderFails(Ended(snd, i))
    BY <1>4 DEF Throws
  <2> QED
    BY <1>1, <2>1, SenderFailing
<1> QED
  BY <1>3, <1>4

LEMMA Deciding ==
    ASSUME SenderReadyToStep, NEW s, Keeps(snd, s), NEW i \in LoopId,
           s.loops[i].pc = "ack", NEW outcome \in {"committed", "nack"},
           Decide(s, i, outcome)
    PROVE  SenderStepped
<1> DEFINE loop == s.loops[i]
<1>1. SenderOK(snd) /\ SenderOK(s)
  BY DEF SenderReadyToStep, Keeps
<1>2. loop \in Loop /\ LoopShape(loop) /\ Started(s)
  BY <1>1, SenderFields DEF SenderOK, Started
<1>3. loop.todo \in SUBSET Blocks /\ loop.retries \in 0 .. 3
  BY <1>2 DEF Loop
<1>4. CASE outcome = "committed"
  <2>1. Proceeds(s, i, loop.todo \ {Block(loop)}, 0)
    BY <1>4 DEF Decide
  <2> QED
    BY <1>2, <1>3, <2>1, Proceeding
<1>5. CASE outcome # "committed" /\ loop.retries = 3
  <2>1. SenderFails(Ended(s, i))
    BY <1>5 DEF Decide
  <2>2. Keeps(snd, Ended(s, i))
    BY <1>1, EndedKeeps, KeepsTwice
  <2> QED
    BY <2>1, <2>2, SenderFailing
<1>6. CASE outcome # "committed" /\ loop.retries # 3
  <2>1. Proceeds(s, i, loop.todo, loop.retries + 1)
    BY <1>6 DEF Decide
  <2>2. loop.retries + 1 \in 0 .. 3
    BY <1>3, <1>6
  <2> QED
    BY <1>2, <1>3, <2>1, <2>2, Proceeding
<1> QED
  BY <1>4, <1>5, <1>6

LEMMA OfferSteps ==
    ASSUME SenderReadyToStep, OfferSent \/ OfferFails \/ CancelSender
    PROVE  SenderStepped
<1>1. SenderOK(snd) /\ snd.offers \in Nat /\ snd.reference \in References
  BY SenderFields DEF SenderReadyToStep, SenderOK
<1>2. CASE OfferSent \/ OfferFails
  <2> DEFINE s == [snd EXCEPT !.offers = @ - 1]
  <2>1. snd.offers > 0
    BY <1>2 DEF OfferSent, OfferFails
  <2>2. snd.offers - 1 \in Nat
    BY <1>1, <2>1
  <2>3. Keeps(snd, s)
    <3>1. s = [snd EXCEPT !.offers = snd.offers - 1]
      BY <1>1 DEF SenderOK, Sender
    <3>2. Keeps(snd, [snd EXCEPT !.offers = snd.offers - 1])
      BY <1>1, <2>2, OffersChange
    <3> QED
      BY <3>1, <3>2
  <2> HIDE DEF s
  <2>4. CASE OfferSent
    <3>1. snd' = Sent(s) /\ ToReceiver(<<[type |-> "offer", reference |-> snd.reference]>>)
      BY <2>4 DEF OfferSent, s
    <3>2. Keeps(snd, Sent(s))
      BY <2>3, FailedKeeps, KeepsTwice DEF Keeps
    <3>3. toReceiver' \in Seq(FromSender)
      BY <1>1, <3>1, Says, Sayable DEF SenderReadyToStep
    <3> QED
      BY <3>1, <3>2, <3>3 DEF SenderStepped
  <2>5. CASE OfferFails
    BY <2>3, <2>5, SenderFailing DEF OfferFails, s
  <2> QED
    BY <1>2, <2>4, <2>5
<1>3. CASE CancelSender
  <2>1. /\ snd' = [snd EXCEPT !.cancelled = TRUE, !.state = "CANCELLED"]
        /\ UNCHANGED toReceiver
    BY <1>3 DEF CancelSender, wires
  <2>2. /\ snd' \in Sender
        /\ snd'.loops = snd.loops
        /\ snd'.reference = snd.reference
        /\ snd'.state # "DELIVERED"
    BY <1>1, <2>1 DEF SenderOK, Sender, State
  <2>3. Keeps(snd, snd')
    BY <1>1, <2>2 DEF Keeps, SenderOK, Started
  <2> QED
    BY <2>1, <2>3 DEF SenderStepped, SenderReadyToStep
<1> QED
  BY <1>2, <1>3

LEMMA CheckAndRead ==
    ASSUME SenderReadyToStep, NEW i \in LoopId, CheckEnds(i) \/ ReadEnds(i) \/ SourceFails(i)
    PROVE  SenderStepped
<1>1. SenderOK(snd) /\ snd.loops[i] \in Loop /\ LoopShape(snd.loops[i]) /\ Started(snd)
  <2>1. SenderOK(snd) /\ snd.loops[i] \in Loop /\ LoopShape(snd.loops[i])
    BY SenderFields DEF SenderReadyToStep, SenderOK
  <2>2. snd.loops[i].pc # "none"
    BY DEF CheckEnds, ReadEnds, SourceFails
  <2> QED
    BY <2>1, <2>2 DEF Started
<1>2. CASE CheckEnds(i)
  <2> DEFINE s == [snd EXCEPT !.state = "SENDING"]
  <2>1. Keeps(snd, s) /\ s.loops = snd.loops
    <3>1. "SENDING" \in State
      BY DEF State
    <3> QED
      BY <1>1, <3>1, StateChanges
  <2>2. Started(s)
    BY <1>1, <2>1 DEF Started
  <2>3. Proceeds(s, i, Blocks \ snd.have, 0)
    BY <1>2 DEF CheckEnds
  <2> HIDE DEF s
  <2>4. 0 \in 0 .. 3
    OBVIOUS
  <2> QED
    BY <2>1, <2>2, <2>3, <2>4, Proceeding
<1>3. CASE ReadEnds(i) /\ snd.loops[i].stale
  <2>1. snd' = Ended(snd, i) /\ UNCHANGED toReceiver
    BY <1>3 DEF ReadEnds
  <2> QED
    BY <1>1, <2>1, EndedKeeps DEF SenderStepped, SenderReadyToStep
<1>4. CASE ReadEnds(i) /\ ~snd.loops[i].stale
  <2> DEFINE loop == [snd.loops[i] EXCEPT !.pc = "ready"]
             m == About("digest", Block(snd.loops[i]))
  <2>1. /\ snd.loops[i].pc = "read"
        /\ snd' = Sent([snd EXCEPT !.loops[i].pc = "ready"])
        /\ ToReceiver(<<m>>)
    BY <1>4 DEF ReadEnds
  <2>2. snd.loops[i].todo # {} /\ snd.loops[i].frame = 0
    BY <1>1, <2>1 DEF LoopShape
  <2>3. loop \in Loop /\ loop.pc = "ready" /\ loop.todo # {} /\ loop.frame = 0
    BY <1>1, <2>2 DEF Loop
  <2>4. LoopShape(loop)
    BY <2>3, ConstantFacts DEF LoopShape
  <2>5. [snd EXCEPT !.loops[i].pc = "ready"] = [snd EXCEPT !.loops[i] = loop]
    BY <1>1 DEF SenderOK, Sender
  <2>6. Keeps(snd, [snd EXCEPT !.loops[i] = loop])
    <3> HIDE DEF loop
    <3> QED
      BY <1>1, <2>3, <2>4, LoopChanges
  <2>7. Keeps(snd, Sent([snd EXCEPT !.loops[i] = loop]))
    <3> DEFINE t == [snd EXCEPT !.loops[i] = loop]
    <3>1. Keeps(snd, t)
      BY <2>6
    <3> HIDE DEF t
    <3>2. Keeps(t, Sent(t))
      BY <3>1, FailedKeeps DEF Keeps
    <3>3. Keeps(snd, Sent(t))
      BY <3>1, <3>2, KeepsTwice
    <3> QED
      BY <3>3 DEF t
  <2>8. m \in FromSender
    <3>1. Block(snd.loops[i]) \in Blocks
      BY <1>1, <2>2, BlockToDo
    <3>2. rcv.record = "full"
      BY <1>1 DEF SenderReadyToStep
    <3> QED
      BY <3>1, <3>2 DEF FromSender, Control, About
  <2>9. toReceiver' \in Seq(FromSender)
    <3> HIDE DEF m
    <3> QED
      BY <2>1, <2>8, Says DEF SenderReadyToStep
  <2> QED
    BY <2>1, <2>5, <2>7, <2>9 DEF SenderStepped
<1>5. CASE SourceFails(i)
  BY <1>5, Throwing DEF SourceFails
<1> QED
  BY <1>2, <1>3, <1>4, <1>5

LEMMA Draining ==
    ASSUME SenderReadyToStep, frames \in Seq(Frame), NEW i \in LoopId, DrainEnds(i)
    PROVE  SenderStepped /\ frames' \in Seq(Frame)
<1> DEFINE loop == snd.loops[i]
           pc == IF loop.frame = FrameCount - 1 THEN "ack" ELSE "drain"
           later == [loop EXCEPT !.frame = @ + 1, !.pc = pc]
           next == [snd EXCEPT !.loops[i].frame = @ + 1, !.loops[i].pc = pc]
<1>1. SenderOK(snd) /\ loop \in Loop /\ LoopShape(loop) /\ snd.reference \in References
  BY SenderFields DEF SenderReadyToStep, SenderOK
<1>2. loop.pc = "drain" /\ Started(snd)
  BY DEF DrainEnds, Started
<1>3. /\ loop.todo # {} /\ loop.frame < FrameCount
      /\ loop.frame \in 0 .. FrameCount /\ loop.outcome \in {"none", "committed", "nack"}
  BY <1>1, <1>2 DEF LoopShape, Loop
<1>4. Block(loop) \in Blocks
  BY <1>1, <1>3, BlockToDo
<1>5. CASE loop.stale
  <2>1. snd' = Ended(snd, i) /\ UNCHANGED <<toReceiver, frames>>
    BY <1>5 DEF DrainEnds
  <2> QED
    BY <1>1, <2>1, EndedKeeps DEF SenderStepped, SenderReadyToStep
<1>6. CASE ~loop.stale
  <2>1. /\ \/ frames' = frames
           \/ \E content \in {"good", "bad"} :
                frames' = Append(frames, [ reference |-> snd.reference,
                                           block |-> Block(loop),
                                           index |-> loop.frame,
                                           content |-> content ])
        /\ IF next.loops[i].pc = "ack" /\ loop.outcome # "none"
           THEN Decide(next, i, loop.outcome)
           ELSE snd' = next /\ UNCHANGED toReceiver
    BY <1>6 DEF DrainEnds
  <2>2. frames' \in Seq(Frame)
    <3>1. loop.frame \in 0 .. FrameCount - 1
      BY <1>3, ConstantFacts
    <3>2. ASSUME NEW content \in {"good", "bad"}
          PROVE  [ reference |-> snd.reference, block |-> Block(loop),
                   index |-> loop.frame, content |-> content ] \in Frame
      BY <1>1, <1>4, <3>1 DEF Frame, Payload
    <3> QED
      BY <2>1, <3>2, AppendProperties
  <2>3. later \in Loop /\ LoopShape(later) /\ later.pc = pc
    <3>1. loop.frame + 1 \in 0 .. FrameCount
      BY <1>3, ConstantFacts
    <3>2. pc \in {"ack", "drain"} /\ (pc = "drain" => loop.frame + 1 < FrameCount)
      BY <1>3, ConstantFacts
    <3>3. /\ later \in Loop /\ later.pc = pc /\ later.todo = loop.todo
          /\ later.frame = loop.frame + 1
      <4> HIDE DEF pc
      <4> QED
        BY <1>1, <3>1, <3>2 DEF Loop
    <3> QED
      BY <1>3, <3>2, <3>3 DEF LoopShape
  <2>4. next = [snd EXCEPT !.loops[i] = later]
    BY <1>1 DEF SenderOK, Sender, Loop
  <2>5. Keeps(snd, next) /\ next.loops = [snd.loops EXCEPT ![i] = later]
    <3>1. /\ Keeps(snd, [snd EXCEPT !.loops[i] = later])
          /\ [snd EXCEPT !.loops[i] = later].loops = [snd.loops EXCEPT ![i] = later]
      <4> HIDE DEF later
      <4> QED
        BY <1>1, <1>2, <2>3, LoopChanges
    <3> QED
      BY <2>4, <3>1
  <2>6. SenderStepped
    <3> HIDE DEF next, later
    <3>1. CASE next.loops[i].pc = "ack" /\ loop.outcome # "none"
      <4>1. Decide(next, i, loop.outcome) /\ loop.outcome \in {"committed", "nack"}
        BY <1>3, <2>1, <3>1
      <4> HIDE DEF loop
      <4> QED
        BY <2>5, <3>1, <4>1, Deciding
    <3>2. CASE ~(next.loops[i].pc = "ack" /\ loop.outcome # "none")
      BY <2>1, <2>5, <3>2 DEF SenderStepped, SenderReadyToStep
    <3> QED
      BY <3>1, <3>2
  <2> QED
    BY <2>2, <2>6
<1> QED
  BY <1>5, <1>6

LEMMA Hearing ==
    ASSUME SenderReadyToStep, toSender \in Seq(FromReceiver),
           SenderAccept \/ SenderReady \/ SenderToldFailed
    PROVE  SenderStepped
<1>1. SenderOK(snd)
  BY DEF SenderReadyToStep
<1>2. CASE SenderAccept
  <2>1. snd' = Sent(snd) /\ ToReceiver(<<Of("manifest")>>)
    BY <1>2 DEF SenderAccept
  <2> QED
    BY <1>1, <2>1, FailedKeeps, Says, Sayable DEF SenderStepped, SenderReadyToStep
<1>3. CASE SenderReady
  <2> DEFINE waiting == {i \in Current({"ready"}) : Block(snd.loops[i]) = Head(toSender).block}
             loops == [i \in LoopId |->
                         IF i \in waiting THEN [snd.loops[i] EXCEPT !.pc = "drain"]
                         ELSE snd.loops[i]]
  <2>1. snd' = [snd EXCEPT !.loops = loops] /\ UNCHANGED toReceiver
    BY <1>3 DEF SenderReady
  <2>2. ASSUME NEW i \in LoopId
        PROVE  /\ loops[i] \in Loop /\ LoopShape(loops[i])
               /\ loops[i].pc # "none" => snd.loops[i].pc # "none"
    <3>1. snd.loops[i] \in Loop /\ LoopShape(snd.loops[i])
      BY <1>1, SenderFields DEF SenderOK
    <3>2. CASE i \in waiting
      <4> DEFINE loop == [snd.loops[i] EXCEPT !.pc = "drain"]
      <4>1. snd.loops[i].pc = "ready"
        BY <3>2 DEF Current
      <4>2. /\ loop \in Loop /\ loop.pc = "drain" /\ loop.todo = snd.loops[i].todo
            /\ loop.frame = snd.loops[i].frame
        BY <3>1 DEF Loop
      <4>3. LoopShape(loop)
        BY <3>1, <4>1, <4>2, ConstantFacts DEF LoopShape
      <4> QED
        BY <3>2, <4>1, <4>2, <4>3
    <3>3. CASE i \notin waiting
      BY <3>1, <3>3
    <3> QED
      BY <3>2, <3>3
  <2>3. loops \in [LoopId -> Loop] /\ \A i \in LoopId : LoopShape(loops[i])
    BY <2>2
  <2>4. (\E i \in LoopId : loops[i].pc # "none") => Started(snd)
    BY <2>2 DEF Started
  <2> HIDE DEF loops
  <2>5. Keeps(snd, snd')
    BY <1>1, <2>1, <2>3, <2>4, LoopsChange
  <2> QED
    BY <2>1, <2>5 DEF SenderStepped, SenderReadyToStep
<1>4. CASE SenderToldFailed
  BY <1>1, <1>4, KeptAsIs, SenderFailing DEF SenderToldFailed
<1> QED
  BY <1>2, <1>3, <1>4

LEMMA HearingOutcome ==
    ASSUME SenderReadyToStep, toSender \in Seq(FromReceiver), SenderOutcome
    PROVE  SenderStepped
<1> DEFINE b == Head(toSender).block
           Waiting(pc) == {i \in Current({pc}) : Block(snd.loops[i]) = b}
<1>1. PICK outcome \in {"committed", "nack"} :
        /\ SenderTakes(outcome)
        /\ LET s == IF outcome = "committed" THEN [snd EXCEPT !.known = @ \cup {b}]
                    ELSE snd
           IN  IF Waiting("ack") # {}
               THEN \E i \in Waiting("ack") : Decide(s, i, outcome)
               ELSE /\ snd' = [s EXCEPT !.loops = [i \in LoopId |->
                                 IF i \in Waiting("drain") /\ s.loops[i].outcome = "none"
                                 THEN [s.loops[i] EXCEPT !.outcome = outcome]
                                 ELSE s.loops[i]]]
                    /\ UNCHANGED toReceiver
  BY DEF SenderOutcome
<1> DEFINE s == IF outcome = "committed" THEN [snd EXCEPT !.known = @ \cup {b}] ELSE snd
           loops == [i \in LoopId |->
                       IF i \in Waiting("drain") /\ s.loops[i].outcome = "none"
                       THEN [s.loops[i] EXCEPT !.outcome = outcome]
                       ELSE s.loops[i]]
<1>2. SenderOK(snd) /\ snd \in Sender /\ snd.known \in SUBSET Blocks
  BY SenderFields DEF SenderReadyToStep, SenderOK
<1>3. b \in Blocks
  <2>1. Head(toSender) \in Control /\ Head(toSender).type = outcome
    BY <1>1, Taken DEF SenderTakes, FromReceiver
  <2> QED
    BY <2>1 DEF Control
<1>4. Keeps(snd, s) /\ s.loops = snd.loops
  <2>1. snd.known \cup {b} \in SUBSET Blocks
    BY <1>2, <1>3
  <2> HIDE DEF b
  <2>2. /\ Keeps(snd, [snd EXCEPT !.known = snd.known \cup {b}])
        /\ [snd EXCEPT !.known = snd.known \cup {b}].loops = snd.loops
    BY <1>2, <2>1, SetChanges
  <2>3. [snd EXCEPT !.known = @ \cup {b}] = [snd EXCEPT !.known = snd.known \cup {b}]
    BY <1>2 DEF Sender
  <2> QED
    BY <1>2, <2>2, <2>3, KeptAsIs
<1>5. CASE Waiting("ack") # {}
  <2>1. PICK i \in Waiting("ack") : Decide(s, i, outcome)
    BY <1>1, <1>5
  <2>2. i \in LoopId /\ s.loops[i].pc = "ack"
    BY <1>4, <2>1 DEF Current
  <2> HIDE DEF s
  <2> QED
    BY <1>4, <2>1, <2>2, Deciding
<1>6. CASE Waiting("ack") = {}
  <2>1. snd' = [s EXCEPT !.loops = loops] /\ UNCHANGED toReceiver
    BY <1>1, <1>6
  <2>2. SenderOK(s)
    BY <1>4 DEF Keeps
  <2> HIDE DEF s, Waiting
  <2>3. ASSUME NEW i \in LoopId
        PROVE  /\ loops[i] \in Loop /\ LoopShape(loops[i])
               /\ loops[i].pc = s.loops[i].pc
    <3> DEFINE loop == s.loops[i]
               told == [loop EXCEPT !.outcome = outcome]
    <3>1. loop \in Loop /\ LoopShape(loop)
      BY <2>2, SenderFields DEF SenderOK
    <3> HIDE DEF loop
    <3>2. /\ told \in Loop /\ told.pc = loop.pc /\ told.todo = loop.todo
          /\ told.frame = loop.frame
      BY <3>1 DEF Loop
    <3>3. LoopShape(told)
      BY <3>1, <3>2 DEF LoopShape
    <3>4. loops[i] = told \/ loops[i] = loop
      BY DEF loop
    <3> QED
      BY <3>1, <3>2, <3>3, <3>4 DEF loop
  <2>4. loops \in [LoopId -> Loop] /\ \A i \in LoopId : LoopShape(loops[i])
    BY <2>3
  <2>5. (\E i \in LoopId : loops[i].pc # "none") => Started(s)
    BY <2>3 DEF Started
  <2> HIDE DEF loops
  <2>6. Keeps(s, [s EXCEPT !.loops = loops])
    BY <2>2, <2>4, <2>5, LoopsChange
  <2>7. Keeps(snd, snd')
    BY <1>4, <2>1, <2>6, KeepsTwice
  <2> QED
    BY <2>1, <2>7 DEF SenderStepped, SenderReadyToStep
<1> QED
  BY <1>5, <1>6

\* Every step of the sender but the first offer, HAVE, DELIVERED and the steps
\* of the connection.
SenderMoves ==
    \/ OfferSent \/ OfferFails \/ CancelSender
    \/ \E i \in LoopId : LoopStep(i) \/ SourceFails(i)
    \/ SenderAccept \/ SenderReady \/ SenderOutcome \/ SenderToldFailed

LEMMA SenderMoving ==
    ASSUME SenderReadyToStep, toSender \in Seq(FromReceiver), frames \in Seq(Frame),
           SenderMoves
    PROVE  /\ SenderStepped
           /\ toSender' \in Seq(FromReceiver)
           /\ frames' \in Seq(Frame)
           /\ UNCHANGED <<receiver, network, calm>>
           /\ faults \in 0 .. MaxFaults => faults' \in 0 .. MaxFaults
<1>1. CASE OfferSent \/ OfferFails \/ CancelSender
  <2>1. SenderStepped
    BY <1>1, OfferSteps
  <2>2. /\ UNCHANGED <<toSender, frames, receiver, network, calm>>
        /\ faults' = faults \/ (faults < MaxFaults /\ faults' = faults + 1)
    BY <1>1 DEF OfferSent, OfferFails, CancelSender, wires, Fault
  <2> QED
    BY <2>1, <2>2, ConstantFacts
<1>2. ASSUME NEW i \in LoopId, CheckEnds(i) \/ ReadEnds(i) \/ SourceFails(i)
      PROVE  /\ SenderStepped
             /\ toSender' \in Seq(FromReceiver)
             /\ frames' \in Seq(Frame)
             /\ UNCHANGED <<receiver, network, calm>>
             /\ faults \in 0 .. MaxFaults => faults' \in 0 .. MaxFaults
  <2>1. SenderStepped
    BY <1>2, CheckAndRead
  <2>2. /\ UNCHANGED <<toSender, frames, receiver, network, calm>>
        /\ faults' = faults \/ (faults < MaxFaults /\ faults' = faults + 1)
    BY <1>2 DEF CheckEnds, ReadEnds, SourceFails, Fault
  <2> QED
    BY <2>1, <2>2, ConstantFacts
<1>3. ASSUME NEW i \in LoopId, DrainEnds(i)
      PROVE  /\ SenderStepped
             /\ toSender' \in Seq(FromReceiver)
             /\ frames' \in Seq(Frame)
             /\ UNCHANGED <<receiver, network, calm>>
             /\ faults \in 0 .. MaxFaults => faults' \in 0 .. MaxFaults
  <2>1. SenderStepped /\ frames' \in Seq(Frame)
    BY <1>3, Draining
  <2>2. UNCHANGED <<toSender, receiver, network, calm>>
    BY <1>3 DEF DrainEnds
  <2>3. faults' = faults \/ (faults < MaxFaults /\ faults' = faults + 1)
    BY <1>3 DEF DrainEnds
  <2> QED
    BY <2>1, <2>2, <2>3, ConstantFacts
<1>4. ASSUME NEW i \in LoopId, DrainRejects(i)
      PROVE  /\ SenderStepped
             /\ UNCHANGED <<toSender, frames, receiver, network, calm, faults>>
  BY <1>4, Throwing DEF DrainRejects
<1>5. CASE SenderAccept \/ SenderReady \/ SenderToldFailed
  <2>1. SenderStepped
    BY <1>5, Hearing
  <2>2. UNCHANGED <<frames, receiver, network, calm, faults>>
    BY <1>5 DEF SenderAccept, SenderReady, SenderToldFailed
  <2>3. toSender # <<>> /\ toSender' = Tail(toSender)
    BY <1>5 DEF SenderAccept, SenderReady, SenderToldFailed, SenderTakes
  <2> QED
    BY <2>1, <2>2, <2>3, Taken
<1>6. CASE SenderOutcome
  <2>1. SenderStepped
    BY <1>6, HearingOutcome
  <2>2. UNCHANGED <<frames, receiver, network, calm, faults>>
    BY <1>6 DEF SenderOutcome
  <2>3. toSender # <<>> /\ toSender' = Tail(toSender)
    BY <1>6 DEF SenderOutcome, SenderTakes
  <2> QED
    BY <2>1, <2>2, <2>3, Taken
<1> QED
  BY <1>1, <1>2, <1>3, <1>4, <1>5, <1>6 DEF SenderMoves, LoopStep

\* HAVE starts a loop when none is sending.
LEMMA HearingHave ==
    ASSUME SenderOK(snd), toSender \in Seq(FromReceiver), SenderHave
    PROVE  /\ SenderOK(snd')
           /\ snd'.reference = snd.reference
           /\ snd'.state = snd.state
           /\ rcv.record = "full"
           /\ toSender' \in Seq(FromReceiver)
<1> DEFINE s == [snd EXCEPT !.have = @ \cup Head(toSender).blocks]
           i == CHOOSE i \in LoopId : s.loops[i].pc = "none"
           loop == [NoLoop EXCEPT !.pc = "check"]
<1>1. toSender # <<>> /\ Head(toSender).type = "have" /\ toSender' = Tail(toSender)
  BY DEF SenderHave, SenderTakes
<1>2. Head(toSender) \in FromReceiver /\ toSender' \in Seq(FromReceiver)
  BY <1>1, Taken
<1>3. Head(toSender).blocks \in SUBSET Blocks /\ rcv.record = "full"
  BY <1>1, <1>2 DEF FromReceiver, Control
<1>4. snd \in Sender /\ snd.have \in SUBSET Blocks
  BY SenderFields DEF SenderOK
<1>5. /\ s \in Sender /\ s.loops = snd.loops /\ s.reference = snd.reference
      /\ s.state = snd.state
  BY <1>3, <1>4 DEF Sender
<1>6. SenderOK(s)
  BY <1>5 DEF SenderOK
<1>7. \/ snd' = s
      \/ /\ \E k \in LoopId : s.loops[k].pc = "none"
         /\ snd' = [s EXCEPT !.sending = TRUE, !.loops[i] = loop]
  BY DEF SenderHave
<1>8. ASSUME \E k \in LoopId : s.loops[k].pc = "none",
             snd' = [s EXCEPT !.sending = TRUE, !.loops[i] = loop]
      PROVE  /\ SenderOK(snd') /\ snd'.reference = snd.reference
             /\ snd'.state = snd.state
  <2>1. i \in LoopId
    BY <1>8
  <2>2. loop \in Loop /\ loop.pc = "check" /\ loop.frame = 0
    BY NoLoopIsOne DEF NoLoop, Loop
  <2>3. LoopShape(loop)
    BY <2>2, ConstantFacts DEF LoopShape
  <2> HIDE DEF s, i, loop
  <2> DEFINE loops == [s.loops EXCEPT ![i] = loop]
  <2>4. s.loops \in [LoopId -> Loop] /\ \A j \in LoopId : LoopShape(s.loops[j])
    BY <1>6, SenderFields DEF SenderOK
  <2>5. /\ loops \in [LoopId -> Loop]
        /\ \A j \in LoopId : LoopShape(loops[j])
    BY <2>1, <2>2, <2>3, <2>4
  <2>6. snd' = [s EXCEPT !.sending = TRUE, !.loops = loops]
    BY <1>5, <1>8 DEF Sender
  <2> HIDE DEF loops
  <2>7. /\ snd' \in Sender /\ snd'.loops = loops /\ snd'.reference = s.reference
        /\ snd'.state = s.state
    BY <1>5, <2>5, <2>6 DEF Sender
  <2> QED
    BY <1>5, <2>5, <2>7 DEF SenderOK
<1> QED
  BY <1>2, <1>3, <1>5, <1>6, <1>7, <1>8

-----------------------------------------------------------------------------
(* The receiver.                                                             *)

Ending == [at : {"load", "save", "prepare"}, existing : BOOLEAN]

LEMMA ReceiverFields ==
    ASSUME NEW r \in Receiver
    PROVE  /\ r.state \in State
           /\ r.cancelled \in BOOLEAN
           /\ r.accepted \in BOOLEAN
           /\ r.record \in {"none", "bare", "full"}
           /\ r.committed \in SUBSET Blocks
           /\ r.reference \in References
           /\ r.old \in SUBSET References
           /\ r.block \in [index : 0 .. BlockCount, next : 0 .. FrameCount, good : BOOLEAN]
           /\ r.ends \in Seq(Ending)
           /\ r.closing \in Nat
  BY DEF Receiver, Ending

LEMMA RemovedAt ==
    ASSUME NEW S, NEW s \in Seq(S), NEW n \in 1 .. Len(s)
    PROVE  RemoveAt(s, n) \in Seq(S)
<1>1. Len(s) \in Nat
  BY LenProperties
<1>2. SubSeq(s, 1, n - 1) \in Seq(S) /\ SubSeq(s, n + 1, Len(s)) \in Seq(S)
  BY <1>1, SubSeqProperties
<1> QED
  BY <1>2, ConcatProperties DEF RemoveAt

LEMMA ChangedAt ==
    ASSUME NEW S, NEW s \in Seq(S), NEW n \in 1 .. Len(s), NEW e \in S
    PROVE  [s EXCEPT ![n] = e] \in Seq(S)
  BY ExceptSeq

\* What fail() leaves alone.
LEMMA FailedReceiver ==
    ASSUME NEW r \in Receiver
    PROVE  /\ Failed(r) \in Receiver
           /\ Failed(r).record = r.record
           /\ Failed(r).block = r.block
           /\ Failed(r).committed = r.committed
           /\ Failed(r).ends = r.ends
           /\ Failed(r).closing = r.closing
           /\ Failed(r).state = "DELIVERED" => r.state = "DELIVERED"
  BY DEF Failed, Receiver, State

LEMMA InterruptedFields ==
    ASSUME NEW r \in Receiver
    PROVE  /\ InterruptedReceiver(r) \in Receiver
           /\ InterruptedReceiver(r).record = r.record
           /\ InterruptedReceiver(r).block = r.block
           /\ InterruptedReceiver(r).committed = r.committed
           /\ InterruptedReceiver(r).ends = r.ends
           /\ InterruptedReceiver(r).closing = r.closing
           /\ InterruptedReceiver(r).state = "DELIVERED" => r.state = "DELIVERED"
  BY DEF InterruptedReceiver, Receiver, State

\* A block that is whole stays whole, so the wires keep what they say.
StaysWhole == \A b \in Blocks : Whole(b) => Whole(b)'

LEMMA WiresStay ==
    ASSUME rcv.record = "full" => rcv'.record = "full", StaysWhole
    PROVE  /\ FromSender \subseteq FromSender'
           /\ FromReceiver \subseteq FromReceiver'
           /\ AllWhole => AllWhole'
<1>1. AllWhole => AllWhole'
  BY DEF StaysWhole, AllWhole
<1> QED
  BY <1>1 DEF FromSender, FromReceiver

LEMMA ReceiverFailing ==
    ASSUME NEW r \in Receiver, ReceiverFails(r), toSender \in Seq(FromReceiver)
    PROVE  rcv' = Failed(r) /\ toSender' \in Seq(FromReceiver)
<1>1. /\ rcv' = Failed(r)
      /\ ToSender(Failure(r))
  BY DEF ReceiverFails
<1>2. Failure(r) = <<>> \/ Failure(r) = <<[type |-> "fail"]>>
  BY DEF Failure
<1>3. [type |-> "fail"] \in FromReceiver
  BY Sayable
<1>4. toSender \o <<>> \in Seq(FromReceiver) /\ toSender \o <<[type |-> "fail"]>> \in Seq(FromReceiver)
  BY <1>3, SentOn
<1> QED
  BY <1>1, <1>2, <1>4 DEF ToSender

LEMMA Answers ==
    ASSUME toSender \in Seq(FromReceiver), NEW m \in FromReceiver,
           \/ ToSender(<<m>>)
           \/ ToSender(<<>>)
           \/ UNCHANGED toSender
    PROVE  toSender' \in Seq(FromReceiver)
<1>1. toSender \o <<m>> \in Seq(FromReceiver) /\ toSender \o <<>> \in Seq(FromReceiver)
  BY SentOn
<1> QED
  BY <1>1 DEF ToSender

\* What the receiver's side of the invariant is.
ReceiverInv == rcv \in Receiver /\ WiresInv /\ MetInv /\ FilesInv /\ DeliveryInv

\* A step of the receiver that leaves the files and the block alone.
LEMMA PlainStep ==
    ASSUME ReceiverInv, UNCHANGED <<snd, chain, work, dest, store, frames>>,
           rcv' \in Receiver, rcv'.block = rcv.block, rcv'.committed = rcv.committed,
           rcv.record = "full" => rcv'.record = "full",
           rcv'.record # "full" => rcv'.ends \in Seq(Loading),
           rcv'.closing > 0 \/ rcv'.state = "DELIVERED" => AllWhole,
           toReceiver' \in Seq(FromSender), toSender' \in Seq(FromReceiver)
    PROVE  ReceiverInv'
<1>1. StaysWhole
  BY DEF StaysWhole, Whole
<1>2. AllWhole => AllWhole'
  BY <1>1, WiresStay
<1>3. WiresInv'
  <2>1. FromSender \subseteq FromSender' /\ FromReceiver \subseteq FromReceiver'
    BY <1>1, WiresStay
  <2>2. toReceiver' \in Seq(FromSender') /\ toSender' \in Seq(FromReceiver')
    BY <2>1, SeqOfLarger
  <2>3. frames' \in Seq(Frame) /\ chain' \in Seq(Frame)
    BY DEF ReceiverInv, WiresInv
  <2> QED
    BY <2>2, <2>3 DEF WiresInv
<1>4. MetInv'
  BY DEF ReceiverInv, MetInv
<1>5. FilesInv'
  <2>1. BlockInv' /\ WriteInv'
    BY DEF ReceiverInv, FilesInv, BlockInv, WriteInv, Held
  <2>2. \A b \in rcv'.committed \cup store'.blocks \cup work'.saved : Whole(b)'
    BY DEF ReceiverInv, FilesInv, Whole
  <2> QED
    BY <2>1, <2>2 DEF ReceiverInv, FilesInv
<1>6. DeliveryInv'
  BY <1>2 DEF ReceiverInv, DeliveryInv
<1> QED
  BY <1>3, <1>4, <1>5, <1>6 DEF ReceiverInv

LEMMA TakenByReceiver ==
    ASSUME WiresInv, NEW type, ReceiverTakes(type)
    PROVE  /\ Head(toReceiver) \in Control
           /\ Head(toReceiver).type = type
           /\ toReceiver' \in Seq(FromSender)
           /\ type = "offer" => Head(toReceiver).reference \in References
           /\ type = "digest" => Head(toReceiver).block \in Blocks /\ rcv.record = "full"
<1>1. Head(toReceiver) \in FromSender /\ toReceiver' \in Seq(FromSender)
  BY Taken DEF ReceiverTakes, WiresInv
<1>2. Head(toReceiver).type = type
  BY DEF ReceiverTakes
<1> QED
  BY <1>1, <1>2 DEF FromSender, Control

\* The references of an offer.
LEMMA ReferredFields ==
    ASSUME NEW r \in Receiver, Head(toReceiver).reference \in References
    PROVE  /\ Referred(r) \in Receiver
           /\ Referred(r).record = r.record
           /\ Referred(r).block = r.block
           /\ Referred(r).committed = r.committed
           /\ Referred(r).ends = r.ends
           /\ Referred(r).closing = r.closing
           /\ Referred(r).state = r.state
  BY DEF Referred, Receiver

LEMMA OfferTaken ==
    ASSUME ReceiverInv, FirstOffer
    PROVE  ReceiverInv'
<1> DEFINE r == Referred(rcv)
<1>1. /\ rcv.record = "none"
      /\ rcv' = [r EXCEPT !.record = "bare", !.state = "READY"]
      /\ Accepts(rcv)
      /\ UNCHANGED <<snd, chain, work, dest, store, frames>>
  BY DEF FirstOffer
<1>2. toReceiver' \in Seq(FromSender) /\ Head(toReceiver).reference \in References
  BY TakenByReceiver DEF FirstOffer, ReceiverInv
<1>3. rcv \in Receiver
  BY DEF ReceiverInv
<1>4. /\ r \in Receiver /\ r.block = rcv.block /\ r.committed = rcv.committed
      /\ r.ends = rcv.ends /\ r.closing = rcv.closing
  BY <1>2, <1>3, ReferredFields
<1> HIDE DEF r
<1>5. /\ rcv' \in Receiver /\ rcv'.record = "bare" /\ rcv'.block = rcv.block
      /\ rcv'.committed = rcv.committed /\ rcv'.ends = rcv.ends
      /\ rcv'.closing = rcv.closing /\ rcv'.state = "READY"
  BY <1>1, <1>4 DEF Receiver, State
<1>6. toSender' \in Seq(FromReceiver)
  BY <1>1, Sayable, Answers DEF Accepts, ReceiverInv, WiresInv
<1>7. rcv.ends \in Seq(Loading)
  BY <1>1 DEF ReceiverInv, MetInv
<1>8. rcv'.closing > 0 => AllWhole
  BY <1>5 DEF ReceiverInv, DeliveryInv
<1> QED
  BY <1>1, <1>2, <1>5, <1>6, <1>7, <1>8, PlainStep

LEMMA AcceptAndCancel ==
    ASSUME ReceiverInv, Accept \/ CancelReceiver
    PROVE  ReceiverInv'
<1>1. rcv \in Receiver
  BY DEF ReceiverInv
<1>2. \/ rcv' = [rcv EXCEPT !.accepted = TRUE]
      \/ rcv' = [rcv EXCEPT !.cancelled = TRUE, !.state = "CANCELLED"]
  BY DEF Accept, CancelReceiver
<1>3. /\ rcv' \in Receiver /\ rcv'.record = rcv.record /\ rcv'.block = rcv.block
      /\ rcv'.committed = rcv.committed /\ rcv'.ends = rcv.ends
      /\ rcv'.closing = rcv.closing
      /\ rcv'.state = "DELIVERED" => rcv.state = "DELIVERED"
  <2>1. CASE rcv' = [rcv EXCEPT !.accepted = TRUE]
    BY <1>1, <2>1 DEF Receiver
  <2>2. CASE rcv' = [rcv EXCEPT !.cancelled = TRUE, !.state = "CANCELLED"]
    <3>1. "CANCELLED" \in State
      BY DEF State
    <3> QED
      BY <1>1, <2>2, <3>1 DEF Receiver
  <2> QED
    BY <1>2, <2>1, <2>2
<1>4. /\ UNCHANGED <<snd, chain, work, dest, store, frames, toReceiver>>
      /\ Accepts(rcv') \/ UNCHANGED toSender
  BY DEF Accept, CancelReceiver, wires
<1>5. toReceiver \in Seq(FromSender) /\ toSender \in Seq(FromReceiver)
  BY DEF ReceiverInv, WiresInv
<1>6. toSender' \in Seq(FromReceiver)
  BY <1>4, <1>5, Sayable, Answers DEF Accepts
<1>7. /\ rcv'.record # "full" => rcv'.ends \in Seq(Loading)
      /\ rcv'.closing > 0 \/ rcv'.state = "DELIVERED" => AllWhole
  BY <1>3 DEF ReceiverInv, MetInv, DeliveryInv
<1> QED
  BY <1>3, <1>4, <1>5, <1>6, <1>7, PlainStep

LEMMA ManifestTaken ==
    ASSUME ReceiverInv, ReceiverManifest
    PROVE  ReceiverInv'
<1> DEFINE e == [at |-> "load", existing |-> FALSE]
           ends == Append(rcv.ends, e)
<1>1. /\ rcv' = [rcv EXCEPT !.ends = Append(@, e)]
      /\ UNCHANGED <<snd, chain, work, dest, store, frames, toSender>>
  BY DEF ReceiverManifest
<1>2. toReceiver' \in Seq(FromSender) /\ toSender \in Seq(FromReceiver)
  BY TakenByReceiver DEF ReceiverManifest, ReceiverInv, WiresInv
<1>3. rcv \in Receiver /\ rcv.ends \in Seq(Ending)
  BY ReceiverFields DEF ReceiverInv
<1>4. rcv' = [rcv EXCEPT !.ends = ends]
  BY <1>1, <1>3 DEF Receiver
<1>5. e \in Ending /\ e \in Loading
  BY DEF Ending, Loading
<1>6. ends \in Seq(Ending)
  BY <1>3, <1>5, AppendProperties
<1>7. rcv.record # "full" => ends \in Seq(Loading)
  <2>1. rcv.record # "full" => rcv.ends \in Seq(Loading)
    BY DEF ReceiverInv, MetInv
  <2> QED
    BY <1>5, <2>1, AppendProperties
<1> HIDE DEF ends
<1>8. /\ rcv' \in Receiver /\ rcv'.record = rcv.record /\ rcv'.block = rcv.block
      /\ rcv'.committed = rcv.committed /\ rcv'.ends = ends
      /\ rcv'.closing = rcv.closing /\ rcv'.state = rcv.state
  BY <1>3, <1>4, <1>6 DEF Receiver, Ending
<1>9. rcv'.closing > 0 \/ rcv'.state = "DELIVERED" => AllWhole
  BY <1>8 DEF ReceiverInv, DeliveryInv
<1> QED
  BY <1>1, <1>2, <1>7, <1>8, <1>9, PlainStep

LEMMA FailTaken ==
    ASSUME ReceiverInv, ReceiverToldFailed
    PROVE  ReceiverInv'
<1>1. /\ ReceiverFails(rcv)
      /\ UNCHANGED <<snd, chain, work, dest, store, frames>>
  BY DEF ReceiverToldFailed
<1>2. toReceiver' \in Seq(FromSender) /\ toSender \in Seq(FromReceiver) /\ rcv \in Receiver
  BY TakenByReceiver DEF ReceiverToldFailed, ReceiverInv, WiresInv
<1>3. rcv' = Failed(rcv) /\ toSender' \in Seq(FromReceiver)
  BY <1>1, <1>2, ReceiverFailing
<1>4. /\ rcv' \in Receiver /\ rcv'.record = rcv.record /\ rcv'.block = rcv.block
      /\ rcv'.committed = rcv.committed /\ rcv'.ends = rcv.ends
      /\ rcv'.closing = rcv.closing
      /\ rcv'.state = "DELIVERED" => rcv.state = "DELIVERED"
  BY <1>2, <1>3, FailedReceiver
<1>5. /\ rcv'.record # "full" => rcv'.ends \in Seq(Loading)
      /\ rcv'.closing > 0 \/ rcv'.state = "DELIVERED" => AllWhole
  BY <1>4 DEF ReceiverInv, MetInv, DeliveryInv
<1> QED
  BY <1>1, <1>2, <1>3, <1>4, <1>5, PlainStep

\* A call of manifestEnd that is over.
LEMMA WithoutEndFields ==
    ASSUME rcv \in Receiver, NEW n \in 1 .. Len(rcv.ends)
    PROVE  /\ WithoutEnd(n) \in Receiver
           /\ WithoutEnd(n).ends = RemoveAt(rcv.ends, n)
           /\ WithoutEnd(n).record = rcv.record
           /\ WithoutEnd(n).block = rcv.block
           /\ WithoutEnd(n).committed = rcv.committed
           /\ WithoutEnd(n).closing = rcv.closing
           /\ WithoutEnd(n).state = rcv.state
<1> DEFINE ends == RemoveAt(rcv.ends, n)
<1>1. rcv.ends \in Seq(Ending)
  BY ReceiverFields
<1>2. ends \in Seq(Ending)
  BY <1>1, RemovedAt
<1>3. WithoutEnd(n) = [rcv EXCEPT !.ends = ends]
  BY DEF WithoutEnd, Receiver
<1> HIDE DEF ends
<1>4. /\ [rcv EXCEPT !.ends = ends] \in Receiver
      /\ [rcv EXCEPT !.ends = ends].ends = ends
      /\ [rcv EXCEPT !.ends = ends].record = rcv.record
      /\ [rcv EXCEPT !.ends = ends].block = rcv.block
      /\ [rcv EXCEPT !.ends = ends].committed = rcv.committed
      /\ [rcv EXCEPT !.ends = ends].closing = rcv.closing
      /\ [rcv EXCEPT !.ends = ends].state = rcv.state
  BY <1>2 DEF Receiver, Ending
<1> QED
  BY <1>3, <1>4 DEF ends

LEMMA Preparing ==
    ASSUME ReceiverInv, NEW n \in 1 .. Len(rcv.ends), PrepareEnds(n)
    PROVE  ReceiverInv'
<1> DEFINE r == WithoutEnd(n)
           have == [type |-> "have", blocks |-> rcv.committed]
<1>1. rcv \in Receiver /\ rcv.ends \in Seq(Ending) /\ toSender \in Seq(FromReceiver)
      /\ toReceiver \in Seq(FromSender)
  BY ReceiverFields DEF ReceiverInv, WiresInv
<1>2. /\ r \in Receiver /\ r.record = rcv.record /\ r.block = rcv.block
      /\ r.committed = rcv.committed /\ r.closing = rcv.closing /\ r.state = rcv.state
  BY <1>1, WithoutEndFields
<1>3. rcv.record = "full"
  <2>1. SUFFICES ASSUME rcv.record # "full"
                 PROVE  FALSE
    OBVIOUS
  <2>2. rcv.ends \in Seq(Loading)
    BY <2>1 DEF ReceiverInv, MetInv
  <2>3. rcv.ends[n] \in Loading
    BY <2>2, ElementOfSeq
  <2>4. rcv.ends[n].at = "prepare"
    BY DEF PrepareEnds, EndsAt
  <2> QED
    BY <2>3, <2>4 DEF Loading
<1>4. /\ \/ rcv' = [r EXCEPT !.state = "RECEIVING"] /\ ToSender(<<have>>)
         \/ ReceiverFails(r)
      /\ UNCHANGED <<snd, chain, work, dest, store, frames, toReceiver>>
  BY DEF PrepareEnds
<1>5. have \in FromReceiver
  <2>1. rcv.committed \in SUBSET Blocks
    BY <1>1, ReceiverFields
  <2> QED
    BY <1>3, <2>1 DEF FromReceiver, Control
<1> HIDE DEF r, have
<1>6. /\ rcv' \in Receiver /\ rcv'.record = rcv.record /\ rcv'.block = rcv.block
      /\ rcv'.committed = rcv.committed /\ rcv'.closing = rcv.closing
      /\ rcv'.state = "DELIVERED" => rcv.state = "DELIVERED"
      /\ toSender' \in Seq(FromReceiver)
  <2>1. CASE rcv' = [r EXCEPT !.state = "RECEIVING"] /\ ToSender(<<have>>)
    <3>1. toSender' \in Seq(FromReceiver)
      BY <1>1, <1>5, <2>1, Answers
    <3>2. /\ rcv' \in Receiver /\ rcv'.record = r.record /\ rcv'.block = r.block
          /\ rcv'.committed = r.committed /\ rcv'.closing = r.closing
          /\ rcv'.state = "RECEIVING"
      BY <1>2, <2>1 DEF Receiver, State
    <3> QED
      BY <1>2, <3>1, <3>2
  <2>2. CASE ReceiverFails(r)
    <3>1. rcv' = Failed(r) /\ toSender' \in Seq(FromReceiver)
      BY <1>1, <1>2, <2>2, ReceiverFailing
    <3> QED
      BY <1>2, <3>1, FailedReceiver
  <2> QED
    BY <1>4, <2>1, <2>2
<1>7. rcv'.closing > 0 \/ rcv'.state = "DELIVERED" => AllWhole
  BY <1>6 DEF ReceiverInv, DeliveryInv
<1> QED
  BY <1>1, <1>3, <1>4, <1>6, <1>7, PlainStep

LEMMA RootTaken ==
    ASSUME ReceiverInv, ReceiverRoot
    PROVE  ReceiverInv'
<1>1. rcv \in Receiver /\ rcv.closing \in Nat /\ toSender \in Seq(FromReceiver)
  BY ReceiverFields DEF ReceiverInv, WiresInv
<1>2. toReceiver' \in Seq(FromSender)
  BY TakenByReceiver DEF ReceiverRoot, ReceiverInv
<1>3. UNCHANGED <<snd, chain, work, dest, store, frames>>
  BY DEF ReceiverRoot
<1>4. CASE rcv.accepted /\ RootMatches(rcv)
  <2>1. rcv' = [rcv EXCEPT !.closing = @ + 1] /\ UNCHANGED toSender
    BY <1>4 DEF ReceiverRoot
  <2>2. /\ rcv' \in Receiver /\ rcv'.record = rcv.record /\ rcv'.block = rcv.block
        /\ rcv'.committed = rcv.committed /\ rcv'.ends = rcv.ends
    BY <1>1, <2>1 DEF Receiver
  <2>3. AllWhole
    BY <1>4 DEF RootMatches, AllWhole, ReceiverInv, FilesInv
  <2>4. rcv'.record # "full" => rcv'.ends \in Seq(Loading)
    BY <2>2 DEF ReceiverInv, MetInv
  <2> QED
    BY <1>1, <1>2, <1>3, <2>1, <2>2, <2>3, <2>4, PlainStep
<1>5. CASE ~(rcv.accepted /\ RootMatches(rcv))
  <2>1. ReceiverFails(rcv)
    BY <1>5 DEF ReceiverRoot
  <2>2. rcv' = Failed(rcv) /\ toSender' \in Seq(FromReceiver)
    BY <1>1, <2>1, ReceiverFailing
  <2>3. /\ rcv' \in Receiver /\ rcv'.record = rcv.record /\ rcv'.block = rcv.block
        /\ rcv'.committed = rcv.committed /\ rcv'.ends = rcv.ends
        /\ rcv'.closing = rcv.closing
        /\ rcv'.state = "DELIVERED" => rcv.state = "DELIVERED"
    BY <1>1, <2>2, FailedReceiver
  <2>4. /\ rcv'.record # "full" => rcv'.ends \in Seq(Loading)
        /\ rcv'.closing > 0 \/ rcv'.state = "DELIVERED" => AllWhole
    BY <2>3 DEF ReceiverInv, MetInv, DeliveryInv
  <2> QED
    BY <1>2, <1>3, <2>2, <2>3, <2>4, PlainStep
<1> QED
  BY <1>4, <1>5

LEMMA Closing ==
    ASSUME ReceiverInv, CloseEnds \/ CloseFails
    PROVE  ReceiverInv'
<1> DEFINE r == [rcv EXCEPT !.closing = @ - 1]
<1>1. /\ rcv \in Receiver /\ rcv.closing \in Nat /\ toSender \in Seq(FromReceiver)
      /\ toReceiver \in Seq(FromSender)
  BY ReceiverFields DEF ReceiverInv, WiresInv
<1>2. /\ rcv.closing > 0
      /\ UNCHANGED <<snd, chain, work, dest, store, frames, toReceiver>>
      /\ \/ /\ rcv' = [rcv EXCEPT !.closing = @ - 1, !.state = "DELIVERED"]
            /\ ToSender(<<Of("delivered")>>)
         \/ ReceiverFails(r)
  BY DEF CloseEnds, CloseFails
<1>3. rcv.closing - 1 \in Nat
  BY <1>1, <1>2
<1>4. AllWhole
  BY <1>2 DEF ReceiverInv, DeliveryInv
<1>5. Of("delivered") \in FromReceiver
  BY <1>4, Sayable DEF FromReceiver
<1>6. /\ rcv' \in Receiver /\ rcv'.record = rcv.record /\ rcv'.block = rcv.block
      /\ rcv'.committed = rcv.committed /\ rcv'.ends = rcv.ends
      /\ toSender' \in Seq(FromReceiver)
  <2>1. CASE /\ rcv' = [rcv EXCEPT !.closing = @ - 1, !.state = "DELIVERED"]
             /\ ToSender(<<Of("delivered")>>)
    <3>1. toSender' \in Seq(FromReceiver)
      BY <1>1, <1>5, <2>1, Answers
    <3>2. "DELIVERED" \in State
      BY DEF State
    <3> QED
      BY <1>1, <1>3, <2>1, <3>1, <3>2 DEF Receiver
  <2>2. CASE ReceiverFails(r)
    <3>1. /\ r \in Receiver /\ r.record = rcv.record /\ r.block = rcv.block
          /\ r.committed = rcv.committed /\ r.ends = rcv.ends
      BY <1>1, <1>3 DEF Receiver
    <3> HIDE DEF r
    <3>2. rcv' = Failed(r) /\ toSender' \in Seq(FromReceiver)
      BY <1>1, <2>2, <3>1, ReceiverFailing
    <3> QED
      BY <3>1, <3>2, FailedReceiver
  <2> QED
    BY <1>2, <2>1, <2>2
<1>7. rcv'.record # "full" => rcv'.ends \in Seq(Loading)
  BY <1>6 DEF ReceiverInv, MetInv
<1> QED
  BY <1>1, <1>2, <1>4, <1>6, <1>7, PlainStep

-----------------------------------------------------------------------------
(* The block and the record.                                                 *)

\* A step that writes nothing, with what it must keep.
LEMMA BlockStep ==
    ASSUME ReceiverInv, UNCHANGED <<snd, dest>>, rcv' \in Receiver,
           rcv.record = "full" => rcv'.record = "full", MetInv',
           rcv'.closing > 0 \/ rcv'.state = "DELIVERED" => AllWhole,
           toReceiver' \in Seq(FromSender), toSender' \in Seq(FromReceiver),
           frames' \in Seq(Frame), chain' \in Seq(Frame),
           store' \in [file : {"none", "torn", "saved"}, blocks : SUBSET Blocks],
           work' \in Work, work'.step # "none" => chain' # <<>> /\ work'.index \in Blocks,
           BlockInv', WriteInv',
           \A b \in rcv'.committed \cup store'.blocks \cup work'.saved : Whole(b)
    PROVE  ReceiverInv'
<1>1. StaysWhole
  BY DEF StaysWhole, Whole
<1>2. AllWhole => AllWhole'
  BY <1>1, WiresStay
<1>3. WiresInv'
  <2>1. FromSender \subseteq FromSender' /\ FromReceiver \subseteq FromReceiver'
    BY <1>1, WiresStay
  <2>2. toReceiver' \in Seq(FromSender') /\ toSender' \in Seq(FromReceiver')
    BY <2>1, SeqOfLarger
  <2> QED
    BY <2>2 DEF WiresInv
<1>4. FilesInv'
  <2>1. \A b \in rcv'.committed \cup store'.blocks \cup work'.saved : Whole(b)'
    BY DEF Whole
  <2>2. dest' \in [Blocks -> [0 .. FrameCount - 1 -> [1 .. PieceCount -> Content]]]
    BY DEF ReceiverInv, FilesInv
  <2> QED
    BY <2>1, <2>2 DEF FilesInv
<1>5. DeliveryInv'
  BY <1>2 DEF ReceiverInv, DeliveryInv
<1> QED
  BY <1>3, <1>4, <1>5 DEF ReceiverInv

LEMMA NoBlockFields ==
    /\ NoBlock \in [index : 0 .. BlockCount, next : 0 .. FrameCount, good : BOOLEAN]
    /\ NoBlock.index = BlockCount /\ NoBlock.next = 0
    /\ BlockCount \notin Blocks
    /\ Blocks \subseteq 0 .. BlockCount
  BY ConstantFacts DEF NoBlock, Blocks

\* The block is given up, and with it what is being written.
LEMMA GivenUp ==
    ASSUME rcv'.block = NoBlock, chain' \in Seq(Frame),
           work'.step = "write" => /\ ~work'.live
                                   /\ work'.piece \in 1 .. PieceCount
                                   /\ chain' # <<>>
    PROVE  BlockInv' /\ WriteInv'
<1>1. BlockInv'
  BY NoBlockFields DEF BlockInv
<1>2. ASSUME work'.step = "write"
      PROVE  Head(chain').block \in Blocks
  <2>1. Head(chain') \in Frame
    BY <1>2, Taken
  <2> QED
    BY <2>1 DEF Frame
<1>3. WriteInv'
  BY <1>2, NoBlockFields DEF WriteInv
<1> QED
  BY <1>1, <1>3

LEMMA WorkFields ==
    ASSUME FilesInv, chain \in Seq(Frame)
    PROVE  /\ work \in Work
           /\ work.step # "none" => Head(chain) \in Frame /\ Tail(chain) \in Seq(Frame)
           /\ work.step = "write" => work.piece \in 1 .. PieceCount
           /\ Idle \in Work /\ Idle.step = "none" /\ Idle.saved = {}
           /\ [work EXCEPT !.live = FALSE] \in Work
           /\ [work EXCEPT !.live = FALSE].step = work.step
           /\ [work EXCEPT !.live = FALSE].piece = work.piece
           /\ [work EXCEPT !.live = FALSE].index = work.index
           /\ [work EXCEPT !.live = FALSE].saved = work.saved
           /\ [work EXCEPT !.live = FALSE].live = FALSE
<1>1. work \in Work /\ (work.step # "none" => chain # <<>> /\ work.index \in Blocks)
      /\ (work.step = "write" => work.piece \in 1 .. PieceCount)
  BY DEF FilesInv, WriteInv
<1>2. work.step # "none" => Head(chain) \in Frame /\ Tail(chain) \in Seq(Frame)
  BY <1>1, Taken
<1>3. Idle \in Work /\ Idle.step = "none" /\ Idle.saved = {}
  BY ConstantFacts DEF Idle, Work
<1>4. /\ [work EXCEPT !.live = FALSE] \in Work
      /\ [work EXCEPT !.live = FALSE].step = work.step
      /\ [work EXCEPT !.live = FALSE].piece = work.piece
      /\ [work EXCEPT !.live = FALSE].index = work.index
      /\ [work EXCEPT !.live = FALSE].saved = work.saved
      /\ [work EXCEPT !.live = FALSE].live = FALSE
  BY <1>1 DEF Work
<1> QED
  BY <1>1, <1>2, <1>3, <1>4

LEMMA OfferedAgain ==
    ASSUME ReceiverInv, Reoffer \/ ReofferThrows
    PROVE  ReceiverInv'
<1> DEFINE r == Referred(rcv)
<1>1. /\ rcv \in Receiver /\ toSender \in Seq(FromReceiver)
      /\ frames \in Seq(Frame) /\ chain \in Seq(Frame) /\ FilesInv
  BY DEF ReceiverInv, WiresInv
<1>2. toReceiver' \in Seq(FromSender) /\ Head(toReceiver).reference \in References
  BY TakenByReceiver DEF Reoffer, ReofferThrows, ReceiverInv
<1>3. /\ r \in Receiver /\ r.record = rcv.record /\ r.committed = rcv.committed
      /\ r.ends = rcv.ends /\ r.closing = rcv.closing /\ r.state = rcv.state
  BY <1>1, <1>2, ReferredFields
<1>4. UNCHANGED <<snd, dest, chain, store, frames>>
  BY DEF Reoffer, ReofferThrows
<1>5. ASSUME Reoffer
      PROVE  /\ rcv.record = "full"
             /\ rcv' = [r EXCEPT !.block = NoBlock, !.state = "RECONNECTING"]
             /\ work' = [work EXCEPT !.live = FALSE]
             /\ Accepts(rcv)
  BY <1>5 DEF Reoffer, Unless
<1>6. ASSUME ReofferThrows
      PROVE  /\ rcv' = [r EXCEPT !.block = NoBlock]
             /\ work' = work /\ work.step = "none"
             /\ UNCHANGED toSender
  <2>1. work.step = "none"
    BY <1>6 DEF ReofferThrows, ReceiverInv, MetInv
  <2> QED
    BY <1>6, <2>1 DEF ReofferThrows
<1> HIDE DEF r
<1>7. /\ rcv' \in Receiver /\ rcv'.record = rcv.record /\ rcv'.block = NoBlock
      /\ rcv'.committed = rcv.committed /\ rcv'.ends = rcv.ends
      /\ rcv'.closing = rcv.closing
      /\ rcv'.state = "DELIVERED" => rcv.state = "DELIVERED"
  <2>1. CASE Reoffer
    <3>1. rcv' = [r EXCEPT !.block = NoBlock, !.state = "RECONNECTING"]
      BY <1>5, <2>1
    <3>2. "RECONNECTING" \in State
      BY DEF State
    <3> QED
      BY <1>3, <3>1, <3>2, NoBlockFields DEF Receiver
  <2>2. CASE ReofferThrows
    <3>1. rcv' = [r EXCEPT !.block = NoBlock]
      BY <1>6, <2>2
    <3> QED
      BY <1>3, <3>1, NoBlockFields DEF Receiver
  <2> QED
    BY <2>1, <2>2
<1>8. toSender' \in Seq(FromReceiver)
  BY <1>1, <1>5, <1>6, Sayable, Answers DEF Accepts
<1>9. /\ work' \in Work /\ work'.step = work.step /\ work'.saved = work.saved
      /\ work'.index = work.index
  BY <1>1, <1>5, <1>6, WorkFields
<1>10. work'.step = "write" => ~work'.live /\ work'.piece \in 1 .. PieceCount /\ chain' # <<>>
  BY <1>1, <1>4, <1>5, <1>6, WorkFields DEF FilesInv
<1>11. BlockInv' /\ WriteInv'
  BY <1>1, <1>4, <1>7, <1>10, GivenUp
<1>12. MetInv'
  BY <1>4, <1>5, <1>6, <1>7 DEF ReceiverInv, MetInv
<1>13. rcv'.closing > 0 \/ rcv'.state = "DELIVERED" => AllWhole
  BY <1>7 DEF ReceiverInv, DeliveryInv
<1>14. \A b \in rcv'.committed \cup store'.blocks \cup work'.saved : Whole(b)
  BY <1>1, <1>4, <1>7, <1>9 DEF FilesInv
<1>15. work'.step # "none" => chain' # <<>> /\ work'.index \in Blocks
  BY <1>1, <1>4, <1>9 DEF FilesInv
<1> QED
  BY <1>1, <1>2, <1>4, <1>7, <1>8, <1>9, <1>11, <1>12, <1>13, <1>14, <1>15, BlockStep
     DEF FilesInv

LEMMA DigestTaken ==
    ASSUME ReceiverInv, ReceiverDigest
    PROVE  ReceiverInv'
<1> DEFINE b == Head(toReceiver).block
           begun == [index |-> b, next |-> 0, good |-> TRUE]
<1>1. /\ rcv \in Receiver /\ toSender \in Seq(FromReceiver)
      /\ frames \in Seq(Frame) /\ chain \in Seq(Frame) /\ FilesInv
  BY DEF ReceiverInv, WiresInv
<1>2. toReceiver' \in Seq(FromSender) /\ b \in Blocks /\ rcv.record = "full"
  BY TakenByReceiver DEF ReceiverDigest, ReceiverInv
<1>3. UNCHANGED <<snd, chain, work, dest, store, frames>>
  BY DEF ReceiverDigest
<1>4. CASE rcv.block = NoBlock
  <2>1. rcv' = [rcv EXCEPT !.block = begun] /\ ToSender(<<About("ready", b)>>)
    BY <1>4 DEF ReceiverDigest
  <2> HIDE DEF b
  <2>2. begun \in [index : 0 .. BlockCount, next : 0 .. FrameCount, good : BOOLEAN]
    BY <1>2, NoBlockFields, ConstantFacts
  <2>3. begun.index = b /\ begun.next = 0
    OBVIOUS
  <2> HIDE DEF begun
  <2>4. /\ rcv' \in Receiver /\ rcv'.record = "full" /\ rcv'.block = begun
        /\ rcv'.committed = rcv.committed /\ rcv'.closing = rcv.closing
        /\ rcv'.state = rcv.state
    BY <1>1, <1>2, <2>1, <2>2 DEF Receiver
  <2>5. toSender' \in Seq(FromReceiver)
    <3>1. About("ready", b) \in FromReceiver
      BY <1>2, Sayable
    <3> QED
      BY <1>1, <2>1, <3>1, Answers
  <2>6. BlockInv'
    BY <1>2, <2>3, <2>4, NoBlockFields DEF BlockInv
  <2>7. WriteInv'
    <3>1. SUFFICES ASSUME work.step = "write"
                   PROVE  WriteInv'
      BY <1>3 DEF WriteInv
    <3>2. Head(chain) \in Frame
      BY <1>1, <3>1, WorkFields
    <3>3. Head(chain).block \in Blocks /\ Head(chain).index \in Nat
      BY <3>2, ConstantFacts DEF Frame
    <3>4. ~work.live
      BY <1>1, <1>4, <3>1, <3>3, NoBlockFields DEF FilesInv, WriteInv
    <3>5. work.piece \in 1 .. PieceCount
      BY <1>1, <3>1, WorkFields
    <3> QED
      BY <1>3, <2>3, <2>4, <3>3, <3>4, <3>5 DEF WriteInv
  <2>8. MetInv'
    BY <2>4 DEF MetInv
  <2>9. rcv'.closing > 0 \/ rcv'.state = "DELIVERED" => AllWhole
    BY <2>4 DEF ReceiverInv, DeliveryInv
  <2>10. /\ \A c \in rcv'.committed \cup store'.blocks \cup work'.saved : Whole(c)
         /\ work' \in Work /\ (work'.step # "none" => chain' # <<>> /\ work'.index \in Blocks)
         /\ store' \in [file : {"none", "torn", "saved"}, blocks : SUBSET Blocks]
    BY <1>1, <1>3, <2>4 DEF FilesInv
  <2> QED
    BY <1>1, <1>2, <1>3, <2>4, <2>5, <2>6, <2>7, <2>8, <2>9, <2>10, BlockStep
<1>5. CASE rcv.block # NoBlock
  <2>1. ReceiverFails(rcv)
    BY <1>5 DEF ReceiverDigest
  <2>2. rcv' = Failed(rcv) /\ toSender' \in Seq(FromReceiver)
    BY <1>1, <2>1, ReceiverFailing
  <2>3. /\ rcv' \in Receiver /\ rcv'.record = rcv.record /\ rcv'.block = rcv.block
        /\ rcv'.committed = rcv.committed /\ rcv'.closing = rcv.closing
        /\ rcv'.state = "DELIVERED" => rcv.state = "DELIVERED"
    BY <1>1, <2>2, FailedReceiver
  <2>4. rcv'.closing > 0 \/ rcv'.state = "DELIVERED" => AllWhole
    BY <2>3 DEF ReceiverInv, DeliveryInv
  <2> QED
    BY <1>2, <1>3, <2>2, <2>3, <2>4, PlainStep
<1> QED
  BY <1>4, <1>5

\* A call of manifestEnd that goes on, with a record.
LEMMA EndGoesOn ==
    ASSUME rcv \in Receiver, NEW n \in 1 .. Len(rcv.ends),
           NEW at \in {"save", "prepare"}, NEW existing \in BOOLEAN
    PROVE  [rcv.ends EXCEPT ![n] = [at |-> at, existing |-> existing]] \in Seq(Ending)
<1>1. rcv.ends \in Seq(Ending)
  BY ReceiverFields
<1>2. [at |-> at, existing |-> existing] \in Ending
  BY DEF Ending
<1> QED
  BY <1>1, <1>2, ChangedAt

LEMMA Loading1 ==
    ASSUME ReceiverInv, NEW n \in 1 .. Len(rcv.ends), LoadEnds(n), store.file # "torn"
    PROVE  /\ rcv' \in Receiver
           /\ rcv'.record = "full"
           /\ rcv'.block = rcv.block
           /\ rcv'.committed = IF store.file = "none" THEN rcv.committed ELSE store.blocks
           /\ rcv'.closing = rcv.closing
           /\ rcv'.state = rcv.state
           /\ store'.blocks = store.blocks
           /\ store' \in [file : {"none", "torn", "saved"}, blocks : SUBSET Blocks]
           /\ UNCHANGED toSender
<1> DEFINE e == rcv.ends[n]
           saving == [rcv.ends EXCEPT ![n] = [at |-> "save", existing |-> e.existing]]
           resumed == [rcv.ends EXCEPT ![n] = [at |-> "prepare", existing |-> TRUE]]
<1>1. rcv \in Receiver /\ rcv.ends \in Seq(Ending)
  BY ReceiverFields DEF ReceiverInv
<1>2. store \in [file : {"none", "torn", "saved"}, blocks : SUBSET Blocks]
  BY DEF ReceiverInv, FilesInv
<1>3. e \in Ending
  BY <1>1, ElementOfSeq
<1>4. saving \in Seq(Ending) /\ resumed \in Seq(Ending)
  BY <1>1, <1>3, EndGoesOn DEF Ending
<1>5. CASE store.file = "none"
  <2>1. /\ rcv' = [rcv EXCEPT !.record = "full", !.ends[n].at = "save"]
        /\ store' = [store EXCEPT !.file = "torn"]
        /\ UNCHANGED toSender
    BY <1>5 DEF LoadEnds
  <2>2. rcv' = [rcv EXCEPT !.record = "full", !.ends = saving]
    <3>1. [e EXCEPT !.at = "save"] = [at |-> "save", existing |-> e.existing]
      BY <1>3 DEF Ending
    <3>2. [rcv.ends EXCEPT ![n].at = "save"] = [rcv.ends EXCEPT ![n] = [e EXCEPT !.at = "save"]]
      OBVIOUS
    <3>3. [rcv.ends EXCEPT ![n].at = "save"] = saving
      BY <3>1, <3>2
    <3>4. rcv' = [rcv EXCEPT !.record = "full", !.ends = [rcv.ends EXCEPT ![n].at = "save"]]
      BY <1>1, <2>1 DEF Receiver
    <3> QED
      BY <3>3, <3>4
  <2> HIDE DEF saving
  <2>3. /\ rcv' \in Receiver /\ rcv'.record = "full" /\ rcv'.block = rcv.block
        /\ rcv'.committed = rcv.committed /\ rcv'.closing = rcv.closing
        /\ rcv'.state = rcv.state
    BY <1>1, <1>4, <2>2 DEF Receiver, Ending
  <2> QED
    BY <1>2, <1>5, <2>1, <2>3
<1>6. CASE store.file = "saved"
  <2>1. /\ rcv' = [rcv EXCEPT !.record = "full", !.committed = store.blocks,
                     !.ends[n] = [at |-> "prepare", existing |-> TRUE]]
        /\ UNCHANGED <<store, toSender>>
    BY <1>6 DEF LoadEnds
  <2>2. rcv' = [rcv EXCEPT !.record = "full", !.committed = store.blocks, !.ends = resumed]
    BY <1>1, <2>1 DEF Receiver
  <2>3. store.blocks \in SUBSET Blocks
    BY <1>2
  <2> HIDE DEF resumed
  <2>4. /\ rcv' \in Receiver /\ rcv'.record = "full" /\ rcv'.block = rcv.block
        /\ rcv'.committed = store.blocks /\ rcv'.closing = rcv.closing
        /\ rcv'.state = rcv.state
    BY <1>1, <1>4, <2>2, <2>3 DEF Receiver, Ending
  <2> QED
    BY <1>2, <1>6, <2>1, <2>4
<1> QED
  BY <1>2, <1>5, <1>6

LEMMA LoadEnded ==
    ASSUME ReceiverInv, NEW n \in 1 .. Len(rcv.ends), LoadEnds(n)
    PROVE  ReceiverInv'
<1>1. /\ rcv \in Receiver /\ toSender \in Seq(FromReceiver) /\ toReceiver \in Seq(FromSender)
      /\ frames \in Seq(Frame) /\ chain \in Seq(Frame) /\ FilesInv
  BY DEF ReceiverInv, WiresInv
<1>2. UNCHANGED <<snd, chain, work, dest, toReceiver, frames>>
  BY DEF LoadEnds
<1>3. CASE store.file = "torn"
  <2> DEFINE r == WithoutEnd(n)
  <2>1. ReceiverFails(r) /\ UNCHANGED store
    BY <1>3 DEF LoadEnds
  <2>2. /\ r \in Receiver /\ r.record = rcv.record /\ r.block = rcv.block
        /\ r.committed = rcv.committed /\ r.ends = RemoveAt(rcv.ends, n)
        /\ r.closing = rcv.closing /\ r.state = rcv.state
    BY <1>1, WithoutEndFields
  <2> HIDE DEF r
  <2>3. rcv' = Failed(r) /\ toSender' \in Seq(FromReceiver)
    BY <1>1, <2>1, <2>2, ReceiverFailing
  <2>4. /\ rcv' \in Receiver /\ rcv'.record = rcv.record /\ rcv'.block = rcv.block
        /\ rcv'.committed = rcv.committed /\ rcv'.ends = RemoveAt(rcv.ends, n)
        /\ rcv'.closing = rcv.closing
        /\ rcv'.state = "DELIVERED" => rcv.state = "DELIVERED"
    BY <2>2, <2>3, FailedReceiver
  <2>5. rcv'.record # "full" => rcv'.ends \in Seq(Loading)
    <3>1. rcv.record # "full" => rcv.ends \in Seq(Loading)
      BY DEF ReceiverInv, MetInv
    <3> QED
      BY <2>4, <3>1, RemovedAt
  <2>6. rcv'.closing > 0 \/ rcv'.state = "DELIVERED" => AllWhole
    BY <2>4 DEF ReceiverInv, DeliveryInv
  <2> QED
    BY <1>1, <1>2, <2>1, <2>3, <2>4, <2>5, <2>6, PlainStep
<1>4. CASE store.file # "torn"
  <2>1. /\ rcv' \in Receiver /\ rcv'.record = "full" /\ rcv'.block = rcv.block
        /\ rcv'.committed = IF store.file = "none" THEN rcv.committed ELSE store.blocks
        /\ rcv'.closing = rcv.closing /\ rcv'.state = rcv.state
        /\ store'.blocks = store.blocks
        /\ store' \in [file : {"none", "torn", "saved"}, blocks : SUBSET Blocks]
        /\ UNCHANGED toSender
    BY <1>4, Loading1
  <2>2. BlockInv' /\ WriteInv'
    BY <1>1, <1>2, <2>1 DEF FilesInv, BlockInv, WriteInv, Held
  <2>3. MetInv'
    BY <2>1 DEF MetInv
  <2>4. rcv'.closing > 0 \/ rcv'.state = "DELIVERED" => AllWhole
    BY <2>1 DEF ReceiverInv, DeliveryInv
  <2>5. /\ \A b \in rcv'.committed \cup store'.blocks \cup work'.saved : Whole(b)
        /\ work' \in Work /\ (work'.step # "none" => chain' # <<>> /\ work'.index \in Blocks)
    BY <1>1, <1>2, <2>1 DEF FilesInv
  <2> QED
    BY <1>1, <1>2, <2>1, <2>2, <2>3, <2>4, <2>5, BlockStep
<1> QED
  BY <1>3, <1>4

LEMMA FirstSaveEnded ==
    ASSUME ReceiverInv, NEW n \in 1 .. Len(rcv.ends), FirstSaveEnds(n)
    PROVE  ReceiverInv'
<1> DEFINE e == rcv.ends[n]
           ends == [rcv.ends EXCEPT ![n] = [at |-> "prepare", existing |-> e.existing]]
<1>1. /\ rcv \in Receiver /\ toSender \in Seq(FromReceiver) /\ toReceiver \in Seq(FromSender)
      /\ frames \in Seq(Frame) /\ chain \in Seq(Frame) /\ FilesInv
      /\ rcv.ends \in Seq(Ending) /\ rcv.committed \in SUBSET Blocks
  BY ReceiverFields DEF ReceiverInv, WiresInv
<1>2. /\ UNCHANGED <<snd, chain, work, dest, toSender, toReceiver, frames>>
      /\ store' = [file |-> "saved", blocks |-> rcv.committed]
      /\ rcv' = [rcv EXCEPT !.ends[n].at = "prepare"]
      /\ e.at = "save"
  BY DEF FirstSaveEnds, wires, EndsAt
<1>3. e \in Ending
  BY <1>1, ElementOfSeq
<1>4. rcv.record = "full"
  <2>1. SUFFICES ASSUME rcv.record # "full"
                 PROVE  FALSE
    OBVIOUS
  <2>2. rcv.ends \in Seq(Loading)
    BY <2>1 DEF ReceiverInv, MetInv
  <2>3. e \in Loading
    BY <2>2, ElementOfSeq
  <2> QED
    BY <1>2, <2>3 DEF Loading
<1>5. ends \in Seq(Ending)
  BY <1>1, <1>3, EndGoesOn DEF Ending
<1>6. rcv' = [rcv EXCEPT !.ends = ends]
  <2>1. [e EXCEPT !.at = "prepare"] = [at |-> "prepare", existing |-> e.existing]
    BY <1>3 DEF Ending
  <2>2. [rcv.ends EXCEPT ![n].at = "prepare"]
          = [rcv.ends EXCEPT ![n] = [e EXCEPT !.at = "prepare"]]
    OBVIOUS
  <2>3. [rcv.ends EXCEPT ![n].at = "prepare"] = ends
    BY <2>1, <2>2
  <2>4. rcv' = [rcv EXCEPT !.ends = [rcv.ends EXCEPT ![n].at = "prepare"]]
    BY <1>1, <1>2 DEF Receiver
  <2> QED
    BY <2>3, <2>4
<1> HIDE DEF ends, e
<1>7. /\ rcv' \in Receiver /\ rcv'.record = "full" /\ rcv'.block = rcv.block
      /\ rcv'.committed = rcv.committed /\ rcv'.closing = rcv.closing
      /\ rcv'.state = rcv.state
  BY <1>1, <1>4, <1>5, <1>6 DEF Receiver, Ending
<1>8. BlockInv' /\ WriteInv'
  BY <1>1, <1>2, <1>7 DEF FilesInv, BlockInv, WriteInv, Held
<1>9. MetInv'
  BY <1>7 DEF MetInv
<1>10. rcv'.closing > 0 \/ rcv'.state = "DELIVERED" => AllWhole
  BY <1>7 DEF ReceiverInv, DeliveryInv
<1>11. /\ \A b \in rcv'.committed \cup store'.blocks \cup work'.saved : Whole(b)
       /\ work' \in Work /\ (work'.step # "none" => chain' # <<>> /\ work'.index \in Blocks)
       /\ store' \in [file : {"none", "torn", "saved"}, blocks : SUBSET Blocks]
  BY <1>1, <1>2, <1>7 DEF FilesInv
<1> QED
  BY <1>1, <1>2, <1>7, <1>8, <1>9, <1>10, <1>11, BlockStep

LEMMA Interrupted ==
    ASSUME ReceiverInv, ReceiverLoses \/ ReceiverFlaps
    PROVE  ReceiverInv'
<1>1. /\ rcv \in Receiver /\ toSender \in Seq(FromReceiver) /\ toReceiver \in Seq(FromSender)
      /\ frames \in Seq(Frame) /\ chain \in Seq(Frame) /\ FilesInv
  BY DEF ReceiverInv, WiresInv
<1>2. /\ UNCHANGED <<snd, chain, dest, store, toSender, toReceiver, frames>>
      /\ rcv' = InterruptedReceiver(rcv)
      /\ work' = work \/ work' = [work EXCEPT !.live = FALSE]
  BY DEF ReceiverLoses, ReceiverFlaps, wires, Unless
<1>3. /\ rcv' \in Receiver /\ rcv'.record = rcv.record /\ rcv'.block = rcv.block
      /\ rcv'.committed = rcv.committed /\ rcv'.ends = rcv.ends
      /\ rcv'.closing = rcv.closing
      /\ rcv'.state = "DELIVERED" => rcv.state = "DELIVERED"
  BY <1>1, <1>2, InterruptedFields
<1>4. /\ work' \in Work /\ work'.step = work.step /\ work'.saved = work.saved
      /\ work'.piece = work.piece /\ work'.index = work.index
      /\ work'.live => work.live
  BY <1>1, <1>2, WorkFields
<1>5. BlockInv' /\ WriteInv'
  BY <1>1, <1>2, <1>3, <1>4 DEF FilesInv, BlockInv, WriteInv, Held
<1>6. MetInv'
  BY <1>2, <1>3, <1>4 DEF ReceiverInv, MetInv
<1>7. rcv'.closing > 0 \/ rcv'.state = "DELIVERED" => AllWhole
  BY <1>3 DEF ReceiverInv, DeliveryInv
<1>8. /\ \A b \in rcv'.committed \cup store'.blocks \cup work'.saved : Whole(b)
      /\ work'.step # "none" => chain' # <<>> /\ work'.index \in Blocks
      /\ store' \in [file : {"none", "torn", "saved"}, blocks : SUBSET Blocks]
  BY <1>1, <1>2, <1>3, <1>4 DEF FilesInv
<1> QED
  BY <1>1, <1>2, <1>3, <1>4, <1>5, <1>6, <1>7, <1>8, BlockStep

-----------------------------------------------------------------------------
(* receiveData.                                                              *)

\* What is being processed belongs to a transfer whose manifest is known.
LEMMA MetWhileWorking ==
    ASSUME ReceiverInv, work.step # "none"
    PROVE  rcv.record = "full" /\ chain # <<>> /\ Head(chain) \in Frame
           /\ Tail(chain) \in Seq(Frame)
<1>1. rcv.record = "full"
  BY DEF ReceiverInv, MetInv, Idle
<1>2. chain # <<>> /\ chain \in Seq(Frame)
  BY DEF ReceiverInv, FilesInv, WiresInv
<1> QED
  BY <1>1, <1>2, Taken

LEMMA FrameTaken ==
    ASSUME ReceiverInv, TakeFrame
    PROVE  ReceiverInv'
<1>1. /\ rcv \in Receiver /\ toSender \in Seq(FromReceiver) /\ toReceiver \in Seq(FromSender)
      /\ frames \in Seq(Frame) /\ chain \in Seq(Frame) /\ FilesInv
  BY DEF ReceiverInv, WiresInv
<1>2. /\ UNCHANGED <<snd, rcv, work, dest, store, toSender, toReceiver>>
      /\ frames # <<>> /\ chain' = Append(chain, Head(frames)) /\ frames' = Tail(frames)
  BY DEF TakeFrame
<1>3. frames' \in Seq(Frame) /\ Head(frames) \in Frame
  BY <1>1, <1>2, Taken
<1>4. chain' \in Seq(Frame) /\ chain' # <<>>
  BY <1>1, <1>2, <1>3, AppendProperties
<1>5. chain # <<>> => Head(chain') = Head(chain)
  BY <1>1, <1>2, <1>3, AppendProperties
<1>6. BlockInv'
  BY <1>1, <1>2 DEF FilesInv, BlockInv, Held
<1>7. WriteInv'
  <2>1. SUFFICES ASSUME work.step = "write"
                 PROVE  WriteInv'
    BY <1>2 DEF WriteInv
  <2>2. Head(chain') = Head(chain)
    BY <1>1, <1>5, <2>1 DEF FilesInv
  <2> QED
    BY <1>1, <1>2, <2>2 DEF FilesInv, WriteInv, Held
<1>8. MetInv'
  BY <1>2 DEF ReceiverInv, MetInv
<1>9. /\ \A b \in rcv'.committed \cup store'.blocks \cup work'.saved : Whole(b)
      /\ work' \in Work /\ (work'.step # "none" => chain' # <<>> /\ work'.index \in Blocks)
      /\ store' \in [file : {"none", "torn", "saved"}, blocks : SUBSET Blocks]
  BY <1>1, <1>2, <1>4 DEF FilesInv
<1>10. rcv'.closing > 0 \/ rcv'.state = "DELIVERED" => AllWhole
  BY <1>2 DEF ReceiverInv, DeliveryInv
<1> QED
  BY <1>1, <1>2, <1>3, <1>4, <1>6, <1>7, <1>8, <1>9, <1>10, BlockStep

LEMMA FrameStarted ==
    ASSUME ReceiverInv, StartFrame
    PROVE  ReceiverInv'
<1> DEFINE frame == Head(chain)
<1>1. /\ rcv \in Receiver /\ toSender \in Seq(FromReceiver) /\ toReceiver \in Seq(FromSender)
      /\ frames \in Seq(Frame) /\ chain \in Seq(Frame) /\ FilesInv
  BY DEF ReceiverInv, WiresInv
<1>2. /\ UNCHANGED <<snd, dest, store, toReceiver, frames>>
      /\ chain # <<>> /\ work = Idle
      /\ \/ Fits(frame) /\ work' = Write /\ UNCHANGED <<rcv, chain, toSender>>
         \/ /\ chain' = Tail(chain) /\ work' = work
            /\ UNCHANGED <<rcv, toSender>> \/ ReceiverFails(rcv)
  BY DEF StartFrame
<1>3. frame \in Frame /\ Tail(chain) \in Seq(Frame)
  BY <1>1, <1>2, Taken
<1>4. CASE Fits(frame) /\ work' = Write /\ UNCHANGED <<rcv, chain, toSender>>
  <2>1. /\ frame.block = rcv.block.index /\ frame.index = rcv.block.next
        /\ frame.block \in Blocks
    BY <1>3, <1>4 DEF Fits, Frame
  <2>2. rcv.record = "full"
    BY <2>1, NoBlockFields DEF ReceiverInv, MetInv
  <2>3. /\ work' \in Work /\ work'.step = "write" /\ work'.piece = 1 /\ work'.live
        /\ work'.saved = {} /\ work'.index \in Blocks
    <3>1. rcv.block.index \in 0 .. BlockCount
      BY <2>1, NoBlockFields
    <3> QED
      BY <1>4, <2>1, <3>1, ConstantFacts DEF Write, Work
  <2>4. BlockInv'
    BY <1>1, <1>2, <1>4 DEF FilesInv, BlockInv, Held
  <2>5. WriteInv'
    <3>1. frame.index \in Nat /\ 1 \in 1 .. PieceCount /\ \A p \in 1 .. PieceCount : ~(p < 1)
      BY <1>3, ConstantFacts DEF Frame
    <3> QED
      BY <1>4, <2>1, <2>3, <3>1 DEF WriteInv
  <2>6. MetInv'
    BY <1>4, <2>2 DEF MetInv
  <2>7. /\ \A b \in rcv'.committed \cup store'.blocks \cup work'.saved : Whole(b)
        /\ store' \in [file : {"none", "torn", "saved"}, blocks : SUBSET Blocks]
    BY <1>1, <1>2, <1>4, <2>3 DEF FilesInv
  <2>8. rcv'.closing > 0 \/ rcv'.state = "DELIVERED" => AllWhole
    BY <1>4 DEF ReceiverInv, DeliveryInv
  <2> QED
    BY <1>1, <1>2, <1>4, <2>3, <2>4, <2>5, <2>6, <2>7, <2>8, BlockStep
<1>5. CASE /\ chain' = Tail(chain) /\ work' = work
           /\ UNCHANGED <<rcv, toSender>> \/ ReceiverFails(rcv)
  <2>1. /\ rcv' \in Receiver /\ rcv'.record = rcv.record /\ rcv'.block = rcv.block
        /\ rcv'.committed = rcv.committed /\ rcv'.ends = rcv.ends
        /\ rcv'.closing = rcv.closing
        /\ rcv'.state = "DELIVERED" => rcv.state = "DELIVERED"
        /\ toSender' \in Seq(FromReceiver)
    <3>1. CASE UNCHANGED <<rcv, toSender>>
      BY <1>1, <3>1
    <3>2. CASE ReceiverFails(rcv)
      BY <1>1, <3>2, ReceiverFailing, FailedReceiver
    <3> QED
      BY <1>5, <3>1, <3>2
  <2>2. work'.step = "none"
    BY <1>2, <1>5 DEF Idle
  <2>3. BlockInv' /\ WriteInv'
    BY <1>1, <1>2, <2>1, <2>2 DEF FilesInv, BlockInv, WriteInv, Held
  <2>4. MetInv'
    BY <1>2, <1>5, <2>1 DEF ReceiverInv, MetInv
  <2>5. /\ \A b \in rcv'.committed \cup store'.blocks \cup work'.saved : Whole(b)
        /\ work' \in Work
        /\ store' \in [file : {"none", "torn", "saved"}, blocks : SUBSET Blocks]
    BY <1>1, <1>2, <1>5, <2>1 DEF FilesInv
  <2>6. rcv'.closing > 0 \/ rcv'.state = "DELIVERED" => AllWhole
    BY <2>1 DEF ReceiverInv, DeliveryInv
  <2>7. toReceiver' \in Seq(FromSender) /\ frames' \in Seq(Frame) /\ chain' \in Seq(Frame)
    BY <1>1, <1>2, <1>3, <1>5
  <2> QED
    BY <1>2, <2>1, <2>2, <2>3, <2>4, <2>5, <2>6, <2>7, BlockStep
<1> QED
  BY <1>2, <1>4, <1>5

LEMMA SaveEnded ==
    ASSUME ReceiverInv, SaveEnds
    PROVE  ReceiverInv'
<1>1. /\ rcv \in Receiver /\ toSender \in Seq(FromReceiver) /\ toReceiver \in Seq(FromSender)
      /\ frames \in Seq(Frame) /\ chain \in Seq(Frame) /\ FilesInv
  BY DEF ReceiverInv, WiresInv
<1>2. /\ work.step = "save"
      /\ store' = [file |-> "saved", blocks |-> work.saved]
      /\ rcv' = [rcv EXCEPT !.state = "RECEIVING", !.block = NoBlock]
      /\ ToSender(<<About("committed", work.index)>>)
      /\ work' = Idle /\ chain' = Tail(chain)
      /\ UNCHANGED <<snd, dest, toReceiver, frames>>
  BY DEF SaveEnds
<1>3. rcv.record = "full" /\ Tail(chain) \in Seq(Frame)
  BY <1>2, MetWhileWorking
<1>4. /\ rcv' \in Receiver /\ rcv'.record = "full" /\ rcv'.block = NoBlock
      /\ rcv'.committed = rcv.committed /\ rcv'.closing = rcv.closing
      /\ rcv'.state = "RECEIVING"
  BY <1>1, <1>2, <1>3, NoBlockFields DEF Receiver, State
<1>5. work.saved \in SUBSET Blocks /\ work.index \in Blocks
  BY <1>1, <1>2 DEF FilesInv, Work
<1>6. toSender' \in Seq(FromReceiver)
  <2>1. About("committed", work.index) \in FromReceiver
    BY <1>5, Sayable
  <2> QED
    BY <1>1, <1>2, <2>1, Answers
<1>7. work' \in Work /\ work'.step = "none" /\ work'.saved = {}
  BY <1>1, <1>2, WorkFields
<1>8. chain' \in Seq(Frame)
  BY <1>2, <1>3
<1>9. BlockInv' /\ WriteInv'
  BY <1>4, <1>7, <1>8, GivenUp
<1>10. MetInv'
  BY <1>4 DEF MetInv
<1>11. rcv'.closing > 0 \/ rcv'.state = "DELIVERED" => AllWhole
  BY <1>4 DEF ReceiverInv, DeliveryInv
<1>12. /\ \A b \in rcv'.committed \cup store'.blocks \cup work'.saved : Whole(b)
       /\ store' \in [file : {"none", "torn", "saved"}, blocks : SUBSET Blocks]
  BY <1>1, <1>2, <1>4, <1>5, <1>7 DEF FilesInv
<1> QED
  BY <1>1, <1>2, <1>4, <1>6, <1>7, <1>8, <1>9, <1>10, <1>11, <1>12, BlockStep

LEMMA ProcessingFailed ==
    ASSUME ReceiverInv, ProcessingFails
    PROVE  ReceiverInv'
<1>1. /\ rcv \in Receiver /\ toSender \in Seq(FromReceiver) /\ toReceiver \in Seq(FromSender)
      /\ frames \in Seq(Frame) /\ chain \in Seq(Frame) /\ FilesInv
  BY DEF ReceiverInv, WiresInv
<1>2. /\ work.step # "none"
      /\ ReceiverFails(rcv)
      /\ work' = Idle /\ chain' = Tail(chain)
      /\ UNCHANGED <<snd, dest, store, toReceiver, frames>>
  BY DEF ProcessingFails
<1>3. rcv.record = "full" /\ Tail(chain) \in Seq(Frame)
  BY <1>2, MetWhileWorking
<1>4. rcv' = Failed(rcv) /\ toSender' \in Seq(FromReceiver)
  BY <1>1, <1>2, ReceiverFailing
<1>5. /\ rcv' \in Receiver /\ rcv'.record = "full" /\ rcv'.block = rcv.block
      /\ rcv'.committed = rcv.committed /\ rcv'.closing = rcv.closing
      /\ rcv'.state = "DELIVERED" => rcv.state = "DELIVERED"
  BY <1>1, <1>3, <1>4, FailedReceiver
<1>6. work' \in Work /\ work'.step = "none" /\ work'.saved = {}
  BY <1>1, <1>2, WorkFields
<1>7. BlockInv' /\ WriteInv'
  BY <1>1, <1>2, <1>5, <1>6 DEF FilesInv, BlockInv, WriteInv, Held
<1>8. MetInv'
  BY <1>5 DEF MetInv
<1>9. rcv'.closing > 0 \/ rcv'.state = "DELIVERED" => AllWhole
  BY <1>5 DEF ReceiverInv, DeliveryInv
<1>10. /\ \A b \in rcv'.committed \cup store'.blocks \cup work'.saved : Whole(b)
       /\ store' \in [file : {"none", "torn", "saved"}, blocks : SUBSET Blocks]
  BY <1>1, <1>2, <1>5, <1>6 DEF FilesInv
<1> QED
  BY <1>1, <1>2, <1>3, <1>4, <1>5, <1>6, <1>7, <1>8, <1>9, <1>10, BlockStep

\* The cell of the destination that a write fills.
LEMMA CellWritten ==
    ASSUME ReceiverInv, WriteEnds
    PROVE  LET frame == Head(chain)
           IN  /\ frame \in Frame
               /\ work.piece \in 1 .. PieceCount
               /\ dest' \in [Blocks -> [0 .. FrameCount - 1 -> [1 .. PieceCount -> Content]]]
               /\ StaysWhole
               /\ \A b \in Blocks, k \in 0 .. FrameCount - 1, p \in 1 .. PieceCount :
                     b # frame.block \/ k # frame.index \/ p # work.piece =>
                        dest'[b][k][p] = dest[b][k][p]
               /\ frame.content = "good" =>
                     dest'[frame.block][frame.index][work.piece] = "good"
<1> DEFINE frame == Head(chain)
           w == Written(frame.block, frame.content)
<1>1. work.step = "write" /\ dest' = [dest EXCEPT ![frame.block][frame.index][work.piece] = w]
  BY DEF WriteEnds
<1>2. frame \in Frame /\ work.piece \in 1 .. PieceCount
  <2>1. frame \in Frame
    BY <1>1, MetWhileWorking
  <2>2. work.piece \in 1 .. PieceCount
    BY <1>1 DEF ReceiverInv, FilesInv, WriteInv
  <2> QED
    BY <2>1, <2>2
<1>3. /\ frame.block \in Blocks /\ frame.index \in 0 .. FrameCount - 1
      /\ frame.content \in {"good", "bad"}
  BY <1>2 DEF Frame, Payload
<1>4. /\ w \in Content
      /\ frame.content = "good" => w = "good"
      /\ Whole(frame.block) => w \in {"good", "replaced"}
  BY <1>3 DEF Written, Content, Payload
<1>5. dest \in [Blocks -> [0 .. FrameCount - 1 -> [1 .. PieceCount -> Content]]]
  BY DEF ReceiverInv, FilesInv
<1> HIDE DEF frame, w
<1> DEFINE old == dest[frame.block]
           row == [old[frame.index] EXCEPT ![work.piece] = w]
           new == [old EXCEPT ![frame.index] = row]
<1>6. dest' = [dest EXCEPT ![frame.block] = new]
  BY <1>1
<1>7. /\ old \in [0 .. FrameCount - 1 -> [1 .. PieceCount -> Content]]
      /\ old[frame.index] \in [1 .. PieceCount -> Content]
  BY <1>3, <1>5
<1> HIDE DEF old
<1>8. /\ row \in [1 .. PieceCount -> Content]
      /\ row[work.piece] = w
      /\ \A p \in 1 .. PieceCount : p # work.piece => row[p] = old[frame.index][p]
  BY <1>2, <1>4, <1>7
<1> HIDE DEF row
<1>9. /\ new \in [0 .. FrameCount - 1 -> [1 .. PieceCount -> Content]]
      /\ new[frame.index] = row
      /\ \A k \in 0 .. FrameCount - 1 : k # frame.index => new[k] = old[k]
  BY <1>3, <1>7, <1>8
<1> HIDE DEF new
<1>10. /\ dest' \in [Blocks -> [0 .. FrameCount - 1 -> [1 .. PieceCount -> Content]]]
      /\ dest'[frame.block] = new
      /\ \A b \in Blocks : b # frame.block => dest'[b] = dest[b]
  BY <1>6, <1>9, <1>3, <1>5
<1>11. ASSUME NEW b \in Blocks, NEW k \in 0 .. FrameCount - 1, NEW p \in 1 .. PieceCount
      PROVE  IF b = frame.block /\ k = frame.index /\ p = work.piece
             THEN dest'[b][k][p] = w ELSE dest'[b][k][p] = dest[b][k][p]
  <2>1. CASE b # frame.block
    BY <1>10, <2>1
  <2>2. CASE b = frame.block /\ k # frame.index
    BY <1>10, <1>9, <2>2 DEF old
  <2>3. CASE b = frame.block /\ k = frame.index /\ p # work.piece
    BY <1>10, <1>8, <1>9, <2>3 DEF old
  <2>4. CASE b = frame.block /\ k = frame.index /\ p = work.piece
    BY <1>10, <1>8, <1>9, <2>4
  <2> QED
    BY <2>1, <2>2, <2>3, <2>4
<1>12. StaysWhole
  <2>1. SUFFICES ASSUME NEW b \in Blocks, Whole(b),
                        NEW k \in 0 .. FrameCount - 1, NEW p \in 1 .. PieceCount
                 PROVE  dest'[b][k][p] \in {"good", "replaced"}
    BY DEF StaysWhole, Whole
  <2>2. dest[b][k][p] \in {"good", "replaced"}
    BY <2>1 DEF Whole
  <2> QED
    BY <1>4, <1>11, <2>1, <2>2
<1>13. \A b \in Blocks, k \in 0 .. FrameCount - 1, p \in 1 .. PieceCount :
        b # frame.block \/ k # frame.index \/ p # work.piece =>
           dest'[b][k][p] = dest[b][k][p]
  BY <1>11
<1>14. frame.content = "good" => dest'[frame.block][frame.index][work.piece] = "good"
  BY <1>2, <1>3, <1>4, <1>11
<1> QED
  BY <1>2, <1>10, <1>12, <1>13, <1>14 DEF frame

\* A step of receiveData that writes, with what it must keep.
LEMMA WriteStep ==
    ASSUME ReceiverInv, WriteEnds, rcv' \in Receiver, rcv'.record = rcv.record,
           rcv'.closing = rcv.closing, rcv'.state = rcv.state,
           toSender' \in Seq(FromReceiver), chain' \in Seq(Frame),
           work' \in Work, work'.step # "none" => chain' # <<>> /\ work'.index \in Blocks,
           BlockInv', WriteInv',
           \A b \in rcv'.committed \cup work'.saved :
             b \in rcv.committed \cup work.saved \/ Whole(b)'
    PROVE  ReceiverInv'
<1>1. UNCHANGED <<snd, store, toReceiver, frames>>
  BY DEF WriteEnds
<1>2. /\ StaysWhole
      /\ dest' \in [Blocks -> [0 .. FrameCount - 1 -> [1 .. PieceCount -> Content]]]
  BY CellWritten
<1>3. AllWhole => AllWhole'
  BY <1>2, WiresStay
<1>4. WiresInv'
  <2>1. FromSender \subseteq FromSender' /\ FromReceiver \subseteq FromReceiver'
    BY <1>2, WiresStay
  <2>2. /\ toReceiver \in Seq(FromSender) /\ frames \in Seq(Frame)
        /\ toSender' \in Seq(FromReceiver)
    BY DEF ReceiverInv, WiresInv
  <2>3. toReceiver' \in Seq(FromSender') /\ toSender' \in Seq(FromReceiver')
    BY <1>1, <2>1, <2>2, SeqOfLarger
  <2> QED
    BY <1>1, <2>2, <2>3 DEF WiresInv
<1>5. rcv.record = "full"
  BY MetWhileWorking DEF WriteEnds
<1>6. MetInv'
  BY <1>5 DEF MetInv
<1>7. FilesInv'
  <2>1. \A b \in rcv.committed \cup store.blocks \cup work.saved : b \in Blocks /\ Whole(b)
    BY ReceiverFields DEF ReceiverInv, FilesInv, Work
  <2>2. \A b \in rcv'.committed \cup store'.blocks \cup work'.saved : Whole(b)'
    BY <1>1, <1>2, <2>1 DEF StaysWhole
  <2> QED
    BY <1>1, <1>2, <2>2 DEF ReceiverInv, FilesInv
<1>8. DeliveryInv'
  BY <1>1, <1>3 DEF ReceiverInv, DeliveryInv
<1> QED
  BY <1>4, <1>6, <1>7, <1>8 DEF ReceiverInv

\* What is in the files after a write: the frames before the next one as
\* before, and the whole frame once its last piece is written.
LEMMA FramesWritten ==
    ASSUME ReceiverInv, WriteEnds
    PROVE  LET frame == Head(chain)
           IN  /\ rcv.block.index \in Blocks /\ rcv.block.good =>
                    \A k \in 0 .. FrameCount - 1 : k < rcv.block.next =>
                       \A p \in 1 .. PieceCount :
                          dest'[rcv.block.index][k][p] \in {"good", "replaced"}
               /\ work.live /\ frame.content = "good" =>
                    \A p \in 1 .. PieceCount : p <= work.piece =>
                       dest'[frame.block][frame.index][p] \in {"good", "replaced"}
<1> DEFINE frame == Head(chain)
<1>1. /\ frame \in Frame /\ work.piece \in 1 .. PieceCount
      /\ \A b \in Blocks, k \in 0 .. FrameCount - 1, p \in 1 .. PieceCount :
            b # frame.block \/ k # frame.index \/ p # work.piece =>
               dest'[b][k][p] = dest[b][k][p]
      /\ frame.content = "good" =>
            dest'[frame.block][frame.index][work.piece] = "good"
  BY CellWritten
<1>2. BlockInv /\ WriteInv /\ work.step = "write" /\ rcv \in Receiver
  BY DEF ReceiverInv, FilesInv, WriteEnds
<1>3. /\ rcv.block.index = frame.block => rcv.block.next <= frame.index
      /\ work.live /\ frame.content = "good" =>
            \A p \in 1 .. PieceCount :
               p < work.piece => Held(frame.block, frame.index, p)
  BY <1>2 DEF WriteInv
<1>4. frame.block \in Blocks /\ frame.index \in 0 .. FrameCount - 1
  BY <1>1 DEF Frame
<1> HIDE DEF frame
<1>5. rcv.block.next \in 0 .. FrameCount
  BY <1>2, ReceiverFields
<1>6. ASSUME rcv.block.index \in Blocks, rcv.block.good,
             NEW k \in 0 .. FrameCount - 1, k < rcv.block.next, NEW p \in 1 .. PieceCount
      PROVE  dest'[rcv.block.index][k][p] \in {"good", "replaced"}
  <2>1. Held(rcv.block.index, k, p)
    BY <1>2, <1>6 DEF BlockInv
  <2>2. rcv.block.index # frame.block \/ k # frame.index
    BY <1>3, <1>4, <1>5, <1>6, ConstantFacts
  <2>3. dest'[rcv.block.index][k][p] = dest[rcv.block.index][k][p]
    BY <1>1, <1>6, <2>2
  <2> QED
    BY <2>1, <2>3 DEF Held
<1>7. ASSUME work.live, frame.content = "good",
             NEW p \in 1 .. PieceCount, p <= work.piece
      PROVE  dest'[frame.block][frame.index][p] \in {"good", "replaced"}
  <2>1. CASE p = work.piece
    BY <1>1, <1>7, <2>1
  <2>2. CASE p # work.piece
    <3>1. p < work.piece
      BY <1>1, <1>7, <2>2
    <3>2. Held(frame.block, frame.index, p)
      BY <1>3, <1>7, <3>1
    <3>3. dest'[frame.block][frame.index][p] = dest[frame.block][frame.index][p]
      BY <1>1, <1>4, <2>2
    <3> QED
      BY <3>2, <3>3 DEF Held
  <2> QED
    BY <2>1, <2>2
<1> QED
  BY <1>6, <1>7 DEF frame

\* The block after a step that leaves it alone.
LEMMA BlockWritten ==
    ASSUME ReceiverInv, WriteEnds, rcv'.block = rcv.block
    PROVE  BlockInv'
<1>1. BlockInv
  BY DEF ReceiverInv, FilesInv
<1>2. rcv.block.index \in Blocks /\ rcv.block.good =>
         \A k \in 0 .. FrameCount - 1 : k < rcv.block.next =>
            \A p \in 1 .. PieceCount :
               dest'[rcv.block.index][k][p] \in {"good", "replaced"}
  BY FramesWritten
<1> QED
  BY <1>1, <1>2 DEF BlockInv, Held

LEMMA BlockNextChanges ==
    ASSUME rcv \in Receiver, NEW next \in 0 .. FrameCount, NEW good \in BOOLEAN
    PROVE  [rcv.block EXCEPT !.next = next, !.good = good]
             \in [index : 0 .. BlockCount, next : 0 .. FrameCount, good : BOOLEAN]
<1>1. rcv.block \in [index : 0 .. BlockCount, next : 0 .. FrameCount, good : BOOLEAN]
  BY ReceiverFields
<1> QED
  BY <1>1

LEMMA NextPiece ==
    ASSUME NEW w \in Work, w.piece + 1 \in 1 .. PieceCount,
           NEW v, v = [w EXCEPT !.piece = @ + 1]
    PROVE  /\ v \in Work
           /\ v.step = w.step /\ v.saved = w.saved /\ v.index = w.index
           /\ v.piece = w.piece + 1 /\ v.live = w.live
<1>1. w.piece + 1 \in 0 .. PieceCount
  BY ConstantFacts
<1> QED
  BY <1>1 DEF Work

\* A write whose block has been given up, or that is followed by another piece
\* of the same frame.
LEMMA PieceWritten ==
    ASSUME ReceiverInv, WriteEnds, ~work.live \/ work.piece < PieceCount
    PROVE  ReceiverInv'
<1> DEFINE frame == Head(chain)
<1>1. /\ rcv \in Receiver /\ toSender \in Seq(FromReceiver)
      /\ chain \in Seq(Frame) /\ FilesInv /\ work.step = "write"
  BY DEF ReceiverInv, WiresInv, WriteEnds
<1>2. /\ chain # <<>> /\ frame \in Frame /\ Tail(chain) \in Seq(Frame)
      /\ work.piece \in 1 .. PieceCount /\ work \in Work /\ work.index \in Blocks
  BY <1>1, MetWhileWorking, WorkFields DEF FilesInv
<1>3. UNCHANGED <<rcv, toSender>>
  BY <1>2, ConstantFacts DEF WriteEnds
<1>4. BlockInv'
  BY <1>3, BlockWritten
<1>5. CASE ~work.live
  <2>1. work' = Idle /\ chain' = Tail(chain)
    BY <1>5 DEF WriteEnds
  <2>2. work' \in Work /\ work'.step = "none" /\ work'.saved = {}
    BY <1>1, <2>1, WorkFields
  <2>3. WriteInv'
    BY <2>2 DEF WriteInv
  <2> QED
    BY <1>1, <1>2, <1>3, <1>4, <2>1, <2>2, <2>3, WriteStep
<1>6. CASE work.live /\ work.piece < PieceCount
  <2>1. work' = [work EXCEPT !.piece = @ + 1] /\ chain' = chain
    BY <1>2, <1>6 DEF WriteEnds
  <2>2. work.piece + 1 \in 1 .. PieceCount
    BY <1>2, <1>6, ConstantFacts
  <2>3. /\ work' \in Work /\ work'.step = "write" /\ work'.saved = work.saved
        /\ work'.index = work.index /\ work'.piece = work.piece + 1
        /\ work'.live = work.live
    <3>1. work \in Work /\ work.step = "write"
      BY <1>1, <1>2
    <3> QED
      BY <2>1, <2>2, <3>1, NextPiece
  <2>4. WriteInv'
    <3>1. /\ rcv.block.index = frame.block /\ rcv.block.next = frame.index
          /\ rcv.block.index = frame.block => rcv.block.next <= frame.index
      BY <1>1, <1>6 DEF FilesInv, WriteInv
    <3>2. frame.content = "good" =>
            \A p \in 1 .. PieceCount : p <= work.piece =>
               dest'[frame.block][frame.index][p] \in {"good", "replaced"}
      BY <1>6, FramesWritten
    <3>3. \A p \in 1 .. PieceCount : p < work.piece + 1 => p <= work.piece
      BY <1>2, ConstantFacts
    <3> QED
      BY <1>3, <2>1, <2>2, <2>3, <3>1, <3>2, <3>3 DEF WriteInv, Held
  <2> QED
    BY <1>1, <1>2, <1>3, <1>4, <2>1, <2>3, <2>4, WriteStep
<1> QED
  BY <1>2, <1>5, <1>6

\* The last piece of a frame that is not the last one.
LEMMA FrameWritten ==
    ASSUME ReceiverInv, WriteEnds, work.live, work.piece = PieceCount,
           rcv.block.next # FrameCount - 1
    PROVE  ReceiverInv'
<1> DEFINE frame == Head(chain)
           good == rcv.block.good /\ frame.content = "good"
           block == [rcv.block EXCEPT !.next = @ + 1, !.good = good]
<1>1. /\ rcv \in Receiver /\ toSender \in Seq(FromReceiver)
      /\ chain \in Seq(Frame) /\ FilesInv /\ work.step = "write"
  BY DEF ReceiverInv, WiresInv, WriteEnds
<1>2. frame \in Frame /\ Tail(chain) \in Seq(Frame)
  BY <1>1, MetWhileWorking
<1>3. /\ rcv' = [rcv EXCEPT !.block.next = @ + 1, !.block.good = good]
      /\ work' = Idle /\ chain' = Tail(chain) /\ UNCHANGED toSender
  BY ConstantFacts DEF WriteEnds
<1>4. /\ rcv.block.index = frame.block /\ rcv.block.next = frame.index
      /\ frame.block \in Blocks /\ frame.index \in 0 .. FrameCount - 1
  BY <1>1, <1>2 DEF FilesInv, WriteInv, Frame
<1>5. rcv.block \in [index : 0 .. BlockCount, next : 0 .. FrameCount, good : BOOLEAN]
  BY <1>1, ReceiverFields
<1>6. rcv.block.next + 1 \in 0 .. FrameCount
  BY <1>4, ConstantFacts
<1>7. /\ block \in [index : 0 .. BlockCount, next : 0 .. FrameCount, good : BOOLEAN]
      /\ block.index = frame.block /\ block.next = frame.index + 1
      /\ block.good => rcv.block.good /\ frame.content = "good"
  <2>1. good \in BOOLEAN
    OBVIOUS
  <2>2. good => rcv.block.good /\ frame.content = "good"
    OBVIOUS
  <2> HIDE DEF good, frame
  <2> QED
    BY <1>4, <1>5, <1>6, <2>1, <2>2
<1>8. rcv' = [rcv EXCEPT !.block = block]
  BY <1>1, <1>3 DEF Receiver
<1> HIDE DEF block, good
<1>9. /\ rcv' \in Receiver /\ rcv'.record = rcv.record /\ rcv'.block = block
      /\ rcv'.committed = rcv.committed /\ rcv'.closing = rcv.closing
      /\ rcv'.state = rcv.state
  BY <1>1, <1>7, <1>8 DEF Receiver
<1>10. BlockInv'
  <2>1. ASSUME block.good, NEW k \in 0 .. FrameCount - 1, k < block.next,
               NEW p \in 1 .. PieceCount
        PROVE  dest'[block.index][k][p] \in {"good", "replaced"}
    <3>1. CASE k < rcv.block.next
      BY <1>4, <1>7, <2>1, <3>1, FramesWritten
    <3>2. CASE k = frame.index
      BY <1>7, <2>1, <3>2, FramesWritten, ConstantFacts
    <3> QED
      BY <1>4, <1>7, <2>1, <3>1, <3>2, ConstantFacts
  <2>2. block.index # BlockCount
    BY <1>4, <1>7, NoBlockFields
  <2> QED
    BY <1>9, <2>1, <2>2 DEF BlockInv, Held
<1>11. work' \in Work /\ work'.step = "none" /\ work'.saved = {}
  BY <1>1, <1>3, WorkFields
<1>12. WriteInv'
  BY <1>11 DEF WriteInv
<1> QED
  BY <1>1, <1>2, <1>3, <1>9, <1>10, <1>11, <1>12, WriteStep

\* A block that differs from its digest.
LEMMA BlockRefused ==
    ASSUME ReceiverInv, WriteEnds, work.live, work.piece = PieceCount,
           rcv.block.next = FrameCount - 1,
           ~(rcv.block.good /\ Head(chain).content = "good")
    PROVE  ReceiverInv'
<1> DEFINE frame == Head(chain)
<1>1. /\ rcv \in Receiver /\ toSender \in Seq(FromReceiver)
      /\ chain \in Seq(Frame) /\ FilesInv /\ work.step = "write"
  BY DEF ReceiverInv, WiresInv, WriteEnds
<1>2. frame \in Frame /\ Tail(chain) \in Seq(Frame)
  BY <1>1, MetWhileWorking
<1>3. /\ rcv' = [rcv EXCEPT !.block = NoBlock]
      /\ ToSender(<<About("nack", frame.block)>>)
      /\ work' = Idle /\ chain' = Tail(chain)
  BY ConstantFacts DEF WriteEnds
<1>4. /\ rcv' \in Receiver /\ rcv'.record = rcv.record /\ rcv'.block = NoBlock
      /\ rcv'.committed = rcv.committed /\ rcv'.closing = rcv.closing
      /\ rcv'.state = rcv.state
  BY <1>1, <1>3, NoBlockFields DEF Receiver
<1>5. work' \in Work /\ work'.step = "none" /\ work'.saved = {}
  BY <1>1, <1>3, WorkFields
<1>6. chain' \in Seq(Frame)
  BY <1>2, <1>3
<1>7. BlockInv' /\ WriteInv'
  BY <1>4, <1>5, <1>6, GivenUp
<1>8. toSender' \in Seq(FromReceiver)
  <2>1. About("nack", frame.block) \in FromReceiver
    BY <1>2, Sayable DEF Frame
  <2> QED
    BY <1>1, <1>3, <2>1, Answers
<1> QED
  BY <1>4, <1>5, <1>6, <1>7, <1>8, WriteStep

\* A block that is committed is whole.
LEMMA BlockCommitted ==
    ASSUME ReceiverInv, WriteEnds, work.live, work.piece = PieceCount,
           rcv.block.next = FrameCount - 1,
           rcv.block.good, Head(chain).content = "good"
    PROVE  ReceiverInv'
<1> DEFINE frame == Head(chain)
           b == frame.block
           block == [rcv.block EXCEPT !.next = @ + 1]
           committed == rcv.committed \cup {b}
<1>1. /\ rcv \in Receiver /\ toSender \in Seq(FromReceiver)
      /\ chain \in Seq(Frame) /\ FilesInv /\ work.step = "write"
  BY DEF ReceiverInv, WiresInv, WriteEnds
<1>2. frame \in Frame /\ chain # <<>> /\ work \in Work /\ work.index \in Blocks
  BY <1>1, MetWhileWorking DEF FilesInv
<1>3. /\ rcv' = [rcv EXCEPT !.committed = @ \cup {b}, !.block.next = @ + 1]
      /\ work' = [work EXCEPT !.step = "save", !.saved = rcv.committed \cup {b}]
      /\ UNCHANGED <<chain, toSender>>
  BY ConstantFacts DEF WriteEnds
<1>4. /\ rcv.block.index = b /\ rcv.block.next = frame.index
      /\ b \in Blocks /\ frame.index = FrameCount - 1
  BY <1>1, <1>2 DEF FilesInv, WriteInv, Frame
<1>5. /\ rcv.block \in [index : 0 .. BlockCount, next : 0 .. FrameCount, good : BOOLEAN]
      /\ committed \in SUBSET Blocks
  BY <1>1, <1>4, ReceiverFields
<1>6. ASSUME NEW k \in 0 .. FrameCount - 1, NEW p \in 1 .. PieceCount
      PROVE  dest'[b][k][p] \in {"good", "replaced"}
  <2>1. CASE k < rcv.block.next
    BY <1>4, <1>6, <2>1, FramesWritten
  <2>2. CASE k = frame.index
    BY <1>6, <2>2, FramesWritten, ConstantFacts
  <2> QED
    BY <1>4, <1>6, <2>1, <2>2, ConstantFacts
<1>7. /\ block \in [index : 0 .. BlockCount, next : 0 .. FrameCount, good : BOOLEAN]
      /\ block.index = b
  BY <1>4, <1>5, ConstantFacts
<1>8. rcv' = [rcv EXCEPT !.committed = committed, !.block = block]
  BY <1>1, <1>3 DEF Receiver
<1> HIDE DEF b, block, committed
<1>9. /\ rcv' \in Receiver /\ rcv'.record = rcv.record /\ rcv'.block = block
      /\ rcv'.committed = committed /\ rcv'.closing = rcv.closing
      /\ rcv'.state = rcv.state
  BY <1>1, <1>5, <1>7, <1>8 DEF Receiver
<1>10. BlockInv'
  <2>1. block.index # BlockCount
    BY <1>4, <1>7, NoBlockFields
  <2> QED
    BY <1>6, <1>7, <1>9, <2>1 DEF BlockInv, Held
<1>11. /\ work' \in Work /\ work'.step = "save" /\ work'.saved = committed
       /\ work'.index = work.index
  BY <1>2, <1>3, <1>5 DEF Work, committed
<1>12. WriteInv'
  BY <1>11 DEF WriteInv
<1>13. \A c \in rcv'.committed \cup work'.saved :
         c \in rcv.committed \cup work.saved \/ Whole(c)'
  BY <1>6, <1>9, <1>11 DEF committed, Whole
<1>14. toSender' \in Seq(FromReceiver) /\ chain' \in Seq(Frame) /\ chain' # <<>>
  BY <1>1, <1>2, <1>3
<1> QED
  BY <1>2, <1>9, <1>10, <1>11, <1>12, <1>13, <1>14, WriteStep

LEMMA WriteEnded ==
    ASSUME ReceiverInv, WriteEnds
    PROVE  ReceiverInv'
<1>1. work.piece \in 1 .. PieceCount
  BY DEF ReceiverInv, FilesInv, WriteInv, WriteEnds
<1>2. work.live /\ ~(work.piece < PieceCount) => work.piece = PieceCount
  BY <1>1, ConstantFacts
<1> QED
  BY <1>2, PieceWritten, FrameWritten, BlockRefused, BlockCommitted

-----------------------------------------------------------------------------
(* The steps, of either side and of the connection.                          *)

ReceiverMoves ==
    \/ FirstOffer \/ Reoffer \/ ReofferThrows \/ Accept \/ CancelReceiver
    \/ ReceiverManifest \/ ReceiverDigest \/ ReceiverRoot \/ ReceiverToldFailed
    \/ \E n \in 1 .. Len(rcv.ends) : ManifestEnd(n)
    \/ TakeFrame \/ StartFrame \/ WriteEnds \/ SaveEnds \/ ProcessingFails
    \/ CloseEnds \/ CloseFails \/ ReceiverLoses \/ ReceiverFlaps

\* What the receiver leaves to the sender.
ReceiverFrame ==
    /\ UNCHANGED <<calm, snd, link, noticed>>
    /\ losses' = losses \/ (losses < MaxLosses /\ losses' = losses + 1)
    /\ faults' = faults \/ (faults < MaxFaults /\ faults' = faults + 1)
    /\ final' = final \/ final' \in {"closing", "closed", "aborted"}

LEMMA ReceiverFraming ==
    ASSUME ReceiverMoves
    PROVE  ReceiverFrame
<1>1. ASSUME FirstOffer \/ Reoffer \/ ReofferThrows \/ Accept \/ CancelReceiver
      PROVE  ReceiverFrame
  BY <1>1 DEF FirstOffer, Reoffer, ReofferThrows, Accept, CancelReceiver, Fault,
              ReceiverFrame, network, wires
<1>2. ASSUME ReceiverManifest \/ ReceiverDigest \/ ReceiverRoot \/ ReceiverToldFailed
      PROVE  ReceiverFrame
  BY <1>2 DEF ReceiverManifest, ReceiverDigest, ReceiverRoot, ReceiverToldFailed,
              ReceiverFrame, network, wires
<1>3. ASSUME NEW n \in 1 .. Len(rcv.ends), ManifestEnd(n)
      PROVE  ReceiverFrame
  BY <1>3 DEF ManifestEnd, LoadEnds, FirstSaveEnds, PrepareEnds, ReceiverFrame,
              network, wires
<1>4. ASSUME TakeFrame \/ StartFrame \/ WriteEnds
      PROVE  ReceiverFrame
  BY <1>4 DEF TakeFrame, StartFrame, WriteEnds, ReceiverFrame, network, wires
<1>5. ASSUME SaveEnds \/ ProcessingFails
      PROVE  ReceiverFrame
  BY <1>5 DEF SaveEnds, ProcessingFails, Fault, ReceiverFrame, network, wires
<1>6. ASSUME CloseEnds \/ CloseFails
      PROVE  ReceiverFrame
  BY <1>6 DEF CloseEnds, CloseFails, Fault, ReceiverFrame, network, wires
<1>7. ASSUME ReceiverLoses \/ ReceiverFlaps
      PROVE  ReceiverFrame
  BY <1>7 DEF ReceiverLoses, ReceiverFlaps, ReceiverFrame, network, wires
<1> QED
  BY <1>1, <1>2, <1>3, <1>4, <1>5, <1>6, <1>7 DEF ReceiverMoves

LEMMA ReceiverStep ==
    ASSUME IInv, ReceiverMoves
    PROVE  IInv'
<1>1. ReceiverInv
  BY DEF IInv, ReceiverInv
<1>2. ReceiverInv'
  <2>1. ASSUME NEW n \in 1 .. Len(rcv.ends), ManifestEnd(n)
        PROVE  ReceiverInv'
    BY <1>1, <2>1, LoadEnded, FirstSaveEnded, Preparing DEF ManifestEnd
  <2> QED
    BY <1>1, <2>1, OfferTaken, OfferedAgain, AcceptAndCancel, ManifestTaken, DigestTaken,
       RootTaken, FailTaken, FrameTaken, FrameStarted, WriteEnded, SaveEnded,
       ProcessingFailed, Closing, Interrupted
       DEF ReceiverMoves
<1>3. ReceiverFrame
  BY ReceiverFraming
<1>4. losses \in 0 .. MaxLosses /\ losses' \in 0 .. MaxLosses /\ losses <= losses'
  BY <1>3, ConstantFacts DEF ReceiverFrame, IInv, NetworkInv
<1>5. faults' \in 0 .. MaxFaults
  BY <1>3, ConstantFacts DEF ReceiverFrame, IInv, NetworkInv
<1>6. NetworkInv'
  BY <1>3, <1>4, <1>5 DEF ReceiverFrame, IInv, NetworkInv
<1>7. SenderInv'
  <2>1. SenderOK(snd) /\ UNCHANGED <<snd, link>>
    BY <1>3 DEF ReceiverFrame, IInv, SenderInv
  <2>2. snd.reference \in Nat
    BY <2>1, SenderFields, ConstantFacts DEF SenderOK, References
  <2>3. snd.reference <= IF link = "up" THEN losses + 1 ELSE losses
    BY DEF IInv, SenderInv
  <2>4. snd.reference <= IF link = "up" THEN losses' + 1 ELSE losses'
    BY <1>4, <2>2, <2>3
  <2> QED
    BY <2>1, <2>4 DEF SenderInv, SenderOK
<1> QED
  BY <1>2, <1>6, <1>7 DEF IInv, ReceiverInv

\* A step that leaves the receiver alone, with what it must keep.
LEMMA SenderStep ==
    ASSUME IInv, UNCHANGED <<receiver, calm>>,
           SenderOK(snd'), Started(snd') => rcv.record = "full",
           snd'.state = "DELIVERED" => AllWhole,
           snd'.reference <= IF link' = "up" THEN losses' + 1 ELSE losses',
           link' \in {"up", "cut", "rebuilt"}, noticed' \in BOOLEAN,
           losses' \in 0 .. MaxLosses, faults' \in 0 .. MaxFaults,
           toReceiver' \in Seq(FromSender), toSender' \in Seq(FromReceiver),
           frames' \in Seq(Frame)
    PROVE  IInv'
<1>1. UNCHANGED <<rcv, chain, work, dest, final, store>>
  BY DEF receiver
<1>2. StaysWhole
  BY <1>1 DEF StaysWhole, Whole
<1>3. AllWhole => AllWhole'
  BY <1>1, <1>2, WiresStay
<1>4. SenderInv'
  BY DEF SenderInv, SenderOK
<1>5. NetworkInv'
  BY <1>1 DEF IInv, NetworkInv
<1>6. WiresInv'
  <2>1. FromSender \subseteq FromSender' /\ FromReceiver \subseteq FromReceiver'
    BY <1>1, <1>2, WiresStay
  <2>2. toReceiver' \in Seq(FromSender') /\ toSender' \in Seq(FromReceiver')
    BY <2>1, SeqOfLarger
  <2> QED
    BY <1>1, <2>2 DEF IInv, WiresInv
<1>7. MetInv'
  <2>1. rcv.record # "full" => \A i \in LoopId : snd'.loops[i].pc = "none"
    BY DEF Started
  <2> QED
    BY <1>1, <2>1 DEF IInv, MetInv
<1>8. FilesInv'
  <2>1. BlockInv' /\ WriteInv'
    BY <1>1 DEF IInv, FilesInv, BlockInv, WriteInv, Held
  <2>2. \A b \in rcv'.committed \cup store'.blocks \cup work'.saved : Whole(b)'
    BY <1>1 DEF IInv, FilesInv, Whole
  <2> QED
    BY <1>1, <2>1, <2>2 DEF IInv, FilesInv
<1>9. DeliveryInv'
  BY <1>1, <1>3 DEF IInv, DeliveryInv
<1>10. rcv' \in Receiver
  BY <1>1 DEF IInv
<1> QED
  BY <1>4, <1>5, <1>6, <1>7, <1>8, <1>9, <1>10 DEF IInv

\* What the invariant says to the sender.
LEMMA SenderKnows ==
    ASSUME IInv
    PROVE  /\ SenderOK(snd)
           /\ snd.reference \in Nat
           /\ Started(snd) => rcv.record = "full"
           /\ snd.state = "DELIVERED" => AllWhole
           /\ snd.reference <= IF link = "up" THEN losses + 1 ELSE losses
           /\ link \in {"up", "cut", "rebuilt"} /\ noticed \in BOOLEAN
           /\ losses \in 0 .. MaxLosses /\ losses \in Nat /\ faults \in 0 .. MaxFaults
           /\ toReceiver \in Seq(FromSender) /\ toSender \in Seq(FromReceiver)
           /\ frames \in Seq(Frame)
<1>1. SenderOK(snd) /\ snd.reference \in References
  BY SenderFields DEF IInv, SenderInv, SenderOK
<1>2. snd.reference \in Nat
  BY <1>1, ConstantFacts DEF References
<1>3. Started(snd) => rcv.record = "full"
  BY DEF IInv, MetInv, Started
<1>4. losses \in 0 .. MaxLosses /\ losses \in Nat
  BY ConstantFacts DEF IInv, NetworkInv
<1> QED
  BY <1>1, <1>2, <1>3, <1>4 DEF IInv, SenderInv, NetworkInv, WiresInv, DeliveryInv

LEMMA SenderMoved ==
    ASSUME IInv, SenderMoves
    PROVE  IInv'
<1>1. SenderReadyToStep
  BY SenderKnows DEF SenderReadyToStep
<1>2. /\ SenderStepped
      /\ toSender' \in Seq(FromReceiver) /\ frames' \in Seq(Frame)
      /\ UNCHANGED <<receiver, network, calm>>
      /\ faults' \in 0 .. MaxFaults
  BY <1>1, SenderKnows, SenderMoving
<1>3. /\ SenderOK(snd') /\ snd'.reference = snd.reference
      /\ snd'.state = "DELIVERED" => snd.state = "DELIVERED"
      /\ Started(snd') => Started(snd)
      /\ toReceiver' \in Seq(FromSender)
  BY <1>2 DEF SenderStepped, Keeps
<1>4. link' = link /\ noticed' = noticed /\ losses' = losses
  BY <1>2 DEF network
<1> QED
  BY <1>2, <1>3, <1>4, SenderKnows, SenderStep

LEMMA Offering ==
    ASSUME IInv, StartOffer
    PROVE  IInv'
<1>1. /\ link = "up"
      /\ snd' = [snd EXCEPT !.state = "READY", !.reference = 1, !.offers = 1]
      /\ UNCHANGED <<receiver, calm, toReceiver, toSender, frames, link, noticed,
                     losses, faults>>
  BY DEF StartOffer, wires, network
<1>2. snd \in Sender /\ SenderOK(snd) /\ 1 \in References
  BY SenderKnows, ConstantFacts DEF SenderOK, References
<1>3. /\ snd' \in Sender /\ snd'.loops = snd.loops /\ snd'.reference = 1
      /\ snd'.state = "READY"
  BY <1>1, <1>2 DEF Sender, State
<1>4. SenderOK(snd') /\ (Started(snd') => Started(snd))
  BY <1>2, <1>3 DEF SenderOK, Started
<1>5. 1 <= losses + 1
  BY SenderKnows
<1> QED
  BY <1>1, <1>3, <1>4, <1>5, SenderKnows, SenderStep

LEMMA HaveHeard ==
    ASSUME IInv, SenderHave
    PROVE  IInv'
<1>1. UNCHANGED <<receiver, calm, toReceiver, frames, link, noticed, losses, faults>>
  BY DEF SenderHave, network
<1>2. /\ SenderOK(snd') /\ snd'.reference = snd.reference /\ snd'.state = snd.state
      /\ rcv.record = "full" /\ toSender' \in Seq(FromReceiver)
  BY SenderKnows, HearingHave
<1> QED
  BY <1>1, <1>2, SenderKnows, SenderStep

LEMMA DeliveredHeard ==
    ASSUME IInv, SenderDelivered
    PROVE  IInv'
<1>1. /\ UNCHANGED <<receiver, calm, toReceiver, frames, link, noticed, losses, faults>>
      /\ snd' = [snd EXCEPT !.state = "DELIVERED"]
      /\ toSender # <<>> /\ Head(toSender).type = "delivered" /\ toSender' = Tail(toSender)
  BY DEF SenderDelivered, SenderTakes, network
<1>2. Head(toSender) \in FromReceiver /\ toSender' \in Seq(FromReceiver)
  BY <1>1, SenderKnows, Taken
<1>3. AllWhole
  BY <1>1, <1>2 DEF FromReceiver
<1>4. snd \in Sender /\ SenderOK(snd)
  BY SenderKnows DEF SenderOK
<1>5. snd' \in Sender /\ snd'.loops = snd.loops /\ snd'.reference = snd.reference
  BY <1>1, <1>4 DEF Sender, State
<1>6. SenderOK(snd') /\ (Started(snd') => Started(snd))
  BY <1>4, <1>5 DEF SenderOK, Started
<1> QED
  BY <1>1, <1>2, <1>3, <1>5, <1>6, SenderKnows, SenderStep

LEMMA CutTaken ==
    ASSUME IInv, Cut
    PROVE  IInv'
<1>1. /\ link = "up" /\ link' = "cut" /\ losses < MaxLosses /\ losses' = losses + 1
      /\ toReceiver' = <<>> /\ toSender' = <<>> /\ frames' = <<>>
      /\ UNCHANGED <<receiver, calm, snd, noticed, faults>>
  BY DEF Cut
<1>2. /\ toReceiver' \in Seq(FromSender) /\ toSender' \in Seq(FromReceiver)
      /\ frames' \in Seq(Frame)
  BY <1>1
<1>3. losses' \in 0 .. MaxLosses
  BY <1>1, SenderKnows, ConstantFacts
<1>4. snd'.reference <= losses'
  BY <1>1, SenderKnows
<1> QED
  BY <1>1, <1>2, <1>3, <1>4, SenderKnows, SenderStep

LEMMA SenderInterrupted ==
    ASSUME IInv, SenderLoses \/ SenderFlaps
    PROVE  IInv'
<1>1. /\ snd' = InterruptedSender(snd) /\ link' = link
      /\ noticed' \in {noticed, TRUE}
      /\ losses' = losses \/ (losses < MaxLosses /\ losses' = losses + 1)
      /\ UNCHANGED <<receiver, calm, toReceiver, toSender, frames, faults>>
  BY DEF SenderLoses, SenderFlaps, wires
<1>2. Keeps(snd, snd')
  BY <1>1, SenderKnows, InterruptedKeeps
<1>3. losses' \in 0 .. MaxLosses /\ losses <= losses' /\ losses' \in Nat
  BY <1>1, SenderKnows, ConstantFacts
<1>4. /\ SenderOK(snd') /\ snd'.reference = snd.reference
      /\ snd'.state = "DELIVERED" => snd.state = "DELIVERED"
      /\ Started(snd') => Started(snd)
  BY <1>2 DEF Keeps
<1>5. snd'.reference <= IF link' = "up" THEN losses' + 1 ELSE losses'
  BY <1>1, <1>3, <1>4, SenderKnows
<1>6. noticed' \in BOOLEAN
  BY <1>1, SenderKnows
<1> QED
  BY <1>1, <1>3, <1>4, <1>5, <1>6, SenderKnows, SenderStep

LEMMA Replacing ==
    ASSUME IInv, SenderReplaces
    PROVE  IInv'
<1> DEFINE loops == [i \in LoopId |->
                       [snd.loops[i] EXCEPT !.old = (snd.loops[i].pc = "drain")]]
<1>1. /\ link = "cut" /\ link' = "rebuilt"
      /\ snd' = [snd EXCEPT !.loops = loops]
      /\ UNCHANGED <<receiver, calm, toReceiver, toSender, frames, noticed, losses, faults>>
  BY DEF SenderReplaces, wires
<1>2. SenderOK(snd)
  BY SenderKnows
<1>3. ASSUME NEW i \in LoopId
      PROVE  loops[i] \in Loop /\ LoopShape(loops[i]) /\ loops[i].pc = snd.loops[i].pc
  <2> DEFINE loop == snd.loops[i]
             late == loop.pc = "drain"
             aged == [loop EXCEPT !.old = late]
  <2>1. loop \in Loop /\ LoopShape(loop)
    BY <1>2, SenderFields DEF SenderOK
  <2>2. late \in BOOLEAN
    OBVIOUS
  <2>3. loops[i] = aged
    OBVIOUS
  <2> HIDE DEF loop, late, loops
  <2>4. /\ aged \in Loop /\ aged.pc = loop.pc /\ aged.todo = loop.todo
        /\ aged.frame = loop.frame
    BY <2>1, <2>2 DEF Loop
  <2>5. LoopShape(aged)
    BY <2>1, <2>4 DEF LoopShape
  <2> QED
    BY <2>3, <2>4, <2>5 DEF loop
<1>4. loops \in [LoopId -> Loop] /\ \A i \in LoopId : LoopShape(loops[i])
  BY <1>3
<1>5. (\E i \in LoopId : loops[i].pc # "none") => Started(snd)
  BY <1>3 DEF Started
<1> HIDE DEF loops
<1>6. Keeps(snd, snd')
  BY <1>1, <1>2, <1>4, <1>5, LoopsChange
<1>7. /\ SenderOK(snd') /\ snd'.reference = snd.reference
      /\ snd'.state = "DELIVERED" => snd.state = "DELIVERED"
      /\ Started(snd') => Started(snd)
  BY <1>6 DEF Keeps
<1> QED
  BY <1>1, <1>7, SenderKnows, SenderStep

LEMMA Connecting ==
    ASSUME IInv, Connect
    PROVE  IInv'
<1>1. /\ link = "rebuilt" /\ link' = "up" /\ noticed' = FALSE
      /\ snd' = Offered(snd)
      /\ UNCHANGED <<receiver, calm, toReceiver, toSender, frames, losses, faults>>
  BY DEF Connect, wires
<1>2. /\ SenderOK(snd) /\ snd \in Sender /\ snd.offers \in Nat
      /\ snd.reference \in Nat /\ snd.reference <= losses
  BY <1>1, SenderKnows, SenderFields DEF SenderOK
<1>3. snd.reference + 1 \in References /\ snd.offers + 1 \in Nat
  BY <1>2, SenderKnows, ConstantFacts DEF References
<1>4. CASE snd.state = "RECONNECTING"
  <2> DEFINE s == [snd EXCEPT !.have = {}, !.reference = snd.reference + 1,
                              !.offers = snd.offers + 1]
  <2>1. snd' = s
    BY <1>1, <1>2, <1>4 DEF Offered, Sender
  <2>2. /\ s \in Sender /\ s.loops = snd.loops /\ s.reference = snd.reference + 1
        /\ s.state = snd.state
    BY <1>2, <1>3 DEF Sender
  <2> HIDE DEF s
  <2>3. SenderOK(snd') /\ (Started(snd') => Started(snd))
    BY <1>2, <2>1, <2>2 DEF SenderOK, Started
  <2>4. snd'.reference <= losses' + 1 /\ snd'.state # "DELIVERED"
    BY <1>1, <1>2, <1>4, <2>1, <2>2, SenderKnows
  <2> QED
    BY <1>1, <2>3, <2>4, SenderKnows, SenderStep
<1>5. CASE snd.state # "RECONNECTING"
  <2>1. snd' = snd
    BY <1>1, <1>5 DEF Offered
  <2>2. snd'.reference <= losses' + 1
    BY <1>1, <1>2, <2>1, SenderKnows
  <2> QED
    BY <1>1, <2>1, <2>2, SenderKnows, SenderStep
<1> QED
  BY <1>4, <1>5

-----------------------------------------------------------------------------
(* The invariant of the specification.                                       *)

LEMMA InitHolds == Init => IInv
<1> SUFFICES ASSUME Init
             PROVE  IInv
  OBVIOUS
<1> DEFINE loops == [i \in LoopId |-> NoLoop]
<1>1. /\ loops \in [LoopId -> Loop]
      /\ \A i \in LoopId : LoopShape(loops[i]) /\ loops[i].pc = "none"
  BY NoLoopIsOne
<1>2. snd = [ state |-> "IDLE", cancelled |-> FALSE, reference |-> 0, offers |-> 0,
              have |-> {}, known |-> {}, sending |-> FALSE, loops |-> loops ]
  BY DEF Init
<1> HIDE DEF loops
<1>3. snd \in Sender /\ snd.loops = loops /\ snd.reference = 0 /\ snd.state = "IDLE"
  BY <1>1, <1>2, ConstantFacts DEF Sender, State, References
<1>4. SenderInv
  BY <1>1, <1>3 DEF SenderInv, SenderOK, Init
<1>5. /\ rcv \in Receiver /\ rcv.block = NoBlock /\ rcv.ends = <<>>
      /\ rcv.committed = {} /\ rcv.closing = 0 /\ rcv.state = "IDLE"
  BY NoBlockFields, ConstantFacts DEF Init, Receiver, State, References
<1>6. NetworkInv
  <2>1. losses \in 0 .. MaxLosses /\ faults \in 0 .. MaxFaults
    BY ConstantFacts DEF Init
  <2>2. /\ calm \in BOOLEAN /\ noticed \in BOOLEAN
        /\ link \in {"up", "cut", "rebuilt"}
        /\ final \in {"open", "closing", "closed", "aborted"}
    BY DEF Init
  <2> QED
    BY <2>1, <2>2 DEF NetworkInv
<1>7. WiresInv
  BY DEF Init, WiresInv
<1>8. work \in Work /\ work.step = "none" /\ work.saved = {}
  BY ConstantFacts DEF Init, Idle, Work
<1>9. MetInv
  BY <1>1, <1>3, <1>5, <1>8 DEF MetInv
<1>10. FilesInv
  <2>1. dest \in [Blocks -> [0 .. FrameCount - 1 -> [1 .. PieceCount -> Content]]]
    BY DEF Init, Content
  <2>2. BlockInv /\ WriteInv
    BY <1>5, <1>8, NoBlockFields DEF BlockInv, WriteInv
  <2>3. /\ store \in [file : {"none", "torn", "saved"}, blocks : SUBSET Blocks]
        /\ store.blocks = {}
    BY DEF Init
  <2> QED
    BY <1>5, <1>8, <2>1, <2>2, <2>3 DEF FilesInv
<1>11. DeliveryInv
  BY <1>3, <1>5 DEF DeliveryInv
<1> QED
  BY <1>4, <1>5, <1>6, <1>7, <1>9, <1>10, <1>11 DEF IInv

LEMMA Stuttering ==
    ASSUME IInv, UNCHANGED vars
    PROVE  IInv'
<1>1. UNCHANGED <<receiver, calm, snd, toReceiver, toSender, frames, link, noticed,
                  losses, faults>>
  BY DEF vars, wires, network
<1> QED
  BY <1>1, SenderKnows, SenderStep

LEMMA NextKeeps ==
    ASSUME IInv, [Next]_vars
    PROVE  IInv'
<1>1. ASSUME Progress
      PROVE  IInv'
  <2>1. ASSUME SenderHandles
        PROVE  IInv'
    BY <2>1, SenderMoved, HaveHeard, DeliveredHeard DEF SenderHandles, SenderMoves
  <2>2. ASSUME NetworkRecovers
        PROVE  IInv'
    BY <2>2, SenderInterrupted, Replacing, Connecting DEF NetworkRecovers
  <2>3. ASSUME OfferSent \/ \E i \in LoopId : LoopStep(i)
        PROVE  IInv'
    BY <2>3, SenderMoved DEF SenderMoves
  <2>4. ASSUME \/ Accept \/ ReceiverHandles
               \/ \E n \in 1 .. Len(rcv.ends) : ManifestEnd(n)
               \/ TakeFrame \/ ReceiverProcesses \/ CloseEnds
        PROVE  IInv'
    BY <2>4, ReceiverStep DEF ReceiverHandles, ReceiverProcesses, ReceiverMoves
  <2> QED
    BY <1>1, <2>1, <2>2, <2>3, <2>4, Offering DEF Progress
<1>2. ASSUME Trouble
      PROVE  IInv'
  <2>1. ASSUME OfferFails \/ CancelSender \/ \E i \in LoopId : SourceFails(i)
        PROVE  IInv'
    BY <2>1, SenderMoved DEF SenderMoves
  <2>2. ASSUME CancelReceiver \/ ProcessingFails \/ CloseFails \/ ReceiverLoses \/ ReceiverFlaps
        PROVE  IInv'
    BY <2>2, ReceiverStep DEF ReceiverMoves
  <2> QED
    BY <1>2, <2>1, <2>2, CutTaken, SenderInterrupted DEF Trouble
<1> QED
  BY <1>1, <1>2, Stuttering DEF Next

(***************************************************************************)
(* The invariant holds for any number of blocks, frames, pieces, loops,    *)
(* losses and faults: M6StreamPackTransfer, whatever comes when.           *)
(***************************************************************************)
THEOREM InvHolds == Spec => []IInv
<1>1. Init => IInv
  BY InitHolds
<1>2. IInv /\ [Next]_vars => IInv'
  BY NextKeeps
<1> QED
  BY <1>1, <1>2, PTL DEF Spec

(***************************************************************************)
(* The state keeps its type: the references of the offers stay within the  *)
(* number of losses, retries within three, frames within their block.      *)
(***************************************************************************)
THEOREM TypeCorrect == Spec => []TypeOK
<1>1. ASSUME IInv
      PROVE  TypeOK
  <2>1. toReceiver \in Seq(Control) /\ toSender \in Seq(Control)
    <3>1. FromSender \subseteq Control /\ FromReceiver \subseteq Control
      BY DEF FromSender, FromReceiver
    <3>2. toReceiver \in Seq(FromSender) /\ toSender \in Seq(FromReceiver)
      BY <1>1 DEF IInv, WiresInv
    <3> QED
      BY <3>1, <3>2, SeqOfLarger
  <2> QED
    BY <1>1, <2>1 DEF TypeOK, IInv, SenderInv, SenderOK, NetworkInv, WiresInv, FilesInv
<1> QED
  BY <1>1, InvHolds, PTL

(***************************************************************************)
(* verifyRoot and VERIFIED: a folder is DELIVERED, on either side, only    *)
(* when every one of its blocks has been whole in the files.               *)
(***************************************************************************)
THEOREM DeliveredHasBeenWhole == Spec => []DeliveredWasWhole
<1>1. ASSUME IInv
      PROVE  DeliveredWasWhole
  BY <1>1 DEF IInv, DeliveryInv, AllWhole, DeliveredWasWhole
<1> QED
  BY <1>1, InvHolds, PTL

-----------------------------------------------------------------------------
(* A calm behaviour.  One thing at a time moves the transfer on, and it is   *)
(* in one hand: the sender's (an offer or a loop that waits for the source), *)
(* a request's on the wire, the receiver's (the user or the recovery store), *)
(* a reply's on the wire, or that of the frames of a block, until the block  *)
(* is saved or refused.                                                      *)

Has(s, types) == \E n \in DOMAIN s : s[n].type \in types
HasOne(s, types) ==
    \A m, n \in DOMAIN s : s[m].type \in types /\ s[n].type \in types => m = n

Requests == {"offer", "manifest", "digest"}
Replies == {"accept", "have", "ready", "committed", "nack"}

LoopAt(pcs) == \E i \in LoopId : snd.loops[i].pc \in pcs
NoLoops == \A i \in LoopId : snd.loops[i].pc = "none"

AtSource == snd.offers # 0 \/ LoopAt({"check", "read"})
Requested == Has(toReceiver, Requests)
Undecided == rcv.record = "bare" /\ ~rcv.accepted
AtStore == Undecided \/ rcv.ends # <<>>
Replied == Has(toSender, Replies)
Bytes == chain \o frames
AtBlock == Bytes # <<>> \/ LoopAt({"drain"})

InOneHand ==
    /\ AtSource => ~ Requested /\ ~ AtStore /\ ~ Replied /\ ~ AtBlock
    /\ Requested => ~ AtStore /\ ~ Replied /\ ~ AtBlock
    /\ AtStore => ~ Replied /\ ~ AtBlock
    /\ Replied => ~ AtBlock

Single ==
    /\ snd.offers <= 1
    /\ HasOne(toReceiver, Requests)
    /\ HasOne(toSender, Replies)
    /\ \A m, n \in DOMAIN rcv.ends : m = n

\* Until HAVE has arrived there is no loop, and then there is one.
Opening ==
    \/ snd.offers # 0
    \/ Has(toReceiver, {"offer", "manifest"})
    \/ AtStore
    \/ Has(toSender, {"accept", "have"})

LoopsInv ==
    /\ Opening => NoLoops
    /\ \A i, j \in LoopId : snd.loops[i].pc # "none" /\ snd.loops[j].pc # "none" => i = j
    /\ \A i \in LoopId : ~ snd.loops[i].stale /\ ~ snd.loops[i].old
                         /\ snd.loops[i].outcome = "none"

\* The user has accepted whatever follows the offer.
AcceptedInv ==
    rcv.record = "full" \/ rcv.ends # <<>> \/ Has(toReceiver, {"manifest"})
      \/ Has(toSender, {"accept"}) => rcv.accepted

\* Nothing of the transfer waits while there is no connection.
Down ==
    link # "up" =>
        /\ toReceiver = <<>> /\ toSender = <<>> /\ frames = <<>>
        /\ snd.offers = 0 /\ ~ AtStore
        /\ \A i \in LoopId : snd.loops[i].pc \in {"none", "ready", "ack"}

Unstarted ==
    snd.state = "IDLE" =>
        /\ toReceiver = <<>> /\ toSender = <<>> /\ Bytes = <<>>
        /\ snd.offers = 0 /\ NoLoops
        /\ rcv.record = "none" /\ rcv.ends = <<>> /\ rcv.closing = 0

\* The record in memory is the persisted one, but for the block being saved.
RecordInv ==
    /\ store.blocks \subseteq rcv.committed
    /\ IF work.step = "save" THEN work.saved = rcv.committed /\ work.index \in rcv.committed
                             ELSE rcv.committed = store.blocks
    /\ snd.known \cup snd.have \subseteq store.blocks
    /\ \A b \in rcv.committed : Good(b)

\* No block that is committed is asked for, or sent.
FreshLoop(loop) ==
    /\ loop.pc = "check" => rcv.committed \subseteq snd.have
    /\ loop.pc \in {"read", "ready", "drain"} => loop.todo \cap rcv.committed = {}
    /\ loop.pc = "ack" => loop.todo \cap rcv.committed \subseteq {Block(loop)}

FreshRequest(m) == m.type = "digest" => m.block \notin rcv.committed

FreshReply(m) ==
    /\ m.type = "have" => m.blocks = rcv.committed
    /\ m.type = "committed" => m.block \in store.blocks
    /\ m.type = "nack" => m.block \notin rcv.committed

FreshInv ==
    /\ \A i \in LoopId : FreshLoop(snd.loops[i])
    /\ \A n \in DOMAIN toReceiver : FreshRequest(toReceiver[n])
    /\ \A n \in DOMAIN toSender : FreshReply(toSender[n])

\* The frames on their way are of the loop's block, in their order.
SentBy(loop, frame) ==
    loop.pc # "none" =>
        /\ loop.pc \in {"drain", "ack"}
        /\ Block(loop) = frame.block
        /\ loop.pc = "drain" => frame.index < loop.frame

Ascending(s) ==
    \A m, n \in DOMAIN s : m < n => s[m].block = s[n].block /\ s[m].index < s[n].index

BytesInv ==
    /\ Ascending(Bytes)
    /\ \A n \in DOMAIN Bytes :
          /\ work.step # "save" => Bytes[n].block \notin rcv.committed
          /\ \A i \in LoopId : SentBy(snd.loops[i], Bytes[n])
    /\ work.step = "save" => Len(Bytes) = 1 /\ ~ LoopAt({"drain"})

\* What the receiver has of the block is the source's.
ContentInv ==
    LET frame == Head(chain)
    IN  /\ rcv.block.index \in Blocks /\ rcv.block.good =>
              \A k \in 0 .. FrameCount - 1 : k < rcv.block.next =>
                  \A p \in 1 .. PieceCount : dest[rcv.block.index][k][p] = "good"
        /\ work.step = "write" /\ work.live =>
              /\ work.index = frame.block
              /\ frame.content = "good" =>
                    \A p \in 1 .. PieceCount :
                        p < work.piece => dest[frame.block][frame.index][p] = "good"

OrderInv == InOneHand /\ Single /\ LoopsInv /\ AcceptedInv /\ Down /\ Unstarted

DataInv == RecordInv /\ FreshInv /\ BytesInv /\ ContentInv

CalmInv == calm => OrderInv /\ DataInv

-----------------------------------------------------------------------------
(* The wires and the frames as sequences.                                    *)

LEMMA SequenceFacts ==
    ASSUME NEW S, NEW s \in Seq(S)
    PROVE  /\ Len(s) \in Nat /\ DOMAIN s = 1 .. Len(s)
           /\ \A n \in DOMAIN s : s[n] \in S
           /\ s = <<>> <=> Len(s) = 0
           /\ s # <<>> => 1 \in DOMAIN s /\ Head(s) = s[1]
  OBVIOUS

LEMMA NothingSent ==
    ASSUME NEW s, s = <<>>
    PROVE  \A types : ~ Has(s, types) /\ HasOne(s, types)
  BY DEF Has, HasOne

More(s, m, t) ==
    /\ \A types : Has(t, types) <=> (Has(s, types) \/ m.type \in types)
    /\ \A types : HasOne(s, types) /\ (m.type \in types => ~ Has(s, types))
                     => HasOne(t, types)
    /\ \A n \in DOMAIN t : t[n] = m \/ \E k \in DOMAIN s : t[n] = s[k]

LEMMA OneSent ==
    ASSUME NEW s \in Seq(Control), NEW m \in Control, NEW t, t = s \o <<m>>
    PROVE  More(s, m, t)
<1>1. /\ Len(s) \in Nat /\ DOMAIN s = 1 .. Len(s) /\ DOMAIN t = 1 .. Len(s) + 1
      /\ t[Len(s) + 1] = m
      /\ \A k \in 1 .. Len(s) : t[k] = s[k]
  OBVIOUS
<1>2. \A n \in DOMAIN t : n # Len(s) + 1 => n \in DOMAIN s /\ t[n] = s[n]
  BY <1>1
<1>3. \A types : Has(t, types) <=> Has(s, types) \/ m.type \in types
  BY <1>1, <1>2 DEF Has
<1>4. ASSUME NEW types, HasOne(s, types), m.type \in types => ~ Has(s, types)
      PROVE  HasOne(t, types)
  BY <1>1, <1>2, <1>4 DEF Has, HasOne
<1> QED
  BY <1>1, <1>2, <1>3, <1>4 DEF More

Rest(s, t) ==
    /\ Head(s) \in Control
    /\ \A types : Has(t, types) => Has(s, types)
    /\ \A types : HasOne(s, types) => HasOne(t, types)
    /\ \A types : Head(s).type \in types => Has(s, types)
    /\ \A types : HasOne(s, types) /\ Head(s).type \in types => ~ Has(t, types)
    /\ \A n \in DOMAIN t : \E k \in DOMAIN s : t[n] = s[k]
    /\ \E k \in DOMAIN s : Head(s) = s[k]

LEMMA OneTaken ==
    ASSUME NEW s \in Seq(Control), s # <<>>, NEW t, t = Tail(s)
    PROVE  Rest(s, t)
<1>1. /\ Len(s) \in Nat /\ DOMAIN s = 1 .. Len(s) /\ DOMAIN t = 1 .. Len(s) - 1
      /\ 1 \in DOMAIN s /\ Head(s) = s[1] /\ Head(s) \in Control
      /\ \A n \in DOMAIN t : t[n] = s[n + 1] /\ n + 1 \in DOMAIN s /\ n + 1 # 1
  OBVIOUS
<1>2. \A m, n \in DOMAIN t : m + 1 = n + 1 => m = n
  BY <1>1
<1>3. \A types : Has(t, types) => Has(s, types)
  BY <1>1 DEF Has
<1>4. \A types : HasOne(s, types) => HasOne(t, types)
  BY <1>1, <1>2 DEF HasOne
<1>5. \A types : Head(s).type \in types => Has(s, types)
  BY <1>1 DEF Has
<1>6. \A types : HasOne(s, types) /\ Head(s).type \in types => ~ Has(t, types)
  BY <1>1 DEF Has, HasOne
<1> QED
  BY <1>1, <1>3, <1>4, <1>5, <1>6 DEF Rest

\* What the frames on their way become.
LEMMA BytesAre ==
    ASSUME chain \in Seq(Frame), frames \in Seq(Frame)
    PROVE  /\ Bytes \in Seq(Frame)
           /\ Bytes = <<>> <=> chain = <<>> /\ frames = <<>>
           /\ chain # <<>> => 1 \in DOMAIN Bytes /\ Head(chain) = Bytes[1]
  BY DEF Bytes

LEMMA BytesHandedOver ==
    ASSUME chain \in Seq(Frame), frames \in Seq(Frame), TakeFrame
    PROVE  Bytes' = Bytes
<1>1. /\ frames # <<>>
      /\ chain' = Append(chain, Head(frames)) /\ frames' = Tail(frames)
  BY DEF TakeFrame
<1> DEFINE more == Append(chain, Head(frames))
           less == Tail(frames)
<1>2. /\ more \in Seq(Frame) /\ Len(more) = Len(chain) + 1
      /\ less \in Seq(Frame) /\ Len(less) = Len(frames) - 1
      /\ Len(chain) \in Nat /\ Len(frames) \in Nat
  BY <1>1
<1>3. /\ \A n \in 1 .. Len(chain) : more[n] = chain[n]
      /\ more[Len(chain) + 1] = frames[1]
      /\ \A n \in 1 .. Len(less) : less[n] = frames[n + 1]
  BY <1>1
<1>4. /\ more \o less \in Seq(Frame) /\ chain \o frames \in Seq(Frame)
      /\ Len(more \o less) = Len(chain \o frames)
      /\ Len(chain \o frames) = Len(chain) + Len(frames)
  BY <1>2
<1>5. ASSUME NEW n \in 1 .. Len(chain) + Len(frames)
      PROVE  (more \o less)[n] = (chain \o frames)[n]
  <2> HIDE DEF more, less
  <2>1. CASE n <= Len(chain)
    BY <1>2, <1>3, <2>1
  <2>2. CASE n = Len(chain) + 1
    BY <1>2, <1>3, <1>1, <2>2
  <2>3. CASE n > Len(chain) + 1
    <3>1. /\ (more \o less)[n] = less[n - (Len(chain) + 1)]
          /\ (chain \o frames)[n] = frames[n - Len(chain)]
      BY <1>2, <2>3
    <3>2. n - (Len(chain) + 1) \in 1 .. Len(less)
      BY <1>2, <2>3
    <3> QED
      BY <1>2, <1>3, <3>1, <3>2
  <2> QED
    BY <1>2, <2>1, <2>2, <2>3
<1> HIDE DEF more, less
<1>6. more \o less = chain \o frames
  BY <1>4, <1>5
<1> QED
  BY <1>1, <1>6 DEF Bytes, more, less

LEMMA BytesTaken ==
    ASSUME chain \in Seq(Frame), frames \in Seq(Frame), chain # <<>>,
           chain' = Tail(chain), frames' = frames
    PROVE  Bytes # <<>> /\ Bytes' = Tail(Bytes)
  BY DEF Bytes

LEMMA BytesGrow ==
    ASSUME chain \in Seq(Frame), frames \in Seq(Frame), NEW frame \in Frame,
           frames' = Append(frames, frame), chain' = chain
    PROVE  Bytes' = Append(Bytes, frame)
  BY DEF Bytes

LEMMA AscendingTail ==
    ASSUME NEW s \in Seq(Frame), s # <<>>, Ascending(s)
    PROVE  /\ Ascending(Tail(s))
           /\ \A n \in DOMAIN Tail(s) : n + 1 \in DOMAIN s /\ Tail(s)[n] = s[n + 1]
           /\ DOMAIN Tail(s) = 1 .. Len(s) - 1
<1>1. /\ Len(s) \in Nat /\ DOMAIN s = 1 .. Len(s) /\ DOMAIN Tail(s) = 1 .. Len(s) - 1
      /\ \A n \in DOMAIN Tail(s) : Tail(s)[n] = s[n + 1] /\ n + 1 \in DOMAIN s
  OBVIOUS
<1>2. \A m, n \in DOMAIN Tail(s) : m < n => m + 1 < n + 1
  BY <1>1
<1> QED
  BY <1>1, <1>2 DEF Ascending

LEMMA AscendingMore ==
    ASSUME NEW s \in Seq(Frame), NEW f \in Frame, Ascending(s),
           \A n \in DOMAIN s : s[n].block = f.block /\ s[n].index < f.index
    PROVE  /\ Ascending(Append(s, f))
           /\ \A n \in DOMAIN Append(s, f) :
                 Append(s, f)[n] = f \/ (n \in DOMAIN s /\ Append(s, f)[n] = s[n])
           /\ Append(s, f) # <<>>
<1>1. /\ Len(s) \in Nat /\ DOMAIN s = 1 .. Len(s) /\ DOMAIN Append(s, f) = 1 .. Len(s) + 1
      /\ \A n \in DOMAIN s : Append(s, f)[n] = s[n]
      /\ Append(s, f)[Len(s) + 1] = f
      /\ Append(s, f) # <<>>
  OBVIOUS
<1>2. \A n \in DOMAIN Append(s, f) : n # Len(s) + 1 => n \in DOMAIN s
  BY <1>1
<1>3. \A m, n \in DOMAIN Append(s, f) : m < n => m \in DOMAIN s
  BY <1>1
<1> QED
  BY <1>1, <1>2, <1>3 DEF Ascending

-----------------------------------------------------------------------------
(* What a step of a calm behaviour starts from.                              *)

Calmly == calm /\ IInv /\ OrderInv /\ DataInv

LEMMA CalmFacts ==
    ASSUME IInv
    PROVE  /\ SenderOK(snd) /\ snd \in Sender
           /\ snd.loops \in [LoopId -> Loop]
           /\ snd.offers \in Nat /\ snd.have \in SUBSET Blocks /\ snd.known \in SUBSET Blocks
           /\ \A i \in LoopId : snd.loops[i] \in Loop /\ LoopShape(snd.loops[i])
           /\ rcv \in Receiver
           /\ toReceiver \in Seq(Control) /\ toSender \in Seq(Control)
           /\ frames \in Seq(Frame) /\ chain \in Seq(Frame)
           /\ work \in Work /\ (work.step # "none" => chain # <<>>)
           /\ link \in {"up", "cut", "rebuilt"}
<1>1. FromSender \subseteq Control /\ FromReceiver \subseteq Control
  BY DEF FromSender, FromReceiver
<1>2. toReceiver \in Seq(Control) /\ toSender \in Seq(Control)
  BY <1>1, SeqOfLarger DEF IInv, WiresInv
<1>3. SenderOK(snd) /\ snd \in Sender
  BY DEF IInv, SenderInv, SenderOK
<1> QED
  BY <1>2, <1>3, SenderFields DEF IInv, WiresInv, FilesInv, NetworkInv, SenderOK

\* Messages that are no requests and no replies move nothing.
Tokens == Requests \cup Replies

Lesser(t, s) ==
    /\ \A types : types \subseteq Tokens /\ Has(t, types) => Has(s, types)
    /\ \A types : types \subseteq Tokens /\ HasOne(s, types) => HasOne(t, types)
    /\ \A n \in DOMAIN t : t[n].type \in Tokens => \E k \in DOMAIN s : t[n] = s[k]

LEMMA LesserFacts ==
    ASSUME NEW s \in Seq(Control)
    PROVE  /\ Lesser(s, s)
           /\ \A m \in Control : m.type \notin Tokens => Lesser(s \o <<m>>, s)
           /\ Lesser(s \o <<>>, s)
           /\ s # <<>> => Lesser(Tail(s), s)
<1>1. Lesser(s, s) /\ s \o <<>> = s
  BY DEF Lesser
<1>2. ASSUME NEW m \in Control, m.type \notin Tokens
      PROVE  Lesser(s \o <<m>>, s)
  <2> DEFINE t == s \o <<m>>
  <2>0. t = s \o <<m>>
    OBVIOUS
  <2> HIDE DEF t
  <2>1. More(s, m, t)
    BY <2>0, OneSent
  <2>2. \A types : types \subseteq Tokens => m.type \notin types
    BY <1>2
  <2> QED
    BY <1>2, <2>1, <2>2 DEF More, Lesser, t
<1>3. ASSUME s # <<>>
      PROVE  Lesser(Tail(s), s)
  <2> DEFINE t == Tail(s)
  <2>1. Rest(s, t)
    BY <1>3, OneTaken
  <2> HIDE DEF t
  <2> QED
    BY <2>1 DEF Rest, Lesser, t
<1> QED
  BY <1>1, <1>2, <1>3

LEMMA LesserTwice ==
    ASSUME NEW s, NEW t, NEW u, Lesser(t, s), Lesser(u, t)
    PROVE  Lesser(u, s)
<1>1. ASSUME NEW n \in DOMAIN u, u[n].type \in Tokens
      PROVE  \E k \in DOMAIN s : u[n] = s[k]
  <2>1. PICK k \in DOMAIN t : u[n] = t[k]
    BY <1>1 DEF Lesser
  <2> QED
    BY <1>1, <2>1 DEF Lesser
<1>2. ASSUME NEW types, types \subseteq Tokens
      PROVE  /\ Has(u, types) => Has(s, types)
             /\ HasOne(s, types) => HasOne(u, types)
  <2>1. Has(t, types) => Has(s, types)
    BY <1>2 DEF Lesser
  <2>2. Has(u, types) => Has(t, types)
    BY <1>2 DEF Lesser
  <2>3. HasOne(s, types) => HasOne(t, types)
    BY <1>2 DEF Lesser
  <2>4. HasOne(t, types) => HasOne(u, types)
    BY <1>2 DEF Lesser
  <2> QED
    BY <2>1, <2>2, <2>3, <2>4
<1> QED
  BY <1>1, <1>2 DEF Lesser

LEMMA KindsOfTokens ==
    /\ Requests \subseteq Tokens /\ Replies \subseteq Tokens
    /\ {"offer", "manifest"} \subseteq Tokens /\ {"manifest"} \subseteq Tokens
    /\ {"accept", "have"} \subseteq Tokens /\ {"accept"} \subseteq Tokens
    /\ {"root", "fail", "delivered"} \cap Tokens = {}
  BY DEF Tokens, Requests, Replies

-----------------------------------------------------------------------------
(* The sender's record apart from its loops, and one loop of it.             *)

Beside(s, t) ==
    /\ t.offers = s.offers /\ t.have = s.have /\ t.known = s.known
    /\ t.state = "IDLE" => s.state = "IDLE"

OnlyLoop(s, t, i, loop) ==
    \A j \in LoopId : t.loops[j] = IF j = i THEN loop ELSE s.loops[j]

LEMMA LoopPut ==
    ASSUME NEW s \in Sender, NEW i \in LoopId, NEW loop
    PROVE  /\ Beside(s, [s EXCEPT !.loops[i] = loop])
           /\ OnlyLoop(s, [s EXCEPT !.loops[i] = loop], i, loop)
<1>1. s.loops \in [LoopId -> Loop]
  BY SenderFields
<1>2. [s EXCEPT !.loops[i] = loop].loops = [s.loops EXCEPT ![i] = loop]
  BY DEF Sender
<1>3. Beside(s, [s EXCEPT !.loops[i] = loop])
  BY DEF Beside, Sender
<1> HIDE DEF Beside
<1>4. \A j \in LoopId : [s.loops EXCEPT ![i] = loop][j] = IF j = i THEN loop ELSE s.loops[j]
  BY <1>1
<1> QED
  BY <1>2, <1>3, <1>4 DEF OnlyLoop

LEMMA LoopEnded ==
    ASSUME NEW s \in Sender, NEW i \in LoopId
    PROVE  Beside(s, Ended(s, i)) /\ OnlyLoop(s, Ended(s, i), i, NoLoop)
<1> DEFINE t == [s EXCEPT !.loops[i] = NoLoop]
           on == IF snd.loops[i].stale THEN s.sending ELSE FALSE
<1>1. Beside(s, t) /\ OnlyLoop(s, t, i, NoLoop)
  BY LoopPut
<1>2. /\ Ended(s, i).loops = t.loops /\ Ended(s, i).offers = t.offers
      /\ Ended(s, i).have = t.have /\ Ended(s, i).known = t.known
      /\ Ended(s, i).state = t.state
  BY DEF Ended, Sender
<1> HIDE DEF t
<1> QED
  BY <1>1, <1>2 DEF Beside, OnlyLoop

LEMMA BesideFailed ==
    ASSUME NEW s, DOMAIN s = {"state", "cancelled", "reference", "offers", "have", "known",
                              "sending", "loops"}
    PROVE  Beside(s, Failed(s)) /\ Failed(s).loops = s.loops
  BY DEF Beside, Failed

LEMMA BesideTwice ==
    ASSUME NEW s, NEW t, NEW u, Beside(s, t), Beside(t, u)
    PROVE  Beside(s, u)
  BY DEF Beside

LEMMA EndedFields ==
    ASSUME NEW s \in Sender, NEW i \in LoopId
    PROVE  DOMAIN Ended(s, i) = {"state", "cancelled", "reference", "offers", "have", "known",
                                 "sending", "loops"}
  BY DEF Ended, Sender

LEMMA FailureIs ==
    ASSUME NEW s
    PROVE  Failure(s) = <<>> \/ Failure(s) = <<[type |-> "fail"]>>
  BY DEF Failure

LEMMA SameBlock ==
    ASSUME NEW l, NEW m, l.todo = m.todo
    PROVE  Block(l) = Block(m)
  BY DEF Block

\* A loop goes on to its next block, or ends and sends the root.
LEMMA Proceeded ==
    ASSUME NEW s \in Sender, NEW i \in LoopId, ~ snd.loops[i].stale, link = "up",
           NEW todo \in SUBSET Blocks, NEW retries \in 0 .. 3,
           Proceeds(s, i, todo, retries)
    PROVE  \E loop \in Loop :
              /\ Beside(s, snd') /\ OnlyLoop(s, snd', i, loop)
              /\ ~ loop.stale /\ ~ loop.old /\ loop.outcome = "none"
              /\ \/ /\ todo = {} /\ loop.pc = "none"
                    /\ toReceiver' = toReceiver \o <<Of("root")>>
                 \/ /\ loop.pc = "read" /\ loop.todo = todo
                    /\ toReceiver' = toReceiver \o <<>>
<1>1. CASE todo = {}
  <2>1. snd' = Ended(s, i) /\ toReceiver' = toReceiver \o <<Of("root")>>
    BY <1>1 DEF Proceeds, Sent, ToReceiver
  <2>2. NoLoop \in Loop /\ NoLoop.pc = "none"
    BY NoLoopIsOne
  <2>3. ~ NoLoop.stale /\ ~ NoLoop.old /\ NoLoop.outcome = "none"
    BY DEF NoLoop
  <2> QED
    BY <1>1, <2>1, <2>2, <2>3, LoopEnded
<1>2. CASE todo # {}
  <2> DEFINE loop == [NoLoop EXCEPT !.pc = "read", !.todo = todo, !.retries = retries]
  <2>1. snd' = [s EXCEPT !.loops[i] = loop] /\ toReceiver' = toReceiver \o <<>>
    BY <1>2 DEF Proceeds, ToReceiver
  <2>2. /\ loop \in Loop /\ loop.pc = "read" /\ loop.todo = todo
        /\ ~ loop.stale /\ ~ loop.old /\ loop.outcome = "none"
    BY NoLoopIsOne DEF Loop, NoLoop
  <2> HIDE DEF loop
  <2> QED
    BY <2>1, <2>2, LoopPut
<1> QED
  BY <1>1, <1>2

LEMMA Decided ==
    ASSUME NEW s \in Sender, NEW i \in LoopId, ~ snd.loops[i].stale, link = "up",
           NEW outcome \in {"committed", "nack"}, s.loops[i] \in Loop,
           Decide(s, i, outcome)
    PROVE  \E loop \in Loop :
              /\ Beside(s, snd') /\ OnlyLoop(s, snd', i, loop)
              /\ ~ loop.stale /\ ~ loop.old /\ loop.outcome = "none"
              /\ \/ /\ loop.pc = "none"
                    /\ \E m \in {Of("root"), Of("fail")} :
                          toReceiver' \in {toReceiver \o <<m>>, toReceiver \o <<>>}
                 \/ /\ loop.pc = "read" /\ toReceiver' = toReceiver \o <<>>
                    /\ loop.todo = IF outcome = "committed"
                                   THEN s.loops[i].todo \ {Block(s.loops[i])}
                                   ELSE s.loops[i].todo
<1> DEFINE old == s.loops[i]
<1>1. old.todo \in SUBSET Blocks /\ old.retries \in 0 .. 3
  BY DEF Loop
<1>2. CASE outcome = "committed"
  <2>1. Proceeds(s, i, old.todo \ {Block(old)}, 0)
    BY <1>2 DEF Decide
  <2>2. old.todo \ {Block(old)} \in SUBSET Blocks /\ 0 \in 0 .. 3
    BY <1>1
  <2> HIDE DEF old
  <2> QED
    BY <1>2, <2>1, <2>2, Proceeded DEF old
<1>3. CASE outcome # "committed" /\ old.retries = 3
  <2>1. SenderFails(Ended(s, i))
    BY <1>3 DEF Decide
  <2>2. /\ snd' = Failed(Ended(s, i))
        /\ toReceiver' = toReceiver \o Failure(Ended(s, i))
    BY <2>1 DEF SenderFails, ToReceiver
  <2>3. Beside(s, Ended(s, i)) /\ OnlyLoop(s, Ended(s, i), i, NoLoop)
    BY LoopEnded
  <2>4. Beside(Ended(s, i), snd') /\ snd'.loops = Ended(s, i).loops
    BY <2>2, EndedFields, BesideFailed
  <2>5. Beside(s, snd') /\ OnlyLoop(s, snd', i, NoLoop)
    BY <2>3, <2>4, BesideTwice DEF OnlyLoop
  <2>6. toReceiver' \in {toReceiver \o <<Of("fail")>>, toReceiver \o <<>>}
    BY <2>2, FailureIs DEF Of
  <2>7. NoLoop \in Loop /\ NoLoop.pc = "none"
    BY NoLoopIsOne
  <2>8. ~ NoLoop.stale /\ ~ NoLoop.old /\ NoLoop.outcome = "none"
    BY DEF NoLoop
  <2> QED
    BY <2>5, <2>6, <2>7, <2>8
<1>4. CASE outcome # "committed" /\ old.retries # 3
  <2>1. Proceeds(s, i, old.todo, old.retries + 1)
    BY <1>4 DEF Decide
  <2>2. old.retries + 1 \in 0 .. 3
    BY <1>1, <1>4
  <2> HIDE DEF old
  <2> QED
    BY <1>1, <1>4, <2>1, <2>2, Proceeded DEF old
<1> QED
  BY <1>2, <1>3, <1>4

-----------------------------------------------------------------------------
(* What a step leaves of the invariant, part by part.                        *)

\* Each loop goes on as it is, or has ended.
LoopsStay ==
    \A i \in LoopId : snd'.loops[i] = snd.loops[i] \/ snd'.loops[i] = NoLoop

LEMMA LoopsStaying ==
    ASSUME LoopsStay
    PROVE  /\ \A pcs : "none" \notin pcs /\ LoopAt(pcs)' => LoopAt(pcs)
           /\ NoLoops => NoLoops'
           /\ \A i \in LoopId : snd'.loops[i].pc # "none" => snd'.loops[i] = snd.loops[i]
<1>1. NoLoop.pc = "none"
  BY NoLoopIsOne
<1>2. \A i \in LoopId : snd'.loops[i].pc # "none" => snd'.loops[i] = snd.loops[i]
  BY <1>1 DEF LoopsStay
<1>3. ASSUME NEW pcs, "none" \notin pcs, LoopAt(pcs)'
      PROVE  LoopAt(pcs)
  BY <1>2, <1>3 DEF LoopAt
<1>4. NoLoops => NoLoops'
  BY <1>2 DEF NoLoops
<1> QED
  BY <1>2, <1>3, <1>4

\* While there is something to do the connection is up and the offer is made.
LEMMA Busy ==
    ASSUME Calmly
    PROVE  /\ \/ toReceiver # <<>> \/ toSender # <<>> \/ Bytes # <<>>
              \/ snd.offers # 0 \/ rcv.record # "none" \/ rcv.ends # <<>> \/ rcv.closing # 0
              \/ \E i \in LoopId : snd.loops[i].pc # "none"
              => snd.state # "IDLE"
           /\ \/ toReceiver # <<>> \/ toSender # <<>> \/ frames # <<>>
              \/ snd.offers # 0 \/ AtStore
              \/ \E i \in LoopId : snd.loops[i].pc \in {"check", "read", "drain"}
              => link = "up"
  BY DEF Calmly, OrderInv, Unstarted, Down, NoLoops

LEMMA OrderStays ==
    ASSUME Calmly, snd'.offers = snd.offers, LoopsStay,
           Lesser(toReceiver', toReceiver), Lesser(toSender', toSender),
           AtStore' => AtStore, \A m, n \in DOMAIN rcv'.ends : m = n,
           rcv.accepted => rcv'.accepted,
           (rcv'.record = "full" \/ rcv'.ends # <<>>) => rcv'.accepted,
           Bytes' # <<>> => Bytes # <<>>,
           Down', Unstarted'
    PROVE  OrderInv'
<1>1. InOneHand /\ Single /\ LoopsInv /\ AcceptedInv
  BY DEF Calmly, OrderInv
<1>2. AtSource' => AtSource
  BY LoopsStaying DEF AtSource
<1>3. Requested' => Requested
  BY KindsOfTokens DEF Requested, Lesser
<1>4. Replied' => Replied
  BY KindsOfTokens DEF Replied, Lesser
<1>5. AtBlock' => AtBlock
  BY LoopsStaying DEF AtBlock
<1>6. InOneHand'
  BY <1>1, <1>2, <1>3, <1>4, <1>5 DEF InOneHand
<1>7. Single'
  BY <1>1, KindsOfTokens DEF Single, Lesser
<1>8. Opening' => Opening
  BY <1>3, KindsOfTokens DEF Opening, Lesser
<1>9. LoopsInv'
  <2>1. ~ NoLoop.stale /\ ~ NoLoop.old /\ NoLoop.outcome = "none"
    BY DEF NoLoop
  <2>2. NoLoops => NoLoops'
    BY LoopsStaying
  <2>3. \A i \in LoopId : snd'.loops[i].pc # "none" => snd.loops[i].pc # "none"
    BY LoopsStaying
  <2>4. \A i \in LoopId : ~ snd'.loops[i].stale /\ ~ snd'.loops[i].old
                          /\ snd'.loops[i].outcome = "none"
    BY <1>1, <2>1 DEF LoopsStay, LoopsInv
  <2> QED
    BY <1>1, <1>8, <2>2, <2>3, <2>4 DEF LoopsInv
<1>10. AcceptedInv'
  BY <1>1, KindsOfTokens DEF AcceptedInv, Lesser
<1> QED
  BY <1>6, <1>7, <1>9, <1>10 DEF OrderInv

LEMMA DownStays ==
    ASSUME Calmly, snd'.offers = snd.offers, LoopsStay, AtStore' => AtStore,
           link' # "up" => /\ link # "up"
                           /\ toReceiver' = <<>> /\ toSender' = <<>> /\ frames' = <<>>
    PROVE  Down'
<1>1. \A i \in LoopId : snd'.loops[i].pc # "none" => snd'.loops[i] = snd.loops[i]
  BY LoopsStaying
<1> QED
  BY <1>1 DEF Calmly, OrderInv, Down

LEMMA RecordStays ==
    ASSUME Calmly, snd'.known \cup snd'.have \subseteq store.blocks,
           rcv'.committed = rcv.committed, store'.blocks = store.blocks, dest' = dest,
           work'.step = "save" <=> work.step = "save",
           work'.step = "save" => work'.saved = work.saved /\ work'.index = work.index
    PROVE  RecordInv'
<1>1. RecordInv
  BY DEF Calmly, DataInv
<1>2. \A b \in rcv'.committed : Good(b)'
  BY <1>1 DEF RecordInv, Good
<1> QED
  BY <1>1, <1>2 DEF RecordInv

\* No new message names a block.
Repeats(t, s) ==
    \A n \in DOMAIN t : t[n].type \in {"digest", "have", "committed", "nack"} =>
        \E k \in DOMAIN s : t[n] = s[k]

LEMMA RepeatsFacts ==
    ASSUME NEW s, NEW t
    PROVE  /\ Lesser(t, s) => Repeats(t, s)
           /\ Rest(s, t) => Repeats(t, s)
           /\ Repeats(s, s)
           /\ \A m : /\ More(s, m, t)
                     /\ m.type \notin {"digest", "have", "committed", "nack"}
                     => Repeats(t, s)
<1>1. {"digest", "have", "committed", "nack"} \subseteq Tokens
  BY DEF Tokens, Requests, Replies
<1>2. Lesser(t, s) => Repeats(t, s)
  BY <1>1 DEF Lesser, Repeats
<1>3. Rest(s, t) => Repeats(t, s)
  BY DEF Rest, Repeats
<1>4. Repeats(s, s)
  BY DEF Repeats
<1>5. ASSUME NEW m, More(s, m, t), m.type \notin {"digest", "have", "committed", "nack"}
      PROVE  Repeats(t, s)
  BY <1>5 DEF More, Repeats
<1> QED
  BY <1>2, <1>3, <1>4, <1>5

LEMMA RequestsStay ==
    ASSUME Calmly, Repeats(toReceiver', toReceiver), rcv'.committed = rcv.committed
    PROVE  \A n \in DOMAIN toReceiver' : FreshRequest(toReceiver[n])'
<1>1. \A k \in DOMAIN toReceiver : FreshRequest(toReceiver[k])
  BY DEF Calmly, DataInv, FreshInv
<1> QED
  BY <1>1 DEF Repeats, FreshRequest

LEMMA RepliesStay ==
    ASSUME Calmly, Repeats(toSender', toSender),
           rcv'.committed = rcv.committed, store'.blocks = store.blocks
    PROVE  \A n \in DOMAIN toSender' : FreshReply(toSender[n])'
<1>1. \A k \in DOMAIN toSender : FreshReply(toSender[k])
  BY DEF Calmly, DataInv, FreshInv
<1> QED
  BY <1>1 DEF Repeats, FreshReply

LEMMA FreshLoopsStay ==
    ASSUME Calmly, LoopsStay, snd'.have = snd.have, rcv'.committed = rcv.committed
    PROVE  \A i \in LoopId : FreshLoop(snd.loops[i])'
<1>1. SUFFICES ASSUME NEW i \in LoopId
               PROVE  FreshLoop(snd.loops[i])'
  OBVIOUS
<1>2. FreshLoop(snd.loops[i])
  BY DEF Calmly, DataInv, FreshInv
<1>3. snd'.loops[i].pc # "none" => snd'.loops[i] = snd.loops[i]
  BY LoopsStaying
<1>4. CASE snd'.loops[i].pc = "none"
  BY <1>4 DEF FreshLoop
<1>5. CASE snd'.loops[i] = snd.loops[i]
  BY <1>2, <1>5 DEF FreshLoop, Block
<1> QED
  BY <1>3, <1>4, <1>5

LEMMA FreshStays ==
    ASSUME Calmly, LoopsStay, snd'.have = snd.have,
           Repeats(toReceiver', toReceiver), Repeats(toSender', toSender),
           rcv'.committed = rcv.committed, store'.blocks = store.blocks
    PROVE  FreshInv'
<1>1. \A i \in LoopId : FreshLoop(snd.loops[i])'
  BY FreshLoopsStay
<1>2. \A n \in DOMAIN toReceiver' : FreshRequest(toReceiver[n])'
  BY RequestsStay
<1>3. \A n \in DOMAIN toSender' : FreshReply(toSender[n])'
  BY RepliesStay
<1> QED
  BY <1>1, <1>2, <1>3 DEF FreshInv

LEMMA BytesStay ==
    ASSUME Calmly, LoopsStay, rcv'.committed = rcv.committed,
           Ascending(Bytes'),
           \A n \in DOMAIN Bytes' : \E k \in DOMAIN Bytes : Bytes'[n] = Bytes[k],
           work'.step = "save" => work.step = "save" /\ Bytes' = Bytes,
           work'.step # "save" /\ Bytes' # <<>> => work.step # "save"
    PROVE  BytesInv'
<1>1. BytesInv
  BY DEF Calmly, DataInv
<1>2. \A i \in LoopId : snd'.loops[i].pc # "none" => snd'.loops[i] = snd.loops[i]
  BY LoopsStaying
<1>3. ASSUME NEW n \in DOMAIN Bytes'
      PROVE  /\ work'.step # "save" => Bytes'[n].block \notin rcv'.committed
             /\ \A i \in LoopId : SentBy(snd'.loops[i], Bytes'[n])
  <2>1. PICK k \in DOMAIN Bytes : Bytes'[n] = Bytes[k]
    OBVIOUS
  <2>2. Bytes' # <<>>
    BY <1>3
  <2>3. \A i \in LoopId : SentBy(snd.loops[i], Bytes[k])
    BY <1>1 DEF BytesInv
  <2>4. \A i \in LoopId : SentBy(snd'.loops[i], Bytes'[n])
    BY <1>2, <2>1, <2>3 DEF SentBy
  <2>5. work'.step # "save" => Bytes'[n].block \notin rcv'.committed
    BY <1>1, <2>1, <2>2 DEF BytesInv
  <2> QED
    BY <2>4, <2>5
<1>4. LoopAt({"drain"})' => LoopAt({"drain"})
  BY LoopsStaying
<1>5. work'.step = "save" => Len(Bytes') = 1 /\ ~ LoopAt({"drain"})'
  BY <1>1, <1>4 DEF BytesInv
<1> QED
  BY <1>3, <1>5 DEF BytesInv, SentBy, Block

LEMMA ContentStays ==
    ASSUME Calmly, dest' = dest, rcv'.block = rcv.block \/ rcv'.block = NoBlock,
           work'.step = "write" /\ work'.live => work' = work /\ Head(chain') = Head(chain)
    PROVE  ContentInv'
<1>1. ContentInv
  BY DEF Calmly, DataInv
<1>2. NoBlock.index \notin Blocks
  BY NoBlockFields
<1> QED
  BY <1>1, <1>2 DEF ContentInv

\* A step of the sender, or of the wires: nothing changes at the receiver.
LEMMA ReceiverStays ==
    ASSUME Calmly, snd'.known \cup snd'.have \subseteq store.blocks,
           UNCHANGED <<rcv, chain, work, dest, store>>
    PROVE  RecordInv' /\ ContentInv' /\ (AtStore' <=> AtStore)
<1>1. RecordInv'
  BY RecordStays
<1>2. ContentInv'
  BY ContentStays
<1> QED
  BY <1>1, <1>2 DEF AtStore, Undecided

-----------------------------------------------------------------------------
(* The run of sendMissing.                                                   *)

LEMMA LoopActive ==
    ASSUME Calmly, NEW i \in LoopId, snd.loops[i].pc # "none"
    PROVE  /\ ~ Opening /\ ~ AtStore /\ snd.offers = 0
           /\ ~ Has(toReceiver, {"offer", "manifest"}) /\ ~ Has(toSender, {"accept", "have"})
           /\ snd.loops[i] \in Loop /\ LoopShape(snd.loops[i]) /\ FreshLoop(snd.loops[i])
           /\ ~ snd.loops[i].stale /\ ~ snd.loops[i].old /\ snd.loops[i].outcome = "none"
           /\ \A j \in LoopId : j # i => snd.loops[j].pc = "none"
           /\ snd.state # "IDLE"
           /\ snd.known \cup snd.have \subseteq store.blocks
<1>1. LoopsInv /\ FreshInv /\ RecordInv
  BY DEF Calmly, OrderInv, DataInv
<1>2. ~ Opening
  BY <1>1 DEF LoopsInv, NoLoops
<1>3. ~ AtStore /\ snd.offers = 0
  BY <1>2 DEF Opening
<1>4. ~ Has(toReceiver, {"offer", "manifest"}) /\ ~ Has(toSender, {"accept", "have"})
  BY <1>2 DEF Opening
<1>5. snd.loops[i] \in Loop /\ LoopShape(snd.loops[i])
  BY CalmFacts DEF Calmly
<1>6. FreshLoop(snd.loops[i])
  BY <1>1 DEF FreshInv
<1>7. /\ ~ snd.loops[i].stale /\ ~ snd.loops[i].old /\ snd.loops[i].outcome = "none"
      /\ \A j \in LoopId : j # i => snd.loops[j].pc = "none"
  BY <1>1 DEF LoopsInv
<1>8. snd.state # "IDLE"
  BY Busy
<1>9. snd.known \cup snd.have \subseteq store.blocks
  BY <1>1 DEF RecordInv
<1> QED
  BY <1>2, <1>3, <1>4, <1>5, <1>6, <1>7, <1>8, <1>9

\* The sender after a step of its only loop.
OneLoopSteps(i, loop) ==
    /\ OnlyLoop(snd, snd', i, loop)
    /\ ~ loop.stale /\ ~ loop.old /\ loop.outcome = "none"
    /\ snd'.offers = snd.offers /\ snd'.have = snd.have
    /\ snd'.known \subseteq store.blocks
    /\ snd'.state = "IDLE" => snd.state = "IDLE"
    /\ UNCHANGED <<rcv, chain, work, dest, store, link>>

LEMMA LoopStepped ==
    ASSUME Calmly, NEW i \in LoopId, snd.loops[i].pc # "none", link = "up",
           NEW loop, OneLoopSteps(i, loop),
           ~ Has(toReceiver', {"offer", "manifest"}), ~ Has(toSender', {"accept", "have"}),
           InOneHand', HasOne(toReceiver', Requests), HasOne(toSender', Replies)
    PROVE  OrderInv' /\ RecordInv' /\ ContentInv'
<1>1. /\ OnlyLoop(snd, snd', i, loop) /\ ~ loop.stale /\ ~ loop.old /\ loop.outcome = "none"
      /\ snd'.offers = 0 /\ snd'.state # "IDLE"
      /\ UNCHANGED <<rcv, chain, work, dest, store, link>>
      /\ snd'.known \cup snd'.have \subseteq store.blocks
  BY LoopActive DEF OneLoopSteps
<1>2. RecordInv' /\ ContentInv' /\ ~ AtStore'
  BY <1>1, ReceiverStays, LoopActive
<1>3. Down' /\ Unstarted'
  BY <1>1 DEF Down, Unstarted
<1>4. AcceptedInv'
  <2>1. ~ Has(toReceiver', {"manifest"}) /\ ~ Has(toSender', {"accept"})
    BY DEF Has
  <2>2. AcceptedInv
    BY DEF Calmly, OrderInv
  <2> QED
    BY <1>1, <2>1, <2>2 DEF AcceptedInv
<1>5. LoopsInv'
  <2>1. ~ Opening'
    BY <1>1, <1>2 DEF Opening
  <2>2. \A j \in LoopId : snd'.loops[j] = IF j = i THEN loop ELSE snd.loops[j]
    BY <1>1 DEF OnlyLoop
  <2>3. \A j \in LoopId : j # i => snd'.loops[j].pc = "none"
    BY <2>2, LoopActive
  <2>4. \A j \in LoopId : ~ snd'.loops[j].stale /\ ~ snd'.loops[j].old
                          /\ snd'.loops[j].outcome = "none"
    BY <1>1, <2>2 DEF Calmly, OrderInv, LoopsInv
  <2> QED
    BY <2>1, <2>3, <2>4 DEF LoopsInv
<1>6. Single'
  BY <1>1 DEF Single, Calmly, OrderInv
<1> QED
  BY <1>2, <1>3, <1>4, <1>5, <1>6 DEF OrderInv

\* Where the only loop is, and what it asks for.
LEMMA LoopIsAt ==
    ASSUME Calmly, NEW i \in LoopId, snd.loops[i].pc # "none",
           NEW loop, OneLoopSteps(i, loop)
    PROVE  /\ \A pcs : "none" \notin pcs => (LoopAt(pcs)' <=> loop.pc \in pcs)
           /\ AtSource' <=> loop.pc \in {"check", "read"}
           /\ ~ AtStore'
           /\ \A j \in LoopId : j # i => snd'.loops[j].pc = "none"
           /\ snd'.loops[i] = loop
<1>1. /\ \A j \in LoopId : snd'.loops[j] = IF j = i THEN loop ELSE snd.loops[j]
      /\ \A j \in LoopId : j # i => snd.loops[j].pc = "none"
      /\ snd'.offers = 0 /\ UNCHANGED rcv
  BY LoopActive DEF OneLoopSteps, OnlyLoop
<1>2. /\ \A j \in LoopId : j # i => snd'.loops[j].pc = "none"
      /\ snd'.loops[i] = loop
  BY <1>1
<1>3. ASSUME NEW pcs, "none" \notin pcs
      PROVE  LoopAt(pcs)' <=> loop.pc \in pcs
  BY <1>2, <1>3 DEF LoopAt
<1>4. AtSource' <=> loop.pc \in {"check", "read"}
  BY <1>1, <1>3 DEF AtSource
<1>5. ~ AtStore'
  BY <1>1, LoopActive DEF AtStore, Undecided
<1> QED
  BY <1>2, <1>3, <1>4, <1>5

LEMMA NoFrames ==
    ASSUME Calmly, ~ AtBlock
    PROVE  /\ Bytes = <<>> /\ chain = <<>> /\ frames = <<>>
           /\ work.step = "none" /\ rcv.committed = store.blocks
           /\ ~ LoopAt({"drain"})
<1>1. Bytes = <<>> /\ ~ LoopAt({"drain"})
  BY DEF AtBlock
<1>2. chain = <<>> /\ frames = <<>>
  BY <1>1, BytesAre, CalmFacts DEF Calmly
<1>3. work.step = "none"
  BY <1>2, CalmFacts DEF Calmly
<1> QED
  BY <1>1, <1>2, <1>3 DEF Calmly, DataInv, RecordInv

LEMMA StillNoFrames ==
    ASSUME Bytes' = <<>>, work'.step # "save"
    PROVE  BytesInv'
  BY DEF BytesInv, Ascending

\* The loop takes up the next block, or ends.
LEMMA LoopGoesOn ==
    ASSUME Calmly, NEW i \in LoopId, snd.loops[i].pc # "none", link = "up",
           NEW loop, OneLoopSteps(i, loop), UNCHANGED frames,
           loop.pc \in {"none", "read"},
           loop.pc = "read" => loop.todo \cap rcv.committed = {},
           ~ Requested, ~ AtBlock,
           Lesser(toReceiver', toReceiver), Lesser(toSender', toSender), ~ Replied'
    PROVE  OrderInv' /\ DataInv'
<1>1. UNCHANGED <<rcv, chain, work, store>> /\ snd'.have = snd.have
  BY DEF OneLoopSteps
<1>2. /\ LoopAt({"drain"})' <=> loop.pc = "drain"
      /\ ~ AtStore' /\ snd'.loops[i] = loop
      /\ \A j \in LoopId : j # i => snd'.loops[j].pc = "none"
  BY LoopIsAt
<1>3. ~ Requested'
  BY KindsOfTokens DEF Requested, Lesser
<1>4. Bytes' = <<>> /\ work'.step # "save"
  BY <1>1, NoFrames DEF Bytes
<1>5. ~ AtBlock'
  BY <1>2, <1>4 DEF AtBlock
<1>6. InOneHand'
  BY <1>2, <1>3, <1>5 DEF InOneHand
<1>7. /\ ~ Has(toReceiver', {"offer", "manifest"}) /\ ~ Has(toSender', {"accept", "have"})
      /\ HasOne(toReceiver', Requests) /\ HasOne(toSender', Replies)
  BY LoopActive, KindsOfTokens DEF Calmly, OrderInv, Single, Lesser
<1>8. OrderInv' /\ RecordInv' /\ ContentInv'
  BY <1>6, <1>7, LoopStepped
<1>9. BytesInv'
  BY <1>4, StillNoFrames
<1>10. FreshInv'
  <2>1. \A j \in LoopId : FreshLoop(snd.loops[j])'
    BY <1>1, <1>2 DEF FreshLoop
  <2>2. \A n \in DOMAIN toReceiver' : FreshRequest(toReceiver[n])'
    BY <1>1, RepeatsFacts, RequestsStay
  <2>3. \A n \in DOMAIN toSender' : FreshReply(toSender[n])'
    BY <1>1, RepeatsFacts, RepliesStay
  <2> QED
    BY <2>1, <2>2, <2>3 DEF FreshInv
<1> QED
  BY <1>8, <1>9, <1>10 DEF DataInv

LEMMA Sendable ==
    /\ \A type \in {"accept", "manifest", "root", "delivered", "fail"} :
          Of(type) \in Control /\ Of(type).type = type
    /\ \A type \in {"digest", "ready", "committed", "nack"}, b \in Blocks :
          /\ About(type, b) \in Control
          /\ About(type, b).type = type /\ About(type, b).block = b
    /\ \A bs \in SUBSET Blocks : [type |-> "have", blocks |-> bs] \in Control
    /\ \A r \in References : [type |-> "offer", reference |-> r] \in Control
    /\ [type |-> "fail"] = Of("fail")
  BY DEF Control, Of, About

LEMMA LessSent ==
    ASSUME NEW s \in Seq(Control), NEW t, NEW m \in {Of("root"), Of("fail"), Of("delivered")},
           t \in {s \o <<m>>, s \o <<>>}
    PROVE  Lesser(t, s)
<1>1. m \in Control /\ m.type \in {"root", "fail", "delivered"}
  BY Sendable
<1>2. m.type \notin Tokens
  BY <1>1, KindsOfTokens
<1> QED
  BY <1>1, <1>2, LesserFacts

LEMMA CheckStep ==
    ASSUME Calmly, NEW i \in LoopId, CheckEnds(i)
    PROVE  OrderInv' /\ DataInv'
<1> DEFINE s == [snd EXCEPT !.state = "SENDING"]
<1>1. /\ snd.loops[i].pc = "check" /\ Proceeds(s, i, Blocks \ snd.have, 0)
      /\ UNCHANGED <<rcv, chain, work, dest, store, link, toSender, frames>>
  BY DEF CheckEnds, receiver, network
<1>2. /\ AtSource /\ ~ Requested /\ ~ Replied /\ ~ AtBlock /\ link = "up"
  <2>1. AtSource
    BY <1>1 DEF AtSource, LoopAt
  <2> QED
    BY <1>1, <2>1, Busy DEF Calmly, OrderInv, InOneHand
<1>3. snd \in Sender /\ toReceiver \in Seq(Control) /\ toSender \in Seq(Control)
  BY CalmFacts DEF Calmly
<1>4. s \in Sender /\ Beside(snd, s) /\ s.loops = snd.loops
  BY <1>3 DEF Sender, State, Beside
<1> HIDE DEF s
<1>5. PICK loop \in Loop :
              /\ Beside(s, snd') /\ OnlyLoop(s, snd', i, loop)
              /\ ~ loop.stale /\ ~ loop.old /\ loop.outcome = "none"
              /\ \/ /\ Blocks \ snd.have = {} /\ loop.pc = "none"
                    /\ toReceiver' = toReceiver \o <<Of("root")>>
                 \/ /\ loop.pc = "read" /\ loop.todo = Blocks \ snd.have
                    /\ toReceiver' = toReceiver \o <<>>
  <2>1. ~ snd.loops[i].stale /\ Blocks \ snd.have \in SUBSET Blocks /\ 0 \in 0 .. 3
    BY <1>1, LoopActive
  <2> QED
    BY <1>1, <1>2, <1>4, <2>1, Proceeded
<1>6. OneLoopSteps(i, loop)
  BY <1>1, <1>4, <1>5, BesideTwice, LoopActive DEF OneLoopSteps, Beside, OnlyLoop
<1>7. rcv.committed \subseteq snd.have
  BY <1>1, LoopActive DEF FreshLoop
<1>8. Lesser(toReceiver', toReceiver) /\ Lesser(toSender', toSender)
  BY <1>1, <1>3, <1>5, LessSent, LesserFacts
<1>9. ~ Replied'
  BY <1>1, <1>2 DEF Replied
<1> QED
  BY <1>1, <1>2, <1>5, <1>6, <1>7, <1>8, <1>9, LoopGoesOn

LEMMA ReadStep ==
    ASSUME Calmly, NEW i \in LoopId, ReadEnds(i)
    PROVE  OrderInv' /\ DataInv'
<1> DEFINE loop == [snd.loops[i] EXCEPT !.pc = "ready"]
           m == About("digest", Block(snd.loops[i]))
<1>1. /\ snd.loops[i].pc = "read"
      /\ UNCHANGED <<rcv, chain, work, dest, store, link, toSender, frames>>
  BY DEF ReadEnds, receiver, network
<1>2. AtSource /\ ~ Requested /\ ~ AtStore /\ ~ Replied /\ ~ AtBlock /\ link = "up"
  <2>1. AtSource
    BY <1>1 DEF AtSource, LoopAt
  <2> QED
    BY <1>1, <2>1, Busy DEF Calmly, OrderInv, InOneHand
<1>3. /\ snd \in Sender /\ toReceiver \in Seq(Control) /\ toSender \in Seq(Control)
      /\ snd.loops[i] \in Loop /\ LoopShape(snd.loops[i]) /\ FreshLoop(snd.loops[i])
      /\ ~ snd.loops[i].stale
  BY <1>1, CalmFacts, LoopActive DEF Calmly
<1>4. /\ snd' = [snd EXCEPT !.loops[i].pc = "ready"]
      /\ toReceiver' = toReceiver \o <<m>>
  BY <1>2, <1>3 DEF ReadEnds, Sent, ToReceiver
<1>5. snd' = [snd EXCEPT !.loops[i] = loop]
  BY <1>3, <1>4 DEF Sender
<1>6. /\ loop.pc = "ready" /\ loop.todo = snd.loops[i].todo
      /\ loop.stale = snd.loops[i].stale /\ loop.old = snd.loops[i].old
      /\ loop.outcome = snd.loops[i].outcome
  BY <1>3 DEF Loop
<1>7. /\ Block(snd.loops[i]) \in Blocks /\ Block(snd.loops[i]) \notin rcv.committed
      /\ loop.todo \cap rcv.committed = {}
  <2>1. snd.loops[i].todo # {}
    BY <1>1, <1>3 DEF LoopShape
  <2>2. Block(snd.loops[i]) \in snd.loops[i].todo /\ Block(snd.loops[i]) \in Blocks
    BY <1>3, <2>1, BlockToDo
  <2> QED
    BY <1>1, <1>3, <1>6, <2>2 DEF FreshLoop
<1>8. /\ m \in Control /\ m.type = "digest" /\ m.block \notin rcv.committed
  BY <1>7, Sendable
<1> HIDE DEF loop, m
<1>9. OneLoopSteps(i, loop)
  <2>1. Beside(snd, snd') /\ OnlyLoop(snd, snd', i, loop)
    BY <1>3, <1>5, LoopPut
  <2> QED
    BY <1>1, <1>6, <2>1, LoopActive DEF OneLoopSteps, Beside
<1>10. More(toReceiver, m, toReceiver')
  BY <1>3, <1>4, <1>8, OneSent
<1>11. /\ ~ AtSource' /\ ~ AtStore' /\ ~ LoopAt({"drain"})'
       /\ snd'.loops[i] = loop /\ \A j \in LoopId : j # i => snd'.loops[j].pc = "none"
  BY <1>1, <1>6, <1>9, LoopIsAt
<1>12. Bytes' = <<>> /\ work'.step # "save" /\ ~ AtBlock'
  BY <1>1, <1>2, <1>11, NoFrames DEF Bytes, AtBlock
<1>13. InOneHand'
  BY <1>1, <1>2, <1>11, <1>12 DEF InOneHand, Replied
<1>14. /\ ~ Has(toReceiver', {"offer", "manifest"}) /\ ~ Has(toSender', {"accept", "have"})
       /\ HasOne(toReceiver', Requests) /\ HasOne(toSender', Replies)
  <2>1. ~ Has(toReceiver', {"offer", "manifest"})
    BY <1>1, <1>8, <1>10, LoopActive DEF More
  <2>2. HasOne(toReceiver', Requests)
    BY <1>2, <1>10 DEF More, Calmly, OrderInv, Single, Requested
  <2> QED
    BY <1>1, <2>1, <2>2, LoopActive DEF Calmly, OrderInv, Single
<1>15. OrderInv' /\ RecordInv' /\ ContentInv'
  BY <1>1, <1>2, <1>9, <1>13, <1>14, LoopStepped
<1>16. FreshInv'
  <2>1. \A j \in LoopId : FreshLoop(snd.loops[j])'
    BY <1>1, <1>6, <1>7, <1>11 DEF FreshLoop
  <2>2. \A n \in DOMAIN toReceiver' : FreshRequest(toReceiver[n])'
    <3>1. \A k \in DOMAIN toReceiver : FreshRequest(toReceiver[k])
      BY DEF Calmly, DataInv, FreshInv
    <3> QED
      BY <1>1, <1>8, <1>10, <3>1 DEF More, FreshRequest
  <2>3. \A n \in DOMAIN toSender' : FreshReply(toSender[n])'
    BY <1>1, RepeatsFacts, RepliesStay
  <2> QED
    BY <2>1, <2>2, <2>3 DEF FreshInv
<1> QED
  BY <1>12, <1>15, <1>16, StillNoFrames DEF DataInv

\* A frame leaves: the block is the loop's, and it follows the ones before.
LEMMA DrainStep ==
    ASSUME Calmly, NEW i \in LoopId, DrainEnds(i)
    PROVE  OrderInv' /\ DataInv'
<1> DEFINE loop == snd.loops[i]
           pc == IF loop.frame = FrameCount - 1 THEN "ack" ELSE "drain"
           later == [loop EXCEPT !.frame = @ + 1, !.pc = pc]
           next == [snd EXCEPT !.loops[i].frame = @ + 1, !.loops[i].pc = pc]
<1>1. /\ loop.pc = "drain"
      /\ UNCHANGED <<rcv, chain, work, dest, store, link, toSender>>
  BY DEF DrainEnds, receiver, network
<1>2. AtBlock /\ ~ AtSource /\ ~ Requested /\ ~ AtStore /\ ~ Replied /\ link = "up"
  <2>1. AtBlock
    BY <1>1 DEF AtBlock, LoopAt
  <2> QED
    BY <1>1, <2>1, Busy DEF Calmly, OrderInv, InOneHand
<1>3. /\ snd \in Sender /\ loop \in Loop /\ LoopShape(loop) /\ FreshLoop(loop)
      /\ ~ loop.stale /\ loop.outcome = "none"
      /\ frames \in Seq(Frame) /\ chain \in Seq(Frame) /\ snd.reference \in References
      /\ toReceiver \in Seq(Control) /\ toSender \in Seq(Control)
  BY <1>1, CalmFacts, LoopActive, SenderFields DEF Calmly
<1>4. PICK content \in {"good", "bad"} :
        /\ frames' = Append(frames, [ reference |-> snd.reference, block |-> Block(loop),
                                      index |-> loop.frame, content |-> content ])
        /\ snd' = next /\ UNCHANGED toReceiver
  BY <1>2, <1>3 DEF DrainEnds
<1>5. /\ loop.todo # {} /\ loop.frame \in 0 .. FrameCount - 1
      /\ loop.todo \cap rcv.committed = {}
  BY <1>1, <1>3, ConstantFacts DEF LoopShape, Loop, FreshLoop
<1>6. Block(loop) \in loop.todo /\ Block(loop) \in Blocks
  BY <1>3, <1>5, BlockToDo
<1> DEFINE f == [ reference |-> snd.reference, block |-> Block(loop),
                  index |-> loop.frame, content |-> content ]
<1>7. f \in Frame /\ f.block = Block(loop) /\ f.index = loop.frame
  BY <1>3, <1>5, <1>6 DEF Frame, Payload
<1>8. snd' = [snd EXCEPT !.loops[i] = later]
  BY <1>3, <1>4 DEF Sender, Loop
<1>9. /\ later.pc \in {"drain", "ack"} /\ later.todo = loop.todo
      /\ later.frame = loop.frame + 1
      /\ ~ later.stale /\ ~ later.old /\ later.outcome = "none"
  BY <1>1, <1>3, LoopActive DEF Loop
<1>10. Block(later) = Block(loop)
  BY <1>9, SameBlock
<1>11. OneLoopSteps(i, later)
  <2> HIDE DEF later, loop
  <2>1. Beside(snd, snd') /\ OnlyLoop(snd, snd', i, later)
    BY <1>3, <1>8, LoopPut
  <2> QED
    BY <1>1, <1>9, <2>1, LoopActive DEF OneLoopSteps, Beside, loop
<1>12. frames' = Append(frames, f)
  BY <1>4
<1> HIDE DEF later, next, f
<1>13. /\ ~ AtSource' /\ ~ AtStore' /\ snd'.loops[i] = later
       /\ \A j \in LoopId : j # i => snd'.loops[j].pc = "none"
  BY <1>1, <1>9, <1>11, LoopIsAt
<1>14. Bytes' = Append(Bytes, f) /\ Bytes \in Seq(Frame)
  BY <1>1, <1>3, <1>7, <1>12, BytesGrow, BytesAre
<1>15. work.step # "save"
  BY <1>1 DEF LoopAt, Calmly, DataInv, BytesInv
<1>16. \A n \in DOMAIN Bytes : /\ Bytes[n].block = f.block /\ Bytes[n].index < f.index
                               /\ Bytes[n].block \notin rcv.committed
  BY <1>1, <1>7, <1>15 DEF Calmly, DataInv, BytesInv, SentBy
<1>17. /\ Ascending(Bytes')
       /\ \A n \in DOMAIN Bytes' : Bytes'[n] = f \/ (n \in DOMAIN Bytes /\ Bytes'[n] = Bytes[n])
  <2>1. Ascending(Bytes)
    BY DEF Calmly, DataInv, BytesInv
  <2> HIDE DEF Bytes
  <2> QED
    BY <1>7, <1>14, <1>16, <2>1, AscendingMore
<1>18. BytesInv'
  <2>1. ASSUME NEW n \in DOMAIN Bytes'
        PROVE  /\ Bytes'[n].block = Block(loop) /\ Bytes'[n].index < later.frame
               /\ Bytes'[n].block \notin rcv.committed
    <3>1. CASE Bytes'[n] = f
      BY <1>5, <1>6, <1>7, <1>9, <3>1, ConstantFacts
    <3>2. CASE n \in DOMAIN Bytes /\ Bytes'[n] = Bytes[n]
      <4>1. Bytes[n] \in Frame
        BY <1>14, <3>2
      <4>2. Bytes[n].index \in Nat
        BY <4>1 DEF Frame
      <4> QED
        BY <1>5, <1>7, <1>9, <1>16, <3>2, <4>2, ConstantFacts
    <3> QED
      BY <1>17, <2>1, <3>1, <3>2
  <2>2. \A n \in DOMAIN Bytes', j \in LoopId : SentBy(snd'.loops[j], Bytes'[n])
    BY <1>9, <1>10, <1>13, <2>1 DEF SentBy
  <2> QED
    BY <1>1, <1>15, <1>17, <2>1, <2>2 DEF BytesInv, SentBy, Block
<1>19. InOneHand'
  BY <1>1, <1>2, <1>4, <1>13 DEF InOneHand, Requested, Replied
<1>20. OrderInv' /\ RecordInv' /\ ContentInv'
  <2>1. /\ ~ Has(toReceiver', {"offer", "manifest"}) /\ ~ Has(toSender', {"accept", "have"})
        /\ HasOne(toReceiver', Requests) /\ HasOne(toSender', Replies)
    BY <1>1, <1>4, LoopActive DEF Calmly, OrderInv, Single
  <2> QED
    BY <1>1, <1>2, <1>11, <1>19, <2>1, LoopStepped
<1>21. FreshInv'
  <2>1. FreshLoop(snd.loops[i])'
    BY <1>1, <1>5, <1>9, <1>13 DEF FreshLoop
  <2>2. \A j \in LoopId : FreshLoop(snd.loops[j])'
    BY <1>13, <2>1 DEF FreshLoop
  <2>3. \A n \in DOMAIN toReceiver' : FreshRequest(toReceiver[n])'
    BY <1>1, <1>4, RepeatsFacts, RequestsStay
  <2>4. \A n \in DOMAIN toSender' : FreshReply(toSender[n])'
    BY <1>1, RepeatsFacts, RepliesStay
  <2> QED
    BY <2>2, <2>3, <2>4 DEF FreshInv
<1> QED
  BY <1>18, <1>20, <1>21 DEF DataInv

-----------------------------------------------------------------------------
(* The sender's messages and offers.                                         *)

LEMMA SenderTook ==
    ASSUME Calmly, NEW type, SenderTakes(type)
    PROVE  /\ Head(toSender) \in Control /\ Head(toSender).type = type
           /\ Rest(toSender, toSender') /\ Lesser(toSender', toSender)
           /\ link = "up" /\ snd.state # "IDLE" /\ FreshReply(Head(toSender))
           /\ type \in Replies => /\ ~ Requested /\ ~ AtSource /\ ~ AtStore /\ ~ AtBlock
                                  /\ ~ Replied'
<1>1. toSender # <<>> /\ Head(toSender).type = type /\ toSender' = Tail(toSender)
  BY DEF SenderTakes
<1>2. toSender \in Seq(Control)
  BY CalmFacts DEF Calmly
<1>3. Rest(toSender, toSender') /\ Lesser(toSender', toSender)
  BY <1>1, <1>2, OneTaken, LesserFacts
<1>4. link = "up" /\ snd.state # "IDLE"
  BY <1>1, Busy
<1>5. FreshReply(Head(toSender))
  BY <1>3 DEF Calmly, DataInv, FreshInv, Rest
<1>6. ASSUME type \in Replies
      PROVE  ~ Requested /\ ~ AtSource /\ ~ AtStore /\ ~ AtBlock /\ ~ Replied'
  <2>1. Replied
    BY <1>1, <1>3, <1>6 DEF Replied, Rest
  <2>2. ~ Replied'
    BY <1>1, <1>3, <1>6 DEF Replied, Rest, Calmly, OrderInv, Single
  <2> QED
    BY <2>1, <2>2 DEF Calmly, OrderInv, InOneHand
<1> QED
  BY <1>1, <1>3, <1>4, <1>5, <1>6 DEF Rest

\* A step of the sender that asks for nothing.
LEMMA SenderRests ==
    ASSUME Calmly, LoopsStay, snd'.offers = snd.offers, snd'.have = snd.have,
           snd'.known \subseteq store.blocks,
           snd'.state # "IDLE", link = "up",
           UNCHANGED <<rcv, chain, work, dest, store, frames, link>>,
           Lesser(toReceiver', toReceiver), Lesser(toSender', toSender)
    PROVE  OrderInv' /\ DataInv'
<1>1. snd'.known \cup snd'.have \subseteq store.blocks
  BY DEF Calmly, DataInv, RecordInv
<1>2. RecordInv' /\ ContentInv' /\ (AtStore' <=> AtStore)
  BY <1>1, ReceiverStays
<1>3. Unstarted'
  BY DEF Unstarted
<1>4. Down'
  BY <1>2, DownStays
<1>5. Bytes' = Bytes
  BY DEF Bytes
<1>6. OrderInv'
  <2>1. AcceptedInv /\ \A m, n \in DOMAIN rcv'.ends : m = n
    BY DEF Calmly, OrderInv, Single
  <2> QED
    BY <1>2, <1>3, <1>4, <1>5, <2>1, OrderStays DEF AcceptedInv
<1>7. FreshInv'
  BY FreshStays, RepeatsFacts
<1>8. BytesInv'
  <2>1. Ascending(Bytes')
    BY <1>5 DEF Calmly, DataInv, BytesInv
  <2> QED
    BY <1>5, <2>1, BytesStay
<1> QED
  BY <1>2, <1>6, <1>7, <1>8 DEF DataInv

LEMMA DeliveredStep ==
    ASSUME Calmly, SenderDelivered \/ SenderToldFailed
    PROVE  OrderInv' /\ DataInv'
<1>1. /\ SenderTakes("delivered") \/ SenderTakes("fail")
      /\ UNCHANGED <<rcv, chain, work, dest, store, frames, link>>
  BY DEF SenderDelivered, SenderToldFailed, receiver, network
<1>2. link = "up" /\ snd.state # "IDLE" /\ Lesser(toSender', toSender)
  BY <1>1, SenderTook
<1>3. /\ snd \in Sender /\ toReceiver \in Seq(Control)
      /\ snd.known \subseteq store.blocks
  BY CalmFacts DEF Calmly, DataInv, RecordInv
<1>4. /\ snd'.loops = snd.loops /\ snd'.offers = snd.offers /\ snd'.have = snd.have
      /\ snd'.known = snd.known /\ snd'.state # "IDLE"
      /\ toReceiver' \in {toReceiver \o <<Of("fail")>>, toReceiver \o <<>>, toReceiver}
  <2>1. CASE SenderDelivered
    BY <1>3, <2>1 DEF SenderDelivered, Sender
  <2>2. CASE SenderToldFailed
    <3>1. snd' = Failed(snd) /\ toReceiver' = toReceiver \o Failure(snd)
      BY <1>2, <2>2 DEF SenderToldFailed, SenderFails, ToReceiver
    <3>2. snd'.loops = snd.loops /\ snd'.offers = snd.offers /\ snd'.have = snd.have
          /\ snd'.known = snd.known /\ snd'.state # "IDLE"
      BY <1>2, <1>3, <3>1 DEF Failed, Sender
    <3>3. Failure(snd) = <<>> \/ Failure(snd) = <<Of("fail")>>
      BY FailureIs DEF Of
    <3>4. toReceiver' \in {toReceiver \o <<Of("fail")>>, toReceiver \o <<>>, toReceiver}
      BY <3>1, <3>3
    <3> QED
      BY <3>2, <3>4
  <2> QED
    BY <2>1, <2>2
<1>5. LoopsStay
  BY <1>4 DEF LoopsStay
<1>6. Lesser(toReceiver', toReceiver)
  BY <1>3, <1>4, LessSent, LesserFacts
<1> QED
  BY <1>1, <1>2, <1>3, <1>4, <1>5, <1>6, SenderRests

LEMMA ReadyStep ==
    ASSUME Calmly, SenderReady
    PROVE  OrderInv' /\ DataInv'
<1> DEFINE waiting == {i \in Current({"ready"}) : Block(snd.loops[i]) = Head(toSender).block}
           loops == [i \in LoopId |->
                       IF i \in waiting THEN [snd.loops[i] EXCEPT !.pc = "drain"]
                       ELSE snd.loops[i]]
<1>1. /\ SenderTakes("ready") /\ snd' = [snd EXCEPT !.loops = loops]
      /\ UNCHANGED <<rcv, chain, work, dest, store, frames, link, toReceiver>>
  BY DEF SenderReady, receiver, network
<1>2. /\ ~ Requested /\ ~ AtSource /\ ~ AtStore /\ ~ AtBlock /\ ~ Replied'
      /\ Rest(toSender, toSender') /\ Lesser(toSender', toSender)
      /\ link = "up" /\ snd.state # "IDLE"
  BY <1>1, SenderTook DEF Replies
<1>3. /\ snd \in Sender /\ toReceiver \in Seq(Control)
      /\ snd.known \subseteq store.blocks
  BY CalmFacts DEF Calmly, DataInv, RecordInv
<1>4. /\ snd'.offers = snd.offers /\ snd'.have = snd.have /\ snd'.known = snd.known
      /\ snd'.state = snd.state /\ snd'.loops = loops
  <2> HIDE DEF loops
  <2> QED
    BY <1>1, <1>3 DEF Sender
<1>5. \A i \in LoopId : i \in waiting => snd.loops[i].pc = "ready"
  BY DEF Current
<1>6. Lesser(toReceiver', toReceiver)
  BY <1>1, <1>3, LesserFacts
<1>7. CASE waiting = {}
  <2>1. LoopsStay
    BY <1>4, <1>7 DEF LoopsStay
  <2> QED
    BY <1>1, <1>2, <1>3, <1>4, <1>6, <2>1, SenderRests
<1>8. CASE waiting # {}
  <2>1. PICK i \in LoopId : i \in waiting
    BY <1>8 DEF Current
  <2> DEFINE loop == [snd.loops[i] EXCEPT !.pc = "drain"]
  <2>2. snd.loops[i].pc = "ready" /\ \A j \in LoopId : j \in waiting => j = i
    <3>1. \A j \in LoopId : j \in waiting => snd.loops[j].pc # "none"
      BY <1>5
    <3> QED
      BY <1>5, <2>1, <3>1 DEF Calmly, OrderInv, LoopsInv
  <2>3. \A j \in LoopId : loops[j] = IF j = i THEN loop ELSE snd.loops[j]
    BY <2>1, <2>2
  <2> HIDE DEF loops, waiting
  <2>4. /\ snd.loops[i] \in Loop /\ FreshLoop(snd.loops[i])
        /\ ~ snd.loops[i].stale /\ ~ snd.loops[i].old /\ snd.loops[i].outcome = "none"
    BY <2>2, LoopActive
  <2>5. /\ loop.pc = "drain" /\ loop.todo = snd.loops[i].todo
        /\ ~ loop.stale /\ ~ loop.old /\ loop.outcome = "none"
    BY <2>4 DEF Loop
  <2>6. loop.todo \cap rcv.committed = {}
    BY <2>2, <2>4, <2>5 DEF FreshLoop
  <2> HIDE DEF loop
  <2>7. OneLoopSteps(i, loop)
    BY <1>1, <1>3, <1>4, <2>3, <2>5 DEF OneLoopSteps, OnlyLoop
  <2>8. /\ ~ AtSource' /\ ~ AtStore' /\ snd'.loops[i] = loop
        /\ \A j \in LoopId : j # i => snd'.loops[j].pc = "none"
    BY <2>2, <2>5, <2>7, LoopIsAt
  <2>9. Bytes' = <<>> /\ work'.step # "save"
    BY <1>1, <1>2, NoFrames DEF Bytes
  <2>10. InOneHand'
    BY <1>1, <1>2, <2>8 DEF InOneHand, Requested
  <2>11. /\ ~ Has(toReceiver', {"offer", "manifest"}) /\ ~ Has(toSender', {"accept", "have"})
         /\ HasOne(toReceiver', Requests) /\ HasOne(toSender', Replies)
    BY <1>1, <1>2, <2>2, LoopActive DEF Calmly, OrderInv, Single, Rest
  <2>12. OrderInv' /\ RecordInv' /\ ContentInv'
    BY <1>2, <2>2, <2>7, <2>10, <2>11, LoopStepped
  <2>13. FreshInv'
    <3>1. \A j \in LoopId : FreshLoop(snd.loops[j])'
      BY <1>1, <2>5, <2>6, <2>8 DEF FreshLoop
    <3>2. \A n \in DOMAIN toReceiver' : FreshRequest(toReceiver[n])'
      BY <1>1, <1>6, RepeatsFacts, RequestsStay
    <3>3. \A n \in DOMAIN toSender' : FreshReply(toSender[n])'
      BY <1>1, <1>2, RepeatsFacts, RepliesStay
    <3> QED
      BY <3>1, <3>2, <3>3 DEF FreshInv
  <2> QED
    BY <2>9, <2>12, <2>13, StillNoFrames DEF DataInv
<1> QED
  BY <1>7, <1>8

\* COMMITTED and the refusal of a block.
LEMMA OutcomeStep ==
    ASSUME Calmly, SenderOutcome
    PROVE  OrderInv' /\ DataInv'
<1> DEFINE b == Head(toSender).block
           Waiting(pc) == {i \in Current({pc}) : Block(snd.loops[i]) = b}
<1>1. PICK outcome \in {"committed", "nack"} :
        /\ SenderTakes(outcome)
        /\ LET s == IF outcome = "committed" THEN [snd EXCEPT !.known = @ \cup {b}]
                    ELSE snd
           IN  IF Waiting("ack") # {}
               THEN \E i \in Waiting("ack") : Decide(s, i, outcome)
               ELSE /\ snd' = [s EXCEPT !.loops = [i \in LoopId |->
                                 IF i \in Waiting("drain") /\ s.loops[i].outcome = "none"
                                 THEN [s.loops[i] EXCEPT !.outcome = outcome]
                                 ELSE s.loops[i]]]
                    /\ UNCHANGED toReceiver
  BY DEF SenderOutcome
<1> DEFINE s == IF outcome = "committed" THEN [snd EXCEPT !.known = @ \cup {b}] ELSE snd
           loops == [i \in LoopId |->
                       IF i \in Waiting("drain") /\ s.loops[i].outcome = "none"
                       THEN [s.loops[i] EXCEPT !.outcome = outcome]
                       ELSE s.loops[i]]
<1>2. UNCHANGED <<rcv, chain, work, dest, store, frames, link>>
  BY DEF SenderOutcome, receiver, network
<1>3. /\ ~ Requested /\ ~ AtSource /\ ~ AtStore /\ ~ AtBlock /\ ~ Replied'
      /\ Lesser(toSender', toSender) /\ link = "up" /\ snd.state # "IDLE"
      /\ Head(toSender) \in Control /\ Head(toSender).type = outcome
      /\ FreshReply(Head(toSender))
  BY <1>1, SenderTook DEF Replies
<1>4. /\ b \in Blocks
      /\ outcome = "committed" => b \in store.blocks
      /\ outcome = "nack" => b \notin rcv.committed
  BY <1>3 DEF Control, FreshReply
<1>5. /\ snd \in Sender /\ toReceiver \in Seq(Control) /\ toSender \in Seq(Control)
      /\ snd.known \subseteq store.blocks /\ snd.known \in SUBSET Blocks
  BY CalmFacts DEF Calmly, DataInv, RecordInv
<1>6. /\ s \in Sender /\ s.loops = snd.loops /\ s.offers = snd.offers
      /\ s.have = snd.have /\ s.known \subseteq store.blocks /\ s.state = snd.state
  <2> HIDE DEF b
  <2> QED
    BY <1>4, <1>5 DEF Sender
<1>7. CASE Waiting("ack") # {}
  <2>1. PICK i \in Waiting("ack") : Decide(s, i, outcome)
    BY <1>1, <1>7
  <2>2. i \in LoopId /\ snd.loops[i].pc = "ack" /\ Block(snd.loops[i]) = b
    BY <2>1 DEF Current
  <2>3. /\ snd.loops[i] \in Loop /\ LoopShape(snd.loops[i]) /\ FreshLoop(snd.loops[i])
        /\ ~ snd.loops[i].stale
    BY <2>2, LoopActive
  <2> HIDE DEF s, Waiting
  <2>4. PICK loop \in Loop :
              /\ Beside(s, snd') /\ OnlyLoop(s, snd', i, loop)
              /\ ~ loop.stale /\ ~ loop.old /\ loop.outcome = "none"
              /\ \/ /\ loop.pc = "none"
                    /\ \E m \in {Of("root"), Of("fail")} :
                          toReceiver' \in {toReceiver \o <<m>>, toReceiver \o <<>>}
                 \/ /\ loop.pc = "read" /\ toReceiver' = toReceiver \o <<>>
                    /\ loop.todo = IF outcome = "committed"
                                   THEN s.loops[i].todo \ {Block(s.loops[i])}
                                   ELSE s.loops[i].todo
    BY <1>3, <1>6, <2>1, <2>2, <2>3, Decided
  <2>5. OneLoopSteps(i, loop)
    BY <1>2, <1>6, <2>4 DEF OneLoopSteps, Beside, OnlyLoop
  <2>6. loop.pc = "read" => loop.todo \cap rcv.committed = {}
    <3>1. snd.loops[i].todo \cap rcv.committed \subseteq {b}
      BY <2>2, <2>3 DEF FreshLoop
    <3> HIDE DEF b
    <3> QED
      BY <1>4, <1>6, <2>2, <2>4, <3>1
  <2>7. Lesser(toReceiver', toReceiver)
    BY <1>5, <2>4, LessSent, LesserFacts
  <2> QED
    BY <1>2, <1>3, <2>2, <2>4, <2>5, <2>6, <2>7, LoopGoesOn
<1>8. CASE Waiting("ack") = {}
  <2>1. snd' = [s EXCEPT !.loops = loops] /\ UNCHANGED toReceiver
    BY <1>1, <1>8
  <2>2. \A i \in LoopId : i \notin Waiting("drain")
    BY <1>3, NoFrames DEF LoopAt, Current
  <2>3. \A i \in LoopId : loops[i] = snd.loops[i]
    <3> HIDE DEF s, Waiting
    <3> QED
      BY <1>6, <2>2
  <2> HIDE DEF s, loops, Waiting, b
  <2>4. /\ snd'.loops = loops /\ snd'.offers = snd.offers /\ snd'.have = snd.have
        /\ snd'.known \subseteq store.blocks /\ snd'.state = snd.state
    BY <1>6, <2>1 DEF Sender
  <2>5. LoopsStay
    BY <2>3, <2>4 DEF LoopsStay
  <2>6. Lesser(toReceiver', toReceiver)
    BY <1>5, <2>1, LesserFacts
  <2> QED
    BY <1>2, <1>3, <2>4, <2>5, <2>6, SenderRests
<1> QED
  BY <1>7, <1>8

\* A step of the sender before there is a loop.
LEMMA SenderOpens ==
    ASSUME Calmly, NoLoops, snd'.loops = snd.loops, ~ AtBlock, frames' = <<>>,
           UNCHANGED <<rcv, chain, work, dest, store>>, link' = "up",
           snd'.state # "IDLE", snd'.offers <= 1,
           snd'.known \cup snd'.have \subseteq store.blocks,
           InOneHand', AcceptedInv',
           HasOne(toReceiver', Requests), HasOne(toSender', Replies),
           Repeats(toReceiver', toReceiver), Repeats(toSender', toSender)
    PROVE  OrderInv' /\ DataInv'
<1>1. RecordInv' /\ ContentInv'
  BY ReceiverStays
<1>2. Down' /\ Unstarted'
  BY DEF Down, Unstarted
<1>3. Single'
  BY DEF Single, Calmly, OrderInv
<1>4. LoopsInv'
  BY DEF LoopsInv, NoLoops, Calmly, OrderInv
<1>5. FreshInv'
  <2>1. \A i \in LoopId : FreshLoop(snd.loops[i])'
    BY DEF NoLoops, FreshLoop
  <2>2. \A n \in DOMAIN toReceiver' : FreshRequest(toReceiver[n])'
    BY RequestsStay
  <2>3. \A n \in DOMAIN toSender' : FreshReply(toSender[n])'
    BY RepliesStay
  <2> QED
    BY <2>1, <2>2, <2>3 DEF FreshInv
<1>6. BytesInv'
  <2>1. Bytes' = <<>> /\ work'.step # "save"
    BY NoFrames DEF Bytes
  <2> QED
    BY <2>1, StillNoFrames
<1> QED
  BY <1>1, <1>2, <1>3, <1>4, <1>5, <1>6 DEF OrderInv, DataInv

LEMMA AcceptHeard ==
    ASSUME Calmly, SenderAccept
    PROVE  OrderInv' /\ DataInv'
<1>1. SenderTakes("accept") /\ UNCHANGED <<rcv, chain, work, dest, store, frames, link>>
  BY DEF SenderAccept, receiver, network
<1>2. /\ ~ Requested /\ ~ AtSource /\ ~ AtStore /\ ~ AtBlock /\ ~ Replied'
      /\ Rest(toSender, toSender') /\ link = "up" /\ snd.state # "IDLE"
      /\ Head(toSender).type = "accept"
  BY <1>1, SenderTook DEF Replies
<1>3. snd' = snd /\ toReceiver' = toReceiver \o <<Of("manifest")>>
  BY <1>2 DEF SenderAccept, Sent, ToReceiver
<1>4. More(toReceiver, Of("manifest"), toReceiver') /\ Of("manifest").type = "manifest"
  BY <1>3, CalmFacts, Sendable, OneSent DEF Calmly
<1>5. Has(toSender, {"accept", "have"}) /\ Has(toSender, {"accept"})
  BY <1>2 DEF Rest
<1>6. NoLoops /\ rcv.accepted
  BY <1>5 DEF Calmly, OrderInv, LoopsInv, Opening, AcceptedInv
<1>7. Single /\ snd.offers = 0 /\ snd.known \cup snd.have \subseteq store.blocks
  BY <1>2 DEF Calmly, OrderInv, DataInv, RecordInv, AtSource
<1>8. InOneHand'
  <2>1. ~ AtSource' /\ ~ AtStore' /\ ~ AtBlock'
    BY <1>1, <1>2, <1>3 DEF AtSource, AtStore, Undecided, AtBlock, LoopAt, Bytes
  <2> QED
    BY <1>2, <2>1 DEF InOneHand
<1>9. AcceptedInv'
  BY <1>1, <1>6 DEF AcceptedInv
<1>10. HasOne(toReceiver', Requests) /\ HasOne(toSender', Replies)
  BY <1>2, <1>4, <1>7 DEF More, Rest, Single, Requested
<1>11. Repeats(toReceiver', toReceiver) /\ Repeats(toSender', toSender)
  BY <1>2, <1>4, RepeatsFacts
<1> QED
  BY <1>1, <1>2, <1>3, <1>6, <1>7, <1>8, <1>9, <1>10, <1>11, NoFrames, SenderOpens

LEMMA OfferStep ==
    ASSUME Calmly, OfferSent
    PROVE  OrderInv' /\ DataInv'
<1>1. /\ snd.offers > 0
      /\ UNCHANGED <<rcv, chain, work, dest, store, frames, link, toSender>>
  BY DEF OfferSent, receiver, network
<1>2. /\ snd \in Sender /\ snd.offers \in Nat /\ toReceiver \in Seq(Control)
      /\ toSender \in Seq(Control) /\ snd.reference \in References
  BY CalmFacts, SenderFields DEF Calmly
<1>3. snd.offers = 1
  BY <1>1, <1>2 DEF Calmly, OrderInv, Single
<1>4. AtSource /\ NoLoops /\ link = "up" /\ snd.state # "IDLE"
  BY <1>3, Busy DEF AtSource, Calmly, OrderInv, LoopsInv, Opening
<1>5. ~ Requested /\ ~ AtStore /\ ~ Replied /\ ~ AtBlock
  BY <1>4 DEF Calmly, OrderInv, InOneHand
<1> DEFINE m == [type |-> "offer", reference |-> snd.reference]
<1>6. m \in Control /\ m.type = "offer"
  BY <1>2, Sendable
<1>7. /\ snd' = [snd EXCEPT !.offers = @ - 1]
      /\ toReceiver' = toReceiver \o <<m>>
  BY <1>4 DEF OfferSent, Sent, ToReceiver
<1> HIDE DEF m
<1>8. /\ snd'.loops = snd.loops /\ snd'.offers = 0 /\ snd'.have = snd.have
      /\ snd'.known = snd.known /\ snd'.state = snd.state
  BY <1>2, <1>3, <1>7 DEF Sender
<1>9. More(toReceiver, m, toReceiver')
  BY <1>2, <1>6, <1>7, OneSent
<1>10. InOneHand'
  <2>1. ~ AtSource'
    BY <1>4, <1>8 DEF AtSource, LoopAt, NoLoops
  <2>2. ~ AtStore' /\ ~ AtBlock' /\ ~ Replied'
    BY <1>1, <1>5, <1>8 DEF AtStore, Undecided, AtBlock, LoopAt, Bytes, Replied
  <2> QED
    BY <2>1, <2>2 DEF InOneHand
<1>11. AcceptedInv'
  <2>1. Has(toReceiver', {"manifest"}) => Has(toReceiver, {"manifest"})
    BY <1>6, <1>9 DEF More
  <2> QED
    BY <1>1, <2>1 DEF Calmly, OrderInv, AcceptedInv
<1>12. HasOne(toReceiver', Requests) /\ HasOne(toSender', Replies)
  BY <1>1, <1>5, <1>9 DEF More, Calmly, OrderInv, Single, Requested
<1>13. Repeats(toReceiver', toReceiver) /\ Repeats(toSender', toSender)
  BY <1>1, <1>6, <1>9, RepeatsFacts
<1>14. snd'.known \cup snd'.have \subseteq store.blocks
  BY <1>8 DEF Calmly, DataInv, RecordInv
<1> QED
  BY <1>1, <1>4, <1>5, <1>8, <1>10, <1>11, <1>12, <1>13, <1>14, NoFrames, SenderOpens

LEMMA FirstOfferStep ==
    ASSUME Calmly, StartOffer
    PROVE  OrderInv' /\ DataInv'
<1>1. /\ snd.state = "IDLE" /\ link = "up"
      /\ snd' = [snd EXCEPT !.state = "READY", !.reference = 1, !.offers = 1]
      /\ UNCHANGED <<rcv, chain, work, dest, store, frames, link, toSender, toReceiver>>
  BY DEF StartOffer, receiver, network, wires
<1>2. snd \in Sender
  BY CalmFacts DEF Calmly
<1>3. /\ toReceiver = <<>> /\ toSender = <<>> /\ Bytes = <<>> /\ NoLoops
      /\ rcv.record = "none" /\ rcv.ends = <<>>
  BY <1>1 DEF Calmly, OrderInv, Unstarted
<1>4. /\ snd'.loops = snd.loops /\ snd'.offers = 1 /\ snd'.have = snd.have
      /\ snd'.known = snd.known /\ snd'.state = "READY"
  BY <1>1, <1>2 DEF Sender
<1>5. ~ LoopAt({"drain"}) /\ ~ AtBlock
  BY <1>3 DEF LoopAt, NoLoops, AtBlock
<1>6. InOneHand'
  <2>1. ~ Requested' /\ ~ Replied'
    BY <1>1, <1>3, NothingSent DEF Requested, Replied
  <2>2. ~ AtStore' /\ ~ AtBlock'
    BY <1>1, <1>3, <1>4, <1>5 DEF AtStore, Undecided, AtBlock, LoopAt, Bytes
  <2> QED
    BY <2>1, <2>2 DEF InOneHand
<1>7. AcceptedInv'
  BY <1>1 DEF Calmly, OrderInv, AcceptedInv
<1>8. /\ HasOne(toReceiver', Requests) /\ HasOne(toSender', Replies)
      /\ Repeats(toReceiver', toReceiver) /\ Repeats(toSender', toSender)
  BY <1>1, RepeatsFacts DEF Calmly, OrderInv, Single
<1>9. snd'.known \cup snd'.have \subseteq store.blocks
  BY <1>4 DEF Calmly, DataInv, RecordInv
<1> QED
  BY <1>1, <1>3, <1>4, <1>5, <1>6, <1>7, <1>8, <1>9, NoFrames, SenderOpens

\* HAVE starts the only loop.
LEMMA HaveStep ==
    ASSUME Calmly, SenderHave
    PROVE  OrderInv' /\ DataInv'
<1> DEFINE s == [snd EXCEPT !.have = @ \cup Head(toSender).blocks]
           i == CHOOSE i \in LoopId : s.loops[i].pc = "none"
           loop == [NoLoop EXCEPT !.pc = "check"]
<1>1. SenderTakes("have") /\ UNCHANGED <<rcv, chain, work, dest, store, frames, link, toReceiver>>
  BY DEF SenderHave, receiver, network
<1>2. /\ ~ Requested /\ ~ AtSource /\ ~ AtStore /\ ~ AtBlock /\ ~ Replied'
      /\ Rest(toSender, toSender') /\ link = "up" /\ snd.state # "IDLE"
      /\ Head(toSender).type = "have" /\ FreshReply(Head(toSender))
  BY <1>1, SenderTook DEF Replies
<1>3. /\ snd \in Sender /\ snd.have \in SUBSET Blocks /\ rcv.committed \in SUBSET Blocks
      /\ toReceiver \in Seq(Control) /\ toSender \in Seq(Control)
  BY CalmFacts, ReceiverFields DEF Calmly
<1>4. Head(toSender).blocks = rcv.committed /\ rcv.committed = store.blocks
  BY <1>2, NoFrames DEF FreshReply
<1>5. Has(toSender, {"accept", "have"})
  BY <1>2 DEF Rest
<1>6. NoLoops /\ snd.offers = 0
  BY <1>2, <1>5 DEF Calmly, OrderInv, LoopsInv, Opening, AtSource
<1>7. /\ s \in Sender /\ s.loops = snd.loops /\ s.offers = 0 /\ s.known = snd.known
      /\ s.have = snd.have \cup rcv.committed /\ s.state = snd.state
  BY <1>3, <1>4, <1>6 DEF Sender
<1>8. s.known \cup s.have \subseteq store.blocks
  BY <1>4, <1>7 DEF Calmly, DataInv, RecordInv
<1>9. \/ snd' = s
      \/ /\ \E k \in LoopId : s.loops[k].pc = "none"
         /\ snd' = [s EXCEPT !.sending = TRUE, !.loops[i] = loop]
  BY DEF SenderHave
<1>10. /\ ~ Requested' /\ ~ AtStore' /\ Bytes' = <<>> /\ work'.step # "save"
       /\ ~ Has(toReceiver', {"offer", "manifest"}) /\ ~ Has(toSender', {"accept", "have"})
       /\ HasOne(toReceiver', Requests) /\ HasOne(toSender', Replies)
  <2>1. ~ Requested' /\ ~ AtStore'
    BY <1>1, <1>2 DEF Requested, AtStore, Undecided
  <2>2. Bytes' = <<>> /\ work'.step # "save"
    BY <1>1, <1>2, NoFrames DEF Bytes
  <2>3. ~ Has(toReceiver', {"offer", "manifest"}) /\ ~ Has(toSender', {"accept", "have"})
    BY <1>2, <2>1 DEF Requested, Replied, Requests, Replies, Has
  <2>4. HasOne(toReceiver', Requests) /\ HasOne(toSender', Replies)
    BY <1>1, <1>2 DEF Calmly, OrderInv, Single, Rest
  <2> QED
    BY <2>1, <2>2, <2>3, <2>4
<1>11. /\ \A n \in DOMAIN toReceiver' : FreshRequest(toReceiver[n])'
       /\ \A n \in DOMAIN toSender' : FreshReply(toSender[n])'
  BY <1>1, <1>2, RepeatsFacts, RequestsStay, RepliesStay
<1>12. AcceptedInv'
  <2>1. ~ Has(toReceiver', {"manifest"}) /\ ~ Has(toSender', {"accept"})
    BY <1>10 DEF Has
  <2> QED
    BY <1>1, <2>1 DEF AcceptedInv, Calmly, OrderInv
\* What holds whether a loop is started or not.
<1>13. ASSUME snd'.offers = 0, snd'.have = snd.have \cup rcv.committed, snd'.known = snd.known,
              snd'.state = snd.state,
              \A j, k \in LoopId : snd'.loops[j].pc # "none" /\ snd'.loops[k].pc # "none" => j = k,
              \A j \in LoopId : snd'.loops[j].pc \in {"none", "check"},
              \A j \in LoopId : /\ ~ snd'.loops[j].stale /\ ~ snd'.loops[j].old
                                /\ snd'.loops[j].outcome = "none"
       PROVE  OrderInv' /\ DataInv'
  <2>1. snd'.known \cup snd'.have \subseteq store.blocks
    BY <1>7, <1>8, <1>13
  <2>2. RecordInv' /\ ContentInv'
    BY <1>1, <2>1, ReceiverStays
  <2>3. ~ AtBlock'
    BY <1>10, <1>13 DEF AtBlock, LoopAt
  <2>4. InOneHand'
    BY <1>2, <1>10, <2>3 DEF InOneHand
  <2>5. Single'
    BY <1>1, <1>10, <1>13 DEF Single, Calmly, OrderInv
  <2>6. LoopsInv'
    BY <1>10, <1>13 DEF LoopsInv, Opening
  <2>7. Down' /\ Unstarted'
    BY <1>1, <1>2, <1>13 DEF Down, Unstarted
  <2>8. BytesInv'
    BY <1>10, StillNoFrames
  <2>9. FreshInv'
    <3>1. \A j \in LoopId : FreshLoop(snd.loops[j])'
      BY <1>1, <1>13 DEF FreshLoop
    <3> QED
      BY <1>11, <3>1 DEF FreshInv
  <2> QED
    BY <1>12, <2>2, <2>4, <2>5, <2>6, <2>7, <2>8, <2>9 DEF OrderInv, DataInv
<1>14. \A j \in LoopId : /\ snd.loops[j].pc = "none"
                         /\ ~ snd.loops[j].stale /\ ~ snd.loops[j].old
                         /\ snd.loops[j].outcome = "none"
  BY <1>6 DEF NoLoops, Calmly, OrderInv, LoopsInv
<1>15. CASE snd' = s
  <2> HIDE DEF s
  <2> QED
    BY <1>7, <1>13, <1>14, <1>15
<1>16. ASSUME \E k \in LoopId : s.loops[k].pc = "none",
              snd' = [s EXCEPT !.sending = TRUE, !.loops[i] = loop]
       PROVE  OrderInv' /\ DataInv'
  <2>1. i \in LoopId
    BY <1>16
  <2>2. loop.pc = "check" /\ ~ loop.stale /\ ~ loop.old /\ loop.outcome = "none"
    BY DEF NoLoop
  <2> HIDE DEF s, i, loop
  <2> DEFINE loops == [s.loops EXCEPT ![i] = loop]
  <2>3. \A j \in LoopId : loops[j] = IF j = i THEN loop ELSE snd.loops[j]
    BY <1>7, <2>1, SenderFields
  <2>4. snd' = [s EXCEPT !.sending = TRUE, !.loops = loops]
    BY <1>7, <1>16 DEF Sender
  <2> HIDE DEF loops
  <2>5. /\ snd'.loops = loops /\ snd'.offers = s.offers /\ snd'.have = s.have
        /\ snd'.known = s.known /\ snd'.state = s.state
    BY <1>7, <2>4 DEF Sender
  <2> QED
    BY <1>7, <1>13, <1>14, <2>2, <2>3, <2>5
<1> QED
  BY <1>9, <1>15, <1>16

-----------------------------------------------------------------------------
(* The receiver's messages and its recovery store.                           *)

LEMMA ReceiverTook ==
    ASSUME Calmly, NEW type, ReceiverTakes(type)
    PROVE  /\ Head(toReceiver) \in Control /\ Head(toReceiver).type = type
           /\ Rest(toReceiver, toReceiver') /\ Lesser(toReceiver', toReceiver)
           /\ link = "up" /\ snd.state # "IDLE" /\ FreshRequest(Head(toReceiver))
           /\ type \in Requests => /\ ~ Replied /\ ~ AtSource /\ ~ AtStore /\ ~ AtBlock
                                   /\ ~ Requested'
<1>1. toReceiver # <<>> /\ Head(toReceiver).type = type /\ toReceiver' = Tail(toReceiver)
  BY DEF ReceiverTakes
<1>2. toReceiver \in Seq(Control)
  BY CalmFacts DEF Calmly
<1>3. Rest(toReceiver, toReceiver') /\ Lesser(toReceiver', toReceiver)
  BY <1>1, <1>2, OneTaken, LesserFacts
<1>4. link = "up" /\ snd.state # "IDLE"
  BY <1>1, Busy
<1>5. FreshRequest(Head(toReceiver))
  BY <1>3 DEF Calmly, DataInv, FreshInv, Rest
<1>6. ASSUME type \in Requests
      PROVE  ~ Replied /\ ~ AtSource /\ ~ AtStore /\ ~ AtBlock /\ ~ Requested'
  <2>1. Requested
    BY <1>1, <1>3, <1>6 DEF Requested, Rest
  <2>2. ~ Requested'
    BY <1>1, <1>3, <1>6 DEF Requested, Rest, Calmly, OrderInv, Single
  <2> QED
    BY <2>1, <2>2 DEF Calmly, OrderInv, InOneHand
<1> QED
  BY <1>1, <1>3, <1>4, <1>5, <1>6 DEF Rest

\* A step of the receiver that does not answer.
LEMMA ReceiverRests ==
    ASSUME Calmly, UNCHANGED <<snd, chain, frames, dest, link>>, snd.state # "IDLE",
           store'.blocks = store.blocks, rcv'.committed = rcv.committed,
           rcv'.block = rcv.block \/ rcv'.block = NoBlock,
           work' = work,
           AtStore' => AtStore, \A m, n \in DOMAIN rcv'.ends : m = n,
           rcv.accepted => rcv'.accepted,
           (rcv'.record = "full" \/ rcv'.ends # <<>>) => rcv'.accepted,
           Lesser(toReceiver', toReceiver), Lesser(toSender', toSender),
           link # "up" => UNCHANGED <<toReceiver, toSender>>
    PROVE  OrderInv' /\ DataInv'
<1>1. LoopsStay /\ Bytes' = Bytes
  BY DEF LoopsStay, Bytes
<1>2. Unstarted'
  BY DEF Unstarted
<1>3. Down'
  <2>1. link # "up" => toReceiver = <<>> /\ toSender = <<>> /\ frames = <<>>
    BY DEF Calmly, OrderInv, Down
  <2> QED
    BY <1>1, <2>1, DownStays
<1>4. OrderInv'
  BY <1>1, <1>2, <1>3, OrderStays
<1>5. RecordInv'
  <2>1. snd'.known \cup snd'.have \subseteq store.blocks
    BY DEF Calmly, DataInv, RecordInv
  <2> QED
    BY <2>1, RecordStays
<1>6. FreshInv'
  BY <1>1, FreshStays, RepeatsFacts
<1>7. BytesInv'
  <2>1. Ascending(Bytes')
    BY <1>1 DEF Calmly, DataInv, BytesInv
  <2> QED
    BY <1>1, <2>1, BytesStay
<1>8. ContentInv'
  BY ContentStays
<1> QED
  BY <1>4, <1>5, <1>6, <1>7, <1>8 DEF DataInv

LEMMA FailedStays ==
    ASSUME NEW r \in Receiver, ReceiverFails(r), toSender \in Seq(Control)
    PROVE  /\ rcv'.record = r.record /\ rcv'.accepted = r.accepted /\ rcv'.ends = r.ends
           /\ rcv'.committed = r.committed /\ rcv'.block = r.block
           /\ rcv'.closing = r.closing
           /\ Lesser(toSender', toSender)
           /\ link # "up" => UNCHANGED toSender
<1>1. rcv' = Failed(r) /\ ToSender(Failure(r))
  BY DEF ReceiverFails
<1>2. Failed(r).accepted = r.accepted
  BY DEF Failed, Receiver
<1>3. Failure(r) = <<>> \/ Failure(r) = <<Of("fail")>>
  BY FailureIs DEF Of
<1>4. toSender' \in {toSender \o <<Of("fail")>>, toSender \o <<>>, toSender}
  BY <1>1, <1>3 DEF ToSender
<1>5. Lesser(toSender', toSender)
  BY <1>4, LessSent, LesserFacts
<1> QED
  BY <1>1, <1>2, <1>5, FailedReceiver DEF ToSender

LEMMA SameStore ==
    ASSUME Calmly, rcv'.record = rcv.record, rcv'.accepted = rcv.accepted,
           rcv'.ends = rcv.ends
    PROVE  /\ AtStore' => AtStore
           /\ \A m, n \in DOMAIN rcv'.ends : m = n
           /\ (rcv'.record = "full" \/ rcv'.ends # <<>>) => rcv'.accepted
  BY DEF AtStore, Undecided, Calmly, OrderInv, Single, AcceptedInv

LEMMA RootStep ==
    ASSUME Calmly, ReceiverRoot \/ ReceiverToldFailed
    PROVE  OrderInv' /\ DataInv'
<1>1. /\ ReceiverTakes("root") \/ ReceiverTakes("fail")
      /\ UNCHANGED <<snd, chain, work, dest, store, frames, link>>
  BY DEF ReceiverRoot, ReceiverToldFailed, network
<1>2. link = "up" /\ snd.state # "IDLE" /\ Lesser(toReceiver', toReceiver)
  BY <1>1, ReceiverTook
<1>3. rcv \in Receiver /\ toSender \in Seq(Control)
  BY CalmFacts DEF Calmly
<1>4. /\ rcv'.record = rcv.record /\ rcv'.accepted = rcv.accepted /\ rcv'.ends = rcv.ends
      /\ rcv'.committed = rcv.committed /\ rcv'.block = rcv.block
      /\ Lesser(toSender', toSender)
  <2>1. CASE ReceiverFails(rcv)
    BY <1>3, <2>1, FailedStays
  <2>2. CASE rcv' = [rcv EXCEPT !.closing = @ + 1] /\ UNCHANGED toSender
    BY <1>3, <2>2, LesserFacts DEF Receiver
  <2> QED
    BY <2>1, <2>2 DEF ReceiverRoot, ReceiverToldFailed
<1> QED
  BY <1>1, <1>2, <1>4, SameStore, ReceiverRests

LEMMA CloseStep ==
    ASSUME Calmly, CloseEnds
    PROVE  OrderInv' /\ DataInv'
<1>1. /\ rcv.closing > 0 /\ ToSender(<<Of("delivered")>>)
      /\ rcv' = [rcv EXCEPT !.closing = @ - 1, !.state = "DELIVERED"]
      /\ UNCHANGED <<snd, chain, work, dest, store, frames, link, toReceiver>>
  BY DEF CloseEnds, network
<1>2. rcv \in Receiver /\ toSender \in Seq(Control) /\ toReceiver \in Seq(Control)
  BY CalmFacts DEF Calmly
<1>3. rcv.closing # 0 /\ snd.state # "IDLE"
  <2>1. rcv.closing # 0
    BY <1>1, <1>2, ReceiverFields
  <2> QED
    BY <2>1, Busy
<1>4. toSender' \in {toSender \o <<Of("delivered")>>, toSender}
      /\ (link # "up" => UNCHANGED toSender)
  BY <1>1 DEF ToSender
<1>5. Lesser(toSender', toSender) /\ Lesser(toReceiver', toReceiver)
  BY <1>1, <1>2, <1>4, LessSent, LesserFacts
<1>6. /\ rcv'.record = rcv.record /\ rcv'.accepted = rcv.accepted /\ rcv'.ends = rcv.ends
      /\ rcv'.committed = rcv.committed /\ rcv'.block = rcv.block
  BY <1>1, <1>2 DEF Receiver
<1> QED
  BY <1>1, <1>3, <1>4, <1>5, <1>6, SameStore, ReceiverRests

\* A step of the receiver in which the sender's record and the connection
\* stay as they are.
LEMMA ReceiverOrder ==
    ASSUME Calmly, UNCHANGED <<snd, link>>, link = "up", snd.state # "IDLE",
           InOneHand', AcceptedInv', Opening' => NoLoops,
           HasOne(toReceiver', Requests), HasOne(toSender', Replies),
           \A m, n \in DOMAIN rcv'.ends : m = n
    PROVE  OrderInv'
<1>1. Single'
  BY DEF Single, Calmly, OrderInv
<1>2. LoopsInv'
  BY DEF LoopsInv, NoLoops, Calmly, OrderInv
<1>3. Down' /\ Unstarted'
  BY DEF Down, Unstarted
<1> QED
  BY <1>1, <1>2, <1>3 DEF OrderInv

\* The rest of the invariant when no frame is on its way.
LEMMA ReceiverData ==
    ASSUME Calmly, UNCHANGED <<snd, chain, frames, dest>>, ~ AtBlock,
           store'.blocks = store.blocks, rcv'.committed = rcv.committed,
           work'.step = "none",
           rcv'.block = rcv.block \/ rcv'.block = NoBlock \/ rcv'.block.next = 0,
           Repeats(toReceiver', toReceiver),
           \A n \in DOMAIN toSender' : FreshReply(toSender[n])'
    PROVE  DataInv'
<1>1. LoopsStay
  BY DEF LoopsStay
<1>2. work.step = "none" /\ Bytes' = <<>>
  BY NoFrames DEF Bytes
<1>3. RecordInv'
  <2>1. snd'.known \cup snd'.have \subseteq store.blocks
    BY DEF Calmly, DataInv, RecordInv
  <2> QED
    BY <1>2, <2>1, RecordStays
<1>4. FreshInv'
  BY <1>1, FreshLoopsStay, RequestsStay DEF FreshInv
<1>5. BytesInv'
  BY <1>2, StillNoFrames
<1>6. ContentInv'
  <2>1. CASE rcv'.block = rcv.block \/ rcv'.block = NoBlock
    BY <1>2, <2>1, ContentStays
  <2>2. CASE rcv'.block.next = 0
    <3>1. \A k \in 0 .. FrameCount - 1 : ~ (k < 0)
      BY ConstantFacts
    <3> QED
      BY <2>2, <3>1 DEF ContentInv
  <2> QED
    BY <2>1, <2>2
<1> QED
  BY <1>3, <1>4, <1>5, <1>6 DEF DataInv

\* What is known while the receiver waits for the user or for its store.
LEMMA StoreWaits ==
    ASSUME Calmly, AtStore
    PROVE  /\ ~ Requested /\ ~ AtSource /\ ~ Replied /\ ~ AtBlock /\ NoLoops
           /\ link = "up" /\ snd.state # "IDLE"
<1>1. ~ Requested /\ ~ AtSource /\ ~ Replied /\ ~ AtBlock
  BY DEF Calmly, OrderInv, InOneHand
<1>2. NoLoops
  BY DEF Calmly, OrderInv, LoopsInv, Opening
<1>3. rcv.record # "none" \/ rcv.ends # <<>>
  BY DEF AtStore, Undecided
<1> QED
  BY <1>1, <1>2, <1>3, Busy

\* The only reply there is after an answer.
LEMMA Answered ==
    ASSUME Calmly, ~ Replied, link = "up",
           NEW m \in Control, m.type \in Replies, ToSender(<<m>>), FreshReply(m)'
    PROVE  /\ HasOne(toSender', Replies)
           /\ \A n \in DOMAIN toSender' : FreshReply(toSender[n])'
           /\ Has(toSender', {"accept"}) => m.type = "accept"
           /\ Has(toSender', {"accept", "have"}) => m.type \in {"accept", "have"}
<1>1. toSender \in Seq(Control) /\ toSender' = toSender \o <<m>>
  BY CalmFacts DEF Calmly, ToSender
<1>2. More(toSender, m, toSender')
  BY <1>1, OneSent
<1>3. HasOne(toSender', Replies)
  BY <1>2 DEF More, Replied, Calmly, OrderInv, Single
<1>4. \A k \in DOMAIN toSender : toSender[k].type \notin Replies
  BY DEF Replied, Has
<1>5. \A n \in DOMAIN toSender' : FreshReply(toSender[n])'
  <2>1. SUFFICES ASSUME NEW n \in DOMAIN toSender'
                 PROVE  FreshReply(toSender[n])'
    OBVIOUS
  <2>2. CASE toSender'[n] = m
    BY <2>2 DEF FreshReply
  <2>3. ASSUME NEW k \in DOMAIN toSender, toSender'[n] = toSender[k]
        PROVE  FreshReply(toSender[n])'
    BY <1>4, <2>3 DEF FreshReply, Replies
  <2> QED
    BY <1>2, <2>1, <2>2, <2>3 DEF More
<1>6. ~ Has(toSender, {"accept"}) /\ ~ Has(toSender, {"accept", "have"})
  BY <1>4 DEF Has, Replies
<1> QED
  BY <1>2, <1>3, <1>5, <1>6 DEF More

LEMMA NotAnswered ==
    ASSUME Calmly, ~ Replied, toSender' \in {toSender, toSender \o <<>>}
    PROVE  /\ ~ Replied' /\ HasOne(toSender', Replies)
           /\ \A n \in DOMAIN toSender' : FreshReply(toSender[n])'
           /\ ~ Has(toSender', {"accept"})
<1>1. toSender' = toSender
  BY CalmFacts DEF Calmly
<1>2. \A k \in DOMAIN toSender : toSender[k].type \notin Replies
  BY DEF Replied, Has
<1>3. \A n \in DOMAIN toSender' : FreshReply(toSender[n])'
  BY <1>1, <1>2 DEF FreshReply, Replies
<1> QED
  BY <1>1, <1>2, <1>3 DEF Calmly, OrderInv, Single, Replied, Has, Replies

LEMMA ReferredStays ==
    ASSUME NEW r \in Receiver
    PROVE  /\ DOMAIN Referred(r) = DOMAIN r
           /\ Referred(r).accepted = r.accepted /\ Referred(r).record = r.record
           /\ Referred(r).committed = r.committed /\ Referred(r).block = r.block
           /\ Referred(r).ends = r.ends
           /\ DOMAIN r = {"state", "cancelled", "accepted", "record", "committed",
                          "reference", "old", "block", "ends", "closing"}
  BY DEF Referred, Receiver

\* An offer: the user is asked, or has accepted before.
LEMMA OfferHeard ==
    ASSUME Calmly, FirstOffer \/ Reoffer
    PROVE  OrderInv' /\ DataInv'
<1>1. /\ ReceiverTakes("offer") /\ Accepts(rcv)
      /\ UNCHANGED <<snd, chain, dest, store, frames, link>>
  BY DEF FirstOffer, Reoffer, network
<1>2. /\ ~ Replied /\ ~ AtSource /\ ~ AtStore /\ ~ AtBlock /\ ~ Requested'
      /\ Rest(toReceiver, toReceiver') /\ link = "up" /\ snd.state # "IDLE"
      /\ Head(toReceiver).type = "offer"
  BY <1>1, ReceiverTook DEF Requests
<1>3. rcv \in Receiver
  BY CalmFacts DEF Calmly
<1>4. NoLoops
  <2>1. Has(toReceiver, {"offer", "manifest"})
    BY <1>2 DEF Rest
  <2> QED
    BY <2>1 DEF Calmly, OrderInv, LoopsInv, Opening
<1>5. /\ rcv'.accepted = rcv.accepted /\ rcv'.committed = rcv.committed
      /\ rcv'.ends = rcv.ends
      /\ rcv'.block = rcv.block \/ rcv'.block = NoBlock
      /\ rcv'.record = "full" => rcv.record = "full"
  <2> DEFINE r == Referred(rcv)
  <2>1. /\ DOMAIN r = {"state", "cancelled", "accepted", "record", "committed",
                       "reference", "old", "block", "ends", "closing"}
        /\ r.accepted = rcv.accepted /\ r.record = rcv.record
        /\ r.committed = rcv.committed /\ r.block = rcv.block /\ r.ends = rcv.ends
    BY <1>3, ReferredStays
  <2>2. \/ rcv' = [r EXCEPT !.record = "bare", !.state = "READY"]
        \/ rcv' = [r EXCEPT !.block = NoBlock, !.state = "RECONNECTING"]
    BY DEF FirstOffer, Reoffer
  <2> HIDE DEF r
  <2> QED
    BY <2>1, <2>2
<1>6. work'.step = "none"
  <2>1. work \in Work /\ work.step = "none"
    BY <1>2, NoFrames, CalmFacts DEF Calmly
  <2> QED
    BY <2>1 DEF FirstOffer, Reoffer, Unless, Work
<1>7. rcv.ends = <<>> /\ \A m, n \in DOMAIN rcv'.ends : m = n
  BY <1>2, <1>5 DEF AtStore, Calmly, OrderInv, Single
<1>8. /\ ~ AtSource' /\ ~ AtBlock'
  BY <1>1, <1>2 DEF AtSource, LoopAt, AtBlock, Bytes
<1>9. /\ ~ Has(toReceiver', {"manifest"}) /\ HasOne(toReceiver', Requests)
      /\ Repeats(toReceiver', toReceiver)
  <2>1. ~ Has(toReceiver', {"manifest"})
    BY <1>2 DEF Requested, Requests, Has
  <2> QED
    BY <1>2, <2>1, RepeatsFacts DEF Rest, Calmly, OrderInv, Single
<1>10. rcv.record = "full" => rcv.accepted
  BY DEF Calmly, OrderInv, AcceptedInv
<1>11. CASE rcv.accepted
  <2> DEFINE m == Of("accept")
  <2>1. m \in Control /\ m.type = "accept"
    BY Sendable
  <2>2. ToSender(<<m>>)
    BY <1>1, <1>11 DEF Accepts
  <2> HIDE DEF m
  <2>3. /\ HasOne(toSender', Replies)
        /\ \A n \in DOMAIN toSender' : FreshReply(toSender[n])'
    <3>1. m.type \in Replies /\ FreshReply(m)'
      BY <2>1 DEF Replies, FreshReply
    <3> QED
      BY <1>2, <2>1, <2>2, <3>1, Answered
  <2>4. InOneHand'
    BY <1>2, <1>5, <1>7, <1>8, <1>11 DEF InOneHand, AtStore, Undecided
  <2>5. AcceptedInv'
    BY <1>5, <1>11 DEF AcceptedInv
  <2>6. OrderInv'
    BY <1>1, <1>2, <1>4, <1>7, <1>9, <2>3, <2>4, <2>5, ReceiverOrder
  <2>7. DataInv'
    BY <1>1, <1>2, <1>5, <1>6, <1>9, <2>3, ReceiverData
  <2> QED
    BY <2>6, <2>7
<1>12. CASE ~ rcv.accepted
  <2>1. toSender' \in {toSender, toSender \o <<>>}
    BY <1>1, <1>12 DEF Accepts, ToSender
  <2>2. /\ ~ Replied' /\ HasOne(toSender', Replies) /\ ~ Has(toSender', {"accept"})
        /\ \A n \in DOMAIN toSender' : FreshReply(toSender[n])'
    BY <1>2, <2>1, NotAnswered
  <2>3. InOneHand'
    BY <1>2, <1>8, <2>2 DEF InOneHand
  <2>4. AcceptedInv'
    BY <1>5, <1>7, <1>9, <1>10, <1>12, <2>2 DEF AcceptedInv
  <2>5. OrderInv'
    BY <1>1, <1>2, <1>4, <1>7, <1>9, <2>2, <2>3, <2>4, ReceiverOrder
  <2>6. DataInv'
    BY <1>1, <1>2, <1>5, <1>6, <1>9, <2>2, ReceiverData
  <2> QED
    BY <2>5, <2>6
<1> QED
  BY <1>11, <1>12

LEMMA ReofferLost ==
    ASSUME Calmly, ReofferThrows
    PROVE  OrderInv' /\ DataInv'
<1>1. /\ ReceiverTakes("offer") /\ rcv' = [Referred(rcv) EXCEPT !.block = NoBlock]
      /\ UNCHANGED <<snd, chain, work, dest, store, frames, link, toSender>>
  BY DEF ReofferThrows, network
<1>2. /\ link = "up" /\ snd.state # "IDLE" /\ Lesser(toReceiver', toReceiver)
  BY <1>1, ReceiverTook
<1>3. rcv \in Receiver /\ toSender \in Seq(Control)
  BY CalmFacts DEF Calmly
<1>4. /\ rcv'.record = rcv.record /\ rcv'.accepted = rcv.accepted /\ rcv'.ends = rcv.ends
      /\ rcv'.committed = rcv.committed /\ rcv'.block = NoBlock
  <2> DEFINE r == Referred(rcv)
  <2>1. /\ DOMAIN r = {"state", "cancelled", "accepted", "record", "committed",
                       "reference", "old", "block", "ends", "closing"}
        /\ r.accepted = rcv.accepted /\ r.record = rcv.record
        /\ r.committed = rcv.committed /\ r.block = rcv.block /\ r.ends = rcv.ends
    BY <1>3, ReferredStays
  <2>2. rcv' = [r EXCEPT !.block = NoBlock]
    BY <1>1
  <2> HIDE DEF r
  <2> QED
    BY <2>1, <2>2
<1>5. Lesser(toSender', toSender)
  BY <1>1, <1>3, LesserFacts
<1> QED
  BY <1>1, <1>2, <1>4, <1>5, SameStore, ReceiverRests

LEMMA AcceptStep ==
    ASSUME Calmly, Accept
    PROVE  OrderInv' /\ DataInv'
<1>1. /\ rcv.record # "none" /\ ~ rcv.accepted
      /\ rcv' = [rcv EXCEPT !.accepted = TRUE] /\ Accepts(rcv')
      /\ UNCHANGED <<snd, chain, work, dest, store, frames, link, toReceiver>>
  BY DEF Accept, network
<1>2. rcv \in Receiver /\ rcv.record \in {"none", "bare", "full"} /\ toReceiver \in Seq(Control)
  BY CalmFacts, ReceiverFields DEF Calmly
<1>3. /\ rcv'.accepted /\ rcv'.committed = rcv.committed /\ rcv'.ends = rcv.ends
      /\ rcv'.block = rcv.block
  BY <1>1, <1>2 DEF Receiver
<1>4. rcv.record = "bare" /\ rcv.ends = <<>>
  BY <1>1, <1>2 DEF Calmly, OrderInv, AcceptedInv
<1>5. /\ ~ Requested /\ ~ AtSource /\ ~ Replied /\ ~ AtBlock /\ NoLoops
      /\ link = "up" /\ snd.state # "IDLE"
  BY <1>1, <1>4, StoreWaits DEF AtStore, Undecided
<1> DEFINE m == Of("accept")
<1>6. m \in Control /\ m.type = "accept"
  BY Sendable
<1>7. ToSender(<<m>>)
  BY <1>1, <1>3 DEF Accepts
<1> HIDE DEF m
<1>8. /\ HasOne(toSender', Replies)
      /\ \A n \in DOMAIN toSender' : FreshReply(toSender[n])'
  <2>1. m.type \in Replies /\ FreshReply(m)'
    BY <1>6 DEF Replies, FreshReply
  <2> QED
    BY <1>5, <1>6, <1>7, <2>1, Answered
<1>9. InOneHand'
  <2>1. ~ AtSource' /\ ~ AtBlock' /\ ~ Requested'
    BY <1>1, <1>5 DEF AtSource, LoopAt, AtBlock, Bytes, Requested
  <2>2. ~ AtStore'
    BY <1>3, <1>4 DEF AtStore, Undecided
  <2> QED
    BY <2>1, <2>2 DEF InOneHand
<1>10. AcceptedInv'
  BY <1>3 DEF AcceptedInv
<1>11. /\ HasOne(toReceiver', Requests) /\ Repeats(toReceiver', toReceiver)
       /\ \A i, j \in DOMAIN rcv'.ends : i = j
  BY <1>1, <1>3, RepeatsFacts DEF Calmly, OrderInv, Single
<1>12. work'.step = "none"
  BY <1>1, <1>5, NoFrames
<1>13. OrderInv'
  BY <1>1, <1>5, <1>8, <1>9, <1>10, <1>11, ReceiverOrder
<1>14. DataInv'
  BY <1>1, <1>3, <1>5, <1>8, <1>11, <1>12, ReceiverData
<1> QED
  BY <1>13, <1>14

LEMMA ManifestHeard ==
    ASSUME Calmly, ReceiverManifest
    PROVE  OrderInv' /\ DataInv'
<1> DEFINE e == [at |-> "load", existing |-> FALSE]
<1>1. /\ ReceiverTakes("manifest")
      /\ rcv' = [rcv EXCEPT !.ends = Append(@, e)]
      /\ UNCHANGED <<snd, chain, work, dest, store, frames, link, toSender>>
  BY DEF ReceiverManifest, network
<1>2. /\ ~ Replied /\ ~ AtSource /\ ~ AtStore /\ ~ AtBlock /\ ~ Requested'
      /\ Rest(toReceiver, toReceiver') /\ link = "up" /\ snd.state # "IDLE"
      /\ Head(toReceiver).type = "manifest"
  BY <1>1, ReceiverTook DEF Requests
<1>3. rcv \in Receiver
  BY CalmFacts DEF Calmly
<1>4. NoLoops /\ rcv.accepted
  <2>1. Has(toReceiver, {"offer", "manifest"}) /\ Has(toReceiver, {"manifest"})
    BY <1>2 DEF Rest
  <2> QED
    BY <2>1 DEF Calmly, OrderInv, LoopsInv, Opening, AcceptedInv
<1>5. rcv.ends = <<>>
  BY <1>2 DEF AtStore
<1>6. /\ rcv'.accepted /\ rcv'.committed = rcv.committed /\ rcv'.block = rcv.block
      /\ rcv'.ends = <<e>>
  <2> HIDE DEF e
  <2> QED
    BY <1>1, <1>3, <1>4, <1>5 DEF Receiver
<1>7. \A m, n \in DOMAIN rcv'.ends : m = n
  <2> HIDE DEF e
  <2> QED
    BY <1>6
<1>8. /\ ~ Replied' /\ HasOne(toSender', Replies)
      /\ \A n \in DOMAIN toSender' : FreshReply(toSender[n])'
  BY <1>1, <1>2, NotAnswered
<1>9. InOneHand'
  <2>1. ~ AtSource' /\ ~ AtBlock'
    BY <1>1, <1>2 DEF AtSource, LoopAt, AtBlock, Bytes
  <2> QED
    BY <1>2, <1>8, <2>1 DEF InOneHand
<1>10. AcceptedInv'
  BY <1>6 DEF AcceptedInv
<1>11. HasOne(toReceiver', Requests) /\ Repeats(toReceiver', toReceiver)
  BY <1>2, RepeatsFacts DEF Rest, Calmly, OrderInv, Single
<1>12. work'.step = "none"
  BY <1>1, <1>2, NoFrames
<1>13. OrderInv'
  BY <1>1, <1>2, <1>4, <1>7, <1>8, <1>9, <1>10, <1>11, ReceiverOrder
<1>14. DataInv'
  BY <1>1, <1>2, <1>6, <1>8, <1>11, <1>12, ReceiverData
<1> QED
  BY <1>13, <1>14

\* There is one call of manifestEnd at a time.
LEMMA OnlyEnd ==
    ASSUME Calmly, NEW n \in 1 .. Len(rcv.ends)
    PROVE  /\ AtStore /\ rcv.accepted /\ rcv.ends \in Seq(Ending)
           /\ Len(rcv.ends) = 1 /\ n = 1
           /\ RemoveAt(rcv.ends, n) = <<>>
           /\ \A e \in Ending : /\ [rcv.ends EXCEPT ![n] = e] # <<>>
                                /\ \A j, k \in DOMAIN [rcv.ends EXCEPT ![n] = e] : j = k
<1>1. rcv.ends \in Seq(Ending)
  BY CalmFacts, ReceiverFields DEF Calmly
<1>2. Len(rcv.ends) \in Nat /\ DOMAIN rcv.ends = 1 .. Len(rcv.ends)
  BY <1>1
<1>3. 1 \in DOMAIN rcv.ends /\ rcv.ends # <<>>
  BY <1>1, <1>2
<1>4. \A j, k \in DOMAIN rcv.ends : j = k
  BY DEF Calmly, OrderInv, Single
<1>5. Len(rcv.ends) = 1 /\ n = 1
  <2>1. n \in DOMAIN rcv.ends /\ Len(rcv.ends) \in DOMAIN rcv.ends
    BY <1>2
  <2>2. n = 1 /\ Len(rcv.ends) = 1
    BY <1>3, <1>4, <2>1
  <2> QED
    BY <2>2
<1>6. RemoveAt(rcv.ends, n) = <<>>
  <2>1. RemoveAt(rcv.ends, n) = SubSeq(rcv.ends, 1, 0) \o SubSeq(rcv.ends, 2, 1)
    BY <1>5 DEF RemoveAt
  <2>2. SubSeq(rcv.ends, 1, 0) = <<>> /\ SubSeq(rcv.ends, 2, 1) = <<>>
    BY <1>1
  <2> QED
    BY <2>1, <2>2
<1>7. ASSUME NEW e \in Ending
      PROVE  /\ [rcv.ends EXCEPT ![n] = e] # <<>>
             /\ \A j, k \in DOMAIN [rcv.ends EXCEPT ![n] = e] : j = k
  <2>1. DOMAIN [rcv.ends EXCEPT ![n] = e] = DOMAIN rcv.ends
    BY <1>2
  <2>2. 1 \in DOMAIN [rcv.ends EXCEPT ![n] = e]
    BY <1>3, <2>1
  <2> QED
    BY <1>4, <2>1, <2>2
<1>8. AtStore /\ rcv.accepted
  BY <1>3 DEF AtStore, Calmly, OrderInv, AcceptedInv
<1> QED
  BY <1>1, <1>5, <1>6, <1>7, <1>8

\* A step of manifestEnd that does not answer.
LEMMA EndStays ==
    ASSUME Calmly, NEW n \in 1 .. Len(rcv.ends),
           UNCHANGED <<snd, chain, work, dest, frames, link, toReceiver>>,
           rcv'.accepted = rcv.accepted, rcv'.committed = rcv.committed,
           rcv'.block = rcv.block, store'.blocks = store.blocks,
           \A j, k \in DOMAIN rcv'.ends : j = k,
           rcv'.ends # <<>> \/ rcv'.record = rcv.record,
           Lesser(toSender', toSender)
    PROVE  OrderInv' /\ DataInv'
<1>1. AtStore /\ rcv.accepted /\ link = "up" /\ snd.state # "IDLE"
  BY OnlyEnd, StoreWaits
<1>2. Lesser(toReceiver', toReceiver)
  BY CalmFacts, LesserFacts DEF Calmly
<1> QED
  BY <1>1, <1>2, ReceiverRests

LEMMA LoadStep ==
    ASSUME Calmly, NEW n \in 1 .. Len(rcv.ends), LoadEnds(n) \/ FirstSaveEnds(n)
    PROVE  OrderInv' /\ DataInv'
<1>1. UNCHANGED <<snd, chain, work, dest, frames, link, toReceiver>>
  BY DEF LoadEnds, FirstSaveEnds, network, wires
<1>2. /\ rcv \in Receiver /\ toSender \in Seq(Control) /\ rcv.ends \in Seq(Ending)
      /\ store \in [file : {"none", "torn", "saved"}, blocks : SUBSET Blocks]
  BY CalmFacts, OnlyEnd DEF Calmly, IInv, FilesInv
<1>3. AtStore /\ rcv.committed = store.blocks
  BY OnlyEnd, StoreWaits, NoFrames
<1>4. rcv.ends[n] \in Ending
  BY <1>2
<1> DEFINE At(at) == [rcv.ends[n] EXCEPT !.at = at]
           ready == [at |-> "prepare", existing |-> TRUE]
<1>5. At("save") \in Ending /\ At("prepare") \in Ending /\ ready \in Ending
  BY <1>4 DEF Ending
<1> HIDE DEF At, ready
<1>6. ASSUME NEW e \in Ending, rcv'.ends = [rcv.ends EXCEPT ![n] = e],
             rcv'.accepted = rcv.accepted, rcv'.committed = rcv.committed,
             rcv'.block = rcv.block, store'.blocks = store.blocks, UNCHANGED toSender
      PROVE  OrderInv' /\ DataInv'
  <2>1. rcv'.ends # <<>> /\ \A j, k \in DOMAIN rcv'.ends : j = k
    BY <1>6, OnlyEnd
  <2>2. Lesser(toSender', toSender)
    BY <1>2, <1>6, LesserFacts
  <2> QED
    BY <1>1, <1>6, <2>1, <2>2, EndStays
<1>7. CASE LoadEnds(n) /\ store.file = "none"
  <2>1. /\ rcv' = [rcv EXCEPT !.record = "full", !.ends[n].at = "save"]
        /\ store' = [store EXCEPT !.file = "torn"] /\ UNCHANGED toSender
    BY <1>7 DEF LoadEnds
  <2>2. /\ rcv'.ends = [rcv.ends EXCEPT ![n] = At("save")]
        /\ rcv'.accepted = rcv.accepted /\ rcv'.committed = rcv.committed
        /\ rcv'.block = rcv.block /\ store'.blocks = store.blocks
    BY <1>2, <2>1 DEF Receiver, At
  <2> QED
    BY <1>5, <1>6, <2>1, <2>2
<1>8. CASE LoadEnds(n) /\ store.file = "saved"
  <2>1. /\ rcv' = [rcv EXCEPT !.record = "full", !.committed = store.blocks,
                              !.ends[n] = ready]
        /\ UNCHANGED <<store, toSender>>
    BY <1>8 DEF LoadEnds, ready
  <2>2. /\ rcv'.ends = [rcv.ends EXCEPT ![n] = ready]
        /\ rcv'.accepted = rcv.accepted /\ rcv'.committed = rcv.committed
        /\ rcv'.block = rcv.block
    BY <1>2, <1>3, <2>1 DEF Receiver
  <2> QED
    BY <1>5, <1>6, <2>1, <2>2
<1>9. CASE LoadEnds(n) /\ store.file = "torn"
  <2>1. ReceiverFails(WithoutEnd(n)) /\ UNCHANGED store
    BY <1>9 DEF LoadEnds
  <2>2. /\ WithoutEnd(n) \in Receiver /\ WithoutEnd(n).ends = <<>>
        /\ WithoutEnd(n).record = rcv.record /\ WithoutEnd(n).block = rcv.block
        /\ WithoutEnd(n).committed = rcv.committed
    BY <1>2, OnlyEnd, WithoutEndFields
  <2>3. WithoutEnd(n).accepted = rcv.accepted
    BY <1>2 DEF WithoutEnd, Receiver
  <2>4. /\ rcv'.record = rcv.record /\ rcv'.accepted = rcv.accepted /\ rcv'.ends = <<>>
        /\ rcv'.committed = rcv.committed /\ rcv'.block = rcv.block
        /\ Lesser(toSender', toSender)
    BY <1>2, <2>1, <2>2, <2>3, FailedStays
  <2>5. \A j, k \in DOMAIN rcv'.ends : j = k
    BY <2>4
  <2> QED
    BY <1>1, <2>1, <2>4, <2>5, EndStays
<1>10. CASE FirstSaveEnds(n)
  <2>1. /\ store' = [file |-> "saved", blocks |-> rcv.committed]
        /\ rcv' = [rcv EXCEPT !.ends[n].at = "prepare"] /\ UNCHANGED toSender
    BY <1>10 DEF FirstSaveEnds, wires
  <2>2. /\ rcv'.ends = [rcv.ends EXCEPT ![n] = At("prepare")]
        /\ rcv'.accepted = rcv.accepted /\ rcv'.committed = rcv.committed
        /\ rcv'.block = rcv.block /\ store'.blocks = store.blocks
    BY <1>2, <1>3, <2>1 DEF Receiver, At
  <2> QED
    BY <1>5, <1>6, <2>1, <2>2
<1> QED
  BY <1>2, <1>7, <1>8, <1>9, <1>10

\* HAVE: the blocks of the record that has been loaded or begun.
LEMMA PrepareStep ==
    ASSUME Calmly, NEW n \in 1 .. Len(rcv.ends), PrepareEnds(n)
    PROVE  OrderInv' /\ DataInv'
<1>1. UNCHANGED <<snd, chain, work, dest, store, frames, link, toReceiver>>
  BY DEF PrepareEnds, network
<1>2. /\ rcv \in Receiver /\ toSender \in Seq(Control) /\ rcv.committed \in SUBSET Blocks
      /\ rcv.accepted /\ toReceiver \in Seq(Control)
  BY CalmFacts, OnlyEnd, ReceiverFields DEF Calmly
<1>3. /\ ~ Requested /\ ~ AtSource /\ ~ Replied /\ ~ AtBlock /\ NoLoops
      /\ link = "up" /\ snd.state # "IDLE"
  BY OnlyEnd, StoreWaits
<1>4. /\ WithoutEnd(n) \in Receiver /\ WithoutEnd(n).ends = <<>>
      /\ WithoutEnd(n).record = rcv.record /\ WithoutEnd(n).block = rcv.block
      /\ WithoutEnd(n).committed = rcv.committed
  BY <1>2, OnlyEnd, WithoutEndFields
<1>5. WithoutEnd(n).accepted = rcv.accepted
  BY <1>2 DEF WithoutEnd, Receiver
<1>6. CASE ReceiverFails(WithoutEnd(n))
  <2>1. /\ rcv'.record = rcv.record /\ rcv'.accepted = rcv.accepted /\ rcv'.ends = <<>>
        /\ rcv'.committed = rcv.committed /\ rcv'.block = rcv.block
        /\ Lesser(toSender', toSender)
    BY <1>2, <1>4, <1>5, <1>6, FailedStays
  <2>2. \A j, k \in DOMAIN rcv'.ends : j = k
    BY <2>1
  <2> QED
    BY <1>1, <2>1, <2>2, EndStays
<1>7. CASE /\ rcv' = [WithoutEnd(n) EXCEPT !.state = "RECEIVING"]
           /\ ToSender(<<[type |-> "have", blocks |-> rcv.committed]>>)
  <2>1. /\ rcv'.accepted /\ rcv'.ends = <<>>
        /\ rcv'.committed = rcv.committed /\ rcv'.block = rcv.block
    BY <1>2, <1>4, <1>5, <1>7 DEF Receiver
  <2>2. PICK m \in Control : m = [type |-> "have", blocks |-> rcv.committed]
    <3>1. rcv.committed \in SUBSET Blocks
      BY <1>2
    <3>2. [type |-> "have", blocks |-> rcv.committed] \in Control
      BY <3>1, Sendable
    <3> QED
      BY <3>2
  <2>3. m.type = "have" /\ m.blocks = rcv.committed
    BY <2>2
  <2>4. /\ HasOne(toSender', Replies)
        /\ \A k \in DOMAIN toSender' : FreshReply(toSender[k])'
    <3>1. m.type \in Replies /\ FreshReply(m)'
      BY <2>1, <2>3 DEF Replies, FreshReply
    <3> QED
      BY <1>3, <1>7, <2>2, <3>1, Answered
  <2>5. InOneHand'
    <3>1. ~ AtSource' /\ ~ AtBlock' /\ ~ Requested'
      BY <1>1, <1>3 DEF AtSource, LoopAt, AtBlock, Bytes, Requested
    <3>2. ~ AtStore'
      BY <2>1 DEF AtStore, Undecided
    <3> QED
      BY <3>1, <3>2 DEF InOneHand
  <2>6. AcceptedInv'
    BY <2>1 DEF AcceptedInv
  <2>7. /\ HasOne(toReceiver', Requests) /\ Repeats(toReceiver', toReceiver)
        /\ \A i, j \in DOMAIN rcv'.ends : i = j
    BY <1>1, <2>1, RepeatsFacts DEF Calmly, OrderInv, Single
  <2>8. work'.step = "none"
    BY <1>1, <1>3, NoFrames
  <2>9. OrderInv'
    BY <1>1, <1>3, <2>4, <2>5, <2>6, <2>7, ReceiverOrder
  <2>10. DataInv'
    BY <1>1, <1>3, <2>1, <2>4, <2>7, <2>8, ReceiverData
  <2> QED
    BY <2>9, <2>10
<1> QED
  BY <1>6, <1>7 DEF PrepareEnds

LEMMA DigestStep ==
    ASSUME Calmly, ReceiverDigest
    PROVE  OrderInv' /\ DataInv'
<1>1. /\ ReceiverTakes("digest")
      /\ UNCHANGED <<snd, chain, work, dest, store, frames, link>>
  BY DEF ReceiverDigest, network
<1>2. /\ ~ Replied /\ ~ AtSource /\ ~ AtStore /\ ~ AtBlock /\ ~ Requested'
      /\ Rest(toReceiver, toReceiver') /\ Lesser(toReceiver', toReceiver)
      /\ link = "up" /\ snd.state # "IDLE"
      /\ Head(toReceiver).type = "digest" /\ Head(toReceiver) \in Control
  BY <1>1, ReceiverTook DEF Requests
<1>3. PICK b \in Blocks : b = Head(toReceiver).block
  BY <1>2 DEF Control
<1>4. rcv \in Receiver /\ toSender \in Seq(Control)
  BY CalmFacts DEF Calmly
<1>5. CASE ReceiverFails(rcv)
  <2>1. /\ rcv'.record = rcv.record /\ rcv'.accepted = rcv.accepted /\ rcv'.ends = rcv.ends
        /\ rcv'.committed = rcv.committed /\ rcv'.block = rcv.block
        /\ Lesser(toSender', toSender)
    BY <1>4, <1>5, FailedStays
  <2> QED
    BY <1>1, <1>2, <2>1, SameStore, ReceiverRests
<1>6. CASE /\ rcv' = [rcv EXCEPT !.block = [index |-> b, next |-> 0, good |-> TRUE]]
           /\ ToSender(<<About("ready", b)>>)
  <2>1. /\ rcv'.accepted = rcv.accepted /\ rcv'.ends = rcv.ends /\ rcv'.record = rcv.record
        /\ rcv'.committed = rcv.committed /\ rcv'.block.next = 0
    BY <1>4, <1>6 DEF Receiver
  <2>2. PICK m \in Control : m = About("ready", b) /\ m.type = "ready"
    BY Sendable
  <2>3. /\ HasOne(toSender', Replies) /\ ~ Has(toSender', {"accept"})
        /\ ~ Has(toSender', {"accept", "have"})
        /\ \A k \in DOMAIN toSender' : FreshReply(toSender[k])'
    <3>1. m.type \in Replies /\ FreshReply(m)'
      BY <2>2 DEF Replies, FreshReply
    <3> QED
      BY <1>2, <1>6, <2>2, <3>1, Answered
  <2>4. InOneHand'
    <3>1. ~ AtSource' /\ ~ AtBlock'
      BY <1>1, <1>2 DEF AtSource, LoopAt, AtBlock, Bytes
    <3>2. ~ AtStore'
      BY <1>2, <2>1 DEF AtStore, Undecided
    <3> QED
      BY <1>2, <3>1, <3>2 DEF InOneHand
  <2>5. ~ Has(toReceiver', {"manifest"}) /\ ~ Has(toReceiver', {"offer", "manifest"})
    BY <1>2 DEF Requested, Requests, Has
  <2>6. AcceptedInv'
    BY <2>1, <2>3, <2>5 DEF AcceptedInv, Calmly, OrderInv
  <2>7. ~ Opening'
    BY <1>1, <1>2, <2>1, <2>3, <2>5 DEF Opening, AtSource, AtStore, Undecided
  <2>8. /\ HasOne(toReceiver', Requests) /\ Repeats(toReceiver', toReceiver)
        /\ \A i, j \in DOMAIN rcv'.ends : i = j
    BY <1>2, <2>1, RepeatsFacts DEF Rest, Calmly, OrderInv, Single
  <2>9. work'.step = "none"
    BY <1>1, <1>2, NoFrames
  <2>10. OrderInv'
    BY <1>1, <1>2, <2>3, <2>4, <2>6, <2>7, <2>8, ReceiverOrder
  <2>11. DataInv'
    BY <1>1, <1>2, <2>1, <2>3, <2>8, <2>9, ReceiverData
  <2> QED
    BY <2>10, <2>11
<1> QED
  BY <1>3, <1>5, <1>6 DEF ReceiverDigest

-----------------------------------------------------------------------------
(* The frames of a block.                                                    *)

LEMMA Framing ==
    ASSUME Calmly, Bytes # <<>>
    PROVE  /\ AtBlock /\ ~ AtSource /\ ~ Requested /\ ~ AtStore /\ ~ Replied
           /\ snd.state # "IDLE"
<1>1. AtBlock
  BY DEF AtBlock
<1>2. ~ AtSource /\ ~ Requested /\ ~ AtStore /\ ~ Replied
  BY <1>1 DEF Calmly, OrderInv, InOneHand
<1> QED
  BY <1>1, <1>2, Busy

LEMMA FirstFrame ==
    ASSUME Calmly, chain # <<>>
    PROVE  /\ Bytes \in Seq(Frame) /\ Bytes # <<>>
           /\ 1 \in DOMAIN Bytes /\ Head(chain) = Bytes[1] /\ Head(chain) \in Frame
           /\ \A i \in LoopId : SentBy(snd.loops[i], Head(chain))
           /\ work.step # "save" => Head(chain).block \notin rcv.committed
<1>1. chain \in Seq(Frame) /\ frames \in Seq(Frame)
  BY CalmFacts DEF Calmly
<1>2. Bytes \in Seq(Frame) /\ Bytes # <<>> /\ 1 \in DOMAIN Bytes /\ Head(chain) = Bytes[1]
  BY <1>1, BytesAre
<1>3. Head(chain) \in Frame
  BY <1>1
<1> QED
  BY <1>2, <1>3 DEF Calmly, DataInv, BytesInv

LEMMA FrameGone ==
    ASSUME Calmly, chain # <<>>, chain' = Tail(chain), frames' = frames
    PROVE  /\ Bytes' = Tail(Bytes) /\ Ascending(Bytes')
           /\ \A n \in DOMAIN Bytes' : \E k \in DOMAIN Bytes : Bytes'[n] = Bytes[k]
<1>1. Bytes' = Tail(Bytes)
  BY BytesTaken, CalmFacts DEF Calmly
<1>2. Bytes \in Seq(Frame) /\ Bytes # <<>> /\ Ascending(Bytes)
  BY FirstFrame DEF Calmly, DataInv, BytesInv
<1> HIDE DEF Bytes
<1> QED
  BY <1>1, <1>2, AscendingTail

\* The last frame of a block: none follows, and the loop waits for the outcome.
LEMMA LastFrame ==
    ASSUME Calmly, chain # <<>>, Head(chain).index = FrameCount - 1
    PROVE  /\ Len(Bytes) = 1 /\ Tail(Bytes) = <<>> /\ ~ LoopAt({"drain"})
           /\ \A i \in LoopId : snd.loops[i].pc # "none" =>
                 snd.loops[i].pc = "ack" /\ Block(snd.loops[i]) = Head(chain).block
<1>1. /\ Bytes \in Seq(Frame) /\ 1 \in DOMAIN Bytes /\ Bytes[1].index = FrameCount - 1
      /\ \A i \in LoopId : SentBy(snd.loops[i], Head(chain))
  BY FirstFrame
<1>2. Ascending(Bytes)
  BY DEF Calmly, DataInv, BytesInv
<1> HIDE DEF Bytes
<1>3. 2 \notin DOMAIN Bytes
  <2>1. SUFFICES ASSUME 2 \in DOMAIN Bytes
                 PROVE  FALSE
    OBVIOUS
  <2>2. Bytes[1].index < Bytes[2].index
    BY <1>1, <1>2, <2>1 DEF Ascending
  <2>3. Bytes[2] \in Frame
    BY <1>1, <2>1
  <2>4. Bytes[2].index \in 0 .. FrameCount - 1
    BY <2>3 DEF Frame
  <2> QED
    BY <1>1, <2>2, <2>4, ConstantFacts
<1>4. Len(Bytes) = 1
  <2>1. Len(Bytes) \in Nat /\ DOMAIN Bytes = 1 .. Len(Bytes)
    BY <1>1, SequenceFacts
  <2> QED
    BY <1>1, <1>3, <2>1
<1>5. Tail(Bytes) = <<>>
  <2>1. Bytes # <<>>
    BY FirstFrame DEF Bytes
  <2>2. Tail(Bytes) \in Seq(Frame) /\ Len(Tail(Bytes)) = 0
    BY <1>1, <1>4, <2>1
  <2> QED
    BY <2>2, SequenceFacts
<1>6. ASSUME NEW i \in LoopId, snd.loops[i].pc # "none"
      PROVE  snd.loops[i].pc = "ack" /\ Block(snd.loops[i]) = Head(chain).block
  <2>1. /\ snd.loops[i].pc \in {"drain", "ack"} /\ Block(snd.loops[i]) = Head(chain).block
        /\ snd.loops[i].pc = "drain" => Head(chain).index < snd.loops[i].frame
    BY <1>1, <1>6 DEF SentBy
  <2>2. snd.loops[i] \in Loop /\ LoopShape(snd.loops[i])
    BY CalmFacts DEF Calmly
  <2>3. snd.loops[i].pc # "drain"
    BY <2>1, <2>2, ConstantFacts DEF Loop, LoopShape
  <2> QED
    BY <2>1, <2>3
<1>7. ~ LoopAt({"drain"})
  BY <1>6 DEF LoopAt
<1> QED
  BY <1>4, <1>5, <1>6, <1>7

\* A step of receiveData that does not answer.
LEMMA FrameOrder ==
    ASSUME Calmly, Bytes # <<>>, UNCHANGED <<snd, link, toReceiver>>,
           rcv'.record = rcv.record, rcv'.accepted = rcv.accepted, rcv'.ends = rcv.ends,
           Lesser(toSender', toSender), link # "up" => UNCHANGED <<toSender, frames>>
    PROVE  OrderInv'
<1>1. snd'.state # "IDLE"
  BY Framing
<1>2. LoopsStay /\ Unstarted'
  BY <1>1 DEF LoopsStay, Unstarted
<1>3. Lesser(toReceiver', toReceiver)
  BY CalmFacts, LesserFacts DEF Calmly
<1>4. /\ AtStore' => AtStore
      /\ \A m, n \in DOMAIN rcv'.ends : m = n
      /\ (rcv'.record = "full" \/ rcv'.ends # <<>>) => rcv'.accepted
  BY SameStore
<1>5. Down'
  <2>1. link # "up" => toReceiver = <<>> /\ toSender = <<>> /\ frames = <<>>
    BY DEF Calmly, OrderInv, Down
  <2> QED
    BY <1>2, <1>4, <2>1, DownStays
<1> QED
  BY <1>2, <1>3, <1>4, <1>5, OrderStays

LEMMA TakeStep ==
    ASSUME Calmly, TakeFrame
    PROVE  OrderInv' /\ DataInv'
<1>1. /\ UNCHANGED <<snd, rcv, work, dest, store, toReceiver, toSender, link>>
      /\ frames # <<>> /\ chain' = Append(chain, Head(frames))
  BY DEF TakeFrame, network
<1>2. /\ chain \in Seq(Frame) /\ frames \in Seq(Frame)
      /\ toReceiver \in Seq(Control) /\ toSender \in Seq(Control)
      /\ work.step # "none" => chain # <<>>
  BY CalmFacts DEF Calmly
<1>3. Bytes' = Bytes /\ Bytes # <<>>
  BY <1>1, <1>2, BytesHandedOver, BytesAre
<1>4. link = "up"
  BY <1>1, Busy
<1>5. OrderInv'
  BY <1>1, <1>2, <1>3, <1>4, LesserFacts, FrameOrder
<1>6. LoopsStay
  BY <1>1 DEF LoopsStay
<1>7. RecordInv'
  <2>1. snd'.known \cup snd'.have \subseteq store.blocks
    BY <1>1 DEF Calmly, DataInv, RecordInv
  <2> QED
    BY <1>1, <2>1, RecordStays
<1>8. FreshInv'
  BY <1>1, <1>6, FreshStays, RepeatsFacts
<1>9. BytesInv'
  <2>1. Ascending(Bytes')
    BY <1>3 DEF Calmly, DataInv, BytesInv
  <2> QED
    BY <1>1, <1>3, <1>6, <2>1, BytesStay
<1>10. ContentInv'
  <2>1. chain # <<>> => Head(chain') = Head(chain)
    <3>1. Head(frames) \in Frame
      BY <1>1, <1>2
    <3> QED
      BY <1>1, <1>2, <3>1
  <2> QED
    BY <1>1, <1>2, <2>1, ContentStays
<1> QED
  BY <1>5, <1>7, <1>8, <1>9, <1>10 DEF DataInv

LEMMA StartStep ==
    ASSUME Calmly, StartFrame
    PROVE  OrderInv' /\ DataInv'
<1>1. /\ UNCHANGED <<snd, dest, store, toReceiver, frames, link>>
      /\ chain # <<>> /\ work = Idle
      /\ \/ /\ Fits(Head(chain)) /\ work' = Write /\ UNCHANGED <<rcv, chain, toSender>>
         \/ /\ chain' = Tail(chain) /\ work' = work
            /\ UNCHANGED <<rcv, toSender>> \/ ReceiverFails(rcv)
  BY DEF StartFrame, network
<1>2. /\ rcv \in Receiver /\ toSender \in Seq(Control) /\ toReceiver \in Seq(Control)
      /\ work.step = "none"
  BY <1>1, CalmFacts DEF Calmly, Idle
<1>3. Bytes # <<>> /\ Head(chain) = Bytes[1] /\ Ascending(Bytes)
  BY <1>1, FirstFrame DEF Calmly, DataInv, BytesInv
<1>4. /\ rcv'.record = rcv.record /\ rcv'.accepted = rcv.accepted /\ rcv'.ends = rcv.ends
      /\ rcv'.committed = rcv.committed /\ rcv'.block = rcv.block
      /\ Lesser(toSender', toSender)
      /\ link # "up" => UNCHANGED toSender
  <2>1. CASE ReceiverFails(rcv)
    BY <1>2, <2>1, FailedStays
  <2>2. CASE UNCHANGED <<rcv, toSender>>
    BY <1>2, <2>2, LesserFacts
  <2> QED
    BY <1>1, <2>1, <2>2
<1>5. work'.step \in {"none", "write"}
  BY <1>1, <1>2 DEF Write
<1>6. OrderInv'
  BY <1>1, <1>3, <1>4, FrameOrder
<1>7. LoopsStay
  BY <1>1 DEF LoopsStay
<1>8. RecordInv'
  <2>1. snd'.known \cup snd'.have \subseteq store.blocks
    BY <1>1 DEF Calmly, DataInv, RecordInv
  <2> QED
    BY <1>1, <1>2, <1>4, <1>5, <2>1, RecordStays
<1>9. FreshInv'
  BY <1>1, <1>4, <1>7, FreshStays, RepeatsFacts
<1>10. BytesInv'
  <2>1. /\ Ascending(Bytes')
        /\ \A n \in DOMAIN Bytes' : \E k \in DOMAIN Bytes : Bytes'[n] = Bytes[k]
    <3>1. CASE UNCHANGED chain
      <4>1. Bytes' = Bytes
        BY <1>1, <3>1 DEF Bytes
      <4> QED
        BY <1>3, <4>1
    <3>2. CASE chain' = Tail(chain)
      BY <1>1, <3>2, FrameGone
    <3> QED
      BY <1>1, <3>1, <3>2
  <2> QED
    BY <1>2, <1>4, <1>5, <1>7, <2>1, BytesStay
<1>11. ContentInv'
  <2>1. CASE Fits(Head(chain)) /\ work' = Write /\ UNCHANGED <<rcv, chain, toSender>>
    <3>1. work'.index = Head(chain').block /\ work'.piece = 1
      BY <2>1 DEF Write, Fits
    <3>2. \A p \in 1 .. PieceCount : ~ (p < 1)
      BY ConstantFacts
    <3> QED
      BY <1>1, <2>1, <3>1, <3>2 DEF ContentInv, Calmly, DataInv
  <2>2. CASE work' = work
    BY <1>1, <1>2, <1>4, <2>2, ContentStays
  <2> QED
    BY <1>1, <2>1, <2>2
<1> QED
  BY <1>6, <1>8, <1>9, <1>10, <1>11 DEF DataInv

\* What a write leaves good: the frames of the block before the next one, the
\* pieces of its own frame so far, and every block that is committed.
LEMMA FramesGood ==
    ASSUME Calmly, WriteEnds
    PROVE  LET frame == Head(chain)
           IN  /\ rcv.block.index \in Blocks /\ rcv.block.good =>
                    \A k \in 0 .. FrameCount - 1 : k < rcv.block.next =>
                       \A p \in 1 .. PieceCount : dest'[rcv.block.index][k][p] = "good"
               /\ work.live /\ frame.content = "good" =>
                    \A p \in 1 .. PieceCount : p <= work.piece =>
                       dest'[frame.block][frame.index][p] = "good"
               /\ \A b \in rcv.committed : Good(b)'
<1> DEFINE frame == Head(chain)
<1>1. ReceiverInv
  BY DEF Calmly, IInv, ReceiverInv
<1>2. /\ frame \in Frame /\ work.piece \in 1 .. PieceCount
      /\ \A b \in Blocks, k \in 0 .. FrameCount - 1, p \in 1 .. PieceCount :
            b # frame.block \/ k # frame.index \/ p # work.piece =>
               dest'[b][k][p] = dest[b][k][p]
      /\ frame.content = "good" =>
            dest'[frame.block][frame.index][work.piece] = "good"
  BY <1>1, CellWritten
<1>3. /\ ContentInv /\ WriteInv /\ RecordInv /\ work.step = "write" /\ rcv \in Receiver
      /\ chain # <<>>
  BY <1>1 DEF ReceiverInv, FilesInv, WriteEnds, Calmly, DataInv
<1>4. frame.block \notin rcv.committed
  BY <1>3, FirstFrame
<1>5. /\ rcv.block.index = frame.block => rcv.block.next <= frame.index
      /\ work.live /\ frame.content = "good" =>
            \A p \in 1 .. PieceCount :
               p < work.piece => dest[frame.block][frame.index][p] = "good"
  BY <1>3 DEF WriteInv, ContentInv
<1>6. /\ frame.block \in Blocks /\ frame.index \in 0 .. FrameCount - 1
      /\ rcv.block.next \in 0 .. FrameCount /\ rcv.committed \subseteq Blocks
  BY <1>2, <1>3, ReceiverFields DEF Frame
<1> HIDE DEF frame
<1>7. ASSUME rcv.block.index \in Blocks, rcv.block.good,
             NEW k \in 0 .. FrameCount - 1, k < rcv.block.next, NEW p \in 1 .. PieceCount
      PROVE  dest'[rcv.block.index][k][p] = "good"
  <2>1. dest[rcv.block.index][k][p] = "good"
    BY <1>3, <1>7 DEF ContentInv
  <2>2. rcv.block.index # frame.block \/ k # frame.index
    BY <1>5, <1>6, <1>7, ConstantFacts
  <2> QED
    BY <1>2, <1>7, <2>1, <2>2
<1>8. ASSUME work.live, frame.content = "good",
             NEW p \in 1 .. PieceCount, p <= work.piece
      PROVE  dest'[frame.block][frame.index][p] = "good"
  <2>1. CASE p = work.piece
    BY <1>2, <1>8, <2>1
  <2>2. CASE p # work.piece
    <3>1. p < work.piece
      BY <1>2, <1>8, <2>2
    <3>2. dest'[frame.block][frame.index][p] = dest[frame.block][frame.index][p]
      BY <1>2, <1>6, <2>2
    <3> QED
      BY <1>5, <1>8, <3>1, <3>2
  <2> QED
    BY <2>1, <2>2
<1>9. ASSUME NEW b \in rcv.committed, NEW k \in 0 .. FrameCount - 1, NEW p \in 1 .. PieceCount
      PROVE  dest'[b][k][p] = "good"
  <2>1. b \in Blocks /\ b # frame.block
    BY <1>4, <1>6
  <2>2. dest[b][k][p] = "good"
    BY <1>3 DEF RecordInv, Good
  <2> QED
    BY <1>2, <2>1, <2>2
<1> QED
  BY <1>7, <1>8, <1>9 DEF frame, Good

\* A write that leaves what is committed alone.
LEMMA WriteStays ==
    ASSUME Calmly, WriteEnds, rcv'.committed = rcv.committed, work'.step # "save"
    PROVE  RecordInv'
<1>1. RecordInv /\ work.step = "write" /\ UNCHANGED <<snd, store>>
  BY DEF WriteEnds, Calmly, DataInv
<1>2. \A b \in rcv.committed : Good(b)'
  BY FramesGood
<1> QED
  BY <1>1, <1>2 DEF RecordInv

\* A write whose block has been given up, or that is followed by another piece
\* or another frame.
LEMMA WriteOn ==
    ASSUME Calmly, WriteEnds, UNCHANGED toSender, rcv'.committed = rcv.committed,
           rcv'.record = rcv.record, rcv'.accepted = rcv.accepted, rcv'.ends = rcv.ends,
           work'.step # "save", chain' \in {chain, Tail(chain)}, ContentInv'
    PROVE  OrderInv' /\ DataInv'
<1>1. /\ work.step = "write" /\ UNCHANGED <<snd, store, toReceiver, frames, link>>
  BY DEF WriteEnds, network
<1>2. chain # <<>> /\ toSender \in Seq(Control)
  BY <1>1, CalmFacts DEF Calmly
<1>3. Bytes # <<>>
  BY <1>2, FirstFrame
<1>4. OrderInv'
  BY <1>1, <1>2, <1>3, LesserFacts, FrameOrder
<1>5. LoopsStay
  BY <1>1 DEF LoopsStay
<1>6. RecordInv'
  BY WriteStays
<1>7. FreshInv'
  BY <1>1, <1>5, FreshStays, RepeatsFacts
<1>8. BytesInv'
  <2>1. /\ Ascending(Bytes')
        /\ \A n \in DOMAIN Bytes' : \E k \in DOMAIN Bytes : Bytes'[n] = Bytes[k]
    <3>1. CASE UNCHANGED chain
      <4>1. Bytes' = Bytes
        BY <1>1, <3>1 DEF Bytes
      <4> QED
        BY <4>1 DEF Calmly, DataInv, BytesInv
    <3>2. CASE chain' = Tail(chain)
      BY <1>1, <1>2, <3>2, FrameGone
    <3> QED
      BY <3>1, <3>2
  <2> QED
    BY <1>1, <1>5, <2>1, BytesStay
<1> QED
  BY <1>4, <1>6, <1>7, <1>8 DEF DataInv

\* The outcome of a block: it is the only thing that is left on the way.
LEMMA OutcomeSent ==
    ASSUME Calmly, chain # <<>>, chain' = Tail(chain), Len(Bytes) = 1,
           ~ LoopAt({"drain"}), UNCHANGED <<snd, toReceiver, frames, link>>,
           rcv'.record = rcv.record, rcv'.accepted = rcv.accepted, rcv'.ends = rcv.ends,
           NEW m \in Control, m.type \in {"committed", "nack"}, ToSender(<<m>>),
           FreshReply(m)'
    PROVE  /\ OrderInv' /\ Bytes' = <<>>
           /\ \A n \in DOMAIN toSender' : FreshReply(toSender[n])'
           /\ \A n \in DOMAIN toReceiver' : FreshRequest(toReceiver[n])'
<1>1. /\ ~ AtSource /\ ~ Requested /\ ~ AtStore /\ ~ Replied /\ snd.state # "IDLE"
      /\ AtBlock
  BY FirstFrame, Framing
<1>2. Bytes' = <<>>
  <2>1. Bytes' = Tail(Bytes) /\ Bytes \in Seq(Frame) /\ Bytes # <<>>
    BY FrameGone, FirstFrame
  <2> HIDE DEF Bytes
  <2>2. Tail(Bytes) \in Seq(Frame) /\ Len(Tail(Bytes)) = 0
    BY <2>1
  <2> QED
    BY <2>1, <2>2, SequenceFacts
<1>3. /\ HasOne(toSender', Replies) /\ ~ Has(toSender', {"accept"})
      /\ ~ Has(toSender', {"accept", "have"})
      /\ \A n \in DOMAIN toSender' : FreshReply(toSender[n])'
  <2>1. CASE link = "up"
    <3>1. m.type \in Replies /\ m.type # "accept" /\ m.type \notin {"accept", "have"}
      BY DEF Replies
    <3> QED
      BY <1>1, <2>1, <3>1, Answered
  <2>2. CASE link # "up"
    <3>1. toSender' = toSender /\ toSender = <<>>
      BY <2>2 DEF ToSender, Calmly, OrderInv, Down
    <3>2. toSender' = <<>>
      BY <3>1
    <3> QED
      BY <3>2, NothingSent
  <2> QED
    BY <2>1, <2>2
<1>4. /\ \A k \in DOMAIN toReceiver : toReceiver[k].type \notin Requests
      /\ ~ Has(toReceiver, {"offer", "manifest"}) /\ ~ Has(toReceiver, {"manifest"})
  BY <1>1 DEF Requested, Has, Requests
<1>5. ~ AtSource' /\ ~ Requested' /\ ~ AtStore' /\ ~ AtBlock'
  BY <1>1, <1>2 DEF AtSource, LoopAt, Requested, AtStore, Undecided, AtBlock
<1>6. InOneHand'
  BY <1>5 DEF InOneHand
<1>7. Single'
  BY <1>3 DEF Single, Calmly, OrderInv
<1>8. ~ Opening'
  BY <1>3, <1>4, <1>5 DEF Opening, AtSource
<1>9. LoopsInv'
  BY <1>8 DEF LoopsInv, Calmly, OrderInv
<1>10. AcceptedInv'
  BY <1>3, <1>4 DEF AcceptedInv, Calmly, OrderInv
<1>11. Down'
  <2>1. link # "up" => toSender' = toSender
    BY DEF ToSender
  <2> QED
    BY <1>1, <1>5, <2>1 DEF Down, Calmly, OrderInv
<1>12. Unstarted'
  BY <1>1 DEF Unstarted
<1>13. \A n \in DOMAIN toReceiver' : FreshRequest(toReceiver[n])'
  BY <1>4 DEF FreshRequest, Requests
<1> QED
  BY <1>2, <1>3, <1>6, <1>7, <1>9, <1>10, <1>11, <1>12, <1>13 DEF OrderInv

\* What is written is a frame of the block, and the next one.
LEMMA LiveWrite ==
    ASSUME Calmly, WriteEnds, work.live
    PROVE  /\ rcv.block.index = Head(chain).block /\ rcv.block.next = Head(chain).index
           /\ work.index = Head(chain).block
           /\ Head(chain) \in Frame /\ Head(chain).block \in Blocks
           /\ Head(chain).index \in 0 .. FrameCount - 1
           /\ Head(chain).block \notin rcv.committed
           /\ chain # <<>> /\ work.step = "write" /\ work.piece \in 1 .. PieceCount
<1>1. work.step = "write" /\ chain # <<>>
  BY CalmFacts DEF WriteEnds, Calmly
<1>2. WriteInv /\ ContentInv
  BY DEF Calmly, IInv, FilesInv, DataInv
<1>3. Head(chain) \in Frame /\ Head(chain).block \notin rcv.committed
  BY <1>1, FirstFrame
<1>4. /\ rcv.block.index = Head(chain).block /\ rcv.block.next = Head(chain).index
      /\ work.index = Head(chain).block /\ work.piece \in 1 .. PieceCount
  BY <1>1, <1>2 DEF WriteInv, ContentInv
<1> QED
  BY <1>1, <1>3, <1>4 DEF Frame

LEMMA PieceStep ==
    ASSUME Calmly, WriteEnds, ~ work.live \/ work.piece < PieceCount
    PROVE  OrderInv' /\ DataInv'
<1>1. /\ work.step = "write" /\ work \in Work /\ work.piece \in 1 .. PieceCount
      /\ UNCHANGED <<rcv, toSender>>
  <2>1. work.step = "write" /\ work \in Work
    BY CalmFacts DEF WriteEnds, Calmly
  <2>2. work.piece \in 1 .. PieceCount
    BY <2>1 DEF Calmly, IInv, FilesInv, WriteInv
  <2> QED
    BY <2>1, <2>2, ConstantFacts DEF WriteEnds
<1>2. CASE ~ work.live
  <2>1. work' = Idle /\ chain' = Tail(chain)
    BY <1>2 DEF WriteEnds
  <2>2. work'.step = "none"
    BY <2>1 DEF Idle
  <2>3. ContentInv'
    BY <1>1, <2>2, FramesGood DEF ContentInv
  <2> QED
    BY <1>1, <2>1, <2>2, <2>3, WriteOn
<1>3. CASE work.live /\ work.piece < PieceCount
  <2>1. work' = [work EXCEPT !.piece = @ + 1] /\ chain' = chain
    BY <1>1, <1>3 DEF WriteEnds
  <2>2. /\ work'.step = "write" /\ work'.index = work.index /\ work'.live = work.live
        /\ work'.piece = work.piece + 1
    BY <1>1, <2>1 DEF Work
  <2>3. \A p \in 1 .. PieceCount : p < work'.piece => p <= work.piece
    BY <1>1, <2>2, ConstantFacts
  <2>4. ContentInv'
    <3>1. work'.index = Head(chain').block
      BY <1>3, <2>1, <2>2, LiveWrite
    <3> QED
      BY <1>1, <1>3, <2>1, <2>3, <3>1, FramesGood DEF ContentInv
  <2> QED
    BY <1>1, <2>1, <2>2, <2>4, WriteOn
<1> QED
  BY <1>1, <1>2, <1>3

\* The pieces of the frame are all good, and with it those of the frames up to
\* and including it.
LEMMA FrameGood ==
    ASSUME Calmly, WriteEnds, work.live, work.piece = PieceCount,
           rcv.block.good, Head(chain).content = "good",
           NEW k \in 0 .. FrameCount - 1, k <= rcv.block.next, NEW p \in 1 .. PieceCount
    PROVE  dest'[rcv.block.index][k][p] = "good"
<1>1. /\ rcv.block.index = Head(chain).block /\ rcv.block.next = Head(chain).index
      /\ rcv.block.index \in Blocks /\ rcv.block.next \in 0 .. FrameCount - 1
  BY LiveWrite
<1>2. CASE k < rcv.block.next
  BY <1>1, <1>2, FramesGood
<1>3. CASE k = rcv.block.next
  BY <1>1, <1>3, FramesGood, ConstantFacts
<1> QED
  BY <1>1, <1>2, <1>3

LEMMA NextFrameStep ==
    ASSUME Calmly, WriteEnds, work.live, work.piece = PieceCount,
           rcv.block.next # FrameCount - 1
    PROVE  OrderInv' /\ DataInv'
<1> DEFINE good == rcv.block.good /\ Head(chain).content = "good"
<1>1. /\ rcv' = [rcv EXCEPT !.block.next = @ + 1, !.block.good = good]
      /\ work' = Idle /\ chain' = Tail(chain) /\ UNCHANGED toSender
  BY ConstantFacts DEF WriteEnds
<1>2. rcv \in Receiver /\ work'.step = "none"
  BY <1>1, CalmFacts DEF Calmly, Idle
<1>3. rcv.block \in [index : 0 .. BlockCount, next : 0 .. FrameCount, good : BOOLEAN]
  BY <1>2, ReceiverFields
<1>4. /\ rcv'.committed = rcv.committed /\ rcv'.record = rcv.record
      /\ rcv'.accepted = rcv.accepted /\ rcv'.ends = rcv.ends
      /\ rcv'.block.index = rcv.block.index /\ rcv'.block.next = rcv.block.next + 1
      /\ rcv'.block.good = good
  <2> HIDE DEF good
  <2> QED
    BY <1>1, <1>2, <1>3 DEF Receiver
<1>5. ContentInv'
  <2>1. ASSUME rcv'.block.good, NEW k \in 0 .. FrameCount - 1, k < rcv'.block.next,
               NEW p \in 1 .. PieceCount
        PROVE  dest'[rcv.block.index][k][p] = "good"
    <3>1. k <= rcv.block.next
      BY <1>3, <1>4, <2>1, ConstantFacts
    <3> QED
      BY <1>4, <2>1, <3>1, FrameGood
  <2> QED
    BY <1>2, <1>4, <2>1 DEF ContentInv
<1> QED
  BY <1>1, <1>2, <1>4, <1>5, WriteOn

LEMMA RefuseStep ==
    ASSUME Calmly, WriteEnds, work.live, work.piece = PieceCount,
           rcv.block.next = FrameCount - 1,
           ~ (rcv.block.good /\ Head(chain).content = "good")
    PROVE  OrderInv' /\ DataInv'
<1>1. PICK b \in Blocks : b = Head(chain).block
  BY LiveWrite
<1>2. /\ rcv' = [rcv EXCEPT !.block = NoBlock]
      /\ ToSender(<<About("nack", b)>>)
      /\ work' = Idle /\ chain' = Tail(chain)
      /\ UNCHANGED <<snd, store, toReceiver, frames, link>>
  BY <1>1, ConstantFacts DEF WriteEnds, network
<1>3. rcv \in Receiver /\ work'.step = "none"
  BY <1>2, CalmFacts DEF Calmly, Idle
<1>4. /\ rcv'.committed = rcv.committed /\ rcv'.record = rcv.record
      /\ rcv'.accepted = rcv.accepted /\ rcv'.ends = rcv.ends /\ rcv'.block = NoBlock
  BY <1>2, <1>3 DEF Receiver
<1>5. chain # <<>> /\ Len(Bytes) = 1 /\ ~ LoopAt({"drain"}) /\ b \notin rcv.committed
  BY <1>1, LiveWrite, LastFrame
<1>6. PICK m \in Control : m = About("nack", b) /\ m.type = "nack" /\ m.block = b
  BY Sendable
<1>7. FreshReply(m)'
  BY <1>4, <1>5, <1>6 DEF FreshReply
<1>8. /\ OrderInv' /\ Bytes' = <<>>
      /\ \A n \in DOMAIN toSender' : FreshReply(toSender[n])'
      /\ \A n \in DOMAIN toReceiver' : FreshRequest(toReceiver[n])'
  BY <1>2, <1>4, <1>5, <1>6, <1>7, OutcomeSent
<1>9. RecordInv'
  BY <1>3, <1>4, WriteStays
<1>10. FreshInv'
  <2>1. LoopsStay
    BY <1>2 DEF LoopsStay
  <2> QED
    BY <1>2, <1>4, <1>8, <2>1, FreshLoopsStay DEF FreshInv
<1>11. BytesInv'
  BY <1>3, <1>8, StillNoFrames
<1>12. ContentInv'
  BY <1>3, <1>4, NoBlockFields DEF ContentInv
<1> QED
  BY <1>8, <1>9, <1>10, <1>11, <1>12 DEF DataInv

\* The block is committed, and its save begins.
LEMMA CommitStep ==
    ASSUME Calmly, WriteEnds, work.live, work.piece = PieceCount,
           rcv.block.next = FrameCount - 1, rcv.block.good, Head(chain).content = "good"
    PROVE  OrderInv' /\ DataInv'
<1>1. PICK b \in Blocks : b = Head(chain).block
  BY LiveWrite
<1>2. /\ rcv' = [rcv EXCEPT !.committed = @ \cup {b}, !.block.next = @ + 1]
      /\ work' = [work EXCEPT !.step = "save", !.saved = rcv.committed \cup {b}]
      /\ UNCHANGED <<snd, store, chain, toReceiver, toSender, frames, link>>
  BY <1>1, ConstantFacts DEF WriteEnds, network
<1>3. /\ rcv \in Receiver /\ work \in Work /\ toSender \in Seq(Control)
      /\ rcv.block \in [index : 0 .. BlockCount, next : 0 .. FrameCount, good : BOOLEAN]
  BY CalmFacts, ReceiverFields DEF Calmly
<1>4. /\ rcv'.committed = rcv.committed \cup {b} /\ rcv'.record = rcv.record
      /\ rcv'.accepted = rcv.accepted /\ rcv'.ends = rcv.ends
      /\ rcv'.block.index = rcv.block.index
  BY <1>2, <1>3 DEF Receiver
<1>5. work'.step = "save" /\ work'.saved = rcv'.committed /\ work'.index = b
  <2>1. work.index = b
    BY <1>1, LiveWrite
  <2> QED
    BY <1>2, <1>3, <1>4, <2>1 DEF Work
<1>6. /\ chain # <<>> /\ Len(Bytes) = 1 /\ ~ LoopAt({"drain"})
      /\ \A i \in LoopId : snd.loops[i].pc # "none" =>
            snd.loops[i].pc = "ack" /\ Block(snd.loops[i]) = b
      /\ rcv.block.index = b
  BY <1>1, LiveWrite, LastFrame
<1>7. ~ Requested /\ ~ Replied /\ Bytes # <<>>
  BY <1>6, FirstFrame, Framing
<1>8. OrderInv'
  BY <1>2, <1>3, <1>4, <1>7, LesserFacts, FrameOrder
<1>9. \A c \in rcv'.committed : Good(c)'
  <2>1. Good(b)'
    <3>1. \A k \in 0 .. FrameCount - 1 : k <= rcv.block.next
      BY ConstantFacts
    <3> QED
      BY <1>6, <3>1, FrameGood DEF Good
  <2> QED
    BY <1>4, <2>1, FramesGood
<1>10. RecordInv'
  <2>1. work.step # "save" /\ RecordInv
    BY DEF WriteEnds, Calmly, DataInv
  <2> QED
    BY <1>2, <1>4, <1>5, <1>9, <2>1 DEF RecordInv
<1>11. FreshInv'
  <2>1. ASSUME NEW i \in LoopId
        PROVE  FreshLoop(snd.loops[i])'
    <3>1. FreshLoop(snd.loops[i]) /\ snd' = snd
      BY <1>2 DEF Calmly, DataInv, FreshInv
    <3>2. CASE snd.loops[i].pc = "none"
      BY <3>1, <3>2 DEF FreshLoop
    <3>3. CASE snd.loops[i].pc = "ack" /\ Block(snd.loops[i]) = b
      BY <1>4, <3>1, <3>3 DEF FreshLoop, Block
    <3> QED
      BY <1>6, <3>2, <3>3
  <2>2. /\ \A n \in DOMAIN toReceiver : toReceiver[n].type \notin Requests
        /\ \A n \in DOMAIN toSender : toSender[n].type \notin Replies
    BY <1>7 DEF Requested, Replied, Has
  <2> QED
    BY <1>2, <2>1, <2>2 DEF FreshInv, FreshRequest, FreshReply, Requests, Replies
<1>12. BytesInv'
  <2>1. Bytes' = Bytes /\ snd' = snd
    BY <1>2 DEF Bytes
  <2>2. ~ LoopAt({"drain"})'
    BY <1>2, <1>6 DEF LoopAt
  <2>3. BytesInv
    BY DEF Calmly, DataInv
  <2>4. \A n \in DOMAIN Bytes', i \in LoopId : SentBy(snd'.loops[i], Bytes'[n])
    BY <2>1, <2>3 DEF BytesInv
  <2> QED
    BY <1>5, <1>6, <2>1, <2>2, <2>3, <2>4 DEF BytesInv, SentBy, Block
<1>13. ContentInv'
  BY <1>4, <1>5, <1>6, <1>9 DEF ContentInv, Good
<1> QED
  BY <1>8, <1>10, <1>11, <1>12, <1>13 DEF DataInv

LEMMA WritingStep ==
    ASSUME Calmly, WriteEnds
    PROVE  OrderInv' /\ DataInv'
<1>1. work.live => work.piece \in 1 .. PieceCount
  BY LiveWrite
<1>2. work.live /\ ~ (work.piece < PieceCount) => work.piece = PieceCount
  BY <1>1, ConstantFacts
<1> QED
  BY <1>2, PieceStep, NextFrameStep, RefuseStep, CommitStep

\* The save of the record is over: what it holds is what the receiver has.
LEMMA SaveStep ==
    ASSUME Calmly, SaveEnds
    PROVE  OrderInv' /\ DataInv'
<1>1. /\ work.step = "save"
      /\ store' = [file |-> "saved", blocks |-> work.saved]
      /\ rcv' = [rcv EXCEPT !.state = "RECEIVING", !.block = NoBlock]
      /\ ToSender(<<About("committed", work.index)>>)
      /\ work' = Idle /\ chain' = Tail(chain)
      /\ UNCHANGED <<snd, dest, toReceiver, frames, link>>
  BY DEF SaveEnds, network
<1>2. rcv \in Receiver /\ chain # <<>> /\ work'.step = "none"
  BY <1>1, CalmFacts DEF Calmly, Idle
<1>3. RecordInv /\ BytesInv
  BY DEF Calmly, DataInv
<1>4. PICK b \in Blocks : b = work.index
  BY <1>1 DEF Calmly, IInv, FilesInv
<1>5. /\ store'.blocks = rcv.committed /\ b \in rcv.committed
      /\ Len(Bytes) = 1 /\ ~ LoopAt({"drain"})
  BY <1>1, <1>3, <1>4 DEF RecordInv, BytesInv
<1>6. /\ rcv'.committed = rcv.committed /\ rcv'.record = rcv.record
      /\ rcv'.accepted = rcv.accepted /\ rcv'.ends = rcv.ends /\ rcv'.block = NoBlock
  BY <1>1, <1>2 DEF Receiver
<1>7. PICK m \in Control : /\ m = About("committed", b)
                           /\ m.type = "committed" /\ m.block = b
  BY Sendable
<1>8. FreshReply(m)'
  BY <1>5, <1>7 DEF FreshReply
<1>9. ToSender(<<m>>)
  BY <1>1, <1>4, <1>7
<1>10. /\ OrderInv' /\ Bytes' = <<>>
       /\ \A n \in DOMAIN toSender' : FreshReply(toSender[n])'
       /\ \A n \in DOMAIN toReceiver' : FreshRequest(toReceiver[n])'
  BY <1>1, <1>2, <1>5, <1>6, <1>7, <1>8, <1>9, OutcomeSent
<1>11. RecordInv'
  <2>1. \A c \in rcv'.committed : Good(c)'
    BY <1>1, <1>3, <1>6 DEF RecordInv, Good
  <2> QED
    BY <1>1, <1>2, <1>3, <1>5, <1>6, <2>1 DEF RecordInv
<1>12. FreshInv'
  <2>1. LoopsStay
    BY <1>1 DEF LoopsStay
  <2> QED
    BY <1>1, <1>6, <1>10, <2>1, FreshLoopsStay DEF FreshInv
<1>13. BytesInv'
  BY <1>2, <1>10, StillNoFrames
<1>14. ContentInv'
  BY <1>2, <1>6, NoBlockFields DEF ContentInv
<1> QED
  BY <1>10, <1>11, <1>12, <1>13, <1>14 DEF DataInv

-----------------------------------------------------------------------------
(* The connection.                                                           *)

\* A step that takes away what is on the wires at most.
LEMMA WiresOnly ==
    ASSUME Calmly, LoopsStay, snd'.offers = snd.offers, snd'.have = snd.have,
           snd'.known = snd.known, snd'.state = "IDLE" => snd.state = "IDLE",
           toReceiver' \in {toReceiver, <<>>}, toSender' \in {toSender, <<>>},
           frames' \in {frames, <<>>}, work.step = "save" => frames' = frames,
           UNCHANGED <<chain, dest, store>>,
           rcv'.record = rcv.record, rcv'.accepted = rcv.accepted, rcv'.ends = rcv.ends,
           rcv'.committed = rcv.committed, rcv'.block = rcv.block,
           rcv'.closing = rcv.closing,
           work' = work \/ (~ work'.live /\ work'.step = work.step
                              /\ work'.saved = work.saved /\ work'.index = work.index),
           Down'
    PROVE  OrderInv' /\ DataInv'
<1>1. /\ toReceiver \in Seq(Control) /\ toSender \in Seq(Control)
      /\ chain \in Seq(Frame) /\ frames \in Seq(Frame)
  BY CalmFacts DEF Calmly
<1>2. Lesser(toReceiver', toReceiver) /\ Lesser(toSender', toSender)
  <2>1. \A s \in Seq(Control) : Lesser(<<>>, s)
    BY DEF Lesser, Has, HasOne
  <2> QED
    BY <1>1, <2>1, LesserFacts
<1>3. /\ AtStore' => AtStore
      /\ \A m, n \in DOMAIN rcv'.ends : m = n
      /\ (rcv'.record = "full" \/ rcv'.ends # <<>>) => rcv'.accepted
  BY SameStore
<1>4. Ascending(Bytes)
  BY DEF Calmly, DataInv, BytesInv
<1>5. /\ Ascending(Bytes') /\ (Bytes = <<>> => Bytes' = <<>>)
      /\ \A n \in DOMAIN Bytes' : \E k \in DOMAIN Bytes : Bytes'[n] = Bytes[k]
      /\ work.step = "save" => Bytes' = Bytes
  <2>1. CASE frames' = frames
    <3>1. Bytes' = Bytes
      BY <2>1 DEF Bytes
    <3> QED
      BY <1>4, <3>1
  <2>2. CASE frames' = <<>> /\ work.step # "save"
    <3>1. Bytes' = chain
      BY <1>1, <2>2 DEF Bytes
    <3>2. /\ \A n \in DOMAIN chain : n \in DOMAIN Bytes /\ chain[n] = Bytes[n]
          /\ Bytes = <<>> => chain = <<>>
      BY <1>1 DEF Bytes
    <3>3. Ascending(chain)
      BY <1>4, <3>2 DEF Ascending
    <3> QED
      BY <2>2, <3>1, <3>2, <3>3
  <2> QED
    BY <2>1, <2>2
<1>6. Unstarted'
  <2>1. NoLoops => NoLoops'
    BY LoopsStaying
  <2> QED
    BY <1>5, <2>1 DEF Unstarted, Calmly, OrderInv
<1>7. OrderInv'
  BY <1>2, <1>3, <1>5, <1>6, OrderStays
<1>8. RecordInv'
  <2>1. snd'.known \cup snd'.have \subseteq store.blocks
    BY DEF Calmly, DataInv, RecordInv
  <2> QED
    BY <2>1, RecordStays
<1>9. FreshInv'
  BY <1>2, FreshStays, RepeatsFacts
<1>10. BytesInv'
  BY <1>5, BytesStay
<1>11. ContentInv'
  BY ContentStays
<1> QED
  BY <1>7, <1>8, <1>9, <1>10, <1>11 DEF DataInv

LEMMA CutStep ==
    ASSUME Calmly, Cut
    PROVE  OrderInv' /\ DataInv'
<1>1. /\ Opportune /\ toReceiver' = <<>> /\ toSender' = <<>> /\ frames' = <<>>
      /\ UNCHANGED <<snd, rcv, chain, work, dest, store>>
  BY DEF Cut, Calmly, receiver
<1>2. LoopsStay /\ work.step # "save"
  BY <1>1 DEF LoopsStay, Opportune
<1>3. \A i \in LoopId : snd.loops[i].pc \in {"none", "ready", "ack"}
  <2>1. SUFFICES ASSUME NEW i \in LoopId
                 PROVE  snd.loops[i].pc \in {"none", "ready", "ack"}
    OBVIOUS
  <2>2. snd.loops[i] \in Loop /\ ~ snd.loops[i].stale
    BY CalmFacts DEF Calmly, OrderInv, LoopsInv
  <2>3. snd.loops[i].pc \notin {"check", "read", "drain"}
    BY <1>1, <2>2 DEF Opportune, Current
  <2> QED
    BY <2>2, <2>3 DEF Loop
<1>4. Down'
  BY <1>1, <1>3 DEF Opportune, Down, AtStore, Undecided
<1> QED
  BY <1>1, <1>2, <1>4, WiresOnly

LEMMA LostStep ==
    ASSUME Calmly, SenderLoses
    PROVE  OrderInv' /\ DataInv'
<1>1. /\ snd' = InterruptedSender(snd) /\ link = "cut" /\ link' = link
      /\ UNCHANGED <<rcv, chain, work, dest, store, toReceiver, toSender, frames>>
  BY DEF SenderLoses, receiver, wires
<1>2. snd \in Sender
  BY CalmFacts DEF Calmly
<1>3. \A i \in LoopId : snd.loops[i].pc \in {"none", "ready", "ack"}
  BY <1>1 DEF Calmly, OrderInv, Down
<1>4. \A i \in LoopId : InterruptedLoop(snd.loops[i]) = NoLoop
  BY <1>3 DEF InterruptedLoop
<1>5. /\ LoopsStay
      /\ snd'.offers = snd.offers /\ snd'.have = snd.have /\ snd'.known = snd.known
      /\ snd'.state = "IDLE" => snd.state = "IDLE"
  <2>1. CASE Interruptible(snd)
    <3>1. snd' = [snd EXCEPT !.state = "RECONNECTING", !.sending = FALSE,
                             !.loops = [i \in LoopId |-> InterruptedLoop(snd.loops[i])]]
      BY <1>1, <2>1 DEF InterruptedSender
    <3>2. /\ snd'.offers = snd.offers /\ snd'.have = snd.have /\ snd'.known = snd.known
          /\ snd'.state = "RECONNECTING"
          /\ snd'.loops = [i \in LoopId |-> InterruptedLoop(snd.loops[i])]
      BY <1>2, <3>1 DEF Sender
    <3> QED
      BY <1>4, <3>2 DEF LoopsStay
  <2>2. CASE ~ Interruptible(snd)
    BY <1>1, <2>2 DEF InterruptedSender, LoopsStay
  <2> QED
    BY <2>1, <2>2
<1>6. Down'
  <2>1. AtStore' <=> AtStore
    BY <1>1 DEF AtStore, Undecided
  <2> QED
    BY <1>1, <1>5, <2>1, DownStays DEF Calmly, OrderInv, Down
<1> QED
  BY <1>1, <1>5, <1>6, WiresOnly

LEMMA ReceiverLostStep ==
    ASSUME Calmly, ReceiverLoses
    PROVE  OrderInv' /\ DataInv'
<1>1. /\ rcv' = InterruptedReceiver(rcv) /\ link # "up" /\ link' = link
      /\ UNCHANGED <<snd, chain, dest, store, toReceiver, toSender, frames>>
      /\ work' = work \/ work' = [work EXCEPT !.live = FALSE]
  BY DEF ReceiverLoses, Unless, wires, network
<1>2. rcv \in Receiver /\ work \in Work
  BY CalmFacts DEF Calmly
<1>3. /\ rcv'.record = rcv.record /\ rcv'.accepted = rcv.accepted /\ rcv'.ends = rcv.ends
      /\ rcv'.committed = rcv.committed /\ rcv'.block = rcv.block
      /\ rcv'.closing = rcv.closing
  BY <1>1, <1>2 DEF InterruptedReceiver, Receiver
<1>4. work' = work \/ (~ work'.live /\ work'.step = work.step
                         /\ work'.saved = work.saved /\ work'.index = work.index)
  BY <1>1, <1>2 DEF Work
<1>5. LoopsStay
  BY <1>1 DEF LoopsStay
<1>6. Down'
  <2>1. AtStore' => AtStore
    BY <1>3, SameStore
  <2> QED
    BY <1>1, <1>5, <2>1, DownStays DEF Calmly, OrderInv, Down
<1> QED
  BY <1>1, <1>3, <1>4, <1>5, <1>6, WiresOnly

LEMMA ReplaceStep ==
    ASSUME Calmly, SenderReplaces
    PROVE  OrderInv' /\ DataInv'
<1>1. /\ snd' = [snd EXCEPT !.loops = [i \in LoopId |->
                   [snd.loops[i] EXCEPT !.old = (snd.loops[i].pc = "drain")]]]
      /\ link = "cut" /\ link' = "rebuilt"
      /\ UNCHANGED <<rcv, chain, work, dest, store, toReceiver, toSender, frames>>
  BY DEF SenderReplaces, receiver, wires
<1>2. snd \in Sender
  BY CalmFacts DEF Calmly
<1>3. \A i \in LoopId :
         [snd.loops[i] EXCEPT !.old = (snd.loops[i].pc = "drain")] = snd.loops[i]
  <2>1. SUFFICES ASSUME NEW i \in LoopId
                 PROVE  [snd.loops[i] EXCEPT !.old = (snd.loops[i].pc = "drain")]
                          = snd.loops[i]
    OBVIOUS
  <2>2. snd.loops[i] \in Loop /\ snd.loops[i].old = FALSE
    BY CalmFacts DEF Calmly, OrderInv, LoopsInv, Loop
  <2>3. (snd.loops[i].pc = "drain") = FALSE
    BY <1>1 DEF Calmly, OrderInv, Down
  <2> QED
    BY <2>2, <2>3 DEF Loop
<1>4. /\ LoopsStay
      /\ snd'.offers = snd.offers /\ snd'.have = snd.have /\ snd'.known = snd.known
      /\ snd'.state = snd.state
  <2>1. snd'.loops = [i \in LoopId |->
                        [snd.loops[i] EXCEPT !.old = (snd.loops[i].pc = "drain")]]
    BY <1>1, <1>2 DEF Sender
  <2>2. \A i \in LoopId : snd'.loops[i] = snd.loops[i]
    BY <1>3, <2>1
  <2> QED
    BY <1>1, <1>2, <2>2 DEF LoopsStay, Sender
<1>5. Down'
  <2>1. AtStore' <=> AtStore
    BY <1>1 DEF AtStore, Undecided
  <2> QED
    BY <1>1, <1>4, <2>1, DownStays DEF Calmly, OrderInv, Down
<1> QED
  BY <1>1, <1>4, <1>5, WiresOnly

\* The connection is up again, and the sender offers again if it was lost.
LEMMA ConnectStep ==
    ASSUME Calmly, Connect
    PROVE  OrderInv' /\ DataInv'
<1>1. /\ snd' = Offered(snd) /\ link = "rebuilt" /\ link' = "up"
      /\ chain = <<>> /\ NoLoops
      /\ UNCHANGED <<rcv, chain, work, dest, store, toReceiver, toSender, frames>>
  BY DEF Connect, Calmly, receiver, wires, NoLoops
<1>2. /\ snd \in Sender
      /\ toReceiver = <<>> /\ toSender = <<>> /\ frames = <<>> /\ snd.offers = 0
      /\ ~ AtStore
  BY <1>1, CalmFacts DEF Calmly, OrderInv, Down
<1>3. CASE snd.state # "RECONNECTING"
  <2>1. snd' = snd
    BY <1>1, <1>3 DEF Offered
  <2>2. LoopsStay /\ Down'
    BY <1>1, <2>1 DEF LoopsStay, Down
  <2> QED
    BY <1>1, <2>1, <2>2, WiresOnly
<1>4. CASE snd.state = "RECONNECTING"
  <2>1. snd' = [snd EXCEPT !.have = {}, !.reference = @ + 1, !.offers = @ + 1]
    BY <1>1, <1>4 DEF Offered
  <2>2. /\ snd'.offers = 1 /\ snd'.have = {} /\ snd'.known = snd.known
        /\ snd'.loops = snd.loops /\ snd'.state = "RECONNECTING"
    BY <1>2, <1>4, <2>1 DEF Sender
  <2>3. Bytes = <<>> /\ ~ AtBlock
    BY <1>1, <1>2 DEF Bytes, AtBlock, LoopAt, NoLoops
  <2>4. InOneHand'
    <3>1. ~ Requested' /\ ~ Replied' /\ ~ AtStore'
      BY <1>1, <1>2 DEF Requested, Replied, Has, AtStore, Undecided
    <3>2. ~ AtBlock'
      BY <1>1, <2>2, <2>3 DEF AtBlock, Bytes, LoopAt
    <3> QED
      BY <3>1, <3>2 DEF InOneHand
  <2>5. AcceptedInv'
    BY <1>1, <1>2 DEF AcceptedInv, Calmly, OrderInv
  <2>6. HasOne(toReceiver', Requests) /\ HasOne(toSender', Replies)
    BY <1>1, <1>2, NothingSent
  <2>7. snd'.known \cup snd'.have \subseteq store.blocks
    BY <2>2 DEF Calmly, DataInv, RecordInv
  <2> QED
    BY <1>1, <1>2, <2>2, <2>3, <2>4, <2>5, <2>6, <2>7, RepeatsFacts, SenderOpens
<1> QED
  BY <1>3, <1>4

-----------------------------------------------------------------------------
(* The invariant of the calm behaviours.                                     *)

LEMMA CalmStays ==
    ASSUME [Next]_vars
    PROVE  calm' = calm
<1>1. ASSUME StartOffer \/ OfferSent \/ OfferFails \/ CancelSender
      PROVE  calm' = calm
  BY <1>1 DEF StartOffer, OfferSent, OfferFails, CancelSender
<1>2. ASSUME NEW i \in LoopId, LoopStep(i) \/ SourceFails(i)
      PROVE  calm' = calm
  BY <1>2 DEF LoopStep, CheckEnds, ReadEnds, DrainEnds, DrainRejects, SourceFails
<1>3. ASSUME SenderHandles
      PROVE  calm' = calm
  BY <1>3 DEF SenderHandles, SenderAccept, SenderHave, SenderReady, SenderOutcome,
              SenderDelivered, SenderToldFailed
<1>4. ASSUME ReceiverMoves
      PROVE  calm' = calm
  BY <1>4, ReceiverFraming DEF ReceiverFrame
<1>5. ASSUME NetworkRecovers \/ Cut \/ SenderFlaps
      PROVE  calm' = calm
  BY <1>5 DEF NetworkRecovers, SenderLoses, SenderReplaces, Connect, Cut, SenderFlaps
<1>6. ASSUME UNCHANGED vars
      PROVE  calm' = calm
  BY <1>6 DEF vars
<1>7. ASSUME Progress
      PROVE  calm' = calm
  BY <1>1, <1>2, <1>3, <1>4, <1>5, <1>7
     DEF Progress, ReceiverMoves, ReceiverHandles, ReceiverProcesses
<1>8. ASSUME Trouble
      PROVE  calm' = calm
  BY <1>1, <1>2, <1>4, <1>5, <1>8 DEF Trouble, ReceiverMoves
<1> QED
  BY <1>6, <1>7, <1>8 DEF Next

\* A loop that waits for the channel sees no loss of it.
LEMMA NothingRejected ==
    ASSUME Calmly, NEW i \in LoopId
    PROVE  ~ DrainRejects(i)
  BY DEF DrainRejects, Calmly, OrderInv, LoopsInv, Down

LEMMA CalmStutters ==
    ASSUME Calmly, UNCHANGED vars
    PROVE  OrderInv' /\ DataInv'
<1>1. /\ UNCHANGED <<snd, rcv, chain, work, dest, store, link>>
      /\ UNCHANGED <<toReceiver, toSender, frames>>
  BY DEF vars, receiver, wires, network
<1>2. LoopsStay
  BY <1>1 DEF LoopsStay
<1>3. Down'
  <2>1. AtStore' <=> AtStore
    BY <1>1 DEF AtStore, Undecided
  <2> QED
    BY <1>1, <1>2, <2>1, DownStays DEF Calmly, OrderInv, Down
<1> QED
  BY <1>1, <1>2, <1>3, WiresOnly

LEMMA CalmProgresses ==
    ASSUME Calmly, Progress
    PROVE  OrderInv' /\ DataInv'
<1>1. ASSUME NEW i \in LoopId, LoopStep(i)
      PROVE  OrderInv' /\ DataInv'
  BY <1>1, CheckStep, ReadStep, DrainStep, NothingRejected DEF LoopStep
<1>2. ASSUME SenderHandles
      PROVE  OrderInv' /\ DataInv'
  BY <1>2, AcceptHeard, HaveStep, ReadyStep, OutcomeStep, DeliveredStep DEF SenderHandles
<1>3. ASSUME ReceiverHandles
      PROVE  OrderInv' /\ DataInv'
  BY <1>3, OfferHeard, ReofferLost, ManifestHeard, DigestStep, RootStep DEF ReceiverHandles
<1>4. ASSUME NEW n \in 1 .. Len(rcv.ends), ManifestEnd(n)
      PROVE  OrderInv' /\ DataInv'
  BY <1>4, LoadStep, PrepareStep DEF ManifestEnd
<1>5. ASSUME NetworkRecovers
      PROVE  OrderInv' /\ DataInv'
  BY <1>5, LostStep, ReplaceStep, ConnectStep DEF NetworkRecovers
<1>6. ASSUME StartOffer \/ OfferSent \/ Accept
      PROVE  OrderInv' /\ DataInv'
  BY <1>6, FirstOfferStep, OfferStep, AcceptStep
<1>7. ASSUME TakeFrame \/ ReceiverProcesses \/ CloseEnds
      PROVE  OrderInv' /\ DataInv'
  BY <1>7, TakeStep, StartStep, WritingStep, SaveStep, CloseStep DEF ReceiverProcesses
<1> QED
  BY <1>1, <1>2, <1>3, <1>4, <1>5, <1>6, <1>7 DEF Progress

\* Of what may go wrong, a calm behaviour has the loss of a connection only.
LEMMA CalmTroubles ==
    ASSUME Calmly, Trouble
    PROVE  OrderInv' /\ DataInv'
<1>1. Cut \/ ReceiverLoses
  BY DEF Calmly, Trouble, Fault, OfferFails, CancelSender, CancelReceiver, SourceFails,
         ProcessingFails, CloseFails, SenderFlaps, ReceiverFlaps
<1> QED
  BY <1>1, CutStep, ReceiverLostStep

LEMMA CalmStep ==
    ASSUME IInv, CalmInv, [Next]_vars
    PROVE  CalmInv'
<1>1. SUFFICES ASSUME calm
               PROVE  OrderInv' /\ DataInv'
  BY CalmStays DEF CalmInv
<1>2. Calmly
  BY <1>1 DEF Calmly, CalmInv
<1> QED
  BY <1>2, CalmStutters, CalmProgresses, CalmTroubles DEF Next

LEMMA CalmInit == Init => CalmInv
<1> SUFFICES ASSUME Init
             PROVE  OrderInv /\ DataInv
  BY DEF CalmInv
<1> DEFINE loops == [i \in LoopId |-> NoLoop]
<1>1. /\ snd.offers = 0 /\ snd.have = {} /\ snd.known = {} /\ snd.loops = loops
      /\ rcv.record = "none" /\ ~ rcv.accepted /\ rcv.ends = <<>> /\ rcv.closing = 0
      /\ rcv.committed = {} /\ rcv.block = NoBlock /\ store.blocks = {}
      /\ toReceiver = <<>> /\ toSender = <<>> /\ frames = <<>> /\ chain = <<>>
      /\ work.step = "none" /\ link = "up"
  BY DEF Init, Idle
<1>2. \A i \in LoopId : snd.loops[i] = NoLoop
  BY <1>1
<1>3. /\ NoLoop.pc = "none" /\ ~ NoLoop.stale /\ ~ NoLoop.old /\ NoLoop.outcome = "none"
  BY DEF NoLoop
<1>4. NoLoops /\ Bytes = <<>>
  BY <1>1, <1>2, <1>3 DEF NoLoops, Bytes
<1>5. /\ ~ AtSource /\ ~ Requested /\ ~ AtStore /\ ~ Replied /\ ~ AtBlock
  BY <1>1, <1>4 DEF AtSource, NoLoops, LoopAt, Requested, Has, AtStore, Undecided, Replied,
                    AtBlock
<1>6. OrderInv
  <2>1. InOneHand
    BY <1>5 DEF InOneHand
  <2>2. Single
    BY <1>1 DEF Single, HasOne
  <2>3. LoopsInv
    BY <1>2, <1>3, <1>4 DEF LoopsInv, NoLoops
  <2>4. AcceptedInv
    BY <1>1 DEF AcceptedInv, Has
  <2>5. Down /\ Unstarted
    BY <1>1, <1>4 DEF Down, Unstarted
  <2> QED
    BY <2>1, <2>2, <2>3, <2>4, <2>5 DEF OrderInv
<1>7. DataInv
  <2>1. RecordInv
    BY <1>1 DEF RecordInv
  <2>2. FreshInv
    BY <1>1, <1>2, <1>3 DEF FreshInv, FreshLoop
  <2>3. BytesInv
    BY <1>1, <1>4 DEF BytesInv, Ascending
  <2>4. ContentInv
    BY <1>1, NoBlockFields DEF ContentInv
  <2> QED
    BY <2>1, <2>2, <2>3, <2>4 DEF DataInv
<1> QED
  BY <1>6, <1>7

(***************************************************************************)
(* Where connections are lost at opportune moments and nothing else goes   *)
(* wrong, offer, HAVE, READY, frames, COMMITTED and the recovery store     *)
(* take turns, and the receiver's record in memory differs from the        *)
(* persisted one by the block being saved at most.                         *)
(***************************************************************************)
THEOREM CalmInvHolds == Spec => []CalmInv
<1>1. Init => CalmInv
  BY CalmInit
<1>2. IInv /\ CalmInv /\ [Next]_vars => CalmInv'
  BY CalmStep
<1> QED
  BY <1>1, <1>2, InvHolds, PTL DEF Spec

(***************************************************************************)
(* In that case every block that the sender counts as known or leaves out  *)
(* as HAVE is in the recovery store, and every block in the store is the   *)
(* source's in the files: a reconnection resumes from the truth.           *)
(***************************************************************************)
THEOREM KnownPersisted == Spec => []KnownIsPersisted
<1>1. ASSUME CalmInv
      PROVE  KnownIsPersisted
  BY <1>1 DEF CalmInv, DataInv, RecordInv, KnownIsPersisted
<1> QED
  BY <1>1, CalmInvHolds, PTL

(***************************************************************************)
(* In that case no frame on its way is of a block whose COMMITTED the      *)
(* sender has seen: frames are of the block the one loop is at, which is   *)
(* not committed before its last frame is taken.                           *)
(***************************************************************************)
THEOREM ConfirmedNotResent == Spec => []NoConfirmedBlockResent
<1>1. ASSUME IInv, CalmInv
      PROVE  NoConfirmedBlockResent
  <2> SUFFICES ASSUME calm, NEW n \in 1 .. Len(frames)
               PROVE  frames[n].block \notin snd.known
    BY DEF NoConfirmedBlockResent
  <2>1. RecordInv /\ BytesInv
    BY <1>1 DEF CalmInv, DataInv
  <2>2. /\ chain \in Seq(Frame) /\ frames \in Seq(Frame)
        /\ work.step # "none" => chain # <<>>
    BY <1>1, CalmFacts
  <2>3. /\ Len(Bytes) = Len(chain) + Len(frames)
        /\ Len(chain) + n \in DOMAIN Bytes
        /\ Bytes[Len(chain) + n] = frames[n]
    BY <2>2 DEF Bytes
  <2>4. work.step # "save"
    <3>1. SUFFICES ASSUME work.step = "save" PROVE FALSE
      OBVIOUS
    <3>2. Len(chain) # 0
      BY <2>2, <3>1, EmptySeq
    <3>3. Len(Bytes) = 1
      BY <2>1, <3>1 DEF BytesInv
    <3>4. Len(chain) \in Nat /\ Len(frames) \in Nat
      BY <2>2
    <3>5. Len(chain) + Len(frames) = 1
      BY <2>3, <3>3
    <3>6. Len(frames) >= 1
      BY <3>4
    <3> QED
      BY <3>2, <3>4, <3>5, <3>6
  <2>5. frames[n].block \notin rcv.committed
    BY <2>1, <2>3, <2>4 DEF BytesInv
  <2>6. snd.known \subseteq rcv.committed
    BY <2>1 DEF RecordInv
  <2> QED
    BY <2>5, <2>6
<1> QED
  BY <1>1, InvHolds, CalmInvHolds, PTL

=============================================================================
