-------------------------- MODULE FolderTransfer --------------------------
(***************************************************************************)
(* One StreamPack transfer of a folder: M6StreamPackTransfer               *)
(* (packages/engine-core/src/m6-stream-pack-transfer.ts) as sender and as  *)
(* receiver, the folder it is written to (BrowserStreamPackDestination),   *)
(* and the connection between the two, which is lost and replaced.         *)
(*                                                                         *)
(* Messages always sent together are one message here: the manifest, HAVE  *)
(* with READY ("have"), VERIFIED with DELIVERED ("delivered"); so are the  *)
(* states FAILED and INTEGRITY_FAILED.  A message that cannot be sent      *)
(* interrupts the transfer: while the connection is lost that is one of    *)
(* the times at which SenderLoses and ReceiverLoses may happen.            *)
(***************************************************************************)
EXTENDS Naturals, Sequences, SequencesExt, FiniteSets

CONSTANTS
    BlockCount, \* blocks of the folder
    FrameCount, \* data frames of a block
    PieceCount, \* files a frame is spread over, each one write
    MaxLoops,   \* bound: runs of sendMissing alive at once
    MaxLosses,  \* bound: losses of the connection, those that heal included
    MaxHostile, \* bound: losses in a behaviour that is not calm
    MaxFaults   \* bound: payloads changed on the way, errors and cancels

ASSUME FolderTransferAssumption ==
    /\ {BlockCount, FrameCount, PieceCount, MaxLoops} \subseteq Nat \ {0}
    /\ {MaxLosses, MaxHostile, MaxFaults} \subseteq Nat

Blocks == 0 .. BlockCount - 1
LoopId == 1 .. MaxLoops
References == 0 .. MaxLosses + 1
\* What is written, and what a piece holds: "replaced" is what a changed payload
\* leaves in a block that was whole.
Payload == {"good", "bad"}
Content == {"none", "replaced"} \cup Payload

VARIABLES
    calm,       \* only connections are lost, and at an opportune moment
    snd,        \* the sender's transfer object
    rcv,        \* the receiver's
    chain,      \* dataChain: the frames received and not processed yet
    work,       \* what receiveData is doing with the first of them
    dest,       \* content of the destination, piece by piece
    final,      \* "open", "closing", "closed" or "aborted"
    store,      \* the persisted record and its committed blocks
    link,       \* "up", "cut", or "rebuilt": a new route is being negotiated
    noticed,    \* the sender's coordinator has scheduled a replacement
    toReceiver, toSender, frames, \* in flight
    losses, faults                \* what has gone wrong so far

wires == <<toReceiver, toSender, frames>>
network == <<link, noticed, losses>>
receiver == <<rcv, chain, work, dest, final, store>>
vars == <<calm, snd, receiver, wires, network, faults>>

State == {"IDLE", "READY", "SENDING", "RECEIVING", "RECONNECTING", "DELIVERED",
          "FAILED", "CANCELLED"}

\* A run of sendMissing: its first source.assertUnchanged ("check"), a later
\* one with the read of a block ("read"), the READY of the block, the drain of
\* the channel, or the outcome ("ack"), which may arrive during a drain.
\* "stale" is epoch # transportEpoch.
Loop ==
    [ pc      : {"none", "check", "read", "ready", "drain", "ack"},
      todo    : SUBSET Blocks,
      frame   : 0 .. FrameCount,
      retries : 0 .. 3,
      outcome : {"none", "committed", "nack"},
      stale   : BOOLEAN,
      old     : BOOLEAN ]   \* the transport it drains has been replaced

NoLoop == [pc |-> "none", todo |-> {}, frame |-> 0, retries |-> 0,
           outcome |-> "none", stale |-> FALSE, old |-> FALSE]

Block(loop) == CHOOSE b \in loop.todo : \A c \in loop.todo : b <= c

\* "offers" counts the offers that wait for assertUnchanged.
Sender ==
    [ state     : State,
      cancelled : BOOLEAN,
      reference : References,
      offers    : Nat,
      have      : SUBSET Blocks,
      known     : SUBSET Blocks,
      sending   : BOOLEAN,
      loops     : [LoopId -> Loop] ]

NoBlock == [index |-> BlockCount, next |-> 0, good |-> TRUE]

\* "record" is bare until its manifest is known; "ends" are the calls of
\* manifestEnd in progress, "closing" those of verifyRoot.
Receiver ==
    [ state     : State,
      cancelled : BOOLEAN,
      accepted  : BOOLEAN,
      record    : {"none", "bare", "full"},
      committed : SUBSET Blocks,
      reference : References,
      old       : SUBSET References,
      block     : [index : 0 .. BlockCount, next : 0 .. FrameCount, good : BOOLEAN],
      ends      : Seq([at : {"load", "save", "prepare"}, existing : BOOLEAN]),
      closing   : Nat ]

Frame == [reference : References, block : Blocks, index : 0 .. FrameCount - 1,
          content : Payload]

\* "live" as long as neither the epoch nor the block changes under it.
Work == [step : {"none", "write", "save"}, piece : 0 .. PieceCount, live : BOOLEAN,
         index : 0 .. BlockCount, saved : SUBSET Blocks]
Idle == [step |-> "none", piece |-> 0, live |-> FALSE, index |-> BlockCount,
         saved |-> {}]

Control ==
    [type : {"offer"}, reference : References]
      \cup [type : {"accept", "manifest", "root", "delivered", "fail"}]
      \cup [type : {"have"}, blocks : SUBSET Blocks]
      \cup [type : {"digest", "ready", "committed", "nack"}, block : Blocks]

TypeOK ==
    /\ calm \in BOOLEAN
    /\ snd \in Sender
    /\ rcv \in Receiver
    /\ chain \in Seq(Frame)
    /\ work \in Work
    /\ dest \in [Blocks -> [0 .. FrameCount - 1 -> [1 .. PieceCount -> Content]]]
    /\ final \in {"open", "closing", "closed", "aborted"}
    /\ store \in [file : {"none", "torn", "saved"}, blocks : SUBSET Blocks]
    /\ link \in {"up", "cut", "rebuilt"}
    /\ noticed \in BOOLEAN
    /\ toReceiver \in Seq(Control)
    /\ toSender \in Seq(Control)
    /\ frames \in Seq(Frame)
    /\ losses \in 0 .. MaxLosses
    /\ faults \in 0 .. MaxFaults

Init ==
    /\ calm \in BOOLEAN
    /\ snd = [ state |-> "IDLE", cancelled |-> FALSE, reference |-> 0, offers |-> 0,
               have |-> {}, known |-> {}, sending |-> FALSE,
               loops |-> [i \in LoopId |-> NoLoop] ]
    /\ rcv = [ state |-> "IDLE", cancelled |-> FALSE, accepted |-> FALSE,
               record |-> "none", committed |-> {}, reference |-> 0, old |-> {},
               block |-> NoBlock, ends |-> <<>>, closing |-> 0 ]
    /\ chain = <<>>
    /\ work = Idle
    /\ dest = [b \in Blocks |-> [k \in 0 .. FrameCount - 1 |->
                 [p \in 1 .. PieceCount |-> "none"]]]
    /\ final = "open"
    /\ store = [file |-> "none", blocks |-> {}]
    /\ link = "up"
    /\ noticed = FALSE
    /\ toReceiver = <<>>
    /\ toSender = <<>>
    /\ frames = <<>>
    /\ losses = 0
    /\ faults = 0

-----------------------------------------------------------------------------
(* transportInterrupted, fail and send, for either side.                     *)

Interruptible(s) == ~s.cancelled /\ s.state \notin {"IDLE", "RECONNECTING"}

\* The loops that wait for READY or for an outcome end at once; every other
\* one belongs to an old epoch from here on.
InterruptedLoop(loop) ==
    IF loop.pc \in {"none", "ready", "ack"} THEN NoLoop
    ELSE [loop EXCEPT !.stale = TRUE]

InterruptedSender(s) ==
    IF ~Interruptible(s) THEN s
    ELSE [s EXCEPT !.state = "RECONNECTING",
                   !.sending = FALSE,
                   !.loops = [i \in LoopId |-> InterruptedLoop(s.loops[i])]]

InterruptedReceiver(r) ==
    IF Interruptible(r) /\ r.record # "none"
    THEN [r EXCEPT !.state = "RECONNECTING"] ELSE r

\* What receiveData is about to write no longer belongs to the current epoch.
Unless(same) == IF same THEN work ELSE [work EXCEPT !.live = FALSE]

Over(s) == s.state \in {"FAILED", "CANCELLED"}
Failed(s) == IF Over(s) THEN s ELSE [s EXCEPT !.cancelled = TRUE, !.state = "FAILED"]
Failure(s) == IF Over(s) THEN <<>> ELSE <<[type |-> "fail"]>>

ToReceiver(messages) ==
    toReceiver' = IF link = "up" THEN toReceiver \o messages ELSE toReceiver
ToSender(messages) ==
    toSender' = IF link = "up" THEN toSender \o messages ELSE toSender

\* The transport of a route being negotiated has no open channel.
Sent(s) == IF link = "rebuilt" THEN InterruptedSender(s) ELSE s

Of(type) == [type |-> type]
About(type, b) == [type |-> type, block |-> b]

SenderFails(s) ==
    /\ snd' = Failed(s)
    /\ ToReceiver(Failure(s))
ReceiverFails(r) ==
    /\ rcv' = Failed(r)
    /\ ToSender(Failure(r))

\* Something else than a connection fails, or a user cancels.
Fault ==
    /\ ~calm
    /\ faults < MaxFaults
    /\ faults' = faults + 1

-----------------------------------------------------------------------------
(* The sender.                                                               *)

\* select, then offer, on a connection that is up.
StartOffer ==
    /\ snd.state = "IDLE"
    /\ link = "up"
    /\ snd' = [snd EXCEPT !.state = "READY", !.reference = 1, !.offers = 1]
    /\ UNCHANGED <<calm, receiver, wires, network, faults>>

\* The source is unchanged: the offer carries whatever reference is current.
OfferSent ==
    /\ snd.offers > 0
    /\ snd' = Sent([snd EXCEPT !.offers = @ - 1])
    /\ ToReceiver(<<[type |-> "offer", reference |-> snd.reference]>>)
    /\ UNCHANGED <<calm, receiver, toSender, frames, network, faults>>

OfferFails ==
    /\ Fault
    /\ snd.offers > 0
    /\ SenderFails([snd EXCEPT !.offers = @ - 1])
    /\ UNCHANGED <<calm, receiver, toSender, frames, network>>

CancelSender ==
    /\ Fault
    /\ snd.state \notin {"IDLE", "DELIVERED", "FAILED", "CANCELLED"}
    /\ snd' = [snd EXCEPT !.cancelled = TRUE, !.state = "CANCELLED"]
    /\ UNCHANGED <<calm, receiver, wires, network>>

SenderTakes(type) ==
    /\ toSender # <<>>
    /\ Head(toSender).type = type
    /\ toSender' = Tail(toSender)

SenderAccept ==
    /\ SenderTakes("accept")
    /\ snd' = Sent(snd)
    /\ ToReceiver(<<Of("manifest")>>)
    /\ UNCHANGED <<calm, receiver, frames, network, faults>>

\* HAVE is kept and READY starts a loop, unless one is sending already.
SenderHave ==
    /\ SenderTakes("have")
    /\ LET s == [snd EXCEPT !.have = @ \cup Head(toSender).blocks]
           i == CHOOSE i \in LoopId : s.loops[i].pc = "none"
       IN  IF s.sending THEN snd' = s
           ELSE /\ \E k \in LoopId : s.loops[k].pc = "none"
                /\ snd' = [s EXCEPT !.sending = TRUE,
                                    !.loops[i] = [NoLoop EXCEPT !.pc = "check"]]
    /\ UNCHANGED <<calm, receiver, toReceiver, frames, network, faults>>

\* A loop that returns or throws: only one of the current epoch clears sending.
Ended(s, i) ==
    [s EXCEPT !.loops[i] = NoLoop,
              !.sending = IF snd.loops[i].stale THEN @ ELSE FALSE]

\* The loop goes on with "todo"; when there is nothing left it sends the root.
Proceeds(s, i, todo, retries) ==
    LET loop == snd.loops[i]
    IN  /\ snd' = IF todo = {} THEN Sent(Ended(s, i))
                  ELSE IF loop.stale THEN Ended(s, i)
                  ELSE [s EXCEPT !.loops[i] =
                          [NoLoop EXCEPT !.pc = "read", !.todo = todo,
                                         !.retries = retries]]
        /\ ToReceiver(IF todo = {} THEN <<Of("root")>> ELSE <<>>)

\* The epoch is not compared before the state is set.
CheckEnds(i) ==
    /\ snd.loops[i].pc = "check"
    /\ Proceeds([snd EXCEPT !.state = "SENDING"], i, Blocks \ snd.have, 0)
    /\ UNCHANGED <<calm, receiver, toSender, frames, network, faults>>

\* The source has changed, or cannot be read: an error that is not
\* TRANSPORT_INTERRUPTED fails the transfer unless it is RECONNECTING, whatever
\* epoch the loop is of.
Throws(i) ==
    IF snd.state = "RECONNECTING"
    THEN /\ snd' = LET ended == Ended(snd, i)
                   IN  IF snd.loops[i].stale THEN ended ELSE InterruptedSender(ended)
         /\ UNCHANGED toReceiver
    ELSE SenderFails(Ended(snd, i))

SourceFails(i) ==
    /\ Fault
    /\ snd.loops[i].pc \in {"check", "read"}
    /\ Throws(i)
    /\ UNCHANGED <<calm, receiver, toSender, frames, network>>

ReadEnds(i) ==
    /\ snd.loops[i].pc = "read"
    /\ IF snd.loops[i].stale
       THEN snd' = Ended(snd, i) /\ UNCHANGED toReceiver
       ELSE /\ snd' = Sent([snd EXCEPT !.loops[i].pc = "ready"])
            /\ ToReceiver(<<About("digest", Block(snd.loops[i]))>>)
    /\ UNCHANGED <<calm, receiver, toSender, frames, network, faults>>

\* The READY of the block the current loop waits for: first drain.
Current(pcs) == {i \in LoopId : snd.loops[i].pc \in pcs /\ ~snd.loops[i].stale}

SenderReady ==
    /\ SenderTakes("ready")
    /\ LET waiting == {i \in Current({"ready"}) :
                         Block(snd.loops[i]) = Head(toSender).block}
       IN  snd' = [snd EXCEPT !.loops = [i \in LoopId |->
                     IF i \in waiting THEN [snd.loops[i] EXCEPT !.pc = "drain"]
                     ELSE snd.loops[i]]]
    /\ UNCHANGED <<calm, receiver, toReceiver, frames, network, faults>>

\* The drain is over and the next frame leaves; the last one is followed by the
\* wait for the outcome, which may be there already.
Decide(s, i, outcome) ==
    LET loop == s.loops[i]
    IN  IF outcome = "committed"
        THEN Proceeds(s, i, loop.todo \ {Block(loop)}, 0)
        ELSE IF loop.retries = 3 THEN SenderFails(Ended(s, i))
        ELSE Proceeds(s, i, loop.todo, loop.retries + 1)

DrainEnds(i) ==
    LET loop == snd.loops[i]
        next == [snd EXCEPT !.loops[i].frame = @ + 1,
                            !.loops[i].pc = IF loop.frame = FrameCount - 1
                                            THEN "ack" ELSE "drain"]
    IN  /\ loop.pc = "drain"
        /\ ~loop.old
        /\ IF loop.stale
           THEN /\ snd' = Ended(snd, i)
                /\ UNCHANGED <<toReceiver, frames, faults>>
           ELSE \E content \in IF faults < MaxFaults /\ loop.frame = 0
                               THEN {"good", "bad"} ELSE {"good"} :
                /\ faults' = IF content = "bad" THEN faults + 1 ELSE faults
                /\ frames' = IF link = "up"
                             THEN Append(frames, [ reference |-> snd.reference,
                                                   block |-> Block(loop),
                                                   index |-> loop.frame,
                                                   content |-> content ])
                             ELSE frames
                /\ IF next.loops[i].pc = "ack" /\ loop.outcome # "none"
                   THEN Decide(next, i, loop.outcome)
                   ELSE snd' = next /\ UNCHANGED toReceiver
        /\ UNCHANGED <<calm, receiver, toSender, network>>

\* It rejects when the channel closes, or after 30 s.
DrainRejects(i) ==
    /\ snd.loops[i].pc = "drain"
    /\ link # "up" \/ snd.loops[i].old \/ ~calm
    /\ Throws(i)
    /\ UNCHANGED <<calm, receiver, toSender, frames, network, faults>>

\* COMMITTED counts in any case; either answer settles the block's promise,
\* which exists from the first drain on.
SenderOutcome ==
    \E outcome \in {"committed", "nack"} :
        /\ SenderTakes(outcome)
        /\ LET b == Head(toSender).block
               s == IF outcome = "committed" THEN [snd EXCEPT !.known = @ \cup {b}]
                    ELSE snd
               waiting(pc) == {i \in Current({pc}) : Block(snd.loops[i]) = b}
           IN  IF waiting("ack") # {}
               THEN \E i \in waiting("ack") : Decide(s, i, outcome)
               ELSE /\ snd' = [s EXCEPT !.loops = [i \in LoopId |->
                                 IF i \in waiting("drain") /\ s.loops[i].outcome = "none"
                                 THEN [s.loops[i] EXCEPT !.outcome = outcome]
                                 ELSE s.loops[i]]]
                    /\ UNCHANGED toReceiver
        /\ UNCHANGED <<calm, receiver, frames, network, faults>>

SenderDelivered ==
    /\ SenderTakes("delivered")
    /\ snd' = [snd EXCEPT !.state = "DELIVERED"]
    /\ UNCHANGED <<calm, receiver, toReceiver, frames, network, faults>>

SenderToldFailed ==
    /\ SenderTakes("fail")
    /\ SenderFails(snd)
    /\ UNCHANGED <<calm, receiver, frames, network, faults>>

-----------------------------------------------------------------------------
(* The receiver's control messages.                                          *)

ReceiverTakes(type) ==
    /\ toReceiver # <<>>
    /\ Head(toReceiver).type = type
    /\ toReceiver' = Tail(toReceiver)

Accepts(r) == ToSender(IF r.accepted THEN <<Of("accept")>> ELSE <<>>)

Referred(r) == [r EXCEPT !.old = @ \cup ({r.reference} \ {0}),
                         !.reference = Head(toReceiver).reference]

FirstOffer ==
    /\ ReceiverTakes("offer")
    /\ rcv.record = "none"
    /\ rcv' = [Referred(rcv) EXCEPT !.record = "bare", !.state = "READY"]
    /\ Accepts(rcv)
    /\ UNCHANGED <<calm, snd, chain, work, dest, final, store, frames, network, faults>>

\* The same transfer again.  Whatever the state was it is RECONNECTING now.
Reoffer ==
    /\ ReceiverTakes("offer")
    /\ rcv.record = "full"
    /\ rcv' = [Referred(rcv) EXCEPT !.block = NoBlock, !.state = "RECONNECTING"]
    /\ work' = Unless(FALSE)
    /\ Accepts(rcv)
    /\ UNCHANGED <<calm, snd, chain, dest, final, store, frames, network, faults>>

\* makeSnapshot reads the manifest, which is undefined: a TypeError that
\* nobody handles, before the offer is accepted.
ReofferThrows ==
    /\ ReceiverTakes("offer")
    /\ rcv.record = "bare"
    /\ rcv' = [Referred(rcv) EXCEPT !.block = NoBlock]
    /\ UNCHANGED <<calm, snd, chain, work, dest, final, store, toSender, frames,
                   network, faults>>

\* The user chooses a folder once the offer is there.
Accept ==
    /\ rcv.record # "none"
    /\ ~rcv.accepted
    /\ ~rcv.cancelled
    /\ rcv' = [rcv EXCEPT !.accepted = TRUE]
    /\ Accepts(rcv')
    /\ UNCHANGED <<calm, snd, chain, work, dest, final, store, toReceiver, frames,
                   network, faults>>

CancelReceiver ==
    /\ Fault
    /\ rcv.record # "none"
    /\ rcv.state \notin {"DELIVERED", "FAILED", "CANCELLED"}
    /\ rcv' = [rcv EXCEPT !.cancelled = TRUE, !.state = "CANCELLED"]
    /\ final' = IF rcv.accepted /\ final = "open" THEN "aborted" ELSE final
    /\ UNCHANGED <<calm, snd, chain, work, dest, store, wires, network>>

ReceiverManifest ==
    /\ ReceiverTakes("manifest")
    /\ rcv' = [rcv EXCEPT !.ends = Append(@, [at |-> "load", existing |-> FALSE])]
    /\ UNCHANGED <<calm, snd, chain, work, dest, final, store, toSender, frames,
                   network, faults>>

EndsAt(n, at) == n \in 1 .. Len(rcv.ends) /\ rcv.ends[n].at = at
WithoutEnd(n) == [rcv EXCEPT !.ends = RemoveAt(@, n)]

\* recoveryStore.load, and the save of a first record begun.
LoadEnds(n) ==
    /\ EndsAt(n, "load")
    /\ CASE store.file = "none" ->
            /\ rcv' = [rcv EXCEPT !.record = "full", !.ends[n].at = "save"]
            /\ store' = [store EXCEPT !.file = "torn"]
            /\ UNCHANGED toSender
         [] store.file = "saved" ->
            /\ rcv' = [rcv EXCEPT !.record = "full", !.committed = store.blocks,
                         !.ends[n] = [at |-> "prepare", existing |-> TRUE]]
            /\ UNCHANGED <<store, toSender>>
         [] store.file = "torn" ->
            /\ ReceiverFails(WithoutEnd(n))
            /\ UNCHANGED store
    /\ UNCHANGED <<calm, snd, chain, work, dest, final, toReceiver, frames, network,
                   faults>>

FirstSaveEnds(n) ==
    /\ EndsAt(n, "save")
    /\ store' = [file |-> "saved", blocks |-> rcv.committed]
    /\ rcv' = [rcv EXCEPT !.ends[n].at = "prepare"]
    /\ UNCHANGED <<calm, snd, chain, work, dest, final, wires, network, faults>>

Good(b) == \A k \in 0 .. FrameCount - 1, p \in 1 .. PieceCount : dest[b][k][p] = "good"

\* destination.prepare refuses a folder that is closed; an existing record is
\* checked against the folder's content, once the files written to have been
\* closed, which a write in progress delays.
PrepareEnds(n) ==
    /\ EndsAt(n, "prepare")
    /\ rcv.ends[n].existing /\ final = "open" => work.step # "write"
    /\ IF final = "open" /\ (rcv.ends[n].existing => \A b \in rcv.committed : Good(b))
       THEN /\ rcv' = [WithoutEnd(n) EXCEPT !.state = "RECEIVING"]
            /\ ToSender(<<[type |-> "have", blocks |-> rcv.committed]>>)
       ELSE ReceiverFails(WithoutEnd(n))
    /\ UNCHANGED <<calm, snd, chain, work, dest, final, store, toReceiver, frames,
                   network, faults>>

\* beginBlock
ReceiverDigest ==
    /\ ReceiverTakes("digest")
    /\ IF rcv.block = NoBlock
       THEN /\ rcv' = [rcv EXCEPT !.block = [index |-> Head(toReceiver).block,
                                             next |-> 0, good |-> TRUE]]
            /\ ToSender(<<About("ready", Head(toReceiver).block)>>)
       ELSE ReceiverFails(rcv)
    /\ UNCHANGED <<calm, snd, chain, work, dest, final, store, frames, network, faults>>

\* A root is built of the digests of all blocks, which both sides have of the
\* source: the receiver cannot build it while a block is missing.
RootMatches(r) == r.committed = Blocks

\* destination.close closes the files of an open folder; of any other it
\* returns at once.
ReceiverRoot ==
    /\ ReceiverTakes("root")
    /\ IF rcv.accepted /\ RootMatches(rcv)
       THEN /\ rcv' = [rcv EXCEPT !.closing = @ + 1]
            /\ final' = IF final = "open" THEN "closing" ELSE final
            /\ UNCHANGED toSender
       ELSE ReceiverFails(rcv) /\ UNCHANGED final
    /\ UNCHANGED <<calm, snd, chain, work, dest, store, frames, network, faults>>

\* The call that closes the files, or one that had nothing to close.
CloseEnds ==
    /\ rcv.closing > 0
    /\ \/ /\ final = "closing" => work.step # "write"
          /\ final' = IF final = "closing" THEN "closed" ELSE final
       \/ rcv.closing > 1 /\ UNCHANGED final
    /\ rcv' = [rcv EXCEPT !.closing = @ - 1, !.state = "DELIVERED"]
    /\ ToSender(<<Of("delivered")>>)
    /\ UNCHANGED <<calm, snd, chain, work, dest, store, toReceiver, frames, network,
                   faults>>

CloseFails ==
    /\ Fault
    /\ rcv.closing > 0
    /\ final = "closing"
    /\ ReceiverFails([rcv EXCEPT !.closing = @ - 1])
    /\ UNCHANGED <<calm, snd, chain, work, dest, final, store, toReceiver, frames,
                   network>>

ReceiverToldFailed ==
    /\ ReceiverTakes("fail")
    /\ rcv.record # "none"
    /\ ReceiverFails(rcv)
    /\ UNCHANGED <<calm, snd, chain, work, dest, final, store, frames, network, faults>>

-----------------------------------------------------------------------------
(* receiveData: one frame at a time.                                         *)

TakeFrame ==
    /\ frames # <<>>
    /\ chain' = Append(chain, Head(frames))
    /\ frames' = Tail(frames)
    /\ UNCHANGED <<calm, snd, rcv, work, dest, final, store, toReceiver, toSender,
                   network, faults>>

Fits(frame) == frame.block = rcv.block.index /\ frame.index = rcv.block.next

Write == [step |-> "write", piece |-> 1, live |-> TRUE, index |-> rcv.block.index,
          saved |-> {}]

\* A frame of another connection, or one that comes before the offer of the
\* current one, is dropped; one that is out of place fails the transfer.
StartFrame ==
    LET frame == Head(chain)
        stranger == frame.reference # rcv.reference
        dropped == IF stranger THEN frame.reference \in rcv.old
                   ELSE rcv.state = "RECONNECTING"
    IN  /\ chain # <<>>
        /\ work = Idle
        /\ IF ~dropped /\ ~stranger /\ Fits(frame) /\ final = "open"
           THEN work' = Write /\ UNCHANGED <<rcv, chain, toSender>>
           ELSE /\ chain' = Tail(chain)
                /\ IF dropped THEN UNCHANGED <<rcv, toSender>> ELSE ReceiverFails(rcv)
                /\ UNCHANGED work
        /\ UNCHANGED <<calm, snd, dest, final, store, toReceiver, frames, network, faults>>

\* The whole content of the source has been there.
Whole(b) == \A k \in 0 .. FrameCount - 1, p \in 1 .. PieceCount :
              dest[b][k][p] \in {"good", "replaced"}

\* writeRange does not ask whether the block has been committed.
Written(b, content) == IF content = "bad" /\ Whole(b) THEN "replaced" ELSE content

\* Faulty: the block is not compared with its digest.
WriteEndsUnchecked ==
    LET frame == Head(chain)
        b == frame.block
    IN  /\ work.step = "write"
        /\ dest' = [dest EXCEPT ![b][frame.index][work.piece] = Written(b, frame.content)]
        /\ rcv' = [rcv EXCEPT !.committed = @ \cup {b}, !.block.next = FrameCount]
        /\ work' = [work EXCEPT !.step = "save", !.saved = rcv.committed \cup {b}]
        /\ UNCHANGED <<calm, snd, chain, final, store, wires, network, faults>>

\* The write of one piece; then the next one, the next frame, or the comparison
\* of the block with its digest.
WriteEnds ==
    LET frame == Head(chain)
        b == frame.block
        good == rcv.block.good /\ frame.content = "good"
        whole == rcv.block.next = FrameCount - 1
    IN  /\ work.step = "write"
        /\ dest' = [dest EXCEPT ![b][frame.index][work.piece] = Written(b, frame.content)]
        /\ \/ /\ ~work.live
              /\ work' = Idle
              /\ chain' = Tail(chain)
              /\ UNCHANGED <<rcv, toSender>>
           \/ /\ work.live /\ work.piece < PieceCount
              /\ work' = [work EXCEPT !.piece = @ + 1]
              /\ UNCHANGED <<rcv, chain, toSender>>
           \/ /\ work.live /\ work.piece = PieceCount /\ ~whole
              /\ rcv' = [rcv EXCEPT !.block.next = @ + 1, !.block.good = good]
              /\ work' = Idle
              /\ chain' = Tail(chain)
              /\ UNCHANGED toSender
           \/ /\ work.live /\ work.piece = PieceCount /\ whole /\ ~good
              /\ rcv' = [rcv EXCEPT !.block = NoBlock]
              /\ ToSender(<<About("nack", b)>>)
              /\ work' = Idle
              /\ chain' = Tail(chain)
           \/ /\ work.live /\ work.piece = PieceCount /\ whole /\ good
              /\ rcv' = [rcv EXCEPT !.committed = @ \cup {b},
                                    !.block.next = @ + 1]
              /\ work' = [work EXCEPT !.step = "save", !.saved = rcv.committed \cup {b}]
              /\ UNCHANGED <<chain, toSender>>
        /\ UNCHANGED <<calm, snd, final, store, toReceiver, frames, network, faults>>

\* Faulty: COMMITTED is sent although the save has failed.
SaveFailsSilently ==
    /\ work.step = "save"
    /\ rcv' = [rcv EXCEPT !.state = "RECEIVING", !.block = NoBlock]
    /\ ToSender(<<About("committed", work.index)>>)
    /\ work' = Idle
    /\ chain' = Tail(chain)
    /\ UNCHANGED <<calm, snd, dest, final, store, toReceiver, frames, network, faults>>

\* The save is over.  Neither the epoch nor the block is compared: a block begun
\* on the next connection is dropped.
SaveEnds ==
    /\ work.step = "save"
    /\ store' = [file |-> "saved", blocks |-> work.saved]
    /\ rcv' = [rcv EXCEPT !.state = "RECEIVING", !.block = NoBlock]
    /\ ToSender(<<About("committed", work.index)>>)
    /\ work' = Idle
    /\ chain' = Tail(chain)
    /\ UNCHANGED <<calm, snd, dest, final, toReceiver, frames, network, faults>>

ProcessingFails ==
    /\ Fault
    /\ work.step # "none"
    /\ ReceiverFails(rcv)
    /\ work' = Idle
    /\ chain' = Tail(chain)
    /\ UNCHANGED <<calm, snd, dest, final, store, toReceiver, frames, network>>

-----------------------------------------------------------------------------
(* The connection and ConnectionCoordinator.                                 *)

\* Moments at which a loss is recovered from: nothing waits for the source, the
\* channel or the recovery store, the receiver knows the manifest or has not
\* seen the offer yet, and the files are not being closed.
Opportune ==
    /\ snd.offers = 0 /\ Current({"check", "read", "drain"}) = {}
    /\ rcv.record # "bare" /\ rcv.ends = <<>> /\ work.step # "save"
    /\ final = "open" /\ rcv.committed # Blocks

Cut ==
    /\ link = "up"
    /\ losses < MaxLosses
    /\ IF calm THEN Opportune ELSE losses < MaxHostile
    /\ losses' = losses + 1
    /\ link' = "cut"
    /\ toReceiver' = <<>>
    /\ toSender' = <<>>
    /\ frames' = <<>>
    /\ UNCHANGED <<calm, snd, receiver, noticed, faults>>

SenderLoses ==
    /\ link = "cut"
    /\ noticed' = TRUE
    /\ snd' = InterruptedSender(snd)
    /\ UNCHANGED <<calm, receiver, wires, link, losses, faults>>

ReceiverLoses ==
    /\ link # "up"
    /\ rcv' = InterruptedReceiver(rcv)
    /\ work' = Unless(rcv' = rcv)
    /\ UNCHANGED <<calm, snd, chain, dest, final, store, wires, network, faults>>

SenderReplaces ==
    /\ link = "cut"
    /\ noticed
    /\ link' = "rebuilt"
    /\ snd' = [snd EXCEPT !.loops = [i \in LoopId |->
                 [snd.loops[i] EXCEPT !.old = (snd.loops[i].pc = "drain")]]]
    /\ UNCHANGED <<calm, receiver, wires, noticed, losses, faults>>

\* Faulty: only the offer made before the channel is open.
NotOffered(s) == s

\* The control channel opens: the sender offers again, under a new reference,
\* if it is RECONNECTING.
Offered(s) ==
    IF s.state = "RECONNECTING"
    THEN [s EXCEPT !.have = {}, !.reference = @ + 1, !.offers = @ + 1] ELSE s

Connect ==
    /\ link = "rebuilt"
    /\ calm => /\ work = Idle
               /\ chain = <<>>
               /\ \A i \in LoopId : snd.loops[i].pc = "none"
    /\ link' = "up"
    /\ noticed' = FALSE
    /\ snd' = Offered(snd)
    /\ UNCHANGED <<calm, receiver, wires, losses, faults>>

SenderFlaps ==
    /\ ~calm
    /\ link = "up"
    /\ losses < MaxLosses
    /\ losses < MaxHostile
    /\ losses' = losses + 1
    /\ snd' = InterruptedSender(snd)
    /\ UNCHANGED <<calm, receiver, wires, link, noticed, faults>>

ReceiverFlaps ==
    /\ ~calm
    /\ link = "up"
    /\ losses < MaxLosses
    /\ losses < MaxHostile
    /\ losses' = losses + 1
    /\ rcv' = InterruptedReceiver(rcv)
    /\ work' = Unless(rcv' = rcv)
    /\ UNCHANGED <<calm, snd, chain, dest, final, store, wires, link, noticed, faults>>

-----------------------------------------------------------------------------

LoopStep(i) ==
    CheckEnds(i) \/ ReadEnds(i) \/ DrainEnds(i) \/ DrainRejects(i)

SenderHandles ==
    \/ SenderAccept \/ SenderHave \/ SenderReady \/ SenderOutcome
    \/ SenderDelivered \/ SenderToldFailed

ReceiverHandles ==
    \/ FirstOffer \/ Reoffer \/ ReofferThrows \/ ReceiverManifest
    \/ ReceiverDigest \/ ReceiverRoot \/ ReceiverToldFailed

ManifestEnd(n) == LoadEnds(n) \/ FirstSaveEnds(n) \/ PrepareEnds(n)
ReceiverProcesses == StartFrame \/ WriteEnds \/ SaveEnds
NetworkRecovers == SenderLoses \/ SenderReplaces \/ Connect

Progress ==
    \/ StartOffer \/ OfferSent \/ Accept
    \/ \E i \in LoopId : LoopStep(i)
    \/ SenderHandles
    \/ ReceiverHandles
    \/ \E n \in 1 .. Len(rcv.ends) : ManifestEnd(n)
    \/ TakeFrame \/ ReceiverProcesses \/ CloseEnds
    \/ NetworkRecovers

Trouble ==
    \/ OfferFails \/ CancelSender \/ CancelReceiver
    \/ \E i \in LoopId : SourceFails(i)
    \/ ProcessingFails \/ CloseFails
    \/ Cut \/ ReceiverLoses \/ SenderFlaps \/ ReceiverFlaps

Next == Progress \/ Trouble

Spec == Init /\ [][Next]_vars

(***************************************************************************)
(* The users offer and accept, awaits end and messages are handled, a lost *)
(* connection is noticed and replaced.  Nothing is assumed of the rest.    *)
(***************************************************************************)
Fairness ==
    /\ WF_vars(StartOffer)
    /\ WF_vars(OfferSent)
    /\ WF_vars(Accept)
    /\ \A i \in LoopId : WF_vars(LoopStep(i))
    /\ WF_vars(SenderHandles)
    /\ WF_vars(ReceiverHandles)
    /\ WF_vars(\E n \in 1 .. Len(rcv.ends) : ManifestEnd(n))
    /\ WF_vars(TakeFrame)
    /\ WF_vars(ReceiverProcesses)
    /\ WF_vars(CloseEnds)
    /\ WF_vars(NetworkRecovers)

FairSpec == Spec /\ Fairness

-----------------------------------------------------------------------------

(***************************************************************************)
(* A folder is DELIVERED, to whichever side, only when every block has     *)
(* been whole: it is the source's, or it was and a changed payload has     *)
(* been written over it later.  Whatever is lost, repeated, saved late or  *)
(* loaded again, no block that was never verified counts as committed.     *)
(***************************************************************************)
DeliveredWasWhole ==
    "DELIVERED" \in {snd.state, rcv.state} => \A b \in Blocks : Whole(b)

(***************************************************************************)
(* DELIVERED only after all blocks are verified and the root matches       *)
(* (docs/M6-IMPLEMENTATION-REPORT.md:20): unless the user has discarded    *)
(* the files, every one of them has the source's content.  It fails: the   *)
(* receiver writes a block that it has committed again, before it compares *)
(* it with its digest, and verifyRoot compares the digests that it keeps.  *)
(***************************************************************************)
DeliveredIsSource ==
    "DELIVERED" \in {snd.state, rcv.state} /\ final # "aborted" =>
        \A b \in Blocks : Good(b)

(***************************************************************************)
(* When connections are lost at opportune moments and nothing else goes    *)
(* wrong, what the sender counts as safe or leaves out the recovery store  *)
(* holds, and what the store holds is in the files: neither a late         *)
(* COMMITTED nor a record that is loaded again loses a block.  (A save or  *)
(* a load that lasts until the next connection is in use can make the      *)
(* record lose one; and a loss while the first assertUnchanged after a     *)
(* reconnection is pending makes the sender forget HAVE: in both cases the *)
(* block is written again.)                                                *)
(***************************************************************************)
KnownIsPersisted ==
    calm => /\ snd.known \cup snd.have \subseteq store.blocks
            /\ \A b \in store.blocks : Good(b)

(***************************************************************************)
(* One run of sendMissing is of the current epoch, and "sending" is on     *)
(* exactly while there is one, however many obsolete runs still wait.      *)
(***************************************************************************)
OneCurrentLoop ==
    LET current == Current({"check", "read", "ready", "drain", "ack"})
    IN  /\ Cardinality(current) <= 1
        /\ snd.sending <=> current # {}

(***************************************************************************)
(* In that case no block that the receiver has confirmed is sent again     *)
(* (committedBlocksRetransmitted is 0).                                    *)
(***************************************************************************)
NoConfirmedBlockResent ==
    calm => \A n \in 1 .. Len(frames) : frames[n].block \notin snd.known

(***************************************************************************)
(* In that case both sides end DELIVERED, and the files are closed.        *)
(***************************************************************************)
CalmLossesAreSurvived ==
    calm ~> [](snd.state = "DELIVERED" /\ rcv.state = "DELIVERED" /\ final = "closed")

(***************************************************************************)
(* DELIVERED requires that the files have been closed, not discarded.      *)
(***************************************************************************)
DeliveredIsClosed ==
    "DELIVERED" \in {snd.state, rcv.state} => final = "closed"

=============================================================================
