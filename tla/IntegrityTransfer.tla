------------------------- MODULE IntegrityTransfer -------------------------
(***************************************************************************)
(* One M5 transfer between two pages: M5IntegritySingleFileTransfer        *)
(* (packages/engine-core/src/m5-integrity-transfer.ts) as sender and as    *)
(* receiver, the peer connection between them, and the recovery of that    *)
(* connection by ConnectionCoordinator (packages/engine-core/src/index.ts) *)
(* as far as the transfer sees it.  Each action is one callback or one     *)
(* stretch of code between two awaits.                                     *)
(*                                                                         *)
(* The sender is the offerer of the session, which in production it        *)
(* always is.  Pages are not reloaded here: a reloaded receiver chooses    *)
(* its destination again and is refused (IntegrityReceiver!OpenRefused).   *)
(***************************************************************************)
EXTENDS M5Receiver, FiniteSets

CONSTANTS
    Source,            \* Source[b] is the content of block b of the file
    Corrupt,           \* a payload that is not the file's
    Faults,            \* the faults configureFault may inject, NoFault for none
    MaxLoops,          \* bound: runs of sendVerifiedMissingBlocks alive at once
    MaxCuts,           \* bound: losses of the peer connection
    MaxFlaps,          \* bound: short disconnects that heal by themselves
    MayCancel,         \* whether the users may cancel
    Backpressure,      \* whether bufferedAmount can reach the high-water mark
    Prompt,            \* whether drains end within 30 s and whatever is pending
                       \* when a connection is lost is over before the next
    DestinationFaults, \* whether writes, saves and the close can fail
    CloseIdempotent    \* whether a destination tolerates a second close

NoFault == [kind |-> "none", block |-> 0, mode |-> "once"]

Fault ==
    [ kind  : {"none", "payload", "expectedDigest", "manifestRoot"},
      block : Blocks \cup {0},
      mode  : {"once", "always"} ]

ASSUME IntegrityTransferAssumption ==
    /\ Source \in [Blocks -> Digest]
    /\ Corrupt \in Payload
    /\ \A b \in Blocks, k \in 1 .. FrameCount : Source[b][k] # Corrupt
    /\ Faults \subseteq Fault
    /\ {MaxLoops, MaxCuts, MaxFlaps} \subseteq Nat
    /\ {MayCancel, Backpressure, Prompt, DestinationFaults, CloseIdempotent}
          \subseteq BOOLEAN

VARIABLES
    snd,        \* the sender's transfer object
    fault,      \* the fault configured on it and not yet used up
    rcv,        \* the receiver's transfer object
    rx,         \* the receiver's M5Receiver
    dest,       \* content of the chosen destination
    final,      \* what became of the destination: "open", "closed", "aborted"
    broken,     \* the destination's stream is errored
    store,      \* the persisted recovery record
    link,       \* "up", "cut", or "rebuilt": a new route is being negotiated
    sOpen,      \* readyState of the sender's current channels is "open"
    rOpen,      \* the same at the receiver
    noticed,    \* the sender's coordinator has scheduled a replacement route
    toReceiver, \* control messages in flight to the receiver
    toSender,   \* control messages in flight to the sender
    frames,     \* data frames in flight to the receiver
    cuts, flaps \* how often the network has failed so far

sender == <<snd, fault>>
disk == <<dest, final, broken, store>>
receiver == <<rcv, rx, disk>>
wires == <<toReceiver, toSender, frames>>
network == <<link, sOpen, rOpen, noticed, cuts, flaps>>
vars == <<sender, receiver, wires, network>>

NoRecord == [file |-> "none", table |-> EmptyTable]
TornRecord == [file |-> "torn", table |-> EmptyTable]
SavedRecord(table) == [file |-> "saved", table |-> table]

-----------------------------------------------------------------------------
(***************************************************************************)
(* A run of sendVerifiedMissingBlocks.  Its program counter is the await   *)
(* it is at: source.read, the READY of the block ("ready"), the drain of   *)
(* the data channel ("wait"), or the outcome of the block ("ack").         *)
(* "stale" is epoch # transportEpoch, "old" that the drain waits on a      *)
(* transport that has since been replaced.                                 *)
(***************************************************************************)
LoopId == 1 .. MaxLoops

Loop ==
    [ pc      : {"none", "read", "ready", "wait", "ack"},
      todo    : SUBSET Blocks,
      frame   : 0 .. FrameCount,
      corrupt : BOOLEAN,
      retries : 0 .. 3,
      stale   : BOOLEAN,
      old     : BOOLEAN ]

NoLoop == [ pc |-> "none", todo |-> {}, frame |-> 0, corrupt |-> FALSE,
            retries |-> 0, stale |-> FALSE, old |-> FALSE ]
NewLoop(missing) == [NoLoop EXCEPT !.pc = "read", !.todo = missing]

Block(loop) == CHOOSE b \in loop.todo : \A c \in loop.todo : b <= c

TransferState ==
    {"IDLE", "READY", "SENDING", "RECEIVING", "RECONNECTING", "TRANSFER_BYTES_COMPLETE",
     "VERIFYING", "DELIVERED", "FAILED", "INTEGRITY_FAILED", "CANCELLED"}

\* "ready" and "ack" name the loop whose promise is in awaitingReady and
\* awaitingBlock, 0 for none; "pages" is pendingPages.
Sender ==
    [ state     : TransferState,
      offered   : BOOLEAN,
      cancelled : BOOLEAN,
      sending   : BOOLEAN,
      pages     : Seq(SUBSET Blocks),
      committed : SUBSET Blocks,
      ready     : LoopId \cup {0},
      ack       : LoopId \cup {0},
      loops     : [LoopId -> Loop] ]

\* "opening" counts the calls of openReceiver that wait for the old receiver
\* to settle, "closing" the calls of destination.close that are pending.
Receiver ==
    [ state     : TransferState,
      offered   : BOOLEAN,
      accepted  : BOOLEAN,
      cancelled : BOOLEAN,
      opening   : Nat,
      closing   : Nat,
      committed : SUBSET Blocks ]

Root == [table : Table, flipped : BOOLEAN]

Control ==
    [type : {"OFFER", "BYTES_COMPLETE", "DELIVERED"}]
      \cup [type : {"HAVE"}, blocks : SUBSET Blocks]
      \cup [type : {"DIGEST"}, block : Blocks, digest : Digest]
      \cup [type : {"READY", "COMMITTED", "NACK"}, block : Blocks]
      \cup [type : {"ROOT", "VERIFIED"}, root : Root]

TypeOK ==
    /\ snd \in Sender
    /\ fault \in Fault
    /\ rcv \in Receiver
    /\ rx \in ReceiverType
    /\ dest \in [Blocks -> [1 .. FrameCount -> Payload \cup {NoPayload}]]
    /\ final \in {"open", "closed", "aborted"}
    /\ broken \in BOOLEAN
    /\ store \in [file : {"none", "torn", "saved"}, table : Table]
    /\ link \in {"up", "cut", "rebuilt"}
    /\ {sOpen, rOpen, noticed} \subseteq BOOLEAN
    /\ toReceiver \in Seq(Control)
    /\ toSender \in Seq(Control)
    /\ frames \in Seq(Frame)
    /\ cuts \in 0 .. MaxCuts
    /\ flaps \in 0 .. MaxFlaps

Init ==
    /\ snd = [ state |-> "IDLE", offered |-> FALSE, cancelled |-> FALSE,
               sending |-> FALSE, pages |-> <<>>, committed |-> {},
               ready |-> 0, ack |-> 0, loops |-> [i \in LoopId |-> NoLoop] ]
    /\ fault \in Faults
    /\ rcv = [ state |-> "IDLE", offered |-> FALSE, accepted |-> FALSE,
               cancelled |-> FALSE, opening |-> 0, closing |-> 0,
               committed |-> {} ]
    /\ rx = NoReceiver
    /\ dest = [b \in Blocks |-> [k \in 1 .. FrameCount |-> NoPayload]]
    /\ final = "open"
    /\ broken = FALSE
    /\ store = NoRecord
    /\ link = "up"
    /\ sOpen = TRUE
    /\ rOpen = TRUE
    /\ noticed = FALSE
    /\ toReceiver = <<>>
    /\ toSender = <<>>
    /\ frames = <<>>
    /\ cuts = 0
    /\ flaps = 0

-----------------------------------------------------------------------------
(* send, fail and transportInterrupted, for either side.                     *)

Interrupted(s) ==
    IF s.state \in {"IDLE", "RECONNECTING", "DELIVERED", "INTEGRITY_FAILED"}
    THEN s
    ELSE [s EXCEPT !.state = "RECONNECTING"]

\* The sender also drops its slots: the loops waiting there end with
\* TRANSPORT_INTERRUPTED, every other loop belongs to an old epoch now.
InterruptedSender(s) ==
    IF Interrupted(s) = s THEN s
    ELSE [Interrupted(s) EXCEPT
             !.sending = FALSE,
             !.ready = 0,
             !.ack = 0,
             !.loops = [i \in LoopId |->
                          IF i \in {s.ready, s.ack} \/ s.loops[i].pc = "none"
                          THEN NoLoop
                          ELSE [s.loops[i] EXCEPT !.stale = TRUE]]]

Failed(s, state) ==
    IF s.state \in {"INTEGRITY_FAILED", "CANCELLED"} THEN s
    ELSE [s EXCEPT !.state = state]

\* A message sent on an open channel arrives unless the connection is lost; on
\* a channel that is not open, sendControl returns false.
ToReceiver(messages) ==
    toReceiver' = IF sOpen /\ link = "up" THEN toReceiver \o messages
                  ELSE toReceiver
ToSender(messages) ==
    toSender' = IF rOpen /\ link = "up" THEN toSender \o messages
                ELSE toSender
Sent(s) == IF sOpen THEN s ELSE InterruptedSender(s)
SentBack(r) == IF rOpen THEN r ELSE Interrupted(r)

Of(type) == [type |-> type]
About(type, block) == [type |-> type, block |-> block]
Rooted(type, root) == [type |-> type, root |-> root]

\* offerMessage, havePages (a record of a few blocks fits one page), and the
\* comparison of a root with the one of a table.
Offer == Of("OFFER")
Have(table) == [type |-> "HAVE", blocks |-> Committed(table)]
RootMatches(root, table) == root = [table |-> table, flipped |-> FALSE]

\* recordCommitted, of either side
Counted(s, b) == [s EXCEPT !.committed = @ \cup {b}]

\* A control message at the head of the channel: the callback of the current
\* transport gives it to the transfer of its protocol version.
Arrived(channel, type) == channel # <<>> /\ Head(channel).type = type

\* consumeFault
Fires(kind, block) == fault.kind = kind /\ fault.block = block
Consumed(kind, block) ==
    IF Fires(kind, block) /\ fault.mode = "once" THEN NoFault ELSE fault

-----------------------------------------------------------------------------
(* The sender.                                                               *)

\* The transfer starts once, on an open channel: select, then offer.
StartOffer ==
    /\ ~snd.offered
    /\ link = "up"
    /\ sOpen
    /\ snd' = [snd EXCEPT !.offered = TRUE, !.state = "READY"]
    /\ ToReceiver(<<Offer>>)
    /\ UNCHANGED <<fault, receiver, toSender, frames, network>>

\* cancel is offered while the transfer has not ended.
CancelSender ==
    /\ MayCancel
    /\ snd.offered
    /\ ~snd.cancelled
    /\ snd.state \notin {"DELIVERED", "FAILED", "INTEGRITY_FAILED"}
    /\ snd' = [snd EXCEPT !.cancelled = TRUE, !.state = "CANCELLED"]
    /\ UNCHANGED <<fault, receiver, wires, network>>

\* A loop that returns or throws runs its finally: sending becomes false.
Ended(s, i) == [s EXCEPT !.loops[i] = NoLoop, !.sending = FALSE]

\* A promise put in a slot replaces the one there: nothing settles that one any
\* more, so its loop never takes another step.
Occupied(s, occupant, i, pc) ==
    LET displaced == IF occupant = 0 THEN s
                     ELSE [s EXCEPT !.loops[occupant] = NoLoop]
    IN  [displaced EXCEPT !.loops[i].pc = pc]
AwaitingReady(s, i) == [Occupied(s, s.ready, i, "ready") EXCEPT !.ready = i]
AwaitingBlock(s, i) == [Occupied(s, s.ack, i, "ack") EXCEPT !.ack = i]

\* The source has been read: its digest is announced.  The epoch is not
\* compared here.
ReadEnds(i) ==
    /\ snd.loops[i].pc = "read"
    /\ LET b == Block(snd.loops[i])
           digest == IF Fires("expectedDigest", b)
                     THEN [Source[b] EXCEPT ![1] = Corrupt]
                     ELSE Source[b]
       IN  /\ fault' = Consumed("expectedDigest", b)
           /\ snd' = AwaitingReady(Sent(snd), i)
           /\ ToReceiver(<<[type |-> "DIGEST", block |-> b, digest |-> digest]>>)
    /\ UNCHANGED <<receiver, toSender, frames, network>>

FrameOf(loop, k) ==
    [ block   |-> Block(loop),
      index   |-> k,
      payload |-> IF loop.corrupt /\ k = 0 THEN Corrupt
                  ELSE Source[Block(loop)][k + 1] ]

\* The frames first .. upto - 1 of the block leave without the loop being
\* suspended; then it waits for the outcome of the block, or finds that its
\* epoch is over, or waits for the channel to drain before the next frame.
Streams(s, i, first, least) ==
    \E upto \in least .. FrameCount :
        /\ s.loops[i].stale => upto = least
        /\ upto = FrameCount \/ s.loops[i].stale \/ Backpressure
        /\ frames' = IF link = "up"
                     THEN frames \o [n \in 1 .. upto - first |->
                                        FrameOf(s.loops[i], first + n - 1)]
                     ELSE frames
        /\ snd' = IF upto = FrameCount THEN AwaitingBlock(s, i)
                  ELSE IF s.loops[i].stale THEN Ended(s, i)
                  ELSE [s EXCEPT !.loops[i].pc = "wait",
                                 !.loops[i].frame = upto]

\* The drain resolves only while the transport it waits on is open.
DrainEnds(i) ==
    /\ snd.loops[i].pc = "wait"
    /\ link = "up"
    /\ sOpen
    /\ ~snd.loops[i].old
    /\ Streams(snd, i, snd.loops[i].frame, snd.loops[i].frame + 1)
    /\ UNCHANGED <<fault, receiver, toReceiver, toSender, network>>

\* It rejects when that transport closes, or after 30 s.  This error is not
\* TRANSPORT_INTERRUPTED, and the loop's catch does not compare the epoch.
DrainRejects(i) ==
    /\ snd.loops[i].pc = "wait"
    /\ ~sOpen \/ snd.loops[i].old \/ ~Prompt
    /\ snd' = Ended(IF snd.cancelled THEN snd ELSE Failed(snd, "FAILED"), i)
    /\ UNCHANGED <<fault, receiver, wires, network>>

SenderTakes(type) ==
    /\ Arrived(toSender, type)
    /\ toSender' = Tail(toSender)

FreeLoop == CHOOSE i \in LoopId : snd.loops[i].pc = "none"

\* The page is only queued when a loop is running or the user has cancelled.
HaveIsQueued ==
    /\ SenderTakes("HAVE")
    /\ snd.sending \/ snd.cancelled
    /\ snd' = [snd EXCEPT !.pages = Append(@, Head(toSender).blocks)]
    /\ UNCHANGED <<fault, receiver, toReceiver, frames, network>>

\* Every HAVE is page 0 (CommittedIsPrefix), so a page left over from an
\* earlier HAVE makes the second one unexpected: FS_INTEGRITY_STATE_INVALID.
HaveIsOutOfPlace ==
    /\ SenderTakes("HAVE")
    /\ ~snd.sending
    /\ ~snd.cancelled
    /\ snd.pages # <<>>
    /\ snd' = Failed([snd EXCEPT !.pages = <<>>], "FAILED")
    /\ UNCHANGED <<fault, receiver, toReceiver, frames, network>>

HaveStartsLoop ==
    /\ SenderTakes("HAVE")
    /\ ~snd.sending
    /\ ~snd.cancelled
    /\ snd.pages = <<>>
    /\ Blocks \ Head(toSender).blocks # {}
    /\ \E i \in LoopId : snd.loops[i].pc = "none"
    /\ snd' = [snd EXCEPT !.state = "SENDING", !.sending = TRUE,
                 !.loops[FreeLoop] = NewLoop(Blocks \ Head(toSender).blocks)]
    /\ UNCHANGED <<fault, receiver, toReceiver, frames, network>>

\* sendManifestRoot, after a message of its own or of the receiver.
RootToSend ==
    Rooted("ROOT", [table |-> Source, flipped |-> Fires("manifestRoot", 0)])
SendsRoot(s) == Sent([Sent(s) EXCEPT !.state = "VERIFYING"])

HaveIsComplete ==
    /\ SenderTakes("HAVE")
    /\ ~snd.sending
    /\ ~snd.cancelled
    /\ snd.pages = <<>>
    /\ Blocks \subseteq Head(toSender).blocks
    /\ snd' = SendsRoot([snd EXCEPT !.state = "TRANSFER_BYTES_COMPLETE"])
    /\ ToReceiver(<<Of("BYTES_COMPLETE"), RootToSend>>)
    /\ fault' = Consumed("manifestRoot", 0)
    /\ UNCHANGED <<receiver, frames, network>>

\* READY: the loop in the slot streams the block, unless it is of an old epoch.
AwaitsReadyOf(b) == snd.ready # 0 /\ Block(snd.loops[snd.ready]) = b

BlockReady ==
    /\ SenderTakes("READY")
    /\ AwaitsReadyOf(Head(toSender).block)
    /\ fault' = Consumed("payload", Head(toSender).block)
    /\ LET corrupt == Fires("payload", Head(toSender).block)
           resumed == [snd EXCEPT !.ready = 0,
                                  !.loops[snd.ready].corrupt = corrupt]
       IN  Streams(resumed, snd.ready, 0, 0)
    /\ UNCHANGED <<receiver, toReceiver, network>>

ReadyIgnored ==
    /\ SenderTakes("READY")
    /\ ~ AwaitsReadyOf(Head(toSender).block)
    /\ UNCHANGED <<sender, receiver, toReceiver, frames, network>>

\* The loop in the slot goes on with "todo": it stops when nothing is left or
\* its epoch is over.
Continues(s, i, todo, retries) ==
    IF todo = {} \/ s.loops[i].stale THEN Ended(s, i)
    ELSE [s EXCEPT !.loops[i] = [NewLoop(todo) EXCEPT !.retries = retries]]

AwaitsOutcomeOf(b) == snd.ack # 0 /\ Block(snd.loops[snd.ack]) = b

\* COMMITTED: counted whether or not a loop waits for it.
BlockCommitted ==
    /\ SenderTakes("COMMITTED")
    /\ LET b == Head(toSender).block
           counted == Counted(snd, b)
       IN  snd' = IF AwaitsOutcomeOf(b)
                  THEN Continues([counted EXCEPT !.ack = 0], snd.ack,
                                 snd.loops[snd.ack].todo \ {b}, 0)
                  ELSE counted
    /\ UNCHANGED <<fault, receiver, toReceiver, frames, network>>

\* NACK: the block is sent again, three times at most.
BlockNacked ==
    /\ SenderTakes("NACK")
    /\ AwaitsOutcomeOf(Head(toSender).block)
    /\ LET loop == snd.loops[snd.ack]
           cleared == [snd EXCEPT !.ack = 0]
       IN  snd' = IF loop.retries = 3
                  THEN Ended(Failed(cleared, "INTEGRITY_FAILED"), snd.ack)
                  ELSE Continues(cleared, snd.ack, loop.todo, loop.retries + 1)
    /\ UNCHANGED <<fault, receiver, toReceiver, frames, network>>

NackIgnored ==
    /\ SenderTakes("NACK")
    /\ ~ AwaitsOutcomeOf(Head(toSender).block)
    /\ UNCHANGED <<sender, receiver, toReceiver, frames, network>>

SenderBytesComplete ==
    /\ SenderTakes("BYTES_COMPLETE")
    /\ snd' = Sent([snd EXCEPT !.state = "VERIFYING"])
    /\ ToReceiver(<<RootToSend>>)
    /\ fault' = Consumed("manifestRoot", 0)
    /\ UNCHANGED <<receiver, frames, network>>

\* The sender has no receiver: FS_MANIFEST_INVALID.
SenderRoot ==
    /\ SenderTakes("ROOT")
    /\ snd' = Failed(snd, "FAILED")
    /\ UNCHANGED <<fault, receiver, toReceiver, frames, network>>

\* MANIFEST_VERIFIED: the state is set after the send, so a failed send does
\* not leave RECONNECTING behind.
SenderVerified ==
    /\ SenderTakes("VERIFIED")
    /\ LET matches == RootMatches(Head(toSender).root, Source)
       IN  /\ snd' = IF matches THEN [Sent(snd) EXCEPT !.state = "DELIVERED"]
                     ELSE Failed(snd, "INTEGRITY_FAILED")
           /\ ToReceiver(IF matches THEN <<Of("DELIVERED")>> ELSE <<>>)
    /\ UNCHANGED <<fault, receiver, frames, network>>

-----------------------------------------------------------------------------
(* The receiver.                                                             *)

ReceiverTakes(type) ==
    /\ Arrived(toReceiver, type)
    /\ toReceiver' = Tail(toReceiver)

\* Before the user has accepted an offer is only shown; afterwards it reopens.
TakeOffer ==
    /\ ReceiverTakes("OFFER")
    /\ rcv' = [rcv EXCEPT !.offered = TRUE,
                          !.state = IF rcv.offered THEN @ ELSE "READY",
                          !.opening = IF rcv.accepted THEN @ + 1 ELSE @]
    /\ UNCHANGED <<sender, rx, disk, toSender, frames, network>>

Accept ==
    /\ rcv.offered
    /\ ~rcv.accepted
    /\ ~rcv.cancelled
    /\ rcv' = [rcv EXCEPT !.accepted = TRUE, !.opening = @ + 1]
    /\ UNCHANGED <<sender, rx, disk, wires, network>>

\* cancel aborts the destination of an accepted transfer; a close already in
\* flight goes on.
CancelReceiver ==
    /\ MayCancel
    /\ rcv.offered
    /\ ~rcv.cancelled
    /\ rcv.state \notin {"DELIVERED", "FAILED", "INTEGRITY_FAILED"}
    /\ rcv' = [rcv EXCEPT !.cancelled = TRUE, !.state = "CANCELLED"]
    /\ LET aborts == rcv.accepted /\ rcv.closing = 0
       IN  /\ final' = IF aborts /\ final = "open" THEN "aborted" ELSE final
           /\ broken' = (broken \/ aborts)
    /\ UNCHANGED <<sender, rx, dest, store, wires, network>>

\* Faulty: openReceiver does not wait for the receiver at hand.
OpenedOverlapping(table) ==
    /\ rcv.opening > 0
    /\ rx' = NewReceiver(table)
    /\ rcv' = [SentBack(rcv) EXCEPT !.opening = rcv.opening - 1,
                                    !.state = "RECEIVING",
                                    !.committed = Committed(table)]
    /\ ToSender(<<Have(table)>>)
    /\ UNCHANGED <<sender, dest, final, broken, toReceiver, frames, network>>

\* openReceiver, once the receiver at hand has settled.  The new receiver
\* starts from the store, and HAVE says what it will not ask for.
Opened(table) ==
    /\ rcv.opening > 0
    /\ Settled(rx)
    /\ rx' = NewReceiver(table)
    /\ rcv' = [SentBack(rcv) EXCEPT !.opening = rcv.opening - 1,
                                    !.state = "RECEIVING",
                                    !.committed = Committed(table)]
    /\ ToSender(<<Have(table)>>)
    /\ UNCHANGED <<sender, dest, final, broken, toReceiver, frames, network>>

OpenFresh ==
    /\ store.file = "none"
    /\ store' = SavedRecord(EmptyTable)
    /\ Opened(EmptyTable)

\* Faulty: the record found in the store is not used.
OpenResumedFromScratch ==
    /\ store.file = "saved"
    /\ UNCHANGED store
    /\ Opened(EmptyTable)

OpenResumed ==
    /\ store.file = "saved"
    /\ UNCHANGED store
    /\ Opened(store.table)

\* load or save rejects: no receiver is put in place of the one at hand.  A first
\* save that rejects leaves an empty file behind, which every load throws on.
OpenFails ==
    /\ rcv.opening > 0
    /\ Settled(rx)
    /\ DestinationFaults \/ store.file = "torn"
    /\ store' \in {store, IF store.file = "none" THEN TornRecord ELSE store}
    /\ rcv' = Failed([rcv EXCEPT !.opening = @ - 1], "FAILED")
    /\ UNCHANGED <<sender, rx, dest, final, broken, wires, network>>

\* DIGEST.  Without a receiver the READY is sent all the same.
TakeDigest ==
    /\ ReceiverTakes("DIGEST")
    /\ LET m == Head(toReceiver)
           refuses == rx.step # "none" /\ ~ AcceptsDigest(rx, m.block)
       IN  /\ rx' = IF rx.step = "none" \/ refuses THEN rx
                    ELSE WithDigest(rx, m.digest)
           /\ rcv' = IF refuses THEN Failed(rcv, "FAILED") ELSE SentBack(rcv)
           /\ ToSender(IF refuses THEN <<>> ELSE <<About("READY", m.block)>>)
    /\ UNCHANGED <<sender, disk, frames, network>>

TakesFrames ==
    rx.step # "none" /\ rcv.state # "INTEGRITY_FAILED" /\ ~rcv.cancelled

FrameArrived == frames # <<>>

TakeFrame ==
    /\ FrameArrived
    /\ frames' = Tail(frames)
    /\ rx' = IF TakesFrames THEN Queued(rx, Head(frames)) ELSE rx
    /\ UNCHANGED <<sender, rcv, disk, toReceiver, toSender, network>>

StartWrite ==
    /\ rx.step = "idle"
    /\ rx.queue # <<>>
    /\ AcceptsFrame(rx, Head(rx.queue))
    /\ rx' = Hashed(rx)
    /\ UNCHANGED <<sender, rcv, disk, wires, network>>

RejectFrame ==
    /\ rx.step = "idle"
    /\ rx.queue # <<>>
    /\ ~ AcceptsFrame(rx, Head(rx.queue))
    /\ rx' = Dropped(rx)
    /\ rcv' = Failed(rcv, "FAILED")
    /\ UNCHANGED <<sender, disk, wires, network>>

WriteLands ==
    /\ rx.step = "writing"
    /\ ~broken
    /\ dest' = [dest EXCEPT ![rx.next][rx.pos + 1] = Head(rx.queue).payload]
    /\ UNCHANGED <<sender, final, broken, store, toReceiver, frames, network>>

WriteWithinBlock ==
    /\ WriteLands
    /\ ~ EndsBlock(rx)
    /\ rx' = Advanced(rx)
    /\ UNCHANGED <<rcv, toSender>>

WriteThenNack ==
    /\ WriteLands
    /\ EndsBlock(rx)
    /\ ~ Verifies(rx)
    /\ rx' = Nacked(rx)
    /\ rcv' = SentBack(rcv)
    /\ ToSender(<<About("NACK", rx.next)>>)

\* Faulty: COMMITTED is sent before the record is saved.
CommitsBeforeSave ==
    /\ WriteLands
    /\ EndsBlock(rx)
    /\ Verifies(rx)
    /\ rx' = Verified(rx, rx.hash)
    /\ rcv' = SentBack(Counted(rcv, rx.next))
    /\ ToSender(<<About("COMMITTED", rx.next)>>)

WriteThenVerify ==
    /\ WriteLands
    /\ EndsBlock(rx)
    /\ Verifies(rx)
    /\ rx' = Verified(rx, rx.hash)
    /\ UNCHANGED <<rcv, toSender>>

WriteFails ==
    /\ rx.step = "writing"
    /\ DestinationFaults \/ broken
    /\ broken' = TRUE
    /\ rx' = Dropped(rx)
    /\ rcv' = Failed(rcv, "FAILED")
    /\ UNCHANGED <<sender, dest, final, store, wires, network>>

\* onCommitted after the save: COMMITTED, and BYTES_COMPLETE after the last.
SaveEnds ==
    /\ rx.step = "saving"
    /\ store' = SavedRecord(rx.table)
    /\ rx' = Saved(rx)
    /\ LET counted == Counted(rcv, rx.next)
           complete == counted.committed = Blocks
       IN  /\ rcv' = SentBack(IF complete
                              THEN [counted EXCEPT
                                      !.state = "TRANSFER_BYTES_COMPLETE"]
                              ELSE counted)
           /\ ToSender(<<About("COMMITTED", rx.next)>> \o
                       IF complete THEN <<Of("BYTES_COMPLETE")>> ELSE <<>>)
    /\ UNCHANGED <<sender, dest, final, broken, toReceiver, frames, network>>

SaveFails ==
    /\ DestinationFaults
    /\ rx.step = "saving"
    /\ rx' = Dropped(rx)
    /\ rcv' = Failed(rcv, "FAILED")
    /\ UNCHANGED <<sender, disk, wires, network>>

\* BYTES_COMPLETE, which the sender sends when HAVE left nothing to do, runs
\* sendManifestRoot on this side too.
ReceiverBytesComplete ==
    /\ ReceiverTakes("BYTES_COMPLETE")
    /\ rcv' = SentBack([rcv EXCEPT !.state = "VERIFYING"])
    /\ ToSender(<<Rooted("ROOT", [table |-> rx.table, flipped |-> FALSE])>>)
    /\ UNCHANGED <<sender, rx, disk, frames, network>>

\* MANIFEST_ROOT: the comparison, then destination.close.  A writable stream
\* that is closed, closing or errored refuses a close.
RefusesClose ==
    \/ broken
    \/ ~CloseIdempotent /\ (final = "closed" \/ rcv.closing > 0)

\* Faulty: MANIFEST_VERIFIED does not wait for the close.
VerifiedBeforeClose ==
    /\ ReceiverTakes("ROOT")
    /\ rcv.committed = Blocks
    /\ RootMatches(Head(toReceiver).root, rx.table)
    /\ rcv' = SentBack([rcv EXCEPT !.state = "VERIFYING", !.closing = @ + 1])
    /\ ToSender(<<Rooted("VERIFIED", Head(toReceiver).root)>>)
    /\ UNCHANGED <<sender, rx, disk, frames, network>>

ReceiverRoot ==
    /\ ReceiverTakes("ROOT")
    /\ rcv' = IF rx.step = "none" \/ rcv.committed # Blocks
              THEN Failed(rcv, "FAILED")
              ELSE IF ~RootMatches(Head(toReceiver).root, rx.table)
              THEN Failed([rcv EXCEPT !.state = "VERIFYING"], "INTEGRITY_FAILED")
              ELSE IF RefusesClose
              THEN Failed([rcv EXCEPT !.state = "VERIFYING"], "FAILED")
              ELSE [rcv EXCEPT !.state = "VERIFYING", !.closing = @ + 1]
    /\ UNCHANGED <<sender, rx, disk, toSender, frames, network>>

\* MANIFEST_VERIFIED is sent, then the state is set whatever the send did.
CloseEnds ==
    /\ rcv.closing > 0
    /\ ~broken
    /\ final' = "closed"
    /\ rcv' = [SentBack(rcv) EXCEPT !.closing = rcv.closing - 1,
                                    !.state = "DELIVERED"]
    /\ ToSender(<<Rooted("VERIFIED", [table |-> rx.table, flipped |-> FALSE])>>)
    /\ UNCHANGED <<sender, rx, dest, broken, store, toReceiver, frames, network>>

\* Faulty: a close that rejects is taken for one that succeeds.
CloseFailsSilently ==
    /\ rcv.closing > 0
    /\ DestinationFaults \/ broken
    /\ broken' = TRUE
    /\ rcv' = [SentBack(rcv) EXCEPT !.closing = rcv.closing - 1,
                                    !.state = "DELIVERED"]
    /\ ToSender(<<Rooted("VERIFIED", [table |-> rx.table, flipped |-> FALSE])>>)
    /\ UNCHANGED <<sender, rx, dest, final, store, toReceiver, frames, network>>

CloseFails ==
    /\ rcv.closing > 0
    /\ DestinationFaults \/ broken
    /\ broken' = TRUE
    /\ rcv' = Failed([rcv EXCEPT !.closing = @ - 1], "FAILED")
    /\ UNCHANGED <<sender, rx, dest, final, store, wires, network>>

\* DELIVERED means something only in VERIFIED, which the receiver never rests in.
TakeDelivered ==
    /\ ReceiverTakes("DELIVERED")
    /\ UNCHANGED <<sender, receiver, toSender, frames, network>>

-----------------------------------------------------------------------------
(* The peer connection and ConnectionCoordinator.                            *)

\* From here on nothing in flight arrives; nobody has been told yet.
Cut ==
    /\ link = "up"
    /\ cuts < MaxCuts
    /\ cuts' = cuts + 1
    /\ link' = "cut"
    /\ toReceiver' = <<>>
    /\ toSender' = <<>>
    /\ frames' = <<>>
    /\ UNCHANGED <<sender, receiver, sOpen, rOpen, noticed, flaps>>

\* The peer connection reports disconnected, failed or closed: the transfer is
\* interrupted and, on the offerer's side, a replacement is scheduled.
SenderLoses ==
    /\ link = "cut"
    /\ ~noticed
    /\ noticed' = TRUE
    /\ snd' = InterruptedSender(snd)
    /\ UNCHANGED <<fault, receiver, wires, link, sOpen, rOpen, cuts, flaps>>

ReceiverLoses ==
    /\ link # "up"
    /\ rcv' = Interrupted(rcv)
    /\ UNCHANGED <<sender, rx, disk, wires, network>>

SenderChannelCloses ==
    /\ link = "cut"
    /\ sOpen' = FALSE
    /\ UNCHANGED <<sender, receiver, wires, link, rOpen, noticed, cuts, flaps>>

ReceiverChannelCloses ==
    /\ link # "up"
    /\ rOpen' = FALSE
    /\ UNCHANGED <<sender, receiver, wires, link, sOpen, noticed, cuts, flaps>>

\* startRouteReplacement: the old transport is closed, the new one is handed to
\* the transfer, which offers on it at once: its channel is not open yet.
SenderReplaces ==
    /\ link = "cut"
    /\ noticed
    /\ link' = "rebuilt"
    /\ sOpen' = FALSE
    /\ LET s == IF snd.cancelled THEN snd ELSE InterruptedSender(snd)
       IN  snd' = [s EXCEPT !.loops = [i \in LoopId |->
                     [s.loops[i] EXCEPT !.old = (s.loops[i].pc = "wait")]]]
    /\ UNCHANGED <<fault, receiver, wires, rOpen, noticed, cuts, flaps>>

\* Reads of the source, drains of the old channel, frames the receiver has not
\* processed, its openings, closes of the destination, the user's answer.
NothingPending ==
    /\ \A i \in LoopId : snd.loops[i].pc \notin {"read", "wait"}
    /\ Settled(rx) /\ rcv.opening = 0 /\ rcv.closing = 0
    /\ rcv.offered => rcv.accepted \/ rcv.cancelled

\* The new channels open; the sender offers again if it is RECONNECTING.
Connect ==
    /\ link = "rebuilt"
    /\ Prompt => NothingPending
    /\ link' = "up"
    /\ sOpen' = TRUE
    /\ rOpen' = TRUE
    /\ noticed' = FALSE
    /\ toReceiver' = IF snd.state = "RECONNECTING" /\ ~snd.cancelled
                     THEN <<Offer>> ELSE <<>>
    /\ UNCHANGED <<sender, receiver, toSender, frames, cuts, flaps>>

\* The peer connection reports disconnected and, within the grace period,
\* connected again: the scheduled replacement is cleared.
SenderFlaps ==
    /\ link = "up"
    /\ flaps < MaxFlaps
    /\ flaps' = flaps + 1
    /\ snd' = InterruptedSender(snd)
    /\ UNCHANGED <<fault, receiver, wires, link, sOpen, rOpen, noticed, cuts>>

ReceiverFlaps ==
    /\ link = "up"
    /\ flaps < MaxFlaps
    /\ flaps' = flaps + 1
    /\ rcv' = Interrupted(rcv)
    /\ UNCHANGED <<sender, rx, disk, wires, link, sOpen, rOpen, noticed, cuts>>

-----------------------------------------------------------------------------

Users == StartOffer \/ Accept
Cancels == CancelSender \/ CancelReceiver

LoopStep(i) == ReadEnds(i) \/ DrainEnds(i) \/ DrainRejects(i)

SenderHandles ==
    \/ HaveIsQueued \/ HaveIsOutOfPlace \/ HaveStartsLoop \/ HaveIsComplete
    \/ BlockReady \/ ReadyIgnored \/ BlockCommitted \/ BlockNacked \/ NackIgnored
    \/ SenderBytesComplete \/ SenderRoot \/ SenderVerified

ReceiverHandles ==
    \/ TakeOffer \/ TakeDigest \/ ReceiverBytesComplete \/ ReceiverRoot
    \/ TakeDelivered

ReceiverOpens == OpenFresh \/ OpenResumed \/ OpenFails

ReceiverProcesses ==
    \/ StartWrite \/ RejectFrame
    \/ WriteWithinBlock \/ WriteThenNack \/ WriteThenVerify \/ WriteFails
    \/ SaveEnds \/ SaveFails

ReceiverCloses == CloseEnds \/ CloseFails

NetworkFails ==
    \/ Cut \/ ReceiverLoses \/ SenderChannelCloses \/ ReceiverChannelCloses
    \/ SenderFlaps \/ ReceiverFlaps

NetworkRecovers == SenderLoses \/ SenderReplaces \/ Connect

Next ==
    \/ Users \/ Cancels
    \/ \E i \in LoopId : LoopStep(i)
    \/ SenderHandles
    \/ ReceiverHandles \/ TakeFrame
    \/ ReceiverOpens \/ ReceiverProcesses \/ ReceiverCloses
    \/ NetworkFails \/ NetworkRecovers

Spec == Init /\ [][Next]_vars

(***************************************************************************)
(* The users offer and accept, callbacks and awaits are eventually served, *)
(* a lost connection is eventually noticed and replaced.  Nothing is       *)
(* assumed about failures and cancels.                                     *)
(***************************************************************************)
Fairness ==
    /\ WF_vars(StartOffer)
    /\ WF_vars(Accept)
    /\ \A i \in LoopId : WF_vars(LoopStep(i))
    /\ WF_vars(SenderHandles)
    /\ WF_vars(ReceiverHandles)
    /\ WF_vars(TakeFrame)
    /\ WF_vars(ReceiverOpens)
    /\ WF_vars(ReceiverProcesses)
    /\ WF_vars(ReceiverCloses)
    /\ WF_vars(NetworkRecovers)

FairSpec == Spec /\ Fairness

-----------------------------------------------------------------------------

(***************************************************************************)
(* The transfer implements VerifiedDelivery: M5's promise that DELIVERED   *)
(* requires verified persisted blocks, a matching root and a successful    *)
(* close of the destination.                                               *)
(***************************************************************************)
Promise ==
    INSTANCE VerifiedDelivery WITH
        safe      <- Committed(store.table),
        finalized <- final = "closed",
        delivered <- snd.state = "DELIVERED"

ImplementsPromise == Promise!FairSpec

(***************************************************************************)
(* Seen from the receiver's side alone, the transfer is IntegrityReceiver  *)
(* with an environment that behaves as this sender and this network do:    *)
(* what is proved of IntegrityReceiver holds of the transfer.              *)
(***************************************************************************)
StoredRecord ==
    [ destination |-> CASE store.file = "saved" -> 0
                        [] store.file = "none"  -> -1
                        [] store.file = "torn"  -> -2,
      table       |-> store.table ]

ReceiverSide ==
    INSTANCE IntegrityReceiver WITH
        destId       <- 0,
        refused      <- FALSE,
        store        <- StoredRecord,
        QueueLengths <- Nat,
        HashLengths  <- Nat,
        MaxReloads   <- 0

ImplementsReceiver == ReceiverSide!Spec

(***************************************************************************)
(* A file handed over is the file sent: once the destination has been      *)
(* closed its content is the source, and a side that reports DELIVERED     *)
(* does so after it has been closed.                                       *)
(***************************************************************************)
DeliveredIsSource ==
    /\ final = "closed" => dest = Source
    /\ "DELIVERED" \in {snd.state, rcv.state} => final = "closed"

(***************************************************************************)
(* No digest but the source's is ever persisted: neither a payload changed *)
(* on the way, nor a wrong announcement, nor a digest that an obsolete     *)
(* loop announces late, makes a block count.                               *)
(***************************************************************************)
StoredDigestsAreSource ==
    \A b \in Committed(store.table) : store.table[b] = Source[b]

(***************************************************************************)
(* Neither side counts as safe a block that the recovery store does not    *)
(* hold, whatever COMMITTED or HAVE was lost, late or repeated.            *)
(***************************************************************************)
SafeBytesAreStored ==
    snd.committed \cup rcv.committed \subseteq Committed(store.table)

(***************************************************************************)
(* What a side shows as safe never becomes less: neither a reconnection    *)
(* nor a failed save takes back a block it has reported (recordCommitted,  *)
(* and the recount of openReceiver from the store).                        *)
(***************************************************************************)
SafeNeverShrinks ==
    [][/\ snd.committed \subseteq snd'.committed
       /\ rcv.committed \subseteq rcv'.committed]_vars

(***************************************************************************)
(* A committed block is not sent again: no frame of one is in flight, with *)
(* any number of reconnections and obsolete loops.                         *)
(***************************************************************************)
NoCommittedBlockResent ==
    \A n \in 1 .. Len(frames) : frames[n].block \notin Committed(store.table)

(***************************************************************************)
(* At most one run of sendVerifiedMissingBlocks belongs to the current     *)
(* transport epoch, and "sending" is on exactly while there is one: the    *)
(* flag that keeps a second HAVE from starting a second run is right.  So  *)
(* it is where Prompt holds.  It is not where a read outlasts two          *)
(* reconnections: the finally of that obsolete run takes the flag from the *)
(* current one.                                                            *)
(***************************************************************************)
OneCurrentLoop ==
    LET current == {i \in LoopId : /\ snd.loops[i].pc # "none"
                                   /\ ~snd.loops[i].stale}
    IN  /\ Cardinality(current) <= 1
        /\ snd.sending <=> current # {}

(***************************************************************************)
(* When connections are lost at worst at an awkward moment and nothing     *)
(* else goes wrong, both sides end DELIVERED.                              *)
(***************************************************************************)
BothDeliver == <>[](snd.state = "DELIVERED" /\ rcv.state = "DELIVERED")

(***************************************************************************)
(* A sender that shows RECONNECTING does not do so for ever.  After a      *)
(* disconnect that heals it does.                                          *)
(***************************************************************************)
ReconnectingEnds == snd.state = "RECONNECTING" ~> snd.state # "RECONNECTING"

(***************************************************************************)
(* The loss of a connection does not turn the sender FAILED.               *)
(***************************************************************************)
LossIsRecoverable ==
    [][link # "up" /\ snd.state # "FAILED" => snd'.state # "FAILED"]_vars

(***************************************************************************)
(* Where nothing but connections is lost, the sender is never FAILED.      *)
(***************************************************************************)
LossesDoNotFail == snd.state # "FAILED"

(***************************************************************************)
(* A sender that has DELIVERED shows every block as safe, as the receiver  *)
(* has persisted every block.                                              *)
(***************************************************************************)
DeliveredShowsAllSafe == snd.state = "DELIVERED" => snd.committed = Blocks

(***************************************************************************)
(* A sender that has FAILED does not go on to DELIVERED.                   *)
(***************************************************************************)
FailedStaysFailed ==
    [][snd.state = "FAILED" => snd'.state # "DELIVERED"]_vars

(***************************************************************************)
(* A receiver that has reported DELIVERED does not report FAILED later.    *)
(***************************************************************************)
DeliveredStaysDelivered ==
    [](rcv.state = "DELIVERED" => [](rcv.state # "FAILED"))

=============================================================================
