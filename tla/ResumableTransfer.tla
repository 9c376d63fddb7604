-------------------------- MODULE ResumableTransfer --------------------------
(***************************************************************************)
(* The second protocol of engine-core: one file in blocks of frames, whose *)
(* receiver keeps a record of the blocks it has persisted and answers each *)
(* offer with it (ResumableSingleFileTransfer of resumable-transfer.ts,    *)
(* with the receiver and sender of m4-transfer.ts and the checkpoint of    *)
(* recovery.ts).  The connection may be lost and replaced; the transfer    *)
(* objects of both sides live on.                                          *)
(*                                                                         *)
(* Frames are numbered through the file.  A frame written is the source's, *)
(* so the destination is the set of frames it holds.  Metrics, continuity  *)
(* counts and mismatching offers are left out; a map fits in one page.     *)
(***************************************************************************)
EXTENDS Integers, FiniteSetsExt, SequencesExt

CONSTANTS
    Size,           \* frames of the file
    BlockFrames,    \* frames of a block, but for the last
    CalmLosses,     \* connections lost in a calm behaviour
    MaxLosses,      \* connections lost and offers repeated in any other
    MaxTroubles     \* pauses, cancellations and failing reads, writes, saves, loads, closes

VARIABLES
    calm,               \* connections are lost at opportune moments, and nothing else fails
    sender, receiver,   \* the two transfers
    loops,              \* sendMissingBlocks of each map, with what it awaits
    openings,           \* the calls of openReceiverAndSendHave
    objects,            \* the M4ResumableReceivers; the receiver's is `current`
    store,              \* the record in the recovery store
    destination,
    offers,             \* offers on their way
    repeated,           \* offers made again on one connection, for the bounds
    toSender, data,     \* the control channel and the data channel
    link, connected,    \* the transports so far, and whether the last one is open
    told,               \* the sides that have been told of a loss
    troubles            \* for the bounds

resumableVars == <<calm, sender, receiver, loops, openings, objects, store, destination, offers,
                   repeated, toSender, data, link, connected, told, troubles>>
sending == <<sender, loops>>
receiving == <<receiver, openings, objects, store, destination>>
network == <<link, connected, told>>
bounds == <<calm, troubles, repeated>>

Blocks == 0 .. (Size + BlockFrames - 1) \div BlockFrames - 1
BlockOf(frame) == frame \div BlockFrames
FramesOf(blocks) == {frame \in 0 .. Size - 1 : BlockOf(frame) \in blocks}
NoRecord == [exists |-> FALSE, blocks |-> {}]
Over == [pc |-> "over", epoch |-> 0, link |-> 0, todo |-> <<>>]

ResumableInit ==
    /\ calm \in BOOLEAN
    /\ sender = [state |-> "READY", epoch |-> 0, sending |-> FALSE, paused |-> FALSE,
                 cancelled |-> FALSE, pending |-> 0, committed |-> {}]
    /\ receiver = [state |-> "IDLE", paused |-> FALSE, accepted |-> FALSE, current |-> 0,
                   committed |-> {}]
    /\ loops = <<>> /\ openings = <<>> /\ objects = <<>>
    /\ store = NoRecord
    /\ destination = [state |-> "open", frames |-> {}]
    /\ offers = 1 /\ toSender = <<>> /\ data = <<>>
    /\ link = 1 /\ connected = TRUE /\ told = {}
    /\ troubles = 0 /\ repeated = 0

Trouble == troubles < MaxTroubles /\ troubles' = troubles + 1 /\ UNCHANGED <<calm, repeated>>
Fault == ~calm /\ Trouble

(* transportInterrupted *)
Interrupted(s) ==
    IF s.state \in {"TRANSFER_BYTES_COMPLETE", "RECONNECTING"} THEN s
    ELSE [s EXCEPT !.epoch = @ + 1, !.pending = 0, !.sending = FALSE, !.state = "RECONNECTING"]

ReceiverInterrupted(r) ==
    IF r.state \in {"IDLE", "TRANSFER_BYTES_COMPLETE"} THEN r
    ELSE [r EXCEPT !.state = "RECONNECTING"]

(* fail *)
Failed(r) == IF r.state = "CANCELLED" THEN r ELSE [r EXCEPT !.state = "FAILED"]

----------------------------------------------------------------------------
(* sendMissingBlocks and its callback, from one await to the next *)
LoopsBecome(i, loop) == loops' = [loops EXCEPT ![i] = loop]

(* finally *)
Finishes(i) ==
    /\ sender' = [sender EXCEPT !.sending = FALSE] /\ LoopsBecome(i, Over) /\ UNCHANGED data

(* catch: the loop of an earlier connection interrupts the present one *)
Throws(i) ==
    /\ sender' = [(IF sender.cancelled THEN sender ELSE Interrupted(sender))
                     EXCEPT !.sending = FALSE]
    /\ LoopsBecome(i, Over) /\ UNCHANGED data

Sends(i) ==
    /\ data' = Append(data, Head(loops[i].todo))
    /\ IF Len(loops[i].todo) = 1
       THEN sender' = [sender EXCEPT !.sending = FALSE] /\ LoopsBecome(i, Over)
       ELSE UNCHANGED sender /\ LoopsBecome(i, [loops[i] EXCEPT !.pc = "reading",
                                                                !.todo = Tail(@)])

(* waitForBufferedAmountLow of the transport of now, and sendData *)
WaitsForBuffer(i) ==
    \/ ~connected /\ Throws(i)
    \/ connected /\ Sends(i)
    \/ /\ connected /\ LoopsBecome(i, [loops[i] EXCEPT !.pc = "buffer", !.link = link])
       /\ UNCHANGED <<sender, data>>

OfLoops == UNCHANGED <<receiving, offers, toSender, network>>

ReadEnds(i) ==
    /\ loops[i].pc = "reading" /\ OfLoops /\ UNCHANGED bounds
    /\ \/ (sender.cancelled \/ loops[i].epoch # sender.epoch) /\ Throws(i)
       \/ /\ ~sender.cancelled /\ loops[i].epoch = sender.epoch
          /\ \/ ~sender.paused /\ WaitsForBuffer(i)
             \/ /\ sender.paused /\ LoopsBecome(i, [loops[i] EXCEPT !.pc = "paused"])
                /\ UNCHANGED <<sender, data>>

ReadFails(i) ==
    /\ loops[i].pc = "reading" /\ Fault /\ Throws(i) /\ OfLoops

(* Only resume wakes a paused loop, and it looks at no epoch again *)
PauseEnds(i) ==
    /\ loops[i].pc = "paused" /\ ~sender.paused
    /\ WaitsForBuffer(i) /\ OfLoops /\ UNCHANGED bounds

BufferDrains(i) ==
    /\ loops[i].pc = "buffer" /\ connected /\ loops[i].link = link
    /\ Sends(i) /\ OfLoops /\ UNCHANGED bounds

ChannelCloses(i) ==
    /\ loops[i].pc = "buffer" /\ ~(connected /\ loops[i].link = link)
    /\ Throws(i) /\ OfLoops /\ UNCHANGED bounds

(* reconcile *)
Missing(have) == Blocks \ have

(* sendReconciledBlocks: a page kept from before makes the map end twice *)
TakesMap(have) ==
    LET todo == SetToSortSeq(FramesOf(Missing(have)), <) IN
    IF sender.sending \/ sender.cancelled
    THEN sender' = [sender EXCEPT !.pending = @ + 1] /\ UNCHANGED loops
    ELSE IF sender.pending > 0
    THEN sender' = [Interrupted(sender) EXCEPT !.pending = 0] /\ UNCHANGED loops
    ELSE /\ sender' = [sender EXCEPT !.state = "SENDING", !.sending = todo # <<>>]
         /\ loops' = IF todo = <<>> THEN loops
                     ELSE Append(loops, [pc |-> "reading", epoch |-> sender.epoch, link |-> 0,
                                         todo |-> todo])

SenderHandlesControl ==
    /\ toSender # <<>> /\ toSender' = Tail(toSender)
    /\ LET m == Head(toSender) IN
       \/ m.type = "HAVE_BLOCKS" /\ TakesMap(m.blocks)
       \/ /\ m.type = "BLOCK_COMMITTED" /\ UNCHANGED loops
          /\ sender' = [sender EXCEPT !.committed = @ \cup m.blocks]
       \/ /\ m.type = "BYTES_COMPLETE" /\ UNCHANGED loops
          /\ sender' = [sender EXCEPT !.committed = Blocks, !.state = "TRANSFER_BYTES_COMPLETE"]
    /\ UNCHANGED <<receiving, offers, data, network, bounds>>

----------------------------------------------------------------------------
(* The receiver speaks; a closed channel interrupts it *)
Says(r, type, blocks) ==
    /\ receiver' = IF connected THEN r ELSE ReceiverInterrupted(r)
    /\ toSender' = IF connected THEN Append(toSender, [type |-> type, blocks |-> blocks])
                   ELSE toSender

(* M4ResumableReceiver: the next missing block is the least *)
NextOf(record) == CHOOSE b \in Missing(record) : \A c \in Missing(record) : b <= c

(* Faulty: a resumed receiver expects the file from its beginning *)
FirstFrameAnew(record) == 0

FirstFrame(record) == IF Missing(record) = {} THEN Size ELSE NextOf(record) * BlockFrames

(* `finished` counts what settle awaits *)
NewObject(record) ==
    [record |-> record, expected |-> FirstFrame(record), pc |-> "writing", queue |-> <<>>,
     finished |-> 0]

FrameDone(object) ==
    [object EXCEPT !.queue = Tail(@), !.finished = @ + 1, !.pc = "writing"]

(* openReceiverAndSendHave: settles the receiver of the moment *)
NewOpening ==
    [pc |-> "loading", of |-> receiver.current,
     until |-> IF receiver.current = 0 THEN 0
               ELSE LET o == objects[receiver.current] IN o.finished + Len(o.queue)]

OfOpenings == UNCHANGED <<sending, destination, offers, data, network>>

Opened(k, record) ==
    /\ objects' = Append(objects, NewObject(record))
    /\ Says([receiver EXCEPT !.current = Len(objects) + 1, !.state = "RECEIVING"],
            "HAVE_BLOCKS", record)
    /\ openings' = [openings EXCEPT ![k].pc = "over"]

Settled(opening) ==
    opening.of # 0 => objects[opening.of].finished >= opening.until

LoadEnds(k) ==
    /\ openings[k].pc = "loading" /\ Settled(openings[k])
    /\ \/ store.exists /\ Opened(k, store.blocks)
       \/ /\ ~store.exists /\ openings' = [openings EXCEPT ![k].pc = "saving"]
          /\ UNCHANGED <<receiver, objects, toSender>>
    /\ OfOpenings /\ UNCHANGED <<store, bounds>>

NewRecordSaved(k) ==
    /\ openings[k].pc = "saving"
    /\ store' = [exists |-> TRUE, blocks |-> {}] /\ Opened(k, {})
    /\ OfOpenings /\ UNCHANGED bounds

OpeningFails(k) ==
    /\ openings[k].pc # "over" /\ Fault
    /\ openings' = [openings EXCEPT ![k].pc = "over"] /\ receiver' = Failed(receiver)
    /\ OfOpenings /\ UNCHANGED <<objects, store, toSender>>

ReceiverTakesOffer ==
    /\ offers > 0 /\ offers' = offers - 1
    /\ receiver' = [receiver EXCEPT !.state = IF @ = "IDLE" THEN "READY" ELSE @]
    /\ openings' = IF receiver.accepted THEN Append(openings, NewOpening) ELSE openings
    /\ UNCHANGED <<sending, objects, store, destination, toSender, data, network, bounds>>

Accept ==
    /\ receiver.state = "READY" /\ ~receiver.accepted
    /\ receiver' = [receiver EXCEPT !.accepted = TRUE]
    /\ openings' = Append(openings, NewOpening)
    /\ UNCHANGED <<sending, objects, store, destination, offers, toSender, data, network, bounds>>

FrameArrives ==
    /\ data # <<>> /\ data' = Tail(data)
    /\ objects' = IF receiver.current = 0 \/ receiver.state \in {"CANCELLED", "RECONNECTING"}
                  THEN objects
                  ELSE [objects EXCEPT ![receiver.current].queue = Append(@, Head(data))]
    /\ UNCHANGED <<sending, receiver, openings, store, destination, offers, toSender, network,
                   bounds>>

----------------------------------------------------------------------------
(* processReceive of the object o, whose frame is the first of its queue *)
AtWork(o, pc) == objects[o].queue # <<>> /\ objects[o].pc = pc
Block(o) == NextOf(objects[o].record)
BlockEnd(o) == Min({(Block(o) + 1) * BlockFrames, Size})
Accepts(o) ==
    /\ Head(objects[o].queue) = objects[o].expected
    /\ Missing(objects[o].record) # {} /\ objects[o].expected < BlockEnd(o)

OfObjects == UNCHANGED <<sending, openings, offers, data, network>>

RejectFrame(o) ==
    /\ AtWork(o, "writing") /\ ~Accepts(o)
    /\ objects' = [objects EXCEPT ![o] = FrameDone(@)] /\ receiver' = Failed(receiver)
    /\ OfObjects /\ UNCHANGED <<store, destination, toSender, bounds>>

WriteEnds(o) ==
    /\ AtWork(o, "writing") /\ Accepts(o) /\ destination.state = "open"
    /\ destination' = [destination EXCEPT !.frames = @ \cup {objects[o].expected}]
    /\ LET written == [objects[o] EXCEPT !.expected = @ + 1] IN
       objects' = [objects EXCEPT ![o] = IF written.expected # BlockEnd(o) THEN FrameDone(written)
                                         ELSE [written EXCEPT !.pc = "saving"]]
    /\ OfObjects /\ UNCHANGED <<receiver, store, toSender, bounds>>

(* Faulty: a write that is rejected counts as one that ended *)
WriteFailsSilently(o) ==
    /\ AtWork(o, "writing") /\ Accepts(o)
    /\ Fault \/ (destination.state # "open" /\ UNCHANGED bounds)
    /\ LET written == [objects[o] EXCEPT !.expected = @ + 1] IN
       objects' = [objects EXCEPT ![o] = IF written.expected # BlockEnd(o) THEN FrameDone(written)
                                         ELSE [written EXCEPT !.pc = "saving"]]
    /\ OfObjects /\ UNCHANGED <<receiver, store, destination, toSender>>

WriteFails(o) ==
    /\ AtWork(o, "writing") /\ Accepts(o)
    /\ Fault \/ (destination.state # "open" /\ UNCHANGED bounds)
    /\ objects' = [objects EXCEPT ![o] = FrameDone(@)] /\ receiver' = Failed(receiver)
    /\ OfObjects /\ UNCHANGED <<store, destination, toSender>>

(* commitBlockAndCreateAcknowledgement and onBlockCommitted *)
Acknowledges(o) ==
    LET r == [receiver EXCEPT !.committed = @ \cup {Block(o)}]
        object == [objects[o] EXCEPT !.record = @ \cup {Block(o)},
                                     !.expected = FirstFrame(objects[o].record \cup {Block(o)})]
    IN  /\ Says(r, "BLOCK_COMMITTED", {Block(o)})
        /\ objects' = [objects EXCEPT ![o] = IF r.committed = Blocks
                                             THEN [object EXCEPT !.pc = "closing"]
                                             ELSE FrameDone(object)]

SaveEnds(o) ==
    /\ AtWork(o, "saving") /\ Acknowledges(o)
    /\ store' = [exists |-> TRUE, blocks |-> objects[o].record \cup {Block(o)}]
    /\ OfObjects /\ UNCHANGED <<destination, bounds>>

(* Faulty: the acknowledgement is sent whether or not the save ended *)
SaveFailsSilently(o) ==
    /\ AtWork(o, "saving") /\ Fault /\ Acknowledges(o)
    /\ OfObjects /\ UNCHANGED <<store, destination>>

SaveFails(o) ==
    /\ AtWork(o, "saving") /\ Fault
    /\ objects' = [objects EXCEPT ![o] = FrameDone(@)] /\ receiver' = Failed(receiver)
    /\ OfObjects /\ UNCHANGED <<store, destination, toSender>>

CloseEnds(o) ==
    /\ AtWork(o, "closing") /\ destination.state = "open"
    /\ destination' = [destination EXCEPT !.state = "closed"]
    /\ objects' = [objects EXCEPT ![o] = FrameDone(@)]
    /\ Says([receiver EXCEPT !.state = "TRANSFER_BYTES_COMPLETE"], "BYTES_COMPLETE", Blocks)
    /\ OfObjects /\ UNCHANGED <<store, bounds>>

CloseFails(o) ==
    /\ AtWork(o, "closing")
    /\ Fault \/ (destination.state # "open" /\ UNCHANGED bounds)
    /\ objects' = [objects EXCEPT ![o] = FrameDone(@)] /\ receiver' = Failed(receiver)
    /\ OfObjects /\ UNCHANGED <<store, destination, toSender>>

----------------------------------------------------------------------------
(* The users.  A cancellation leaves who is paused asleep. *)
OfUsers == UNCHANGED <<loops, openings, objects, store, offers, toSender, data, network>>

SenderPauses ==
    /\ sender.state = "SENDING" /\ Trouble /\ OfUsers /\ UNCHANGED <<receiver, destination>>
    /\ sender' = [sender EXCEPT !.paused = TRUE, !.state = "PAUSED"]

SenderResumes ==
    /\ sender.paused /\ OfUsers /\ UNCHANGED <<receiver, destination, bounds>>
    /\ sender' = [sender EXCEPT !.paused = FALSE, !.state = "SENDING"]

SenderCancels ==
    /\ ~sender.cancelled /\ Fault /\ OfUsers /\ UNCHANGED <<receiver, destination>>
    /\ sender' = [sender EXCEPT !.cancelled = TRUE, !.state = "CANCELLED"]

ReceiverPauses ==
    /\ receiver.state = "RECEIVING" /\ Trouble /\ OfUsers /\ UNCHANGED <<sender, destination>>
    /\ receiver' = [receiver EXCEPT !.paused = TRUE, !.state = "PAUSED"]

ReceiverResumes ==
    /\ receiver.paused /\ OfUsers /\ UNCHANGED <<sender, destination, bounds>>
    /\ receiver' = [receiver EXCEPT !.paused = FALSE, !.state = "RECEIVING"]

(* A close that is under way goes on *)
ReceiverCancels ==
    /\ receiver.state \notin {"IDLE", "CANCELLED"} /\ Fault /\ OfUsers /\ UNCHANGED sender
    /\ receiver' = [receiver EXCEPT !.state = "CANCELLED"]
    /\ destination' =
           IF receiver.accepted /\ destination.state = "open"
                 /\ \A o \in DOMAIN objects : objects[o].pc # "closing"
           THEN [destination EXCEPT !.state = "aborted"] ELSE destination

----------------------------------------------------------------------------
(* The connection.  In a calm behaviour it is not lost before the receiver *)
(* has accepted nor after the last frame has arrived, and the new one is   *)
(* up when all that the old one left behind has ended.                     *)
LastFrameArrived ==
    \/ Size - 1 \in destination.frames
    \/ \E o \in DOMAIN objects : Contains(objects[o].queue, Size - 1)

ConnectionLost ==
    /\ connected /\ link + repeated <= (IF calm THEN CalmLosses ELSE MaxLosses)
    /\ calm => receiver.accepted /\ ~LastFrameArrived
    /\ connected' = FALSE /\ told' = {} /\ UNCHANGED link
    /\ offers' = 0 /\ toSender' = <<>> /\ data' = <<>>
    /\ UNCHANGED <<sending, receiving, bounds>>

SenderTold ==
    /\ ~connected /\ "sender" \notin told /\ told' = told \cup {"sender"}
    /\ sender' = Interrupted(sender)
    /\ UNCHANGED <<loops, receiving, offers, toSender, data, link, connected, bounds>>

ReceiverTold ==
    /\ ~connected /\ "receiver" \notin told /\ told' = told \cup {"receiver"}
    /\ receiver' = ReceiverInterrupted(receiver)
    /\ UNCHANGED <<sending, openings, objects, store, destination, offers, toSender, data, link,
                   connected, bounds>>

OpeningsEnded == \A k \in DOMAIN openings : openings[k].pc = "over"

AllEnded ==
    /\ OpeningsEnded
    /\ \A i \in DOMAIN loops : loops[i].pc = "over"
    /\ \A o \in DOMAIN objects : objects[o].queue = <<>>

(* replaceTransport: the sender offers *)
TransportReplaced ==
    /\ ~connected /\ told = {"sender", "receiver"}
    /\ calm => AllEnded
    /\ connected' = TRUE /\ link' = link + 1 /\ UNCHANGED told
    /\ offers' = IF sender.state = "CANCELLED" THEN 0 ELSE 1
    /\ UNCHANGED <<sending, receiving, toSender, data, bounds>>

(* offer, called again on the same connection *)
OfferedAgain ==
    /\ connected /\ sender.state # "CANCELLED"
    /\ ~calm /\ link + repeated <= MaxLosses
    /\ offers' = offers + 1 /\ repeated' = repeated + 1
    /\ UNCHANGED <<sending, receiving, toSender, data, network, calm, troubles>>

LoopGoesOn(i) == ReadEnds(i) \/ PauseEnds(i) \/ BufferDrains(i) \/ ChannelCloses(i)
OpeningGoesOn(k) == LoadEnds(k) \/ NewRecordSaved(k)
ObjectGoesOn(o) == RejectFrame(o) \/ WriteEnds(o) \/ SaveEnds(o) \/ CloseEnds(o)

ResumableNext ==
    \/ \E i \in DOMAIN loops : LoopGoesOn(i) \/ ReadFails(i)
    \/ \E k \in DOMAIN openings : OpeningGoesOn(k) \/ OpeningFails(k)
    \/ \E o \in DOMAIN objects : ObjectGoesOn(o) \/ WriteFails(o) \/ SaveFails(o) \/ CloseFails(o)
    \/ SenderHandlesControl \/ ReceiverTakesOffer \/ Accept \/ FrameArrives
    \/ SenderPauses \/ SenderResumes \/ SenderCancels
    \/ ReceiverPauses \/ ReceiverResumes \/ ReceiverCancels
    \/ ConnectionLost \/ SenderTold \/ ReceiverTold \/ TransportReplaced \/ OfferedAgain

(* What has been called settles, messages arrive, losses are told and      *)
(* repaired, and who is paused resumes.  No behaviour comes back to a      *)
(* state it has left, so that to be fair to all of it is to be fair to     *)
(* each.                                                                   *)
ResumableSettles ==
    \/ \E i \in DOMAIN loops : LoopGoesOn(i)
    \/ \E k \in DOMAIN openings : OpeningGoesOn(k)
    \/ \E o \in DOMAIN objects : ObjectGoesOn(o)
    \/ SenderHandlesControl \/ ReceiverTakesOffer \/ FrameArrives
    \/ SenderResumes \/ ReceiverResumes
    \/ SenderTold \/ ReceiverTold \/ TransportReplaced

ResumableFairness == WF_resumableVars(ResumableSettles)

----------------------------------------------------------------------------
(* A side that shows TRANSFER_BYTES_COMPLETE has the whole file in a       *)
(* closed destination, whatever failed, was lost, repeated or cancelled    *)
(* before (onBlockCommitted, TRANSFER_BYTES_COMPLETE).                     *)
CompletedIsWhole ==
    "TRANSFER_BYTES_COMPLETE" \in {sender.state, receiver.state} =>
        destination = [state |-> "closed", frames |-> 0 .. Size - 1]

(* Every frame of a block that the sender shows as safe or that the record *)
(* counts has been written, whatever failed and however many openings,     *)
(* repeated offers and receivers of earlier connections overlap            *)
(* (processReceive, commitBlockAndCreateAcknowledgement).                  *)
SafeIsWritten ==
    FramesOf(sender.committed \cup store.blocks) \subseteq destination.frames

(* What the sender shows as safe is in the record of the receiver: "The    *)
(* receiver sends this only after each block has been written and          *)
(* checkpointed" (handleControl).  It fails: of two openings that overlap  *)
(* each goes on from the record as it found it, and the one that stores    *)
(* last forgets the blocks of the other (openReceiverAndSendHave).         *)
SafeIsPersisted == sender.committed \subseteq store.blocks

(* After a loss at an opportune moment no frame of a block that the        *)
(* receiver has persisted is sent to it: the new connection carries what   *)
(* was missing, in order (reconcile, M4ResumableReceiver.open).            *)
NoPersistedBlockResent ==
    calm => \A i \in DOMAIN data : BlockOf(data[i]) \notin store.blocks

(* A transfer that is accepted is written, closed and shown to be safe,    *)
(* however many connections it loses at opportune moments                  *)
(* (transportInterrupted, replaceTransport, handleResumeOffer,             *)
(* sendReconciledBlocks).                                                  *)
CalmTransferCompletes ==
    (calm /\ receiver.accepted) ~> (sender.committed = Blocks /\ destination.state = "closed")
=============================================================================
