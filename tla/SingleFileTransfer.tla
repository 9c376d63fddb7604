------------------------- MODULE SingleFileTransfer -------------------------
(***************************************************************************)
(* The first protocol of engine-core: one file in frames, without recovery *)
(* (SingleFileTransfer of transfer.ts, over the channels of WebRtc-        *)
(* Transport).  A sender and a receiver of the class exchange control      *)
(* messages and frames on two channels, each ordered, neither ordered with *)
(* the other.  The sender's loop awaits reads, the receiver's window, the  *)
(* end of a pause and the channel's buffer; the receiver's drain awaits    *)
(* writes and the close; handlers of messages and calls of the user run in *)
(* between.                                                                *)
(*                                                                         *)
(* All frames are of one size, the unit of every count of bytes.  Metrics  *)
(* and the pacing of snapshots are left out.                               *)
(***************************************************************************)
EXTENDS Integers, FiniteSets, SequencesExt

CONSTANTS
    FileSizes,      \* the sizes of files, in frames
    SizesAnew,      \* the sizes with which a second file is selected
    Window,         \* receiveWindowBytes
    Batch,          \* writeBatchBytes
    HighWater,      \* sendHighWaterBytes
    LowWater,       \* sendLowWaterBytes
    MaxSelections,  \* files selected one after the other
    MaxPauses,      \* calls of pause() in a behaviour that selects one file
    MaxTroubles     \* cancellations and failures in a behaviour that selects one file

ASSUME SingleFileAssumption ==
    /\ {LowWater, MaxPauses, MaxTroubles} \subseteq Nat
    /\ {Window, Batch, HighWater, MaxSelections} \subseteq Nat \ {0}
    /\ LowWater <= HighWater
    /\ SizesAnew \subseteq FileSizes /\ FileSizes \subseteq Nat

VARIABLES
    frames,                 \* the size of the files of this behaviour
    sender, receiver,       \* the two transfers
    loops,                  \* the sendFile of each file, with what it awaits
    drain,                  \* the receiver's drainWriteQueue
    closing,                \* the finalizations that await the close
    files,                  \* the destination of each file
    toReceiver, toSender,   \* the control channel
    data, buffered,         \* the data channel, its last `buffered` frames not sent yet
    connected,
    pauses, troubles       \* for the bounds

singleVars == <<frames, sender, receiver, loops, drain, closing, files, toReceiver, toSender, data,
                buffered, connected, pauses, troubles>>
receiving == <<receiver, drain, closing, files>>

Files == 1 .. MaxSelections
None == 0
NoFinish == [bytes |-> -1, sha256 |-> <<>>]
Idle == [pc |-> "idle", batch |-> <<>>, destination |-> None]

(* What a file holds: each frame by its file and offset *)
SourceOf(f) == [i \in 1 .. frames |-> <<f, i - 1>>]

----------------------------------------------------------------------------
(* resetTransfer leaves neither the destination nor a hash behind *)
NewSender(f) ==
    [id |-> f, state |-> IF f = None THEN "IDLE" ELSE "READY", sent |-> 0, cancelled |-> FALSE,
     paused |-> FALSE, before |-> "IDLE", written |-> 0, window |-> 0, reads |-> None, next |-> 0,
     sourceHash |-> <<>>, flowWaiters |-> {}, pauseWaiters |-> {}, offered |-> FALSE]

NewReceiver(f, destination, hash, aborting) ==
    [id |-> f, state |-> IF f = None THEN "IDLE" ELSE "READY", transferred |-> 0,
     cancelled |-> FALSE, paused |-> FALSE, before |-> "IDLE", expected |-> 0, queue |-> <<>>,
     inFlight |-> 0, finish |-> NoFinish, destination |-> destination, hash |-> hash,
     aborting |-> aborting]

NoLoop(f) == [of |-> f, pc |-> "over", frame |-> <<>>, ahead |-> None]

SingleInit ==
    /\ frames \in FileSizes
    /\ sender = NewSender(None)
    /\ receiver = NewReceiver(None, None, <<>>, FALSE)
    /\ loops = [f \in Files |-> NoLoop(f)]
    /\ drain = Idle /\ closing = {}
    /\ files = [f \in Files |-> [state |-> "none", contents |-> <<>>]]
    /\ toReceiver = <<>> /\ toSender = <<>> /\ data = <<>> /\ buffered = 0
    /\ connected = TRUE
    /\ pauses = 0 /\ troubles = 0

(* A step of a side: the side, what it says, and what else it pauses *)
OfSender == [s |-> sender, out |-> <<>>, data |-> data, buffered |-> buffered]
OfReceiver == [r |-> receiver, out |-> <<>>, drain |-> drain, closing |-> closing, files |-> files]

(* What cancel, a TRANSFER_CANCEL and fail have in common *)
Ceased(s) == [s EXCEPT !.cancelled = TRUE, !.flowWaiters = {}, !.pauseWaiters = {}]

(* destination.abort(): a close that is under way goes on *)
Aborted(dest, f) ==
    IF f # None /\ dest[f].state = "open" THEN [dest EXCEPT ![f].state = "aborted"] ELSE dest

(* fail *)
SenderFails(x) ==
    IF x.s.state \in {"FAILED", "CANCELLED"} THEN x
    ELSE [x EXCEPT !.s = [Ceased(@) EXCEPT !.state = "FAILED"],
                   !.out = Append(@, [type |-> "FAIL", id |-> x.s.id])]

Emptied(r) == [r EXCEPT !.cancelled = TRUE, !.queue = <<>>, !.inFlight = 0]

ReceiverFails(x) ==
    IF x.r.state \in {"FAILED", "CANCELLED"} THEN x
    ELSE [x EXCEPT !.r = [Emptied(@) EXCEPT !.state = "FAILED"],
                   !.files = Aborted(@, x.r.destination),
                   !.out = Append(@, [type |-> "FAIL", id |-> x.r.id])]

(* send: a closed channel fails the transfer *)
SenderSays(x, m) ==
    IF connected THEN [x EXCEPT !.out = Append(@, m)] ELSE SenderFails(x)
ReceiverSays(x, m) ==
    IF connected THEN [x EXCEPT !.out = Append(@, m)] ELSE ReceiverFails(x)

SenderBecomes(x) ==
    /\ sender' = x.s /\ data' = x.data /\ buffered' = x.buffered
    /\ toReceiver' = IF connected THEN toReceiver \o x.out ELSE toReceiver
    /\ UNCHANGED <<receiving, connected>>

ReceiverBecomes(x) ==
    /\ receiver' = x.r /\ drain' = x.drain /\ closing' = x.closing /\ files' = x.files
    /\ toSender' = IF connected THEN toSender \o x.out ELSE toSender
    /\ UNCHANGED <<sender, loops, data, buffered, connected>>

----------------------------------------------------------------------------
APause == sender.id <= 1 /\ pauses < MaxPauses /\ pauses' = pauses + 1
Trouble == sender.id <= 1 /\ troubles < MaxTroubles /\ troubles' = troubles + 1

(* sendFile, from one await to the next, of the loop x.loop.  A loop of an *)
(* earlier file uses the fields of the present one.                        *)
Waits(x, pc) == [x EXCEPT !.loop.pc = pc]

(* finally: the reads of the present file go with the loop *)
Ends(x) == [x EXCEPT !.loop = NoLoop(x.loop.of), !.s.reads = None]

(* catch *)
Throws(x) == Ends(IF x.s.cancelled THEN x ELSE SenderFails(x))

Finishes(x) ==
    Ends(SenderSays([x EXCEPT !.s.state = "FINALIZING"],
                    [type |-> "FINISH", id |-> x.loop.of, bytes |-> x.s.sent,
                     sha256 |-> x.s.sourceHash]))

(* The head of the loop: waitUntilRunnable, readAhead.next *)
NextRead(x) ==
    IF x.s.cancelled THEN Ends(x)
    ELSE IF x.s.paused THEN Waits([x EXCEPT !.s.pauseWaiters = @ \cup {x.loop.of}], "head")
    ELSE IF x.s.reads = None THEN Throws(x)
    ELSE IF x.s.next >= frames THEN Finishes(x)
    ELSE Waits([x EXCEPT !.loop.ahead = x.s.reads, !.loop.frame = <<x.s.reads, x.s.next>>],
               "reading")

(* A cancelled loop that comes here sends its frame all the same *)
SendsFrame(x) ==
    IF ~connected THEN Throws(x)
    ELSE NextRead([x EXCEPT
             !.data = Append(@, [ref |-> x.s.id, offset |-> x.loop.frame[2],
                                 payload |-> x.loop.frame]),
             !.buffered = @ + 1, !.s.sent = @ + 1,
             !.s.sourceHash = Append(@, x.loop.frame)])

WaitForBufferedAmountLow(x) ==
    IF ~connected THEN Throws(x)
    ELSE IF x.buffered < HighWater THEN SendsFrame(x) ELSE Waits(x, "buffer")

WaitUntilRunnable(x) ==
    IF x.s.paused /\ ~x.s.cancelled
    THEN Waits([x EXCEPT !.s.pauseWaiters = @ \cup {x.loop.of}], "paused")
    ELSE WaitForBufferedAmountLow(x)

HasRoom(s, frame) == frame[2] + 1 <= s.written + s.window

WaitForReceiveWindow(x) ==
    IF x.s.cancelled \/ HasRoom(x.s, x.loop.frame) THEN WaitUntilRunnable(x)
    ELSE Waits([x EXCEPT !.s.flowWaiters = @ \cup {x.loop.of}], "window")

OfLoop(f) ==
    [s |-> sender, out |-> <<>>, data |-> data, buffered |-> buffered, loop |-> loops[f]]

LoopBecomes(f, x) ==
    /\ SenderBecomes(x) /\ loops' = [loops EXCEPT ![f] = x.loop]
    /\ UNCHANGED <<toSender, pauses>>

(* What a loop awaits has come, or failed *)
ReadEnds(f) ==
    /\ loops[f].pc = "reading" /\ UNCHANGED troubles
    /\ LET x == OfLoop(f)
           read == [x EXCEPT !.s.next = IF x.s.reads = x.loop.ahead THEN @ + 1 ELSE @]
       IN  LoopBecomes(f, IF sender.cancelled THEN Ends(read) ELSE WaitForReceiveWindow(read))

WindowOpens(f) ==
    /\ loops[f].pc = "window" /\ f \notin sender.flowWaiters /\ UNCHANGED troubles
    /\ LoopBecomes(f, WaitForReceiveWindow(OfLoop(f)))

PauseEnds(f) ==
    /\ loops[f].pc \in {"head", "paused"} /\ f \notin sender.pauseWaiters /\ UNCHANGED troubles
    /\ LoopBecomes(f, IF loops[f].pc = "head" THEN NextRead(OfLoop(f))
                      ELSE WaitUntilRunnable(OfLoop(f)))

BufferDrains(f) ==
    /\ loops[f].pc = "buffer" /\ buffered <= LowWater /\ connected /\ UNCHANGED troubles
    /\ LoopBecomes(f, SendsFrame(OfLoop(f)))

ChannelIsClosed(f) ==
    /\ loops[f].pc = "buffer" /\ ~connected /\ UNCHANGED troubles
    /\ LoopBecomes(f, Throws(OfLoop(f)))

ReadFails(f) == loops[f].pc = "reading" /\ Trouble /\ LoopBecomes(f, Throws(OfLoop(f)))

BackpressureTimesOut(f) ==
    /\ loops[f].pc = "buffer" /\ connected /\ Trouble
    /\ LoopBecomes(f, Throws(OfLoop(f)))

----------------------------------------------------------------------------
(* The sender: what its user calls and what it hears *)
Select(f) ==
    /\ f = sender.id + 1
    /\ f > 1 => frames \in SizesAnew /\ pauses = 0 /\ troubles = 0
    /\ SenderBecomes([OfSender EXCEPT !.s = NewSender(f)])
    /\ UNCHANGED <<loops, toSender, pauses, troubles>>

(* offer, called once for a file *)
Offer ==
    /\ sender.state = "READY" /\ ~sender.offered
    /\ SenderBecomes(SenderSays([OfSender EXCEPT !.s.offered = TRUE],
                                [type |-> "OFFER", id |-> sender.id]))
    /\ UNCHANGED <<loops, toSender, pauses, troubles>>

(* cancel: the state is CANCELLED also when the message cannot be sent *)
SenderCancels ==
    /\ sender.id # None /\ sender.state # "CANCELLED" /\ Trouble
    /\ LET x == SenderSays([OfSender EXCEPT !.s = Ceased(@)], [type |-> "CANCEL", id |-> sender.id])
       IN  SenderBecomes([x EXCEPT !.s.state = "CANCELLED"])
    /\ UNCHANGED <<loops, toSender, pauses>>

CanPause(p) == p.state \in {"SENDING", "RECEIVING"}
Paused(p) == [p EXCEPT !.paused = TRUE, !.before = p.state, !.state = "PAUSED"]

SenderPauses ==
    /\ CanPause(sender) /\ APause
    /\ SenderBecomes(SenderSays([OfSender EXCEPT !.s = Paused(@)],
                                [type |-> "PAUSE", id |-> sender.id]))
    /\ UNCHANGED <<loops, toSender, troubles>>

SenderResumed(s) == [s EXCEPT !.paused = FALSE, !.state = s.before, !.pauseWaiters = {}]

SenderResumes ==
    /\ sender.paused /\ sender.id # None
    /\ SenderBecomes(SenderSays([OfSender EXCEPT !.s = SenderResumed(@)],
                                [type |-> "RESUME", id |-> sender.id]))
    /\ UNCHANGED <<loops, toSender, pauses, troubles>>

(* TRANSFER_ACCEPT and the start of sendFile, cancelled or not *)
StartsToSend(window) ==
    LET started == [sender EXCEPT !.window = window, !.written = 0, !.sourceHash = <<>>,
                                  !.reads = sender.id, !.next = 0, !.state = "SENDING"]
    IN  NextRead(SenderSays([OfLoop(sender.id) EXCEPT !.s = started],
                            [type |-> "START", id |-> sender.id]))

(* Faulty: the loop that waits for room is not told of it *)
FlowUnheard(x, m) ==
    IF m.written < x.s.written \/ m.written > frames THEN SenderFails(x)
    ELSE [x EXCEPT !.s.written = m.written, !.s.window = m.window]

FlowControl(x, m) ==
    IF m.written < x.s.written \/ m.written > frames THEN SenderFails(x)
    ELSE [x EXCEPT !.s.written = m.written, !.s.window = m.window, !.s.flowWaiters = {}]

(* processControl of a sender, but for TRANSFER_ACCEPT *)
SenderHears(x, m) ==
    IF m.id # x.s.id THEN SenderFails(x)
    ELSE CASE m.type = "FLOW"   -> FlowControl(x, m)
           [] m.type = "PAUSE"  -> IF x.s.paused \/ ~CanPause(x.s) THEN x
                                   ELSE [x EXCEPT !.s = Paused(@)]
           [] m.type = "RESUME" -> IF x.s.paused THEN [x EXCEPT !.s = SenderResumed(@)] ELSE x
           [] m.type = "VERIFY_OK" -> [x EXCEPT !.s.state = "COMPLETED"]
           [] m.type = "CANCEL" -> [x EXCEPT !.s = [Ceased(@) EXCEPT !.state = "CANCELLED"]]
           [] m.type = "FAIL"   -> SenderFails(x)

SenderHandlesControl ==
    /\ toSender # <<>> /\ toSender' = Tail(toSender)
    /\ LET m == Head(toSender)
       IN  IF m.type = "ACCEPT" /\ m.id = sender.id
           THEN LET x == StartsToSend(m.window)
                IN  SenderBecomes(x) /\ loops' = [loops EXCEPT ![m.id] = x.loop]
           ELSE SenderBecomes(SenderHears(OfSender, m)) /\ UNCHANGED loops
    /\ UNCHANGED <<pauses, troubles>>

----------------------------------------------------------------------------
(* The receiver: finalizeReceiverIfReady, up to the close; `by` says who   *)
(* awaits it, the drain or the handler of TRANSFER_FINISH                  *)
QueueBytes(r) == Len(r.queue) + r.inFlight

(* Faulty: the digests are not compared *)
MatchesInSize(r) == r.transferred = frames

Matches(r) == r.transferred = frames /\ r.finish.sha256 = r.hash

Finalizes(x, by) ==
    LET r == x.r
    IN  IF r.finish = NoFinish \/ r.destination = None THEN x
        ELSE IF r.finish.bytes < r.transferred THEN ReceiverFails(x)
        ELSE IF r.finish.bytes # r.transferred \/ QueueBytes(r) > 0 THEN x
        ELSE IF ~Matches(r) THEN ReceiverFails(x)
        ELSE IF x.files[r.destination].state # "open" THEN ReceiverFails(x)
        ELSE [x EXCEPT !.closing = @ \cup {[id |-> r.id, of |-> r.destination, by |-> by]},
                       !.files[r.destination].state = "closing"]

(* drainWriteQueue, takeWriteBatch: the next write, if there is one *)
Drains(x) ==
    IF x.r.queue = <<>> \/ x.r.cancelled THEN [x EXCEPT !.drain = Idle]
    ELSE LET n == IF Len(x.r.queue) < Batch THEN Len(x.r.queue) ELSE Batch
         IN  [x EXCEPT !.drain = [pc |-> "writing", batch |-> SubSeq(x.r.queue, 1, n),
                                  destination |-> x.r.destination],
                       !.r.queue = SubSeq(@, n + 1, Len(@)), !.r.inFlight = n]

GoesOn(x) ==
    IF \E c \in x.closing : c.by = "drain" THEN [x EXCEPT !.drain.pc = "closing"] ELSE Drains(x)

(* A write has ended: it counts for the present transfer *)
Wrote(x) ==
    LET batch == x.drain.batch
        of == x.drain.destination
        kept == IF x.files[of].state # "open" THEN x
                ELSE [x EXCEPT !.files[of].contents = @ \o batch]
        counted == [kept EXCEPT !.r.hash = @ \o batch, !.r.inFlight = 0,
                                !.r.transferred = @ + Len(batch)]
    IN  IF x.r.cancelled THEN Drains([kept EXCEPT !.r.inFlight = 0])
        ELSE GoesOn(Finalizes(ReceiverSays(counted,
                 [type |-> "FLOW", id |-> x.r.id, written |-> counted.r.transferred,
                  window |-> Window]), "drain"))

WriteEnds ==
    /\ drain.pc = "writing"
    /\ ReceiverBecomes(Wrote(OfReceiver))
    /\ UNCHANGED <<toReceiver, pauses, troubles>>

WriteFails ==
    /\ drain.pc = "writing" /\ Trouble
    /\ ReceiverBecomes(Drains(ReceiverFails([OfReceiver EXCEPT !.r.inFlight = 0])))
    /\ UNCHANGED <<toReceiver, pauses>>

(* The close has ended: whatever the transfer is by now, it is COMPLETED *)
Closed(c) ==
    LET x == ReceiverSays([OfReceiver EXCEPT !.closing = @ \ {c}, !.files[c.of].state = "closed",
                                             !.r.state = "COMPLETED"],
                          [type |-> "VERIFY_OK", id |-> c.id])
    IN  IF c.by = "drain" THEN Drains(x) ELSE x

CloseEnds(c) ==
    /\ c \in closing
    /\ ReceiverBecomes(Closed(c))
    /\ UNCHANGED <<toReceiver, pauses, troubles>>

CloseFails(c) ==
    /\ c \in closing /\ Trouble
    /\ LET x == ReceiverFails([OfReceiver EXCEPT !.closing = @ \ {c},
                                                 !.files[c.of].state = "aborted"])
       IN  ReceiverBecomes(IF c.by = "drain" THEN Drains(x) ELSE x)
    /\ UNCHANGED <<toReceiver, pauses>>

CanReceiveData(r) == r.state = "RECEIVING" \/ (r.state = "PAUSED" /\ r.before = "RECEIVING")

HandlesData(x, frame) ==
    IF ~CanReceiveData(x.r) \/ x.r.destination = None THEN ReceiverFails(x)
    ELSE IF frame.ref # x.r.id \/ frame.offset # x.r.expected THEN ReceiverFails(x)
    ELSE IF x.r.expected + 1 > frames \/ QueueBytes(x.r) + 1 > Window THEN ReceiverFails(x)
    ELSE LET queued == [x EXCEPT !.r.expected = @ + 1, !.r.queue = Append(@, frame.payload)]
         IN  IF x.drain.pc = "idle" THEN Drains(queued) ELSE queued

FrameArrives ==
    /\ Len(data) > buffered /\ data' = Tail(data)
    /\ LET x == HandlesData(OfReceiver, Head(data))
       IN  /\ receiver' = x.r /\ drain' = x.drain /\ files' = x.files
           /\ toSender' = IF connected THEN toSender \o x.out ELSE toSender
    /\ UNCHANGED <<sender, loops, closing, toReceiver, buffered, connected, pauses, troubles>>

Accept ==
    /\ receiver.state = "READY"
    /\ ReceiverBecomes(ReceiverSays(
           [OfReceiver EXCEPT !.r.destination = receiver.id, !.r.hash = <<>>,
                              !.r.state = "RECEIVING", !.files[receiver.id].state = "open"],
           [type |-> "ACCEPT", id |-> receiver.id, window |-> Window]))
    /\ UNCHANGED <<toReceiver, pauses, troubles>>

ReceiverCancels ==
    /\ receiver.id # None /\ receiver.state # "CANCELLED" /\ Trouble
    /\ LET x == ReceiverSays([OfReceiver EXCEPT !.r = Emptied(@),
                                                !.files = Aborted(@, receiver.destination)],
                             [type |-> "CANCEL", id |-> receiver.id])
       IN  ReceiverBecomes([x EXCEPT !.r.state = "CANCELLED"])
    /\ UNCHANGED <<toReceiver, pauses>>

ReceiverPauses ==
    /\ CanPause(receiver) /\ APause
    /\ ReceiverBecomes(ReceiverSays([OfReceiver EXCEPT !.r = Paused(@)],
                                    [type |-> "PAUSE", id |-> receiver.id]))
    /\ UNCHANGED <<toReceiver, troubles>>

ReceiverResumed(r) == [r EXCEPT !.paused = FALSE, !.state = r.before]

ReceiverResumes ==
    /\ receiver.paused /\ receiver.id # None
    /\ ReceiverBecomes(ReceiverSays([OfReceiver EXCEPT !.r = ReceiverResumed(@)],
                                    [type |-> "RESUME", id |-> receiver.id]))
    /\ UNCHANGED <<toReceiver, pauses, troubles>>

(* TRANSFER_CANCEL awaits the abort of the file, and is CANCELLED then *)
IsCancelled(x) ==
    [x EXCEPT !.r = [Emptied(@) EXCEPT !.aborting = TRUE], !.files = Aborted(@, x.r.destination)]

AbortEnds ==
    /\ receiver.aborting
    /\ receiver.destination # None => files[receiver.destination].state # "closing"
    /\ ReceiverBecomes([OfReceiver EXCEPT !.r.aborting = FALSE, !.r.state = "CANCELLED"])
    /\ UNCHANGED <<toReceiver, pauses, troubles>>

ReceiverHears(x, m) ==
    IF m.type = "OFFER"
    THEN [x EXCEPT !.r = NewReceiver(m.id, x.r.destination, x.r.hash, x.r.aborting)]
    ELSE IF m.id # x.r.id THEN ReceiverFails(x)
    ELSE CASE m.type = "START"  -> x
           [] m.type = "PAUSE"  -> IF x.r.paused \/ ~CanPause(x.r) THEN x
                                   ELSE [x EXCEPT !.r = Paused(@)]
           [] m.type = "RESUME" -> IF x.r.paused THEN [x EXCEPT !.r = ReceiverResumed(@)] ELSE x
           [] m.type = "FINISH" ->
                  IF x.r.destination = None THEN x
                  ELSE Finalizes([x EXCEPT !.r.finish = [bytes |-> m.bytes, sha256 |-> m.sha256]],
                                 "finish")
           [] m.type = "CANCEL" -> IsCancelled(x)
           [] m.type = "FAIL"   -> ReceiverFails(x)

ReceiverHandlesControl ==
    /\ toReceiver # <<>> /\ toReceiver' = Tail(toReceiver)
    /\ ReceiverBecomes(ReceiverHears(OfReceiver, Head(toReceiver)))
    /\ UNCHANGED <<pauses, troubles>>

----------------------------------------------------------------------------
(* A frame leaves the channel's buffer; the connection breaks *)
BufferEmpties ==
    /\ buffered > 0 /\ buffered' = buffered - 1
    /\ UNCHANGED <<sender, receiving, loops, toReceiver, toSender, data, connected, pauses,
                    troubles>>

ConnectionBreaks ==
    /\ connected /\ connected' = FALSE /\ Trouble
    /\ toReceiver' = <<>> /\ toSender' = <<>> /\ data' = <<>> /\ buffered' = 0
    /\ UNCHANGED <<sender, receiving, loops, pauses>>

LoopGoesOn(f) ==
    ReadEnds(f) \/ WindowOpens(f) \/ PauseEnds(f) \/ BufferDrains(f) \/ ChannelIsClosed(f)

SingleNext ==
    /\ UNCHANGED frames
    /\ \/ \E f \in Files : Select(f) \/ LoopGoesOn(f) \/ ReadFails(f) \/ BackpressureTimesOut(f)
       \/ Offer \/ SenderCancels \/ SenderPauses \/ SenderResumes \/ SenderHandlesControl
       \/ Accept \/ ReceiverCancels \/ ReceiverPauses \/ ReceiverResumes
       \/ ReceiverHandlesControl \/ FrameArrives \/ WriteEnds \/ WriteFails \/ AbortEnds
       \/ \E c \in closing : CloseEnds(c) \/ CloseFails(c)
       \/ BufferEmpties \/ ConnectionBreaks

(* What has been called settles, messages arrive, and who is paused        *)
(* resumes.  No behaviour comes back to a state it has left, so that to be *)
(* fair to all of it is to be fair to each.                                *)
SingleSettles ==
    /\ UNCHANGED frames
    /\ \/ \E f \in Files : LoopGoesOn(f)
       \/ SenderHandlesControl \/ ReceiverHandlesControl \/ FrameArrives \/ BufferEmpties
       \/ WriteEnds \/ \E c \in closing : CloseEnds(c)
       \/ SenderResumes \/ ReceiverResumes

SingleFairness == WF_singleVars(SingleSettles)

SingleSpec == SingleInit /\ [][SingleNext]_singleVars

----------------------------------------------------------------------------
SingleTypeOK ==
    /\ {sender.id, receiver.id} \subseteq Files \cup {None}
    /\ sender.sent \in 0 .. 2 * frames /\ receiver.transferred \in 0 .. 2 * frames
    /\ buffered \in 0 .. Len(data)
    /\ \A f \in Files : files[f].state \in {"none", "open", "closing", "closed", "aborted"}

Undisturbed == troubles = 0 /\ sender.id <= 1

(* A sender that shows COMPLETED has had the very file it sent closed at   *)
(* the receiver, and so has a receiver of the first file, whatever was     *)
(* cancelled, selected anew or lost in between (finalizeReceiverIfReady,   *)
(* drainWriteQueue, TRANSFER_VERIFY_OK).                                   *)
CompletedIsSource ==
    \A p \in {[state |-> sender.state, id |-> sender.id],
              [state |-> receiver.state, id |-> IF receiver.id = 1 THEN 1 ELSE None]} :
        p.state = "COMPLETED" /\ p.id # None =>
            files[p.id] = [state |-> "closed", contents |-> SourceOf(p.id)]

(* A transfer that nobody disturbs never fails: neither pauses nor the     *)
(* order of messages and frames overrun the window or the file             *)
(* (handleData, waitForReceiveWindow, TRANSFER_FLOW_CONTROL).              *)
UndisturbedNeverFails ==
    Undisturbed => "FAILED" \notin {sender.state, receiver.state}

(* A file that is accepted and not disturbed arrives: no loop sleeps       *)
(* through a window that opens, a pause that ends or a buffer that drains. *)
FileArrives ==
    (sender.state = "SENDING" /\ Undisturbed)
        ~> (files[1].state = "closed" \/ ~Undisturbed)

(* When a transfer has been cancelled or has failed at the sender, its     *)
(* loop ends, whatever it awaits, unless another file is selected.         *)
LoopsEnd ==
    \A f \in Files :
        (sender.id = f /\ sender.cancelled) ~> (loops[f].pc = "over" \/ sender.id # f)
=============================================================================
