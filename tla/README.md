# FlickSend in TLA+

FlickSend sends a file or a folder from one browser to another over a WebRTC peer
connection. What is sent is cut into blocks, each block is verified by SHA-256 and persisted
at the receiver, and a transfer survives the loss of its connection: a new route is
negotiated through a signalling service, the receiver says which blocks it holds, and only
the missing ones are sent. Around this engine are the pages that send and receive, an
account's people, invitations and history, and the measurement of how well a transfer runs.
These modules specify that system, TLC checks them on small instances, and TLAPS proves the
safety of the transfer, of its route, of the signalling service, of invitations and of the pages for
files, rooms and behaviours of any size.

Paths below are relative to the repository's root; `engine-core`, `resume` and the like are
directories of `packages/`, and `lab` is `apps/engine-lab/app`.

## Inventory

| Part | State it keeps | Operations | Interacts with | What is hard | What makes it correct |
|---|---|---|---|---|---|
| **M5Receiver** (`engine-core/src/m5-integrity-transfer.ts`) | recovery record in memory, missing list, expected offset and digest, streaming hash, promise chain of frames | `open`, `setExpectedDigest`, `receive`/`process`, `settle` | destination, recovery store, its owner's callbacks | two awaits in `process`; a failing write or save; a digest announced again inside a block; a page reload | a block in the store holds, in the destination the record names, what its digest says |
| **M5IntegritySingleFileTransfer** (same file) | snapshot, transport epoch, `sending`, `pendingPages`, the slots `awaitingReady`/`awaitingBlock` | `select`, `offer`, `accept`, `handleControl`, `handleData`, `cancel`, `transportInterrupted`, `replaceTransport` | the peer by messages and frames; transport; M5Receiver | send loops of earlier epochs that wake up late; messages lost with a connection; the end game repeated | what is delivered is the source; both sides end `DELIVERED` when the network lets them |
| **M6StreamPackTransfer** (`m6-stream-pack-transfer.ts`) | as M5, with a manifest, its own receiver chain and save queue | as M5 | directory destination, recovery store | its own interleavings: manifest ends that overlap, `assertUnchanged` across a reconnection, saves that outlast a receiver | as M5, and the sender knows of no block that is not persisted |
| **StreamPack and the folder destination** (`stream-pack`, `filesystem-browser`) | manifest, stream addresses, a pool of open writers | build, validate, read, write, evict, settle, close | the file systems of both sides | blocks across files, eviction against losses, names that collide | what is delivered is the folder that was picked |
| **ConnectionCoordinator and RouteCoordinator** (`engine-core/src/index.ts`, `route.ts`), **WebRtcTransport** (`transport-webrtc`) | connection snapshot, current and pending transport, attempts, three timers, route generation | `joinSession`, signalling handlers, `ensureTransport`, `startRouteReplacement`, `failRouteAttempt`, `disconnect` | signalling socket, peer connection, the transfers | callbacks of replaced transports, timers against callbacks, a transition table that turns unknown updates into `FAILED` | only the current generation acts; attempts are bounded; the route settles |
| **Signalling service** (`apps/signaling`) | sockets per role, revocation, alarm; sessions and members | admit, relay, close, revoke, alarm; create, look up, join | both coordinators | a replaced socket's close after its successor's join; one alarm for many expiries; hibernation and restart | the sender is told who is there; roles complement each other; connections end |
| **Send and receive pages** (`lab/send`, `lab/receive`) | a workflow state and revisions | reducers over user events and engine snapshots; controllers with awaits | coordinator, pickers, stores | results of an abandoned choice | what is offered is what was confirmed; destinations are not leaked |
| **People and invitations** (`lab/people`, `lab/persistence`) | rows with statuses and revisions | invite, accept, decline, revoke, expire, remove, block | database transactions, the network | concurrent resolutions, retried transactions, overtaken requests | one resolution for each invitation; the newest answer is shown |
| **Transfer history** (`lab/transfers`, `lab/persistence/transfers.ts`) | one record for each transfer | observe, record, evict | both pages, two stores | repeated, lost and late updates | an outcome is recorded and stays |
| **Transfer health** (`transfer-health`) | sample window, candidate and selected limit, stall, proof | `observe`, `finalize` | coordinator, route statistics | counting over route changes, pauses and stalls | a limit is shown only if enough samples agreed |
| **M3 and M4B transfers, direct copy** (`transfer.ts`, `resumable-transfer.ts`, `m4-transfer.ts`, `resumable-copy.ts`, `recovery.ts`) | the protocols the current one grew from, still in the package | as M5, without integrity or without recovery | as M5 | awaits over pauses, cancellations and reselections | what is complete is the source |
| **Recovery record** (`resume`), **integrity primitives** (`integrity`) | committed ranges and digest table | range algebra, pages, digest, root | the transfers | order, adjacency, page limits | ranges and table agree |
| **Session capabilities and TURN credentials** (`apps/engine-lab/app/signaling`) | the session's expiry, the pages that hold a capability, a question under way | issue, take, ask for a relay, check eligibility, answer | application server, pages, signalling Worker | a capability that ends or is revoked between the question and the answer | a revocation is final |
| UI, capability tables, configuration, authentication | | | | presentation, pure or external | not modelled, see below |

## Modules

| Module | Models | How |
|---|---|---|
| `M5Receiver` | class `M5Receiver` as a value | A record of the object's fields, and one operator for each piece of synchronous code between two awaits. Owners decide when each piece runs. |
| `IntegrityReceiver` | a receiver, its destination and its store, alone | The most general environment: any digest of a whole block and any frame, in any order. Writes and saves can fail, the first save can leave an empty file, the user can cancel, the page can be reloaded. |
| `VerifiedDelivery` | what a transfer promises | Blocks become safe one by one, then the destination is finalized, then the sender learns of it, once. |
| `IntegrityTransfer` | both M5 transfer objects, the wires, and the recovery of the connection as the transfer sees it | One action per callback or per stretch of code between two awaits. |
| `IntegrityReceiverProofs`, `IntegrityTransferProofs`, `RouteRecoveryProofs`, `FolderTransferProofs`, `SignalingProofs`, `PeopleDatabaseProofs`, `ApplicationProofs`, `SingleFileTransferProofs` | | The theorems about the modules they are named for, see Proofs. |
| `ConnectionCoordinator` | the class, with its RouteCoordinator and transport, as a value | A record of the fields that carry control and one operator for each method. `BeginTransport`, `MarkInterrupted`, `MarkFailure` and `IsCurrent` are those of `RouteCoordinator`. |
| `RouteRecovery` | two coordinators, the signalling between them, the network under them | One action per callback, timer, message or settled await. |
| `FolderTransfer` | both sides of M6 | As `IntegrityTransfer`. |
| `StreamPack` | manifest and stream layout of a folder | Pure operators. A name is a value with what the rules of a path tell of it: normal form, lower case, length, place in the order of bytes, and whether `component` refuses it. |
| `FolderReconstruction` | a folder packed, sent in blocks and taken apart again | The source, the part of the receiver that writes, and the pool of writers of the destination. Extends `StreamPack`. |
| `SignalingClock`, `ProductionRoom`, `SessionCapabilities`, `DevelopmentSessions`, `Signaling` | both deployments of the signalling service over one clock | One action per request, message, event and alarm. |
| `PeopleDatabase` | the people and invitations of accounts in PostgreSQL | Transactions that read a snapshot, decide, and commit or fail. |
| `SessionEngine` | the engine as the pages see it | The snapshots that may follow one another. |
| `SendSession`, `ReceiveSession` | reducer and controller of each page | One action per user event, engine snapshot or settled await. |
| `TransferHistory` | recorder, controller, service and both stores | Requests that fail, are retried, and overtake each other. |
| `DevelopmentPeople` | the page's controller and the development store | Requests and answers travel in any order. |
| `RouteDiagnostics`, `TransferHealth` | the route type of a connection's statistics, the analyzer and the proof of a delivery | One action per observation; time in samples. |
| `Application` | the five browser parts above | A behaviour runs one of them: they share no variable except the engine's vocabulary. |
| `SingleFileTransfer`, `ResumableTransfer`, `ResumableCopy` | M3, M4B, and the copy and reconciliation of recovery records | As `IntegrityTransfer`. |
| `HistoricalTransfers` | the three above | A behaviour runs one of them. |
| `MC...` | | Values and symmetry for model checking. |

### Data

A byte offset is a pair of block and frame, or a frame number. The payload of a frame is an
uninterpreted value. SHA-256 is taken to be collision free: the digest of a sequence of payloads
is the sequence, so "the digest matches" means exactly "the same payloads were hashed", and a
hash that has taken too few or too many payloads matches nothing. The manifest root is the
digest table, the digest of a folder's manifest the manifest. The committed ranges and the digest
table of a record are always written together by `markVerifiedBlockCommitted`, so one `table`
stands for both; `ResumableCopy` has the ranges themselves. Identities compared only for equality,
metrics and rates are left out.

### The receiver

`rx.step` is the await at which `process` is: `writing` (writeAt), `saving` (store.save),
`idle`, or `none` when there is no receiver object. `broken` is the state of the destination's
stream: a `FileSystemWritableFileStream` that rejects a write, or is aborted, is errored for
good. `destId` is the identity that `prepareDestination` makes anew for each choice of
destination; the record in the store carries it, and `open` refuses a record of another
destination. A first `save` creates the file before it writes it: if it does not end, an
empty file is left, on which every later `load` throws (`TornRecord`).

### The transfer

Sender and receiver are records of the fields that carry control. A run of
`sendVerifiedMissingBlocks` is an element of `snd.loops`; its program counter is the await it is
at. Several may be alive: an interruption raises `transportEpoch` (here: marks the runs
`stale`) without ending a run that waits for `source.read` or for the channel to drain. The
slots `awaitingReady` and `awaitingBlock` hold one promise each; a promise that is overwritten
is never settled, and its run is gone (`Occupied`).

Control messages and frames travel in order on their channels (both are ordered and
reliable), and a lost connection drops everything in flight. `Cut` loses the connection; each
side notices on its own (`SenderLoses`, `ReceiverLoses`: the peer connection's state callback;
`SenderChannelCloses`, `ReceiverChannelCloses`: the channels' `readyState`). `SenderReplaces`
is `startRouteReplacement`, `Connect` the opening of the new control channel, on which the
coordinator offers again if the transfer is `RECONNECTING`. `SenderFlaps` and `ReceiverFlaps`
are a `disconnected` that heals within the grace period.

An opening of the receiver waits for the old receiver to settle and is then one step; two
openings whose `load` or `save` overlap are not modelled. The injected faults of
`configureFault` are the ones the code has for its own qualification.

### The route

`ConnectionCoordinator` names a WebRtcTransport by the route generation it was created for,
and a session description by the generation that made it. `RouteRecovery` gives each side a
socket, the queue of signals to it, the asynchronous operations of the pending and the current
transport (createOffer, acceptOffer, acceptAnswer, each with a generation of its own when it
settles), and three timers. What is not calm is counted as a trouble: a cut of the
network, a `disconnected` that heals, a dropped socket, a configuration that fails, an early or late
candidate, a manual ICE restart or replacement, a user that leaves and joins again. Troubles of `Together`
may come in pairs; any other comes alone. `Up` means that both peer connections are
connected to each other. A transfer is only its object's identity here and whether it is
moving: `IntegrityTransfer` and `FolderTransfer` have its reactions.

### The folder

`FolderTransfer` has the control of M6: an offer, the manifest, HAVE with READY, digests,
frames, COMMITTED, the end of the bytes and the verdict. `OfferSent`, `LoopStep`, `ManifestEnd`,
`ReceiverProcesses` and `CloseEnds` are the continuations after awaits, and each carries what its
closure captured. `calm` is fixed for a behaviour: in a calm one nothing but connections is
lost, and only at moments at which nothing that could outlast the loss is pending. A piece of a
block in the files is none, `"good"`, `"bad"`, or `"replaced"`: what a changed payload leaves in a block
that was whole, so that a state tells a block that was never whole from one that was written over.

`FolderReconstruction` starts from one of the folders `Trees`, sixteen in `MCFolderReconstruction`: files of several blocks,
several files of a block, empty files and directories, names that sort before and after the
slash, that are one under case folding or normalisation, that are forbidden, and paths at the
limit. A folder is packed, refused or sent. `stage` is the stage of the
transfer, `writers` the pool in order of opening. A file has what was written to it only when
its stream is closed. Losses come between the awaits of a write and start the
validation of the directory when the connection is replaced.

### The signalling service

`ProductionRoom` has the sockets in the order they were admitted; a capability is a role and
an expiry. `SocketEnds` is a client that goes away, `SocketClosed` the event the room gets of
it, later. `Hibernates` drops the object's memory and restores whatever sockets the runtime
lists, as the constructor does, without a look at their state: every open one, and any of those whose close is
still to be reported. `crowded` is a history variable: whether the map held two senders, of which one must
have been restored while it closed, when a socket last joined.
`SessionCapabilities` is what leads to that room: the application server issues one session with
a capability for each page, of one expiry, since the session identifier is fresh; `TakeCapability`
is the page that takes its own; `AskForRelay`, `CheckEligibility` and `GiveCredential` are the three
awaits of a question for a TURN credential, between which time passes, the capability ends or the
session is revoked, and `RelayUnavailable` is the question that goes wrong anywhere. One question
is under way at a time: questions of the two pages share only the Worker's limiter, which
counts every request in any order.
`DevelopmentSessions` has the directory of six-digit codes, the two-member rooms, and the
requests between them, any number of which are on their way. An input gate of the runtime
delivers no event to an object that waits for its storage.

### People and invitations

In `PeopleDatabase` a call is a slot with the operation, its snapshot and its retries. A people
transaction is READ COMMITTED and writes by the identity of the row it read; an
invitation transaction is SERIALIZABLE, and its commit fails if a row it writes has changed
since its snapshot. `ResolutionCheck` is the CHECK constraint of the migration. `inspect` writes
outside a transaction. `DevelopmentPeople` has the development store, each page's revisions, and
requests and answers that overtake each other.

### The pages

`SendSession` and `ReceiveSession` keep the reducer's state and the awaits of the
controller: source preparation, the folder picker, `start()` with its request for a session, the
destination picker and the opening of the destination. The engine answers with the snapshots
of `SessionEngine` in the orders that the transition table and the transfer allow. A session is
production or development for good.

`TransferHistory` has the recorder with its minimum interval, the controller with its queue and
the one request it awaits, the retries, the service with its transaction, and the development
store. `TransferHealth` counts time in sampling intervals; what the rates and queues of a
sample speak for is an input, and the module keeps how the code gets from it to what it
shows. `RouteDiagnostics` translates the statistics of a peer connection into the type of route.

### Superseded transfers

`SingleFileTransfer` has two objects of M3, the loop with its read-ahead, window, pauses and
channel buffer, and the receiver's write queue. `ResumableTransfer` has both sides of M4B;
each connection makes the receiver open anew, and so does an `offer()` that is repeated on it (`OfferedAgain`, which the
tests of the repository call); several openings may be under way, also into the next connection, and each makes a
receiver object. The last block of a file may be shorter than the others. `ResumableCopy` has block ranges as they are
stored and paged, the direct copy that records what it wrote, and the reconciler that reads pages in any order. A copy is interrupted
with its page alive (`CopyIsInterrupted`, what was written stays in the stream) or with its page
(`PageIsLost`, the stream's content goes and the record stays); `file` is what was closed, `written` what the stream has.

### Operators marked "Faulty"

Some modules hold operators whose comment starts with "Faulty". None of them is used by a
specification. Each states a plausible bug in the operator that follows it, for which the named
property of a run is violated. They record what each property is sensitive to:

| Run | Property | Violated if |
|---|---|---|
| `receiver_alone` | `CommittedMatchesDestination` | `open` resumes a record of another destination |
| `receiver_alone` | `RecordAheadByOneBlock` | a rejected save is taken for a finished one |
| `receiver_alone` | `CommittedIsPrefix` | the missing blocks are taken from the end |
| `receiver_alone` | `StoreOnlyGrows` | `open` overwrites an existing record |
| `transfer_hostile` | `DeliveredIsSource` | a rejected `close` is ignored |
| `transfer_hostile` | `SafeBytesAreStored` | `onCommitted` runs before the save |
| `transfer_hostile` | `ImplementsReceiver` | `openReceiver` does not wait for the old receiver to settle |
| `transfer_hostile` | `StoredDigestsAreSource` | a block counts as verified when it is whole |
| `transfer_hostile` | `SafeNeverShrinks` | a reopened receiver starts from an empty record |
| `transfer_recovers` | `BothDeliver` | a NACK leaves `expectedOffset` where it is |
| `transfer_recovers` | `ImplementsPromise` | the root is confirmed before the destination is closed |
| `route_recovery` | `OnlyCurrentIsOpen` | a dropped transport is not closed |
| `route_recovery` | `BoundedAttempts` | replacements are compared with the limit and not counted |
| `route_recovery` | `TransferSurvives` | a replacement makes a new transfer object |
| `route_recovery` | `RouteSettles` | a failed attempt is not followed by another |
| `folder` | `KnownIsPersisted` | COMMITTED is sent although the save has failed |
| `folder` | `CalmLossesAreSurvived` | the offer is made only before the channel is open |
| `folder` | `DeliveredWasWhole` | a block is not compared with its digest |
| `folder_reconstruction` | `DeliveredIsTheFolder` | what is read may be of a file written anew |
| `folder_reconstruction` | `CommittedIsHeld` | the oldest writer is dropped without being closed |
| `folder_reconstruction` | `RefusedIsUnportable` | only equal paths collide |
| `signaling` | `SenderIsTold` | peer-left is sent although the role has been taken over |
| `signaling` | `RoomIsBounded` | the constructor does not restore the sockets |
| `signaling` | `RolesComplement` | the role is given by the sockets, not by the members |
| `signaling` | `RevocationIsFinal` | a capability is still good at the time it ends |
| `signaling` | `EveryConnectionEnds` | the alarm empties the storage and leaves the sockets |
| `people` | `OneAcceptance` | an update does not conflict with the snapshot |
| `people` | `ResolvedOnce` | there is no CHECK constraint |
| `application` | `OffersToTheStarted` | a recipient can be replaced under a session that waits |
| `application` | `NeverWaitsForNothing` | an error while joining closes the session and says nothing |
| `application` | `NoDestinationLeaks` | a destination that comes late is only forgotten |
| `application` | `NewestAnswerShown` | the store executes whatever comes |
| `application` | `TerminalRecordIsFrozen` | there is no trigger that freezes a terminal record |
| `application` | `OutcomeIsRecorded` | a unique violation is not retried |
| `application` | `AgreedBefore` | the count of agreeing samples goes on over a change of mind |
| `historical` | `CompletedIsSource` | M3 does not compare the digests |
| `historical` | `FileArrives` | the loop that waits for room is not told of it |
| `historical` | `SafeIsWritten` | M4B takes a rejected write for one that ended |
| `historical` | `CalmTransferCompletes` | a resumed receiver expects the file from its beginning |
| `historical` | `RecordIsFaithful` | only a whole frame is taken to be left at the end of a block |

## Runs

| Run | Bounds | Question |
|---|---|---|
| `receiver_alone` (`MCIntegrityReceiver.cfg`) | 2 blocks of 2 frames, 2 payloads, at most 2 frames queued, 3 payloads in a hash, 1 reload | Does the store tell the truth about the destination whatever arrives and whatever fails? It does. |
| `transfer_hostile` (`TransferHostile.cfg`) | 2 blocks of 1 frame, 3 loops alive, 2 lost connections and 1 flap, cancels, backpressure, failing writes, saves and close, a payload always or an announced digest or a root once changed, `Prompt = FALSE` | Is everything delivered the source, everything counted as safe stored, every stored digest the source's, and what was shown as safe never taken back? It is so; and the receiver's half implements `IntegrityReceiver`. |
| `transfer_recovers` (`TransferRecovers.cfg`) | 2 blocks of 2 frames, 2 lost connections, one corrupted payload or digest announcement | Do both sides end `DELIVERED`? They do; and the transfer implements `VerifiedDelivery` with its fairness. |
| `route_recovery` (`RouteRecovery.cfg`) | 2 replacement attempts, one trouble of any of ten kinds, or two of cut, flap and leave | Is only the current peer connection open when the room is calm, are attempts bounded, does the transfer's object survive, does the route settle? Yes, after losses; a failed configuration may take one attempt more. |
| `folder` (`FolderTransfer.cfg`) | 2 blocks of 2 frames, a frame spread over 2 files, 3 loops, 3 losses in a calm behaviour and 1 in the others, 1 fault | In a calm behaviour, does the sender know only of persisted blocks, and do both sides deliver? In any, has every block that is `DELIVERED` been whole in the files? Yes. |
| `folder_reconstruction` (`FolderReconstruction.cfg`, of `MCFolderReconstruction`) | 16 folders of up to 5 entries over 10 names, blocks of 4 bytes in frames of 3, 2 open writers, at most 2 blocks and 190 bytes of encoded manifest, 2 losses, 2 mishaps | Is the delivered folder the picked one, is every committed block held, and is a folder refused exactly if it is not portable? Yes. |
| `signaling` (`Signaling.cfg`) | 3 ticks, a session and a credential of 2, a proof of 1, 3 sockets, 3 requests in 3 ticks; 1 development session, 3 peers, 3 links | Does the sender know whether its peer is there, does the room hold every open socket and one for each role, do roles complement each other, is a revocation final, does every connection end? Yes. |
| `people` (`PeopleDatabase.cfg`) | 3 accounts, 1 invitation, 2 calls at a time and 3 in all, any past of a pair | Is an invitation resolved once and by one account? Yes. |
| `application` (`Application.cfg`) | 2 recipients, 2 sources, 5 edits, 2 openings, 3 choices; 2 keys, 3 observations, 1 lost request; 2 persons, 3 operations; 2 transfers, hysteresis 2 | The questions of the five parts, see below. They hold. |
| `historical` (`HistoricalTransfers.cfg`) | M3: files of 0, 2 and 3 frames, a window of 2, 1 pause, 1 trouble; M4B: 3 frames in blocks of 2, 1 loss or repeated offer, 2 losses in calm behaviours, 1 trouble; copy: 14 bytes in blocks of 3 and frames of 2, 2 interruptions | Is what is complete the source, what is safe or recorded written, however openings overlap, what is reconciled missing? Do undisturbed transfers end? Yes. |
| `stale_start` (`StaleStart.cfg`) | as `application` | Does a session offer what was reviewed? It need not, see findings. |
| `overwritten_block` (`OverwrittenBlock.cfg`) | 1 block of 1 frame in one file, 1 loop, 3 losses (`MaxHostile`), 1 fault | Is what is `DELIVERED` the source's? It need not be, see findings. |

The five parts of `application`:

- `OffersToTheStarted` and `NeverWaitsForNothing` (`SendSession`): a session offers to whom it was
  started for, and a page that shows a session in progress has one coming, in every order of edits,
  late preparations, pickers and errors.
- `NoDestinationLeaks` (`ReceiveSession`): of the destinations that were opened, those that the page does not
  hold were aborted.
- `NewestAnswerShown` (`DevelopmentPeople`): an operation that the network delays behind a newer one
  of its page changes nothing behind the page.
- `TerminalRecordIsFrozen` and `OutcomeIsRecorded` (`TransferHistory`): an outcome that reached the service
  is recorded and stays.
- `AgreedBefore` (`TransferHealth`): what is shown has been agreed on by `hysteresisSamples` samples of one
  route.

Why these bounds are enough for the cases that matter: with two blocks there is a block
before and one after each boundary, a committed one and a missing one; with two frames there is
a frame that ends a block and one that does not, so a loop can be suspended inside a block. One
reload gives a second destination. A hash of 3 payloads exceeds a block by one, the case in which
a write failed after the hash had taken its payload. Three loops allow two obsolete ones beside
the current one. Two lost connections allow a recovery to be interrupted by a second loss. Two
replacement attempts are one more than the limit's boundary. In `FolderReconstruction` a block of 4
bytes and a frame of 3 make blocks and frames that end inside files and files that end inside
frames, and two writers make the third file evict one. Three sockets are two of one role and one
of the other; two slots are two concurrent transactions, and a third call can see their outcome. A window
of 2 frames and files of 3 make the sender wait. In the copy, 14 bytes are four whole blocks and
a shorter one, and a block a whole frame and a shorter one. In a behaviour of `FolderTransfer` that is not calm one
loss (`MaxHostile`) leaves an obsolete loop, a late save or a late load beside the new connection; the run of
`overwritten_block` has three. The theorems below need none of these bounds.

`Prompt` in `IntegrityTransfer` says that what is pending when a connection is lost (a source
read, a write, a save) is over before the next connection is up, and that the 30 s limit of a drain
does not expire. It is a matter of seconds of signalling against milliseconds of storage, and is
assumed where liveness is claimed and nowhere else. `OneCurrentLoop` of `IntegrityTransfer` shows why it is needed: it holds with
`Prompt` and fails without it, since an obsolete loop whose read outlasts two reconnections switches
`sending` off under the current loop. What such loops announce and send is in every interleaving of `transfer_hostile`, and no
safety property is affected. `calm` in
`FolderTransfer` and `ResumableTransfer` plays the same part, for single behaviours of a run whose others are
not calm. `CloseIdempotent` says whether the destination tolerates a second `close`. A
`FileSystemWritableFileStream` does not; `transfer_recovers` assumes a destination that does,
such as the fixture destination of the repository's own tests, to ask whether anything else
stands in the way of recovery.

The runs have `CHECK_DEADLOCK FALSE` where the system may stop: a transfer ends (delivered,
failed or cancelled with nothing left to handle), a session is left, the bounds of the inputs are
used up, and then no action is enabled.

### Stated, and not listed with a run

A module states more than its runs check each time. These properties hold in the run named, when they are
added to its configuration: the type invariants (`TypeOK`, `RoomTypeOK`, `PeopleTypeOK`,
`HealthTypeOK`, `SingleTypeOK` and their like) of each module in its run; `OneCurrentLoop` and
`NoCommittedBlockResent` of `IntegrityTransfer` in `transfer_recovers`; `FollowsNewestOffer`,
`ExhaustedIsQuiet` and `QueuedReplacementIsCurrent` in `route_recovery`; `OneCurrentLoop` and
`NoConfirmedBlockResent` of `FolderTransfer` in `folder`;
`LimitsAreOfMotion` and `ProofIsFrozen` in `application`; `UndisturbedNeverFails`, `LoopsEnd`,
`CompletedIsWhole` and `NoPersistedBlockResent` in `historical`. The `TypeOK` of `IntegrityReceiver`,
`IntegrityTransfer`, `FolderTransfer` and `Signaling`, `PeopleTypeOK` and `NoConfirmedBlockResent` are proved.

### Fairness

Fairness is weak throughout; strong fairness is not needed. It is assumed of the users' offer and
acceptance (`IntegrityTransfer`, `FolderTransfer`); of each suspended loop (source reads end, an open
channel drains); of the event loop handling the next message or frame; of openings, writes,
saves and closes ending one way or the other; of sockets that open and reconnect, descriptions
that are made, candidates that connect, and timers that fire; of the alarm and the
close events of a room; of a request that the service executes. Each of these waits for no
other actor once enabled, and is disabled by itself, a failure or a later event of the same
kind only. `SingleFileTransfer` and `ResumableTransfer` have weak fairness of the disjunction of all
steps that need no user and are no failure: with a finite bound on the rest, all of them are
taken in the end. Nothing is assumed about failures, cancels, flaps or faults.

## Findings

`stale_start`. `docs/P4-SEND-STATE-MACHINE.md:27-28`: "Selecting a recipient or source before
start invalidates the existing coordinator, offer attempt, and preparation revision. A stale
asynchronous source result or stale session cannot target the new recipient." `SOURCE_PREPARING`
sets the reducer's `sourceRevision` to the controller's own counter (`send-controller.ts:387`),
while `RECIPIENT_SELECTED` adds one to it (`send-state.ts:266`). After a source and then a recipient
have been chosen, the next choice of a source gives the same revision again; a `start()` that waits
for its session does not notice it, and the session offers a source that was chosen after Send was
pressed.

`overwritten_block`. `docs/M6-IMPLEMENTATION-REPORT.md:20`: "`DELIVERED` only after all blocks are
verified, the FSPK root matches, and destination close succeeds", and `:22`: "committed verified
blocks are not resent". In six steps, a folder is `DELIVERED` on both sides with a block that is
not the source's:

1. A block is committed; the connection is lost and replaced, and the sender's new loop waits in its
   first `assertUnchanged`, until whose end the sender remains `RECONNECTING`.
2. The connection is lost again. In that state `transportInterrupted` (`m6-stream-pack-transfer.ts:193`)
   does nothing: the epoch stays, and the loop with it.
3. The offer on the third connection clears `have`. The loop wakes, misses every block, and announces the
   committed one. `beginBlock` (`:730`) does not ask whether it is committed.
4. The payload is changed on the way. `receiveData` writes it into the file (`:331`) and only then
   compares the block with its digest (`:368`). The NACK leaves the block in the record's committed set.
5. The HAVE of this connection was prepared before that write, when `validateVerifiedRecovery`
   (`filesystem-browser/src/index.ts:208-240`) still found the block whole. A short disconnect interrupts the sender before
   the NACK arrives; it takes that HAVE, nothing is missing, and it sends the root.
6. `verifyRoot` (`:870`) compares the digests that the record keeps, not the files, and closes.

Had the transfer been opened once more, `validateVerifiedRecovery` would have hashed the committed blocks again and,
as a rule, found the one that was overwritten; the behaviour needs the HAVE to be older than the write.

What remains true is proved: every block of a delivered folder has been whole (`DeliveredWasWhole`).

### Further configurations

Each of these configurations checks one statement of the repository's documentation, and TLC
finds a behaviour that violates it: `tlc -config X.cfg M`.

| Configuration, module | Property | What happens |
|---|---|---|
| `LossWhileDraining`, `MCIntegrityTransfer` | `LossIsRecoverable` (`docs/TRANSFER-STATE-MAPPING.md:30`: a recoverable loss "maps to `RECONNECTING`, not `FAILED`") | A loop that waits for the channel to drain when the connection goes receives an error other than `TRANSPORT_INTERRUPTED`, and its catch fails the transfer. |
| `ShortDisconnect`, `MCIntegrityTransfer` | `ReconnectingEnds` (`docs/ERROR-TAXONOMY.md:46`: recovery is automatic) | A `disconnected` that heals within the grace period interrupts the transfer; no channel opens anew, nothing is offered, and it stays `RECONNECTING`. |
| `PrematureFailure`, `RouteRecovery` | `FailedMeansOver` (`docs/ERROR-TAXONOMY.md:63`: "do not show terminal failure prematurely") | The new peer connection reports `connecting` while the coordinator is `RECONNECTING`; the transition table does not have it, and the update is turned into `FAILED`. |
| `ErasedBlock`, `MCPeopleDatabase` | `BlockIsKept` (`docs/P6-RELATIONSHIP-STATE-MACHINE.md:12`) | `remove` reads `CONNECTED`, the other side blocks, and the row is deleted by its id (`persistence/people.ts:159`). |
| `ForgottenBlock`, `HistoricalTransfers` | `SafeIsPersisted` (`engine-core/src/resumable-transfer.ts`, `handleControl`: "The receiver sends this only after each block has been written and checkpointed") | Two openings that overlap, of two connections or of an offer that is repeated on one, both find no record and store an empty one each; the later store forgets a block that was committed, and the sender has been told, in between. |
| `StuckReconnecting`, `Application` | `PreparedReturnsToReady` (`docs/P5-RECEIVE-STATE-MACHINE.md:32`: "A matching `CONNECTED` snapshot returns it to `READY_TO_RECEIVE`") | The connection came back in an order in which the reducer keeps `RECONNECTING`; a prepared recipient cannot accept. |
| `DismissedPicker`, `Application` | `EndedStaysEnded` (`docs/P5-RECEIVE-STATE-MACHINE.md`) | The native picker outlives its session; its dismissal moves the ended page to another phase. |

### Seen while modelling

What follows is in the modules as the code has it. No document says otherwise, or the properties
checked do not depend on it.

- M5: a block whose `COMMITTED` was lost is in the next HAVE and is not counted, so that less than the
  whole file is shown as safe when it has been delivered, the "receiver-persisted safe
  progress" of `docs/P4-CORE-SEND-UX.md:40` (`DeliveredShowsAllSafe` of `IntegrityTransfer` fails with one loss).
  If the user accepts while the offer of a new connection is on its way, a second HAVE stays in
  `pendingPages`, and the one after the next loss is out of place and fails the transfer
  (`docs/TRANSFER-STATE-MAPPING.md:30`; `LossesDoNotFail` of `IntegrityTransfer` fails with two losses).
  The sender of an empty file takes the receiver's root for one it should verify, fails, and then gets
  `MANIFEST_VERIFIED` (`docs/TRANSFER-STATE-MAPPING.md:21`; `FailedStaysFailed` fails). When
  `MANIFEST_VERIFIED` is lost the end game runs again, the second `close` rejects, and a receiver that had
  reported `DELIVERED` reports `FAILED` (`docs/P5-RECEIVE-STATE-MACHINE.md:20`;
  `DeliveredStaysDelivered` fails).
- Route: a late candidate or answer during the backoff of a replacement makes a transport that
  does not count as a replacement, with a new transfer object; the queued replacement is then
  stale. A rejected operation of a replaced transport fails the current attempt. A
  signalling socket that comes back with no transport moves `RECONNECTING` to `WAITING_FOR_PEER`, which
  the table does not have (`engine-core/src/index.ts:520`).
- M6: an offer that finds a record without manifest throws and leaves the receiver waiting; a loss
  during `assertUnchanged` leaves an obsolete loop that overwrites `RECONNECTING`; a second loss while
  `RECONNECTING` does not raise the epoch; a save that outlasts a reconnection may take a block out of
  the record again; `DELIVERED` may be announced by a second manifest end while files are
  still closing. A cancel crosses the last close: the receiver's files are discarded and the sender is
  told `DELIVERED`, or the other way round (`docs/PROTOCOL.md:104`; `DeliveredIsClosed` fails).
- Folder destination: a writer that is opened while the pool settles is forgotten without a close. The
  pool closes its oldest writer while a loss settles all of them, and a writer that is closed twice fails
  the transfer (`LossesDoNotFail` of `FolderReconstruction` fails).
- Signalling: in a development room the close of a socket that its own peer has replaced tells the
  other member `peer-left` after `peer-joined` (`BothAreTold` of `DevelopmentSessions` fails). A production room that is restored
  with a replaced sender whose close is still to be reported holds two; `announcePeerJoined` speaks to the first of them
  (`production-signaling.ts:266`), and the sender that is there is not told of a receiver that joins then.
- TURN: `docs/P14-TURN-SECURITY.md:11` has issuance "rate-bounded per opaque capability token
  identifier in process memory". The route makes a `TurnCredentialService` for each request
  (`turn-credentials/route.ts:16`), so `allowIssue` always looks into an empty map and never refuses:
  `AskForRelay` evaluates `IssueAllowed(NoIssue)`.
- People: a legacy invited pair makes an acceptance fail with a unique violation until its retries
  are used up; of two blocks the second overwrites the first; `inspect` expires what it read outside a transaction, and only
  the CHECK constraint protects the resolution. In development, `RESET` forgets the revisions that `LOAD`
  is not compared with.
- Pages: `selectFolder` asks whether the selection may be edited before the picker, not after; `RESET`
  takes `startAttempt` back to zero; a failed source matches a page without recipient; `cancel()` keeps
  the destination open until the page is left or another session opened.
- History: a terminal request that is dropped leaves the record active; a delivery after `FAILED` was
  recorded is not; with more active transfers than the limit a record is dropped as it ends.
- Health: a transfer that stalls just before its delivery is shown as `STALLED` for ever, since the stall
  is asked before the state (`transfer-health/src/index.ts:891`; `docs/TRANSFER-HEALTH.md:66`,
  `DeliveredHealthIsUnknown` fails). The first samples after a warm-up show `DEGRADED` until the hysteresis is reached, and samples count
  however short the time between them.
- M3: a cancel while the loop waits sends one more frame, which exceeds the window of a receiver
  that has forgotten the transfer; a cancel that crosses `VERIFY_OK` or a close ends `COMPLETED`;
  `resume()` after the end returns to `SENDING`; a file selected anew is taken up by the loop of the old one.
- The direct copy records a block as soon as it is written, and nothing of what a `FileSystemWritableFileStream` was given is
  in the file before `close()`: a page that goes takes with it blocks that the record counts, and no later copy
  writes them (`discarded` of `ResumableCopy`).
- M4B: two openings that overlap share a record (`ForgottenBlock`); so do those of two connections when both sides are
  paused across a loss: the sender's loop wakes on the new connection, its frame reaches the receiver of the old
  opening, and that one saves its record last. An obsolete loop that throws interrupts the new epoch; a failed read shows as
  `RECONNECTING`; `resume()` while reconnecting resets the state; an empty file is never complete; a loss
  after the last commit leaves the sender without `COMPLETE`.

## Proofs

### The receiver

`IntegrityReceiverProofs` proves the properties of `receiver_alone` and the type invariant for
every number of blocks and frames, every set of payloads and every bound. It assumes only what
`M5ReceiverAssumption` and `IntegrityReceiverAssumption` say: naturals, at least one frame per
block, and `NoPayload` is not a payload.

| Theorem | Statement |
|---|---|
| `InvHolds` | `Spec => []Inv` |
| `TypeCorrect` | `Spec => []TypeOK` |
| `CommittedMatches` | `Spec => []CommittedMatchesDestination` |
| `AheadByOne` | `Spec => []RecordAheadByOneBlock` |
| `CommitsAreAPrefix` | `Spec => []CommittedIsPrefix` |
| `StoreGrows` | `Spec => StoreOnlyGrows` |

`CommittedMatchesDestination` is not inductive: it says nothing of a receiver that is about to
commit. `Inv` adds, besides the types,

- `StepShape`: while `process` writes or saves there is a frame at the head of the chain, a
  block being received, and a position that fits the await;
- `OwnsStore`: an open receiver's record is about the destination in use, and a page without a
  receiver has no record about it, so `Reload` cannot make an old record true of a new file;
- `PrefixInv`: store and memory hold prefixes of the file that end at the block being received, or
  differ by that block alone while it is saved or after its save failed;
- `HashMatches`: as long as the stream is not errored, what the hash has taken is what lies
  in the destination just before the write position, counting the payload in flight;
- `DestMatches`: every block the memory counts as committed holds its digest's content.

The step that carries the weight is the last write of a block: a digest has exactly
`FrameCount` payloads (`DigestLength`), so a hash equal to it has taken exactly `FrameCount`, and
by `HashMatches` these are the block's content. A digest announced in the middle of a
block starts a shorter hash, which can therefore not match at that block's end, and a failed
write leaves a hash one payload too long for the position, which is why `HashMatches`
is claimed of an unbroken stream only, and nothing lands on a broken one. The lemmas are split into
shape (`StepShapes`, one step per action) and content (`StepContents`).

### The transfer

`IntegrityTransferProofs` is about `IntegrityTransfer` for any file, any faults, any number of losses,
flaps and loops, with or without back pressure, `Prompt` and destinations that fail. It assumes
`IntegrityTransferAssumption`: natural bounds, a source of digests, and a corrupted payload that the source
does not have.

| Theorem | Statement |
|---|---|
| `InvHolds` | `Spec => []IInv` |
| `TypeCorrect` | `Spec => []TypeOK` |
| `Delivered` | `Spec => []DeliveredIsSource` |
| `SafeStored` | `Spec => []SafeBytesAreStored` |
| `NeverShrinks` | `Spec => SafeNeverShrinks` |
| `IsAReceiver` | `Spec => ImplementsReceiver` |

The receiver's half is not proved twice. `StepsAlike` shows, action by action, that a step of the
transfer is a step of `IntegrityReceiver` or leaves alone what that specification sees, under the
mapping `ReceiverSide` of the run `transfer_hostile` (a queue and a hash of any length, no reload, the
destination that is used once). The receiver's inductive invariant therefore holds of the
transfer, and `IsAReceiver` is the refinement for every value of the constants. What is left is
what the two sides know of each other through messages that may be late:

- `FromSender`, `FromReceiver`: a manifest root has the digests of the source whatever fault is
  injected; a `COMMITTED` on the wire is about a block that the store holds already, and a
  `MANIFEST_VERIFIED` was sent after the close;
- `DeliveryInv`: a close is started, and `DELIVERED` said, only when the store and the destination hold the
  whole source, and neither changes after that (`WholeStays`);
- `LoopShape`: a slot names a loop that waits in it, and a loop that runs has a block to do.

`DeliveredIsSource` is not inductive without them: the sender becomes `DELIVERED` by a message,
long after the close that it tells of.

### The signalling service

`SignalingProofs` is about `Signaling` for any number of ticks, sockets, sessions, peers and requests.

| Theorem | Statement |
|---|---|
| `InvHolds` | `Spec => []IInv` |
| `TypeCorrect` | `Spec => []TypeOK` |
| `RevocationFinal` | `Spec => RevocationIsFinal` |
| `RolesAreComplements` | `Spec => []RolesComplement` |
| `SenderTold` | `Spec => []SenderIsTold` |
| `RoomBounded` | `Spec => []RoomIsBounded` |

- `Held` and `Heard` are the production room's: an open socket is in the room's map, an ended one is not, a role has one
  open socket, and a sender that was told of a receiver has one in the room or one whose close is still to be
  reported. They hold whichever closing sockets hibernation restores. What a restored closing sender does break,
  that the other one hears of the next receiver, `SenderIsTold` excepts by `crowded`.
- `Final` is the revocation's: a session that was revoked is still revoked, or its capabilities have
  ended. There is one expiry for both capabilities, so the alarm that forgets the revocation
  does not fire before they have.
- `DirectoryInv` is the development service's: the members counted when a role is given are all
  that there ever were, one, the offerer, or two. A member outlives its session because the clock waits for
  the requests that have found it (`RequestsAreShort`).

### The pages

`ApplicationProofs` is about the five parts of `Application`, for any number of recipients, sources,
sessions, destinations, people, operations, transfers and lost requests, and any hysteresis.

| Theorem | Statement |
|---|---|
| `InvHolds` | `Spec => []IInv` |
| `OffersAreForTheStarted` | `Spec => []OffersToTheStarted` |
| `WaitsForSomething` | `Spec => []NeverWaitsForNothing` |
| `DestinationsAreKept` | `Spec => []NoDestinationLeaks` |
| `NewestIsShown` | `Spec => []NewestAnswerShown` |
| `RecordIsFrozen` | `Spec => TerminalRecordIsFrozen` |
| `LimitsAreAgreed` | `Spec => AgreedBefore` |

`IInv` is the conjunction of one invariant for each part: `SendInv` (a session that waits has its
coordinator or a start that will make it, and a coordinator was started for the recipient that is
shown), `ReceiveInv` (a destination is held only after the picker of the newest choice has answered,
so that none answers behind it), `HistoryInv` (types), `PeopleInv` (a request still under way when the
newest answer of its page is known is older than what the store has seen) and `HealthInv` (the
count of the hysteresis is the number of diagnoses that agreed in a row).

### People and invitations

`PeopleDatabaseProofs` is about `PeopleDatabase` for any number of accounts, invitations and calls, at
a time and in all, and any past of a pair. It assumes of the constants that `None` is no account and no row.

| Theorem | Statement |
|---|---|
| `InvHolds` | `PeopleSpec => []IInv` |
| `TypeCorrect` | `PeopleSpec => []PeopleTypeOK` |
| `AcceptedOnce` | `PeopleSpec => []OneAcceptance` |
| `ResolvedForGood` | `PeopleSpec => ResolvedOnce` |

`RowsInv` says that whoever was told that an invitation connected them is named by its row. It is
kept because of `CallsInv`: a transaction that is about to commit has read its invitation as pending, and
a commit that meets no conflict finds the row as it was read. Only `inspect` writes an invitation without
looking again, and the CHECK constraint (`ResolutionCheck`) is what refuses it. The rows of
pairs need neither: people transactions write by the identity of a row whatever it has become, and
`PairsInv` shows that what they write satisfies the other CHECK constraint nevertheless.

### The route

`RouteRecoveryProofs` is about `RouteRecovery` for any number of replacement attempts
and troubles, in any combination. They assume `CoordinatorAssumption` and `TroublesAssumption`: natural bounds, and
troubles of the kinds there are.

| Theorem | Statement |
|---|---|
| `InvHolds` | `Spec => []IInv` |
| `OnlyCurrentOpen` | `Spec => []OnlyCurrentIsOpen` |
| `RouteInvHolds` | `Spec => []RouteInv` |
| `AttemptsAreBounded` | `Spec => []BoundedAttempts` |
| `TransfersSurvive` | `Spec => TransferSurvives` |

A transport is assigned when a configuration ends, and what was assigned before is then forgotten, not closed.
That nothing is lost so needs `Sound`, which says of each coordinator that its configurations have
different generations and that no transport is assigned while one of the current generation is on its way. Every
method of the coordinator keeps `Sound`, with any arguments and at any time: the proof has a lemma for each
and uses nothing of the peer, the room or the network.

The other two properties are about losses (`OnlyLosses`: cuts, `disconnected` that heals, users that leave;
`Together` bounds them in the run, nothing in the proof), and one coordinator cannot promise them by itself. The
offerer begins a connection uncounted at a `peer-joined`; if a second one did, `tried` would outgrow
`attempts`. A call of createOffer or acceptAnswer that rejects fails the attempt of whatever generation is
current, and a configuration that does not replace and is late makes a new transfer object. Whether
these things happen depends on what the other side has sent. `RouteInv` is `IInv`, the shape of the wires
(`Framed`) and `LossInv`, which says, after losses only, what holds of the pair (`Undisturbed`):

- `Session`, `SteadyOfferer`, `SteadyAnswerer`: the messages that may be on the way to each side, one
  `session-ready` first; a configuration or a call under way fits its coordinator's generation, and one of a generation
  that is over changes nothing when it ends;
- `OffererIsFine`, `AnswererIsFine`: what makes a connection come about is in one hand at a time (the
  announcement, the call that makes the offer, the offer on the wire, the call that answers it, the answer on the wire),
  and the side it comes to is ready for it, so that no call rejects;
- `TriedIsCounted`: `tried` is at most `attempts + 1`, and nothing is tried before a role is given.

`OnlyCurrentIsOpen` needs none of this and holds after any trouble; `BoundedAttempts` fails, by one, after a
failed configuration, as the run's statement says.

### The folder

`FolderTransferProofs` is about `FolderTransfer` for any number of blocks, frames of a block, files that a
frame is spread over, loops alive, losses and faults. It assumes `FolderTransferAssumption`: the bounds are
natural, and there is at least one block, frame, piece and loop.

| Theorem | Statement |
|---|---|
| `InvHolds` | `Spec => []IInv` |
| `TypeCorrect` | `Spec => []TypeOK` |
| `DeliveredHasBeenWhole` | `Spec => []DeliveredWasWhole` |
| `CalmInvHolds` | `Spec => []CalmInv` |
| `KnownPersisted` | `Spec => []KnownIsPersisted` |
| `ConfirmedNotResent` | `Spec => []NoConfirmedBlockResent` |

A root is accepted when every block is committed, and a block that is whole stays so, since "replaced"
counts (`StaysWhole`). It remains that a block is whole when it is committed, which is a matter of
`receiveData` and of what it is suspended over:

- `BlockInv`: if no frame of the block was changed, the frames before the next one are in the files;
- `WriteInv`: a write that is not given up is the next frame of the block, and its pieces so far are in the
  files; one that was given up is not before the next frame of the block that is under way by now, which may
  be the same block once more, so that it overwrites nothing that is counted;
- `MetInv`: before the receiver has a manifest no block is under way, no write is pending and the sender has
  no loop. Without it a write could survive `ReofferThrows`, the offer that resets the block and fails
  before it tells `receiveData`, and the frames of a block begun anew would be mixed with the old ones;
- `FromReceiver`, `DeliveryInv`: DELIVERED is on the wire, and a close begun, only when every block has been
  whole.

The sender's operators are the other half: `Keeps` says what every operator on it preserves (types, `LoopShape`,
the reference, no delivery and no loop out of nothing), and each action is a chain of them. The reference of
an offer stays within the losses because a reconnection takes a loss first, which is `SenderInv`.

`KnownIsPersisted` and `NoConfirmedBlockResent` are about calm behaviours (`calm`), as `CalmLossesAreSurvived`
is: connections are lost, when nothing of a receiver's await or of the wires is pending that could outlive them,
and there is no other trouble. They do not follow from `IInv`: that the sender knows only persisted blocks needs
that a HAVE is not overtaken by a save, that READY and COMMITTED are answers to the newest question, and so that
nothing else is on its way when one of them is. `CalmInv` says this:

- `InOneHand` and `Single`: one thing at a time moves the transfer on. It is with the source (an offer that
  awaits `assertUnchanged`, a loop that checks or reads), a request on the wire, the receiver's user or recovery
  store, a reply on the wire, or the frames of a block, and there is one of it;
- `LoopsInv`, `AcceptedInv`: until HAVE has arrived there is no loop, then one, which is of the current epoch;
  what follows an offer was accepted by the user;
- `Down`, `Unstarted`: what is left when there is no connection, or not yet an offer;
- `RecordInv`: what the sender knows or was told as HAVE is in the store, the store is part of the record in
  memory, the two differ by the block being saved, and what is committed is in the files;
- `FreshInv`: the block that a loop, a digest or a nack is about is not committed yet, and a HAVE is the record;
- `BytesInv`: the frames on their way are of the loop's block, in their order, and of a block that is not
  committed, except for the last of them while its block is saved;
- `ContentInv`: what the receiver has of the block is the source's.

`calm` never changes, and a calm behaviour meets no trouble but losses (`CalmTroubles`). Each action has a lemma
(`OfferStep`, `HaveStep`, `DrainStep`, and so on), and what an action leaves alone is in a few lemmas
that all of them cite (`OrderStays`, `RecordStays`, `FreshStays`, `BytesStay`, `ContentStays`).

### A single file

`SingleFileTransferProofs` is about `SingleFileTransfer`, the protocol M3, for files of any size, any window, batch and
marks of the channel, any number of files selected one after the other, and any number of pauses, cancellations and
failures. It assumes `SingleFileAssumption`: natural bounds, of which window, batch and high mark are positive.

| Theorem | Statement |
|---|---|
| `InvHolds` | `SingleSpec => []Inv` |
| `CompletedHolds` | `SingleSpec => []CompletedIsSource` |

A receiver closes a file when the count and the digest of FINISH are those of what it has taken. Neither needs to be the
source's: a frame bears the reference of the file selected last, whatever file its loop has read; the hash of the sender goes
on over a selection; a write may end in the file of another offer. The proof keeps the two sides apart:

- `IdsInv`, `LoopInv`, `DataInv`: files are selected in order, and nothing on its way is of a file to come;
- `OrderOK`, `TakenOK`, `ContentsOK`: what the receiver has hashed, is writing and has queued is, after what it was writing
  before the file was accepted (`Before`), an ascending sequence of offsets from the first frame, and the file has
  what the hash has of it;
- `CloseOK`, `DoneInv`: what is being closed is the source, and what is shown as complete is closed;
- `SentInv`, `FinishInv`: of the sender's hash, either the file's own loop alone fed it (`Clean`) or it is not ascending
  or counts a frame twice (`Doomed`), and a digest in FINISH is the source's or not ascending, so that the receiver does
  not have it;
- `FifoOK`: where nothing older is in the way, the frames in the channel are those that the sender's hash counts and the
  receiver has not taken yet.

The last two are of behaviours in which nothing is paused and nothing fails (`Quiet`): only those select a second file.

### What is only model-checked

- Every liveness property, and `ImplementsPromise`, which has the fairness of `VerifiedDelivery`: fairness
  and `ENABLED` are beyond the prover.
- `StoredDigestsAreSource`.
- `OneCurrentLoop` of `FolderTransfer`. The properties of `FolderReconstruction`, which fold over trees and
  entries, and those of the superseded transfers but for `CompletedIsSource`.
- `RecordIsFaithful` and what `ResumableCopy` computes with `FoldLeft`, and the order of records that
  `SelectSeq` keeps in `TransferHistory`: induction over data, whose theorems take an operator as a
  parameter, which the provers cannot instantiate.

## Not modelled

- M5: two calls of `openReceiver` overlapping inside `load` or `save` (M4B's are), the
  `storedReceiverDigest` fault, pages of a HAVE beyond the first (`CommittedIsPrefix` shows that the
  ranges are always one), metrics, validation of messages that the same build never sends. A page
  reload inside `IntegrityTransfer`: the receiver is then refused its record
  (`IntegrityReceiver!OpenRefused`), and a reloaded sender makes a new transfer.
- M6: blocks of several frames and pieces are `FolderReconstruction`'s, their messages
  `FolderTransfer`'s; the two are not composed. Metrics and the trace.
- M3 and M4B: `dispose`, a second `offer()` of one file in M3, offers that do not match, an acceptance
  repeated, several pages inside a transfer, metrics.
- Route: development hooks, the trace, recovery times, the lab's proof messages; what is forwarded
  for a third message type.
- Signalling: the development TURN issuer (`/turn-credentials`) and its session-member records,
  operations counters, the content of what is relayed. The verification of a capability and the
  room's second look are one step.
- Capabilities: signatures (never forged), the identifiers in a token, the TURN configuration and the
  list of ICE servers, who may have a capability issued (connected people, `PeopleDatabase`'s), and
  a difference between the clocks of the servers.
- Pages: hooks of the development build, more than one transfer for each session. The legacy invitation
  rows, pages of queries, mail.
- Health: rates, the estimate of the time left, means, confidence, the event log and the route history.
- Metrics and tuning, user interface, capability tables, configuration,
  the authentication provider and the account rows: presentation, pure functions, cryptography, or
  thin adapters.

## Plan

To prove: `StoredDigestsAreSource` of `IntegrityTransfer`, and `SafeIsWritten` of `ResumableTransfer`.

To model: overlapping openings in `IntegrityTransfer`, and several pages of a recovery map inside
`ResumableTransfer`.
