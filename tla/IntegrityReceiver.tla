------------------------- MODULE IntegrityReceiver -------------------------
(***************************************************************************)
(* The receiving half of an M5 transfer on its own: one M5Receiver at a    *)
(* time, the destination it writes, the recovery store it persists to.     *)
(* Its environment is the most general one: any digest of a whole block,   *)
(* any frame of the right shape, at any moment, in any order, from a       *)
(* sender that may be stale, confused or gone.  What holds here holds      *)
(* whatever the network and the sender do.                                 *)
(***************************************************************************)
EXTENDS M5Receiver

CONSTANTS QueueLengths,  \* bound: frames waiting when one more arrives
          HashLengths,   \* bound: payloads hashed or waiting at that moment
          MaxReloads     \* bound: reloads of the receiving page

ASSUME IntegrityReceiverAssumption ==
    /\ QueueLengths \subseteq Nat
    /\ HashLengths \subseteq Nat
    /\ MaxReloads \in Nat

VARIABLES rx,      \* the current M5Receiver
          dest,    \* content of the chosen destination, per block and frame
          broken,  \* a write failed or the user cancelled: the stream is errored for good
          destId,  \* identity of the chosen destination (a fresh UUID each time)
          store,   \* the persisted RecoveryRecord
          refused  \* openReceiver refused the persisted record

vars == <<rx, dest, broken, destId, store, refused>>

\* The first save creates the file of the record before it writes it: when it
\* does not end, an empty file stays behind, which load can only throw on.
NoRecord == [destination |-> -1, table |-> EmptyTable]
TornRecord == [destination |-> -2, table |-> EmptyTable]
Record == [destination : Nat, table : Table] \cup {NoRecord, TornRecord}

EmptyDest == [b \in Blocks |-> [k \in 1 .. FrameCount |-> NoPayload]]

TypeOK ==
    /\ rx \in ReceiverType
    /\ dest \in [Blocks -> [1 .. FrameCount -> Payload \cup {NoPayload}]]
    /\ broken \in BOOLEAN
    /\ destId \in Nat
    /\ store \in Record
    /\ refused \in BOOLEAN

Init ==
    /\ rx = NoReceiver
    /\ dest = EmptyDest
    /\ broken = FALSE
    /\ destId = 0
    /\ store = NoRecord
    /\ refused = FALSE

-----------------------------------------------------------------------------
(* openReceiver: wait for the old receiver to settle, then M5Receiver.open.  *)

\* Faulty: an existing record is overwritten.
OpenFreshAlways ==
    /\ Settled(rx)
    /\ ~refused
    /\ store' = [destination |-> destId, table |-> EmptyTable]
    /\ rx' = NewReceiver(EmptyTable)
    /\ UNCHANGED <<dest, broken, destId, refused>>

\* Faulty: the destination's identity is not compared with the record's.
OpenResumedAnywhere ==
    /\ Settled(rx)
    /\ ~refused
    /\ store # NoRecord
    /\ rx' = NewReceiver(store.table)
    /\ UNCHANGED <<dest, broken, destId, store, refused>>

OpenFresh ==
    /\ Settled(rx)
    /\ ~refused
    /\ store = NoRecord
    /\ store' = [destination |-> destId, table |-> EmptyTable]
    /\ rx' = NewReceiver(EmptyTable)
    /\ UNCHANGED <<dest, broken, destId, refused>>

OpenTears ==
    /\ Settled(rx)
    /\ ~refused
    /\ store = NoRecord
    /\ store' = TornRecord
    /\ UNCHANGED <<rx, dest, broken, destId, refused>>

OpenResumed ==
    /\ Settled(rx)
    /\ ~refused
    /\ store.destination = destId
    /\ rx' = NewReceiver(store.table)
    /\ UNCHANGED <<dest, broken, destId, store, refused>>

\* The record was made for another destination (FS_INTEGRITY_STATE_INVALID) or
\* cannot be read.
OpenRefused ==
    /\ Settled(rx)
    /\ ~refused
    /\ store # NoRecord
    /\ store.destination # destId
    /\ refused' = TRUE
    /\ UNCHANGED <<rx, dest, broken, destId, store>>

-----------------------------------------------------------------------------
(* What the environment may do to an open receiver.                          *)

Expect(block, digest) ==
    /\ rx.step # "none"
    /\ AcceptsDigest(rx, block)
    /\ rx' = WithDigest(rx, digest)
    /\ UNCHANGED <<dest, broken, destId, store, refused>>

Arrive(frame) ==
    /\ rx.step # "none"
    /\ Len(rx.queue) \in QueueLengths
    /\ Len(rx.hash) + Len(rx.queue) \in HashLengths
    /\ rx' = Queued(rx, frame)
    /\ UNCHANGED <<dest, broken, destId, store, refused>>

-----------------------------------------------------------------------------
(* process: one frame at a time, with an await at the write and at the save. *)

StartWrite ==
    /\ rx.step = "idle"
    /\ rx.queue # <<>>
    /\ AcceptsFrame(rx, Head(rx.queue))
    /\ rx' = Hashed(rx)
    /\ UNCHANGED <<dest, broken, destId, store, refused>>

RejectFrame ==
    /\ rx.step = "idle"
    /\ rx.queue # <<>>
    /\ ~ AcceptsFrame(rx, Head(rx.queue))
    /\ rx' = Dropped(rx)
    /\ UNCHANGED <<dest, broken, destId, store, refused>>

\* The frame in flight lands where expectedOffset pointed when it was accepted.
WriteLands ==
    dest' = [dest EXCEPT ![rx.next][rx.pos + 1] = Head(rx.queue).payload]

WriteWithinBlock ==
    /\ rx.step = "writing"
    /\ ~broken
    /\ ~ EndsBlock(rx)
    /\ WriteLands
    /\ rx' = Advanced(rx)
    /\ UNCHANGED <<broken, destId, store, refused>>

WriteThenNack ==
    /\ rx.step = "writing"
    /\ ~broken
    /\ EndsBlock(rx)
    /\ ~ Verifies(rx)
    /\ WriteLands
    /\ rx' = Nacked(rx)
    /\ UNCHANGED <<broken, destId, store, refused>>

WriteThenVerify ==
    /\ rx.step = "writing"
    /\ ~broken
    /\ EndsBlock(rx)
    /\ Verifies(rx)
    /\ WriteLands
    /\ rx' = Verified(rx, rx.hash)
    /\ UNCHANGED <<broken, destId, store, refused>>

\* writeAt rejects.  A rejected write errors a FileSystemWritableFileStream, so
\* every later write of this destination rejects as well.
WriteFails ==
    /\ rx.step = "writing"
    /\ broken' = TRUE
    /\ rx' = Dropped(rx)
    /\ UNCHANGED <<dest, destId, store, refused>>

SaveEnds ==
    /\ rx.step = "saving"
    /\ store' = [destination |-> destId, table |-> rx.table]
    /\ rx' = Saved(rx)
    /\ UNCHANGED <<dest, broken, destId, refused>>

\* Faulty: a rejected save is taken for a finished one.
SaveFailsSilently ==
    /\ rx.step = "saving"
    /\ rx' = Saved(rx)
    /\ UNCHANGED <<dest, broken, destId, store, refused>>

\* store.save rejects: the record in memory is ahead of the store and
\* nextMissing has not moved, so the receiver takes no further frame.
SaveFails ==
    /\ rx.step = "saving"
    /\ rx' = Dropped(rx)
    /\ UNCHANGED <<dest, broken, destId, store, refused>>

-----------------------------------------------------------------------------
(* cancel: the destination is aborted, which errors its stream.              *)

Abort ==
    /\ broken' = TRUE
    /\ UNCHANGED <<rx, dest, destId, store, refused>>

(* The page is reloaded: everything but the store is gone, the user chooses  *)
(* a destination again and it gets a new identity.                           *)

Reload ==
    /\ destId < MaxReloads
    /\ destId' = destId + 1
    /\ rx' = NoReceiver
    /\ dest' = EmptyDest
    /\ broken' = FALSE
    /\ refused' = FALSE
    /\ UNCHANGED store

Next ==
    \/ OpenFresh \/ OpenTears \/ OpenResumed \/ OpenRefused
    \/ \E block \in Blocks, digest \in Digest : Expect(block, digest)
    \/ \E frame \in Frame : Arrive(frame)
    \/ StartWrite \/ RejectFrame
    \/ WriteWithinBlock \/ WriteThenNack \/ WriteThenVerify \/ WriteFails
    \/ SaveEnds \/ SaveFails
    \/ Abort \/ Reload

Spec == Init /\ [][Next]_vars

-----------------------------------------------------------------------------

(***************************************************************************)
(* The record that makes a block count as delivered is about the           *)
(* destination in use: every block in the stored committed ranges holds,   *)
(* in the destination the record names, exactly the content its persisted  *)
(* digest was computed from.  Whatever was sent, in whatever order, and    *)
(* whatever write, save, cancel or reload came in between.                 *)
(***************************************************************************)
CommittedMatchesDestination ==
    store.destination = destId =>
        \A b \in Committed(store.table) : dest[b] = store.table[b]

(***************************************************************************)
(* The receiver's record is ahead of the store by at most the one block    *)
(* whose save is in flight or has failed, and behind it never: a receiver  *)
(* that answers an OFFER from its memory cannot promise two blocks the     *)
(* store would not remember.                                               *)
(***************************************************************************)
RecordAheadByOneBlock ==
    rx.step # "none" =>
        /\ Committed(store.table) \subseteq Committed(rx.table)
        /\ Committed(rx.table) \ Committed(store.table) \subseteq {rx.next}

(***************************************************************************)
(* Blocks are committed in file order without a gap, so the committed      *)
(* ranges are one range starting at 0 and every HAVE is a single page.     *)
(***************************************************************************)
CommittedIsPrefix ==
    \A b \in Committed(store.table), c \in Blocks :
        c < b => c \in Committed(store.table)

(***************************************************************************)
(* What the store remembers only grows: no step, a reload included,        *)
(* forgets a committed block, changes its digest, or moves the record to   *)
(* another destination.                                                    *)
(***************************************************************************)
StoreOnlyGrows ==
    [][store # NoRecord =>
        /\ store'.destination = store.destination
        /\ \A b \in Committed(store.table) :
               store'.table[b] = store.table[b]]_vars

=============================================================================
