---------------------------- MODULE M5Receiver ----------------------------
(***************************************************************************)
(* The objects of class M5Receiver (packages/engine-core/src/              *)
(* m5-integrity-transfer.ts) as values: a record of the object's fields    *)
(* and one operator per piece of synchronous code that runs between two    *)
(* awaits.  Specifications that own receivers (IntegrityReceiver,          *)
(* IntegrityTransfer) decide when each piece runs.                         *)
(*                                                                         *)
(* A file is cut into BlockCount blocks and each block into FrameCount     *)
(* frames; the payload of a frame is an uninterpreted value.  A byte       *)
(* offset is a pair <<block, index of the frame in the block>>.  SHA-256   *)
(* is collision free: the digest of a sequence of payloads is that         *)
(* sequence, so a digest of exactly one block is a FrameCount-tuple.       *)
(***************************************************************************)
EXTENDS Integers, Sequences

CONSTANTS BlockCount,  \* blocks of the file; 0 is the empty file
          FrameCount,  \* frames per block
          Payload,     \* what one frame can carry
          NoPayload    \* a part of the destination never written

ASSUME M5ReceiverAssumption ==
    /\ BlockCount \in Nat
    /\ FrameCount \in Nat \ {0}
    /\ NoPayload \notin Payload

Blocks == 0 .. BlockCount - 1

Digest == [1 .. FrameCount -> Payload]

NoDigest == <<>>  \* an empty slot of the digest table, or no digest yet

Frame == [block : Blocks, index : 0 .. FrameCount - 1, payload : Payload]

(***************************************************************************)
(* The recovery record: committedBlockRanges and verifiedDigestTable are   *)
(* always written together, so a slot of the table is filled exactly when  *)
(* its block is in the committed ranges.                                   *)
(***************************************************************************)
Table == [Blocks -> Digest \cup {NoDigest}]
EmptyTable == [b \in Blocks |-> NoDigest]
Committed(table) == {b \in Blocks : table[b] # NoDigest}
Missing(table) == {b \in Blocks : table[b] = NoDigest}

\* Faulty: the missing blocks are taken from the end of the file.
FirstMissingFromTheEnd(table) ==
    IF Missing(table) = {} THEN BlockCount
    ELSE CHOOSE b \in Missing(table) : \A c \in Missing(table) : c <= b

\* The first block still missing, BlockCount when none is.
FirstMissing(table) ==
    IF Missing(table) = {} THEN BlockCount
    ELSE CHOOSE b \in Missing(table) : \A c \in Missing(table) : b <= c

(***************************************************************************)
(* Fields of a receiver.  "next" is missing[nextMissing], "pos" is how far *)
(* expectedOffset is into that block, "hash" is the sequence of payloads   *)
(* the streaming hash has taken since it was last created, "queue" is the  *)
(* promise chain of frames not yet processed, and "step" tells at which    *)
(* await its head is ("none" when there is no receiver object).            *)
(***************************************************************************)
ReceiverType ==
    [ table    : Table,
      next     : 0 .. BlockCount,
      pos      : 0 .. FrameCount,
      expected : Digest \cup {NoDigest},
      hash     : Seq(Payload),
      queue    : Seq(Frame),
      step     : {"none", "idle", "writing", "saving"} ]

NewReceiver(table) ==
    [ table    |-> table,
      next     |-> FirstMissing(table),
      pos      |-> 0,
      expected |-> NoDigest,
      hash     |-> <<>>,
      queue    |-> <<>>,
      step     |-> "idle" ]

NoReceiver == [NewReceiver(EmptyTable) EXCEPT !.step = "none"]

\* setExpectedDigest: only for the block the receiver is waiting for.
AcceptsDigest(r, block) == r.next \in Blocks /\ block = r.next
WithDigest(r, digest) == [r EXCEPT !.expected = digest, !.hash = <<>>]

\* receive: a frame joins the promise chain.
Queued(r, frame) == [r EXCEPT !.queue = Append(@, frame)]
Settled(r) == r.step \in {"none", "idle"} /\ r.queue = <<>>

\* process, before the first await: the checks, then the hash takes the payload.
AcceptsFrame(r, frame) ==
    /\ r.next \in Blocks
    /\ frame.block = r.next
    /\ frame.index = r.pos
    /\ r.expected # NoDigest
Dropped(r) == [r EXCEPT !.queue = Tail(@), !.step = "idle"]
Hashed(r) ==
    [r EXCEPT !.hash = Append(@, Head(r.queue).payload), !.step = "writing"]

\* Faulty: a NACK leaves expectedOffset where it is.
NackedInPlace(r) == [Dropped(r) EXCEPT !.expected = NoDigest, !.hash = <<>>]

\* process, after writeAt: within a block only the offset moves; at the end of
\* a block the computed digest decides between a commit and a NACK.
EndsBlock(r) == r.pos + 1 = FrameCount
\* Faulty: a block that is whole counts as verified.
VerifiesInLength(r) == Len(r.hash) = FrameCount
Verifies(r) == r.hash = r.expected
Advanced(r) == [Dropped(r) EXCEPT !.pos = @ + 1]
Nacked(r) == [Dropped(r) EXCEPT !.pos = 0, !.expected = NoDigest, !.hash = <<>>]
Verified(r, persisted) ==
    [r EXCEPT !.table[r.next] = persisted, !.pos = @ + 1, !.step = "saving"]

\* process, after store.save: on to the next missing block.
Saved(r) ==
    [Dropped(r) EXCEPT !.next = FirstMissing(r.table), !.pos = 0,
                       !.expected = NoDigest, !.hash = <<>>]
=============================================================================
