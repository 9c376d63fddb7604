---------------------- MODULE IntegrityReceiverProofs ----------------------
(***************************************************************************)
(* IntegrityReceiver keeps its promises for every number of blocks and     *)
(* frames, every payload alphabet and every bound.  The inductive          *)
(* invariant Inv has four parts:                                           *)
(*   - StepShape: what is known at each await of process;                  *)
(*   - OwnsStore: an open receiver's record is about the destination in    *)
(*     use, and a page that has just been loaded has no such record;       *)
(*   - PrefixInv: store and memory are prefixes of the file that end at    *)
(*     the block being received, or just after it while it is saved;       *)
(*   - HashMatches: what the hash has taken is what lies in the            *)
(*     destination just before the write position.                         *)
(* The last one is why a matching digest means that the destination is     *)
(* right: a hash of a whole block can only have taken that block.          *)
(***************************************************************************)
EXTENDS IntegrityReceiver, TLAPS

StepShape ==
    /\ rx.step \in {"writing", "saving"} =>
          /\ rx.queue # <<>>
          /\ rx.next \in Blocks
    /\ rx.step = "writing" =>
          /\ rx.pos < FrameCount
          /\ rx.expected # NoDigest
    /\ rx.step = "saving" => rx.pos = FrameCount

TypeInv == TypeOK /\ StepShape

OwnsStore ==
    /\ store.destination <= destId
    /\ rx.step = "none" <=> store.destination # destId

\* The first n blocks of a table are committed and no other.
Prefix(table, n) == \A b \in Blocks : table[b] # NoDigest <=> b < n

PrefixInv ==
    /\ \E n \in 0 .. BlockCount : Prefix(store.table, n)
    /\ rx.step # "none" =>
          /\ Prefix(store.table, rx.next)
          /\ \/ rx.table = store.table /\ rx.step # "saving"
             \/ /\ rx.next \in Blocks
                /\ rx.pos = FrameCount
                /\ rx.table[rx.next] # NoDigest
                /\ rx.table = [store.table EXCEPT ![rx.next] = rx.table[rx.next]]

InFlight == IF rx.step = "writing" THEN 1 ELSE 0
Content(k) == IF k <= rx.pos THEN dest[rx.next][k] ELSE Head(rx.queue).payload

HashMatches ==
    ~broken /\ rx.next \in Blocks =>
        /\ Len(rx.hash) <= rx.pos + InFlight
        /\ \A j \in 1 .. Len(rx.hash) :
              rx.hash[j] = Content(rx.pos + InFlight - Len(rx.hash) + j)

DestMatches ==
    rx.step # "none" =>
        \A b \in Blocks : rx.table[b] # NoDigest => dest[b] = rx.table[b]

Inv == TypeInv /\ OwnsStore /\ PrefixInv /\ HashMatches /\ DestMatches

-----------------------------------------------------------------------------
(* Facts about the data.                                                     *)

\* A digest of a whole block is never mistaken for an empty slot, and only a
\* hash that has taken FrameCount payloads can equal one.
LEMMA DigestLength ==
    ASSUME NEW digest \in Digest
    PROVE  /\ digest # NoDigest
           /\ \A hash \in Seq(Payload) : hash = digest => Len(hash) = FrameCount
<1>1. DOMAIN digest = 1 .. FrameCount /\ 1 \in DOMAIN digest
  BY M5ReceiverAssumption DEF Digest
<1>2. digest # NoDigest
  <2>1. 1 \notin DOMAIN <<>>
    OBVIOUS
  <2> QED
    BY <1>1, <2>1, Zenon DEF NoDigest
<1>3. \A n \in Nat : 1 .. n = 1 .. FrameCount => n = FrameCount
  <2>1. ASSUME NEW n \in Nat, 1 .. n = 1 .. FrameCount, n # FrameCount
        PROVE  FALSE
    <3>1. \A k \in Nat : k \in 1 .. n <=> k \in 1 .. FrameCount
      BY <2>1
    <3> QED
      BY <2>1, <3>1, M5ReceiverAssumption
  <2> QED
    BY <2>1
<1>4. ASSUME NEW hash \in Seq(Payload), hash = digest
      PROVE  Len(hash) = FrameCount
  <2>1. DOMAIN hash = 1 .. Len(hash) /\ Len(hash) \in Nat
    OBVIOUS
  <2>2. 1 .. Len(hash) = 1 .. FrameCount
    BY <1>1, <1>4, <2>1, Zenon
  <2> QED
    BY <1>3, <2>1, <2>2, Zenon
<1> QED
  BY <1>2, <1>4

\* The block a new receiver waits for is the one after the committed prefix.
LEMMA FirstMissingOfPrefix ==
    ASSUME NEW table \in Table, NEW n \in 0 .. BlockCount, Prefix(table, n)
    PROVE  FirstMissing(table) = n
<1>1. n \in Nat /\ n <= BlockCount /\ BlockCount \in Nat
  BY M5ReceiverAssumption
<1>2. Missing(table) = {b \in Blocks : b >= n}
  BY <1>1 DEF Missing, Prefix, Blocks
<1>3. CASE n = BlockCount
  BY <1>1, <1>2, <1>3 DEF FirstMissing, Blocks
<1>4. CASE n < BlockCount
  <2>1. n \in Missing(table) /\ \A c \in Missing(table) : n <= c
    BY <1>1, <1>2, <1>4 DEF Blocks
  <2>2. \A b \in Missing(table) :
           (\A c \in Missing(table) : b <= c) => b = n
    BY <1>1, <1>2, <2>1 DEF Blocks
  <2> QED
    BY <2>1, <2>2 DEF FirstMissing
<1> QED
  BY <1>1, <1>3, <1>4

\* A prefix that has its next block committed is longer by one.
LEMMA PrefixGrows ==
    ASSUME NEW table \in Table, NEW n \in Blocks, NEW digest \in Digest,
           Prefix(table, n)
    PROVE  /\ n + 1 \in 0 .. BlockCount
           /\ Prefix([table EXCEPT ![n] = digest], n + 1)
<1>1. n \in Nat /\ n + 1 <= BlockCount /\ BlockCount \in Nat
  BY M5ReceiverAssumption DEF Blocks
<1>2. digest # NoDigest
  BY DigestLength
<1>3. ASSUME NEW b \in Blocks
      PROVE  [table EXCEPT ![n] = digest][b] # NoDigest <=> b < n + 1
  BY <1>1, <1>2 DEF Prefix, Table, Blocks
<1> QED
  BY <1>1, <1>3 DEF Prefix

-----------------------------------------------------------------------------
(* The pieces of M5Receiver keep a receiver a receiver.                      *)

\* The constructor gives a receiver, whatever table it is opened with.
LEMMA OpenType ==
    ASSUME NEW table \in Table, FirstMissing(table) \in 0 .. BlockCount
    PROVE  NewReceiver(table) \in ReceiverType
<1>1. <<>> \in Seq(Payload) /\ <<>> \in Seq(Frame) /\ 0 \in 0 .. FrameCount
  BY M5ReceiverAssumption
<1> QED
  BY <1>1 DEF NewReceiver, NoDigest, ReceiverType

\* setExpectedDigest, receive, and process up to its first await.
LEMMA InputTypes ==
    ASSUME NEW r \in ReceiverType
    PROVE  /\ \A digest \in Digest : WithDigest(r, digest) \in ReceiverType
           /\ \A frame \in Frame : Queued(r, frame) \in ReceiverType
           /\ r.queue # <<>> => /\ Dropped(r) \in ReceiverType
                               /\ Hashed(r) \in ReceiverType
<1>1. \A digest \in Digest : WithDigest(r, digest) \in ReceiverType
  <2>1. <<>> \in Seq(Payload)
    OBVIOUS
  <2> QED
    BY <2>1 DEF WithDigest, ReceiverType
<1>2. r.queue \in Seq(Frame) /\ r.hash \in Seq(Payload)
  BY DEF ReceiverType
<1>3. ASSUME NEW frame \in Frame
      PROVE  Queued(r, frame) \in ReceiverType
  <2>1. Append(r.queue, frame) \in Seq(Frame)
    BY <1>2
  <2> QED
    BY <2>1 DEF Queued, ReceiverType
<1>4. ASSUME r.queue # <<>>
      PROVE  Dropped(r) \in ReceiverType /\ Hashed(r) \in ReceiverType
  <2>1. Tail(r.queue) \in Seq(Frame) /\ Head(r.queue) \in Frame
    BY <1>2, <1>4
  <2>2. Append(r.hash, Head(r.queue).payload) \in Seq(Payload)
    BY <1>2, <2>1 DEF Frame
  <2>3. Dropped(r) \in ReceiverType
    BY <2>1 DEF Dropped, ReceiverType
  <2>4. Hashed(r) \in ReceiverType
    BY <2>2 DEF Hashed, ReceiverType
  <2> QED
    BY <2>3, <2>4
<1> QED
  BY <1>1, <1>3, <1>4

\* process after the write and after the save.
LEMMA OutcomeTypes ==
    ASSUME NEW r \in ReceiverType, r.queue # <<>>
    PROVE  /\ r.pos < FrameCount => Advanced(r) \in ReceiverType
           /\ Nacked(r) \in ReceiverType
           /\ \A digest \in Digest :
                 r.next \in Blocks /\ r.pos < FrameCount =>
                    Verified(r, digest) \in ReceiverType
           /\ FirstMissing(r.table) \in 0 .. BlockCount =>
                 Saved(r) \in ReceiverType
<1>1. Dropped(r) \in ReceiverType
  BY InputTypes
<1>2. r.pos \in 0 .. FrameCount /\ 0 \in 0 .. FrameCount /\ <<>> \in Seq(Payload)
  BY M5ReceiverAssumption DEF ReceiverType
<1>3. r.pos < FrameCount => r.pos + 1 \in 0 .. FrameCount
  BY <1>2, M5ReceiverAssumption
<1>4. Dropped(r).pos = r.pos
  BY DEF Dropped, ReceiverType
<1>5. r.pos < FrameCount => Advanced(r) \in ReceiverType
  BY <1>1, <1>3, <1>4 DEF Advanced, ReceiverType
<1>6. Nacked(r) \in ReceiverType
  BY <1>1, <1>2 DEF Nacked, NoDigest, ReceiverType
<1>7. ASSUME NEW digest \in Digest, r.next \in Blocks, r.pos < FrameCount
      PROVE  Verified(r, digest) \in ReceiverType
  <2>1. [r.table EXCEPT ![r.next] = digest] \in Table
    BY DEF ReceiverType, Table
  <2> QED
    BY <1>3, <1>7, <2>1 DEF Verified, ReceiverType
<1>8. FirstMissing(r.table) \in 0 .. BlockCount => Saved(r) \in ReceiverType
  BY <1>1, <1>2 DEF Saved, NoDigest, ReceiverType
<1> QED
  BY <1>5, <1>6, <1>7, <1>8

-----------------------------------------------------------------------------
(* Shape, the part of the invariant that is not about content.               *)

Shape == TypeInv /\ OwnsStore /\ PrefixInv

\* Every record of the store, the absent and the torn one included, has an
\* identity that can be compared and a table.
LEMMA RecordFields ==
    ASSUME NEW record \in Record
    PROVE  record.destination \in Int /\ record.table \in Table
BY DEF Record, NoRecord, TornRecord, EmptyTable, Table

\* createRecoveryRecord commits no block.
LEMMA EmptyPrefix == EmptyTable \in Table /\ Prefix(EmptyTable, 0)
BY DEF EmptyTable, Table, Prefix, Blocks

\* A page on which nothing has been opened has the shape.
LEMMA InitShape == Init => Shape
<1> SUFFICES ASSUME Init PROVE Shape
  OBVIOUS
<1>1. FirstMissing(EmptyTable) = 0 /\ 0 \in 0 .. BlockCount
  BY EmptyPrefix, FirstMissingOfPrefix, M5ReceiverAssumption
<1>2. NewReceiver(EmptyTable) \in ReceiverType
  BY <1>1, EmptyPrefix, OpenType
<1>3. rx \in ReceiverType /\ rx.step = "none"
  BY <1>2 DEF Init, NoReceiver, ReceiverType
<1>4. store \in Record /\ store.table = EmptyTable /\ store.destination = -1
  BY DEF Init, NoRecord, Record
<1>5. dest \in [Blocks -> [1 .. FrameCount -> Payload \cup {NoPayload}]]
  BY DEF Init, EmptyDest
<1>6. TypeInv
  BY <1>3, <1>4, <1>5 DEF Init, TypeInv, TypeOK, StepShape
<1>7. OwnsStore
  BY <1>3, <1>4 DEF Init, OwnsStore
<1>8. PrefixInv
  BY <1>1, <1>3, <1>4, EmptyPrefix DEF PrefixInv
<1> QED
  BY <1>6, <1>7, <1>8 DEF Shape

\* A receiver that has just been opened starts at the end of the stored prefix.
LEMMA OpenShape ==
    ASSUME NEW table \in Table, NEW n \in 0 .. BlockCount, Prefix(table, n)
    PROVE  LET r == NewReceiver(table)
           IN  /\ r \in ReceiverType
               /\ r.next = n
               /\ r.table = table
               /\ r.step = "idle"
<1>1. FirstMissing(table) = n
  BY FirstMissingOfPrefix
<1>2. NewReceiver(table) \in ReceiverType
  BY <1>1, OpenType
<1> QED
  BY <1>1, <1>2 DEF NewReceiver

\* Every step keeps the shape: the program counter of process, the ownership of
\* the store and the committed prefixes.
LEMMA StepShapes ==
    ASSUME Shape, [Next]_vars
    PROVE  Shape'
<1> USE DEF Shape, TypeInv, TypeOK
<1>0. /\ BlockCount \in Nat /\ FrameCount \in Nat /\ 0 \in 0 .. BlockCount
      /\ rx \in ReceiverType
      /\ store.destination \in Int /\ store.table \in Table
  BY RecordFields, M5ReceiverAssumption
<1>1. CASE OpenFresh
  <2>1. /\ rx' \in ReceiverType /\ rx'.next = 0
        /\ rx'.table = EmptyTable /\ rx'.step = "idle"
    BY <1>0, <1>1, EmptyPrefix, OpenShape DEF OpenFresh
  <2>2. store'.destination = destId' /\ store'.table = EmptyTable /\ store' \in Record
    BY <1>1, EmptyPrefix DEF OpenFresh, Record
  <2>3. TypeInv'
    BY <1>1, <2>1, <2>2 DEF OpenFresh, StepShape
  <2>4. OwnsStore'
    BY <1>1, <2>1, <2>2 DEF OpenFresh, OwnsStore
  <2>5. PrefixInv'
    BY <1>0, <2>1, <2>2, EmptyPrefix DEF PrefixInv
  <2> QED
    BY <2>3, <2>4, <2>5
<1>2. CASE OpenResumed
  <2>1. PICK n \in 0 .. BlockCount : Prefix(store.table, n)
    BY DEF PrefixInv
  <2>2. /\ rx' \in ReceiverType /\ rx'.next = n
        /\ rx'.table = store.table /\ rx'.step = "idle"
    BY <1>0, <1>2, <2>1, OpenShape DEF OpenResumed
  <2>3. TypeInv'
    BY <1>2, <2>2 DEF OpenResumed, StepShape
  <2>4. OwnsStore'
    BY <1>2, <2>2 DEF OpenResumed, OwnsStore
  <2>5. PrefixInv'
    BY <1>2, <2>1, <2>2 DEF OpenResumed, PrefixInv
  <2> QED
    BY <2>3, <2>4, <2>5
<1>3. CASE OpenRefused
  BY <1>3 DEF OpenRefused, StepShape, OwnsStore, PrefixInv
<1>4. ASSUME NEW block \in Blocks, NEW digest \in Digest, Expect(block, digest)
      PROVE  Shape'
  <2>1. rx' = WithDigest(rx, digest) /\ rx' \in ReceiverType
    BY <1>0, <1>4, InputTypes DEF Expect
  <2>2. /\ rx'.table = rx.table /\ rx'.next = rx.next /\ rx'.pos = rx.pos
        /\ rx'.queue = rx.queue /\ rx'.step = rx.step /\ rx'.expected = digest
    BY <1>0, <2>1 DEF WithDigest, ReceiverType
  <2>3. rx'.expected # NoDigest
    BY <2>2, DigestLength
  <2> QED
    BY <1>4, <2>1, <2>2, <2>3 DEF Expect, StepShape, OwnsStore, PrefixInv
<1>5. ASSUME NEW frame \in Frame, Arrive(frame)
      PROVE  Shape'
  <2>1. rx' = Queued(rx, frame) /\ rx' \in ReceiverType
    BY <1>0, <1>5, InputTypes DEF Arrive
  <2>2. /\ rx'.table = rx.table /\ rx'.next = rx.next /\ rx'.pos = rx.pos
        /\ rx'.queue = Append(rx.queue, frame) /\ rx'.step = rx.step
        /\ rx'.expected = rx.expected
    BY <1>0, <2>1 DEF Queued, ReceiverType
  <2>3. rx'.queue # <<>>
    BY <1>0, <2>2 DEF ReceiverType
  <2> QED
    BY <1>5, <2>1, <2>2, <2>3 DEF Arrive, StepShape, OwnsStore, PrefixInv
<1>6. CASE StartWrite
  <2>1. rx' = Hashed(rx) /\ rx' \in ReceiverType
    BY <1>0, <1>6, InputTypes DEF StartWrite
  <2>2. /\ rx'.table = rx.table /\ rx'.next = rx.next /\ rx'.pos = rx.pos
        /\ rx'.queue = rx.queue /\ rx'.step = "writing"
        /\ rx'.expected = rx.expected
    BY <1>0, <2>1 DEF Hashed, ReceiverType
  <2>3. Head(rx.queue) \in Frame
    BY <1>0, <1>6 DEF StartWrite, ReceiverType
  <2>4. rx.next \in Blocks /\ rx.pos < FrameCount /\ rx.expected # NoDigest
    BY <1>0, <1>6, <2>3 DEF StartWrite, AcceptsFrame, Frame
  <2> QED
    BY <1>6, <2>1, <2>2, <2>4 DEF StartWrite, StepShape, OwnsStore, PrefixInv
<1>7. CASE RejectFrame \/ WriteFails \/ SaveFails
  <2>1. rx.queue # <<>> /\ rx.step # "none" /\ rx' = Dropped(rx)
    BY <1>7 DEF RejectFrame, WriteFails, SaveFails, StepShape
  <2>2. rx' \in ReceiverType
    BY <1>0, <2>1, InputTypes
  <2>3. /\ rx'.table = rx.table /\ rx'.next = rx.next /\ rx'.pos = rx.pos
        /\ rx'.step = "idle"
    BY <1>0, <2>1 DEF Dropped, ReceiverType
  <2>4. broken' \in BOOLEAN /\ UNCHANGED <<dest, destId, store, refused>>
    BY <1>7 DEF RejectFrame, WriteFails, SaveFails
  <2> QED
    BY <2>1, <2>2, <2>3, <2>4 DEF StepShape, OwnsStore, PrefixInv
<1>8. ASSUME rx.step = "writing", WriteLands
      PROVE  dest' \in [Blocks -> [1 .. FrameCount -> Payload \cup {NoPayload}]]
  <2>1. /\ rx.queue # <<>> /\ rx.queue \in Seq(Frame)
        /\ rx.next \in Blocks /\ rx.pos + 1 \in 1 .. FrameCount
    BY <1>0, <1>8 DEF StepShape, ReceiverType
  <2>2. Head(rx.queue).payload \in Payload
    <3>1. Head(rx.queue) \in Frame
      BY <2>1
    <3> QED
      BY <3>1 DEF Frame
  <2>3. [dest[rx.next] EXCEPT ![rx.pos + 1] = Head(rx.queue).payload]
           \in [1 .. FrameCount -> Payload \cup {NoPayload}]
    BY <2>1, <2>2
  <2> QED
    BY <1>8, <2>1, <2>3 DEF WriteLands
<1>9. CASE WriteWithinBlock
  <2>1. /\ rx.queue # <<>> /\ rx.next \in Blocks /\ rx.pos < FrameCount
        /\ rx.expected # NoDigest
    BY <1>9 DEF WriteWithinBlock, StepShape
  <2>2. rx' = Advanced(rx) /\ rx' \in ReceiverType
    BY <1>0, <1>9, <2>1, OutcomeTypes DEF WriteWithinBlock
  <2>3. rx'.table = rx.table /\ rx'.next = rx.next /\ rx'.step = "idle"
    BY <1>0, <2>2 DEF Advanced, Dropped, ReceiverType
  <2>4. rx.pos # FrameCount /\ rx.table = store.table
    BY <1>0, <1>9, <2>1 DEF WriteWithinBlock, PrefixInv, ReceiverType
  <2> QED
    BY <1>8, <1>9, <2>1, <2>2, <2>3, <2>4
       DEF WriteWithinBlock, StepShape, OwnsStore, PrefixInv
<1>10. CASE WriteThenNack
  <2>1. rx.queue # <<>> /\ rx.pos < FrameCount
    BY <1>10 DEF WriteThenNack, StepShape
  <2>2. rx' = Nacked(rx) /\ rx' \in ReceiverType
    BY <1>0, <1>10, <2>1, OutcomeTypes DEF WriteThenNack
  <2>3. rx'.table = rx.table /\ rx'.next = rx.next /\ rx'.step = "idle"
    BY <1>0, <2>2 DEF Nacked, Dropped, ReceiverType
  <2>4. rx.pos # FrameCount /\ rx.table = store.table
    BY <1>0, <1>10, <2>1 DEF WriteThenNack, PrefixInv, ReceiverType
  <2> QED
    BY <1>8, <1>10, <2>1, <2>2, <2>3, <2>4
       DEF WriteThenNack, StepShape, OwnsStore, PrefixInv
<1>11. CASE WriteThenVerify
  <2>1. /\ rx.queue # <<>> /\ rx.next \in Blocks /\ rx.pos < FrameCount
        /\ rx.expected \in Digest /\ rx.expected # NoDigest
    BY <1>0, <1>11 DEF WriteThenVerify, StepShape, ReceiverType
  <2>2. rx' = Verified(rx, rx.expected) /\ rx' \in ReceiverType
    BY <1>0, <1>11, <2>1, OutcomeTypes DEF WriteThenVerify, Verifies
  <2>3. /\ rx'.table = [rx.table EXCEPT ![rx.next] = rx.expected]
        /\ rx'.next = rx.next /\ rx'.pos = rx.pos + 1
        /\ rx'.queue = rx.queue /\ rx'.step = "saving"
    BY <1>0, <2>2 DEF Verified, ReceiverType
  <2>4. rx.pos # FrameCount /\ rx.table = store.table
    BY <1>0, <1>11, <2>1 DEF WriteThenVerify, PrefixInv, ReceiverType
  <2>5. rx'.pos = FrameCount
    BY <1>11, <2>3 DEF WriteThenVerify, EndsBlock
  <2>6. TypeInv'
    BY <1>8, <1>11, <2>1, <2>2, <2>3, <2>5 DEF WriteThenVerify, StepShape
  <2>7. OwnsStore'
    BY <1>11, <2>3 DEF WriteThenVerify, OwnsStore
  <2>8. rx'.table[rx'.next] = rx.expected
    BY <1>0, <2>1, <2>3, <2>4 DEF Table
  <2>9. PrefixInv'
    BY <1>11, <2>1, <2>3, <2>4, <2>5, <2>8 DEF WriteThenVerify, PrefixInv
  <2> QED
    BY <2>6, <2>7, <2>9
<1>12. CASE SaveEnds
  <2>1. /\ rx.queue # <<>> /\ rx.next \in Blocks /\ Prefix(store.table, rx.next)
        /\ rx.table = [store.table EXCEPT ![rx.next] = rx.table[rx.next]]
        /\ rx.table[rx.next] # NoDigest
        /\ rx.table \in Table
    BY <1>0, <1>12 DEF SaveEnds, StepShape, PrefixInv, ReceiverType
  <2>2. rx.table[rx.next] \in Digest
    BY <2>1 DEF Table
  <2>3. rx.next + 1 \in 0 .. BlockCount /\ Prefix(rx.table, rx.next + 1)
    BY <1>0, <2>1, <2>2, PrefixGrows
  <2>4. FirstMissing(rx.table) = rx.next + 1
    BY <2>1, <2>3, FirstMissingOfPrefix
  <2>5. rx' = Saved(rx) /\ rx' \in ReceiverType
    BY <1>0, <1>12, <2>1, <2>3, <2>4, OutcomeTypes DEF SaveEnds
  <2>6. /\ rx'.table = rx.table /\ rx'.next = rx.next + 1 /\ rx'.step = "idle"
    BY <1>0, <2>4, <2>5 DEF Saved, Dropped, ReceiverType
  <2>7. /\ store' = [destination |-> destId, table |-> rx.table]
        /\ store'.destination = destId /\ store'.table = rx.table
        /\ store' \in Record
    BY <1>12, <2>1 DEF SaveEnds, Record
  <2>8. TypeInv'
    BY <1>12, <2>5, <2>6, <2>7 DEF SaveEnds, StepShape
  <2>9. OwnsStore'
    BY <1>12, <2>6, <2>7 DEF SaveEnds, OwnsStore
  <2>10. PrefixInv'
    BY <2>3, <2>6, <2>7 DEF PrefixInv
  <2> QED
    BY <2>8, <2>9, <2>10
<1>13. CASE Abort
  BY <1>13 DEF Abort, StepShape, OwnsStore, PrefixInv
<1>14. CASE Reload
  <2>1. rx' \in ReceiverType /\ rx'.step = "none"
    <3>1. FirstMissing(EmptyTable) = 0
      BY <1>0, EmptyPrefix, FirstMissingOfPrefix
    <3>2. NewReceiver(EmptyTable) \in ReceiverType
      BY <1>0, <3>1, EmptyPrefix, OpenType
    <3> QED
      BY <1>14, <3>2 DEF Reload, NoReceiver, ReceiverType
  <2>2. dest' \in [Blocks -> [1 .. FrameCount -> Payload \cup {NoPayload}]]
    BY <1>14 DEF Reload, EmptyDest
  <2>3. store' = store /\ destId' = destId + 1 /\ store.destination <= destId
    BY <1>14 DEF Reload, OwnsStore
  <2>4. TypeInv'
    <3>1. destId' \in Nat
      BY <2>3
    <3>2. TypeOK'
      BY <1>14, <2>1, <2>2, <3>1 DEF Reload
    <3> QED
      BY <2>1, <3>2 DEF StepShape
  <2>5. OwnsStore'
    <3>1. store'.destination \in Int /\ destId \in Nat
      BY <1>0, <2>3
    <3>2. store'.destination <= destId' /\ store'.destination # destId'
      BY <2>3, <3>1
    <3> QED
      BY <2>1, <3>2 DEF OwnsStore
  <2>6. PrefixInv'
    BY <2>1, <2>3 DEF PrefixInv
  <2> QED
    BY <2>4, <2>5, <2>6
<1>15. CASE UNCHANGED vars
  BY <1>15 DEF vars, StepShape, OwnsStore, PrefixInv
<1>16. CASE OpenTears
  <2>1. rx.step = "none"
    BY <1>16 DEF OpenTears, OwnsStore, NoRecord
  <2>2. /\ store' = TornRecord /\ store' \in Record
        /\ store'.destination = -2 /\ store'.table = EmptyTable
    BY <1>16 DEF OpenTears, TornRecord, Record
  <2>3. TypeInv'
    BY <1>16, <2>2 DEF OpenTears, StepShape
  <2>4. OwnsStore'
    BY <1>16, <2>1, <2>2 DEF OpenTears, OwnsStore
  <2>5. PrefixInv'
    BY <1>0, <1>16, <2>1, <2>2, EmptyPrefix DEF OpenTears, PrefixInv
  <2> QED
    BY <2>3, <2>4, <2>5
<1> QED
  BY <1>1, <1>2, <1>3, <1>4, <1>5, <1>6, <1>7, <1>9, <1>10, <1>11, <1>12, <1>13,
     <1>14, <1>15, <1>16
     DEF Next

-----------------------------------------------------------------------------
(* Content: the hash follows the destination, and so does the table.         *)

\* A hash just created matches any destination (setExpectedDigest, NACK, save).
LEMMA FreshHash ==
    ASSUME Shape', rx'.hash = <<>>
    PROVE  HashMatches'
<1>1. rx'.pos \in Nat
  BY M5ReceiverAssumption DEF Shape, TypeInv, TypeOK, ReceiverType
<1>2. InFlight' \in {0, 1}
  BY DEF InFlight
<1>3. Len(rx'.hash) = 0
  <2>1. Len(<<>>) = 0
    OBVIOUS
  <2> QED
    BY <2>1, Zenon
<1> QED
  BY <1>1, <1>2, <1>3 DEF HashMatches

\* A step that leaves the block and what was hashed of it alone.
LEMMA SameHash ==
    ASSUME Shape, HashMatches,
           rx'.hash = rx.hash, rx'.pos = rx.pos, rx'.next = rx.next,
           broken' = broken, InFlight' = InFlight,
           \A k \in 1 .. rx.pos + InFlight : Content(k)' = Content(k)
    PROVE  HashMatches'
<1>1. rx.pos \in Nat /\ Len(rx.hash) \in Nat /\ InFlight \in {0, 1}
  BY M5ReceiverAssumption DEF Shape, TypeInv, TypeOK, ReceiverType, InFlight
<1> SUFFICES ASSUME ~broken, rx.next \in Blocks
             PROVE  /\ Len(rx.hash) <= rx.pos + InFlight
                    /\ \A j \in 1 .. Len(rx.hash) :
                          rx.hash[j] = Content(rx.pos + InFlight - Len(rx.hash) + j)'
  BY DEF HashMatches
<1>2. Len(rx.hash) <= rx.pos + InFlight
  BY DEF HashMatches
<1>3. ASSUME NEW j \in 1 .. Len(rx.hash)
      PROVE  rx.hash[j] = Content(rx.pos + InFlight - Len(rx.hash) + j)'
  <2> DEFINE k == rx.pos + InFlight - Len(rx.hash) + j
  <2>1. k \in 1 .. rx.pos + InFlight
    BY <1>1, <1>2
  <2>2. rx.hash[j] = Content(k)
    BY DEF HashMatches
  <2> QED
    BY <2>1, <2>2
<1> QED
  BY <1>2, <1>3

\* What the store holds is what an open receiver's table holds, less at most
\* the block just verified.
LEMMA StoredIsInMemory ==
    ASSUME Shape, rx.step # "none",
           NEW b \in Blocks, store.table[b] # NoDigest
    PROVE  rx.table[b] = store.table[b]
<1>1. store.table \in Table /\ rx.next \in 0 .. BlockCount
  BY RecordFields DEF Shape, TypeInv, TypeOK, ReceiverType
<1>2. b # rx.next
  BY <1>1, M5ReceiverAssumption DEF Shape, PrefixInv, Prefix, Blocks
<1> QED
  BY <1>1, <1>2 DEF Shape, PrefixInv, Table

\* What holds of the table in memory holds of the stored one, which is its part.
LEMMA StoredContent == Shape /\ DestMatches => CommittedMatchesDestination
<1> SUFFICES ASSUME Shape, DestMatches, store.destination = destId,
                    NEW b \in Blocks, store.table[b] # NoDigest
             PROVE  dest[b] = store.table[b]
  BY DEF CommittedMatchesDestination, Committed
<1>1. rx.step # "none"
  BY DEF Shape, OwnsStore
<1>2. rx.table[b] = store.table[b]
  BY <1>1, StoredIsInMemory
<1> QED
  BY <1>1, <1>2 DEF DestMatches

\* A write goes to the block being received, which no table has committed.
LEMMA WriteSparesCommitted ==
    ASSUME Shape, DestMatches, rx.step = "writing", WriteLands
    PROVE  /\ rx.next \in Blocks
           /\ rx.table[rx.next] = NoDigest
           /\ \A b \in Blocks : rx.table[b] # NoDigest => dest'[b] = rx.table[b]
<1>1. rx \in ReceiverType /\ FrameCount \in Nat
  BY M5ReceiverAssumption DEF Shape, TypeInv, TypeOK
<1>2. rx.next \in Blocks /\ rx.pos # FrameCount
  BY <1>1 DEF Shape, TypeInv, StepShape, ReceiverType
<1>3. rx.table = store.table /\ Prefix(store.table, rx.next)
  BY <1>2 DEF Shape, PrefixInv
<1>4. rx.table[rx.next] = NoDigest
  BY <1>2, <1>3 DEF Prefix, Blocks
<1>5. \A b \in Blocks : b # rx.next => dest'[b] = dest[b]
  BY DEF WriteLands, Shape, TypeInv, TypeOK
<1> QED
  BY <1>2, <1>4, <1>5 DEF DestMatches

\* After a write the hash has taken what lies just before the new position.
LEMMA WriteCatchesUp ==
    ASSUME Shape, HashMatches, rx.step = "writing", ~broken, WriteLands
    PROVE  /\ Len(rx.hash) <= rx.pos + 1
           /\ \A j \in 1 .. Len(rx.hash) :
                 rx.hash[j] = dest'[rx.next][rx.pos + 1 - Len(rx.hash) + j]
<1>1. /\ rx.pos \in Nat /\ rx.pos + 1 \in 1 .. FrameCount /\ rx.next \in Blocks
      /\ Len(rx.hash) \in Nat
  BY M5ReceiverAssumption DEF Shape, TypeInv, TypeOK, StepShape, ReceiverType
<1>2. InFlight = 1
  BY DEF InFlight
<1>3. Len(rx.hash) <= rx.pos + 1
  BY <1>1, <1>2 DEF HashMatches
<1>4. ASSUME NEW k \in 1 .. rx.pos + 1
      PROVE  dest'[rx.next][k] = Content(k)
  <2>1. k \in Nat /\ k <= rx.pos + 1 /\ k \in 1 .. FrameCount
    BY <1>1, M5ReceiverAssumption
  <2>2. /\ dest[rx.next] \in [1 .. FrameCount -> Payload \cup {NoPayload}]
        /\ dest'[rx.next] =
              [dest[rx.next] EXCEPT ![rx.pos + 1] = Head(rx.queue).payload]
    BY <1>1 DEF WriteLands, Shape, TypeInv, TypeOK
  <2>3. CASE k = rx.pos + 1
    <3>1. dest'[rx.next][k] = Head(rx.queue).payload
      BY <2>1, <2>2, <2>3
    <3>2. ~ (k <= rx.pos)
      BY <1>1, <2>3
    <3> QED
      BY <3>1, <3>2, Zenon DEF Content
  <2>4. CASE k # rx.pos + 1
    BY <1>1, <2>1, <2>2, <2>4 DEF Content
  <2> QED
    BY <2>3, <2>4
<1>5. ASSUME NEW j \in 1 .. Len(rx.hash)
      PROVE  rx.hash[j] = dest'[rx.next][rx.pos + 1 - Len(rx.hash) + j]
  <2>1. rx.pos + 1 - Len(rx.hash) + j \in 1 .. rx.pos + 1
    BY <1>1, <1>3
  <2>2. rx.hash[j] = Content(rx.pos + 1 - Len(rx.hash) + j)
    BY <1>1, <1>2 DEF HashMatches
  <2> QED
    BY <1>4, <2>1, <2>2
<1> QED
  BY <1>3, <1>5

\* Every step keeps hash, table in memory and destination in agreement.
LEMMA StepContents ==
    ASSUME Inv, [Next]_vars
    PROVE  (HashMatches /\ DestMatches)'
<1> USE DEF Inv
<1>1. Shape /\ Shape'
  BY StepShapes DEF Shape
<1>2. /\ rx \in ReceiverType /\ rx.pos \in Nat /\ Len(rx.hash) \in Nat
      /\ FrameCount \in Nat
  BY <1>1, M5ReceiverAssumption DEF Shape, TypeInv, TypeOK, ReceiverType
<1>3. rx'.hash = <<>> => HashMatches'
  BY <1>1, FreshHash
<1>4. CASE OpenFresh
  <2>1. rx'.hash = <<>> /\ rx'.table = EmptyTable
    BY <1>4 DEF OpenFresh, NewReceiver
  <2> QED
    BY <1>3, <2>1 DEF DestMatches, EmptyTable
<1>5. CASE OpenResumed
  <2>1. rx'.hash = <<>> /\ rx'.table = store.table /\ dest' = dest
    BY <1>5 DEF OpenResumed, NewReceiver
  <2>2. CommittedMatchesDestination
    BY <1>1, StoredContent
  <2> QED
    BY <1>3, <1>5, <2>1, <2>2
       DEF OpenResumed, DestMatches, CommittedMatchesDestination, Committed
<1>6. CASE OpenTears \/ OpenRefused \/ UNCHANGED vars
  BY <1>6 DEF OpenTears, OpenRefused, vars, HashMatches, DestMatches, InFlight, Content
<1>7. ASSUME NEW block \in Blocks, NEW digest \in Digest, Expect(block, digest)
      PROVE  (HashMatches /\ DestMatches)'
  <2>1. rx'.hash = <<>> /\ rx'.table = rx.table /\ rx'.step = rx.step /\ dest' = dest
    BY <1>2, <1>7 DEF Expect, WithDigest, ReceiverType
  <2> QED
    BY <1>3, <2>1 DEF DestMatches
<1>8. ASSUME NEW frame \in Frame, Arrive(frame)
      PROVE  (HashMatches /\ DestMatches)'
  <2>1. /\ rx'.hash = rx.hash /\ rx'.table = rx.table /\ rx'.step = rx.step
        /\ rx'.pos = rx.pos /\ rx'.next = rx.next
        /\ rx'.queue = Append(rx.queue, frame)
        /\ dest' = dest /\ broken' = broken
    BY <1>2, <1>8 DEF Arrive, Queued, ReceiverType
  <2>2. rx.step = "writing" => Head(rx'.queue) = Head(rx.queue)
    BY <1>1, <1>2, <2>1 DEF Shape, TypeInv, StepShape, ReceiverType
  <2>3. /\ InFlight' = InFlight
        /\ \A k \in 1 .. rx.pos + InFlight : Content(k)' = Content(k)
    BY <1>2, <2>1, <2>2 DEF InFlight, Content
  <2>4. HashMatches'
    BY <1>1, <2>1, <2>3, SameHash
  <2> QED
    BY <2>1, <2>4 DEF DestMatches
<1>9. CASE StartWrite
  <2>1. /\ rx'.hash = Append(rx.hash, Head(rx.queue).payload)
        /\ rx'.table = rx.table /\ rx'.pos = rx.pos /\ rx'.next = rx.next
        /\ rx'.queue = rx.queue /\ rx'.step = "writing" /\ rx.step = "idle"
        /\ dest' = dest /\ broken' = broken
    BY <1>2, <1>9 DEF StartWrite, Hashed, ReceiverType
  <2>2. InFlight = 0 /\ InFlight' = 1
    BY <2>1 DEF InFlight
  <2>3. HashMatches'
    <3> SUFFICES ASSUME ~broken, rx.next \in Blocks
                 PROVE  /\ Len(rx'.hash) <= rx.pos + 1
                        /\ \A j \in 1 .. Len(rx'.hash), k \in Nat :
                              k = rx.pos + 1 - Len(rx'.hash) + j =>
                                 rx'.hash[j] = Content(k)'
      <4> DEFINE P(pos, hash) == \A j \in 1 .. Len(hash) : pos + 1 - Len(hash) + j \in Nat
      <4>1. rx'.hash \in Seq(Payload)
        BY <1>1 DEF Shape, TypeInv, TypeOK, ReceiverType
      <4>2. Len(rx'.hash) <= rx.pos + 1 => P(rx.pos, rx'.hash)
        BY <1>2, <4>1
      <4> QED
        BY <2>1, <2>2, <4>2 DEF HashMatches
    <3>1. rx.hash \in Seq(Payload) /\ Head(rx.queue).payload \in Payload
      <4>1. Head(rx.queue) \in Frame
        BY <1>2, <1>9 DEF StartWrite, ReceiverType
      <4> QED
        BY <1>2, <4>1 DEF ReceiverType, Frame
    <3>2. /\ Len(rx'.hash) = Len(rx.hash) + 1
          /\ rx'.hash[Len(rx.hash) + 1] = Head(rx.queue).payload
          /\ \A j \in 1 .. Len(rx.hash) : rx'.hash[j] = rx.hash[j]
      BY <2>1, <3>1
    <3>3. Len(rx.hash) <= rx.pos
      BY <1>2, <2>2 DEF HashMatches
    <3>4. ASSUME NEW j \in 1 .. Len(rx'.hash), NEW k \in Nat,
                 k = rx.pos + 1 - Len(rx'.hash) + j
          PROVE  rx'.hash[j] = Content(k)'
      <4>1. CASE j = Len(rx.hash) + 1
        <5>1. k = rx.pos + 1
          BY <1>2, <3>2, <3>4, <4>1
        <5>2. Content(k)' = Head(rx.queue).payload
          BY <1>2, <2>1, <5>1 DEF Content
        <5> QED
          BY <3>2, <4>1, <5>2
      <4>2. CASE j # Len(rx.hash) + 1
        <5>1. /\ j \in 1 .. Len(rx.hash)
              /\ k = rx.pos + 0 - Len(rx.hash) + j /\ k <= rx.pos
          BY <1>2, <3>2, <3>4, <4>2
        <5>2. rx.hash[j] = Content(k)
          BY <2>2, <5>1 DEF HashMatches
        <5>3. Content(k)' = Content(k)
          BY <1>2, <2>1, <5>1 DEF Content
        <5> QED
          BY <3>2, <5>1, <5>2, <5>3
      <4> QED
        BY <4>1, <4>2
    <3> QED
      BY <1>2, <3>2, <3>3, <3>4
  <2> QED
    BY <2>1, <2>3 DEF DestMatches
<1>10. CASE RejectFrame \/ SaveFails
  <2>1. /\ rx'.hash = rx.hash /\ rx'.table = rx.table /\ rx'.pos = rx.pos
        /\ rx'.next = rx.next /\ rx'.step = "idle"
        /\ rx.step \notin {"none", "writing"}
        /\ dest' = dest /\ broken' = broken
    BY <1>2, <1>10 DEF RejectFrame, SaveFails, Dropped, ReceiverType
  <2>2. /\ InFlight' = InFlight
        /\ \A k \in 1 .. rx.pos + InFlight : Content(k)' = Content(k)
    BY <1>2, <2>1 DEF InFlight, Content
  <2>3. HashMatches'
    BY <1>1, <2>1, <2>2, SameHash
  <2> QED
    BY <2>1, <2>3 DEF DestMatches
<1>11. CASE WriteFails
  BY <1>2, <1>11 DEF WriteFails, Dropped, ReceiverType, HashMatches, DestMatches
<1>12. CASE WriteWithinBlock
  <2>1. /\ rx'.hash = rx.hash /\ rx'.table = rx.table /\ rx'.next = rx.next
        /\ rx'.pos = rx.pos + 1 /\ rx'.step = "idle"
        /\ rx.step = "writing" /\ ~broken /\ WriteLands
    BY <1>2, <1>12 DEF WriteWithinBlock, Advanced, Dropped, ReceiverType
  <2>2. /\ Len(rx.hash) <= rx.pos + 1
        /\ \A j \in 1 .. Len(rx.hash) :
              rx.hash[j] = dest'[rx.next][rx.pos + 1 - Len(rx.hash) + j]
    BY <1>1, <2>1, WriteCatchesUp
  <2>3. InFlight' = 0
    BY <2>1 DEF InFlight
  <2>4. \A j \in 1 .. Len(rx.hash) : /\ rx.pos + 1 - Len(rx.hash) + j <= rx.pos + 1
                                    /\ rx.pos + 1 + 0 - Len(rx.hash) + j =
                                          rx.pos + 1 - Len(rx.hash) + j
    BY <1>2
  <2>5. HashMatches'
    BY <1>2, <2>1, <2>2, <2>3, <2>4 DEF HashMatches, Content
  <2> QED
    BY <1>1, <2>1, <2>5, WriteSparesCommitted DEF DestMatches
<1>13. CASE WriteThenNack
  <2>1. /\ rx'.hash = <<>> /\ rx'.table = rx.table
        /\ rx.step = "writing" /\ WriteLands
    BY <1>2, <1>13 DEF WriteThenNack, Nacked, Dropped, ReceiverType
  <2> QED
    BY <1>1, <1>3, <2>1, WriteSparesCommitted DEF DestMatches
<1>14. CASE WriteThenVerify
  <2>1. /\ rx'.hash = rx.hash /\ rx'.next = rx.next /\ rx'.step = "saving"
        /\ rx'.table = [rx.table EXCEPT ![rx.next] = rx.expected]
        /\ rx'.pos = rx.pos + 1 /\ rx.pos + 1 = FrameCount
        /\ rx.step = "writing" /\ ~broken /\ WriteLands /\ rx.hash = rx.expected
    BY <1>2, <1>14 DEF WriteThenVerify, Verified, EndsBlock, Verifies, ReceiverType
  <2>2. /\ Len(rx.hash) <= rx.pos + 1
        /\ \A j \in 1 .. Len(rx.hash) :
              rx.hash[j] = dest'[rx.next][rx.pos + 1 - Len(rx.hash) + j]
    BY <1>1, <2>1, WriteCatchesUp
  <2>3. InFlight' = 0
    BY <2>1 DEF InFlight
  <2>4. \A j \in 1 .. Len(rx.hash) : /\ rx.pos + 1 - Len(rx.hash) + j <= rx.pos + 1
                                    /\ rx.pos + 1 + 0 - Len(rx.hash) + j =
                                          rx.pos + 1 - Len(rx.hash) + j
    BY <1>2
  <2>5. HashMatches'
    BY <1>2, <2>1, <2>2, <2>3, <2>4 DEF HashMatches, Content
  <2>6. rx.next \in Blocks /\ rx.expected \in Digest
    BY <1>1, <1>2, <2>1 DEF Shape, TypeInv, StepShape, ReceiverType
  <2>7. Len(rx.hash) = FrameCount
    BY <1>2, <2>1, <2>6, DigestLength DEF ReceiverType
  <2>8. \A j \in 1 .. FrameCount : rx.pos + 1 - Len(rx.hash) + j = j
    BY <1>2, <2>1, <2>7
  <2>9. dest'[rx.next] = rx.expected
    <3>1. dest'[rx.next] \in [1 .. FrameCount -> Payload \cup {NoPayload}]
      BY <1>1, <2>6 DEF Shape, TypeInv, TypeOK
    <3>2. \A j \in 1 .. FrameCount : dest'[rx.next][j] = rx.expected[j]
      BY <2>1, <2>2, <2>7, <2>8
    <3>3. /\ dest'[rx.next] = [j \in 1 .. FrameCount |-> dest'[rx.next][j]]
          /\ rx.expected = [j \in 1 .. FrameCount |-> rx.expected[j]]
      BY <2>6, <3>1 DEF Digest
    <3> QED
      BY <3>2, <3>3, Zenon
  <2>10. DestMatches'
    <3>1. \A b \in Blocks : rx.table[b] # NoDigest => dest'[b] = rx.table[b]
      BY <1>1, <2>1, WriteSparesCommitted
    <3>2. rx.table \in Table
      BY <1>2 DEF ReceiverType
    <3> QED
      BY <2>1, <2>6, <2>9, <3>1, <3>2 DEF DestMatches, Table
  <2> QED
    BY <2>5, <2>10
<1>15. CASE SaveEnds
  <2>1. /\ rx'.hash = <<>> /\ rx'.table = rx.table /\ rx.step # "none" /\ dest' = dest
    BY <1>2, <1>15 DEF SaveEnds, Saved, Dropped, ReceiverType
  <2> QED
    BY <1>3, <2>1 DEF DestMatches
<1>16. CASE Abort
  BY <1>16 DEF Abort, HashMatches, DestMatches
<1>17. CASE Reload
  <2>1. rx'.hash = <<>> /\ rx'.table = EmptyTable
    BY <1>17 DEF Reload, NoReceiver, NewReceiver
  <2> QED
    BY <1>3, <2>1 DEF DestMatches, EmptyTable
<1> QED
  BY <1>4, <1>5, <1>6, <1>7, <1>8, <1>9, <1>10, <1>11, <1>12, <1>13, <1>14,
     <1>15, <1>16, <1>17
     DEF Next

-----------------------------------------------------------------------------
(* The theorems.                                                             *)

\* The inductive invariant holds on a page on which nothing has been opened.
LEMMA InitInv == Init => Inv
<1> SUFFICES ASSUME Init PROVE Inv
  OBVIOUS
<1>1. Shape
  BY InitShape
<1>2. rx.hash = <<>> /\ rx.table = EmptyTable /\ rx.pos = 0 /\ rx.step = "none"
  BY DEF Init, NoReceiver, NewReceiver
<1>3. Len(rx.hash) = 0
  <2>1. Len(<<>>) = 0
    OBVIOUS
  <2> QED
    BY <1>2, <2>1, Zenon
<1>4. HashMatches
  BY <1>2, <1>3 DEF HashMatches, InFlight
<1>5. DestMatches
  BY <1>2 DEF DestMatches
<1> QED
  BY <1>1, <1>4, <1>5 DEF Shape, Inv

\* Inv is invariant: every step of the receiver, whatever its environment
\* sends and whatever write, save, cancel or reload interrupts it, keeps the
\* four parts of Inv.
THEOREM InvHolds == Spec => []Inv
<1>1. Init => Inv
  BY InitInv
<1>2. Inv /\ [Next]_vars => Inv'
  BY StepShapes, StepContents DEF Inv, Shape
<1> QED
  BY <1>1, <1>2, PTL DEF Spec

\* Every variable keeps its type: no field of M5Receiver, no record in the
\* store and no part of the destination is ever anything else.
THEOREM TypeCorrect == Spec => []TypeOK
<1>1. Inv => TypeOK
  BY DEF Inv, TypeInv
<1> QED
  BY <1>1, InvHolds, PTL

\* A block in the persisted ranges holds in the destination exactly the
\* content its persisted digest was computed from (process, M5Receiver.open).
THEOREM CommittedMatches == Spec => []CommittedMatchesDestination
<1>1. Inv => CommittedMatchesDestination
  BY StoredContent DEF Inv, Shape
<1> QED
  BY <1>1, InvHolds, PTL

\* The record in memory is ahead of the store by at most the block being
\* saved, even after a save has failed (process).
THEOREM AheadByOne == Spec => []RecordAheadByOneBlock
<1>1. ASSUME Inv, rx.step # "none"
      PROVE  /\ Committed(store.table) \subseteq Committed(rx.table)
             /\ Committed(rx.table) \ Committed(store.table) \subseteq {rx.next}
  <2>1. Shape
    BY <1>1 DEF Inv, Shape
  <2>2. \A b \in Blocks : store.table[b] # NoDigest => rx.table[b] # NoDigest
    BY <1>1, <2>1, StoredIsInMemory
  <2>3. \A b \in Blocks : b # rx.next => rx.table[b] = store.table[b]
    BY <1>1, RecordFields DEF Inv, TypeInv, TypeOK, PrefixInv, Table
  <2> QED
    BY <2>2, <2>3 DEF Committed
<1>2. Inv => RecordAheadByOneBlock
  BY <1>1 DEF RecordAheadByOneBlock
<1> QED
  BY <1>2, InvHolds, PTL

\* Blocks are committed in file order without a gap, so the pages of a HAVE
\* are always a single range (missingBlockIndexes, nextMissing).
THEOREM CommitsAreAPrefix == Spec => []CommittedIsPrefix
<1>1. Inv => CommittedIsPrefix
  BY M5ReceiverAssumption
     DEF Inv, PrefixInv, Prefix, CommittedIsPrefix, Committed, Blocks
<1> QED
  BY <1>1, InvHolds, PTL

\* The store never forgets a committed block, changes its digest or moves to
\* another destination (store.save in open and in process).
THEOREM StoreGrows == Spec => StoreOnlyGrows
<1>1. ASSUME Inv, [Next]_vars, store # NoRecord
      PROVE  /\ store'.destination = store.destination
             /\ \A b \in Committed(store.table) :
                    store'.table[b] = store.table[b]
  <2>1. CASE SaveEnds
    <3>1. store'.destination = destId /\ store'.table = rx.table /\ rx.step # "none"
      BY <2>1 DEF SaveEnds
    <3>2. store.destination = destId
      BY <1>1, <3>1 DEF Inv, OwnsStore
    <3> QED
      BY <1>1, <3>1, <3>2, StoredIsInMemory DEF Inv, Shape, Committed
  <2>2. CASE ~SaveEnds
    BY <1>1, <2>2
       DEF Next, vars, OpenFresh, OpenTears, OpenResumed, OpenRefused, Expect, Arrive,
           StartWrite, RejectFrame, WriteWithinBlock, WriteThenNack,
           WriteThenVerify, WriteFails, SaveFails, Abort, Reload
  <2> QED
    BY <2>1, <2>2
<1>2. Inv /\ [Next]_vars =>
        [store # NoRecord =>
           /\ store'.destination = store.destination
           /\ \A b \in Committed(store.table) :
                  store'.table[b] = store.table[b]]_vars
  BY <1>1
<1> QED
  BY <1>2, InvHolds, PTL DEF Spec, StoreOnlyGrows
=============================================================================
