------------------------ MODULE FolderReconstruction ------------------------
(***************************************************************************)
(* A picked folder is packed into a stream (StreamPack), sent block by     *)
(* block and taken apart again into the chosen directory: the source of    *)
(* buildStreamPackSource, receiveData of the folder transfer as far as it  *)
(* writes, and BrowserStreamPackDestination with its pool of open writers  *)
(* (packages/filesystem-browser).  The messages of the transfer are those  *)
(* of FolderTransfer and left out here.                                    *)
(*                                                                         *)
(* A writable stream keeps what is written to itself; the file has it when *)
(* the stream is closed.  Between the awaits of one write the connection   *)
(* may be lost and replaced, which validates the directory meanwhile.      *)
(***************************************************************************)
EXTENDS StreamPack

CONSTANTS
    FrameBytes,         \* bytes of a data frame
    MaxOpenHandles,     \* maxOpenHandles
    Trees,              \* what may be picked
    MaxLosses,          \* bound: connections lost
    MaxMishaps          \* bound: files changed, writes and closes that fail, cancels

(* A tree is the sequence of its nodes, as the walk finds them: a file or  *)
(* a directory with its path.  A file may have been written anew since it  *)
(* was picked, with the same size ("touched") or another ("shortened").  A *)
(* list of picked files is a tree of one level, whose files keep the size  *)
(* they were picked with and cannot be read once they are written anew:    *)
(* they are touched.                                                       *)
Node ==
    [path : Seq(Names), type : {"DIRECTORY", "FILE"}, size : Nat,
     now : {"as picked", "touched", "shortened"}]

ASSUME ReconstructionAssumption ==
    /\ {FrameBytes, MaxOpenHandles} \subseteq Nat \ {0}
    /\ {MaxLosses, MaxMishaps} \subseteq Nat
    /\ \A tree \in Trees : \A i \in DOMAIN tree : tree[i] \in Node

VARIABLES
    folder,     \* the picked tree as it is now
    manifest,   \* of the source, as built when the folder was picked
    stage,      \* of the transfer
    record,     \* the persisted checkpoint: the digest of each committed block
    block,      \* the block being received: its bytes, and how many have come
    work,       \* the write of receiveData in progress
    writers,    \* the pool, the least recently used writer first
    disk,       \* the directory: the content of its files
    directories,
    losses, mishaps

source == <<folder, manifest>>
received == <<record, block>>
bounds == <<losses, mishaps>>
vars == <<source, stage, received, work, writers, disk, directories, bounds>>

----------------------------------------------------------------------------
Files == {i \in DOMAIN manifest : manifest[i].type = "FILE"}
EntryOf(fileId) == manifest[CHOOSE i \in Files : manifest[i].fileId = fileId]
FileIds == {manifest[i].fileId : i \in Files}
Blocks == 0 .. BlockCount(manifest) - 1
Missing == Blocks \ DOMAIN record

(* A byte of the source is the node and the position it is of, and the     *)
(* state the node was in; a byte that was never written is a hole.         *)
Hole == <<>>
Empty(fileId) == [position \in 0 .. EntryOf(fileId).size - 1 |-> Hole]

NoBlock == [index |-> -1, bytes |-> <<>>, taken |-> 0]
NoWork == [step |-> "none", pieces |-> <<>>, live |-> FALSE, pooled |-> FALSE]

TypeOK ==
    /\ stage \in {"refused", "offered", "receiving", "lost", "validating", "closing",
                  "delivered", "failed", "aborted"}
    /\ DOMAIN record \subseteq Blocks
    /\ block.index \in Blocks \cup {-1}
    /\ work.step \in {"none", "evict", "open", "write"}
    /\ Len(writers) <= MaxOpenHandles
    /\ DOMAIN disk \subseteq FileIds
    /\ losses \in 0 .. MaxLosses /\ mishaps \in 0 .. MaxMishaps

Init ==
    /\ folder \in Trees
    /\ manifest = PackedManifest(folder)
    /\ stage = IF manifest = Refused THEN "refused" ELSE "offered"
    /\ record = <<>>
    /\ block = NoBlock
    /\ work = NoWork
    /\ writers = <<>>
    /\ disk = <<>> /\ directories = {}
    /\ losses = 0 /\ mishaps = 0

Over == stage \in {"refused", "delivered", "failed", "aborted"}
Troubled == ~Over /\ mishaps < MaxMishaps /\ mishaps' = mishaps + 1

----------------------------------------------------------------------------
(* The source *)

(* assertUnchanged: the tree walked again; sizes count, contents do not *)
Unchanged ==
    LET walked == [i \in DOMAIN folder |->
                      IF folder[i].now = "shortened" THEN [folder[i] EXCEPT !.size = @ - 1]
                      ELSE folder[i]]
    IN  SourceIdentity(PackedManifest(walked)) = SourceIdentity(manifest)

(* read, of a range of one file: its node's bytes *)
BytesOf(range) ==
    LET node == NodeOf(folder, EntryOf(range.fileId))
    IN  [i \in 1 .. range.length |-> <<node, range.fileOffset + i - 1, folder[node].now>>]

(* Faulty: what is read may be of a file written anew *)
ReadableAnyway(range) == TRUE

(* read of directorySourceFromHandle: the file is as it was when walked *)
Readable(range) == folder[NodeOf(folder, EntryOf(range.fileId))].now = "as picked"

(* Another program writes a picked file *)
SourceChanges ==
    /\ Troubled
    /\ \E i \in DOMAIN folder :
          /\ folder[i].type = "FILE" /\ folder[i].size > 0 /\ folder[i].now = "as picked"
          /\ \E now \in {"touched", "shortened"} : folder' = [folder EXCEPT ![i].now = now]
    /\ UNCHANGED <<manifest, stage, received, work, writers, disk, directories, losses>>

----------------------------------------------------------------------------
(* The pool of writers *)

HasWriter(fileId) == \E i \in DOMAIN writers : writers[i].fileId = fileId
WriterOf(fileId) == CHOOSE i \in DOMAIN writers : writers[i].fileId = fileId

(* What a file holds, as a new writer (keepExistingData) begins with it *)
Content(fileId) == IF fileId \in DOMAIN disk THEN disk[fileId] ELSE Empty(fileId)

(* Some writers are closed: the files have what was written to them *)
Settled(some) ==
    LET ids == {some[i].fileId : i \in DOMAIN some}
    IN  [id \in DOMAIN disk \cup ids |->
            IF id \in ids THEN some[CHOOSE i \in DOMAIN some : some[i].fileId = id].content
            ELSE disk[id]]

Current == Head(work.pieces)

(* writer: a file without one opens it, for which the oldest one of a full *)
(* pool is closed                                                          *)
Begun(pieces) ==
    [step |-> IF HasWriter(Head(pieces).fileId) THEN "write"
              ELSE IF Len(writers) >= MaxOpenHandles THEN "evict" ELSE "open",
     pieces |-> pieces, live |-> TRUE, pooled |-> TRUE]

(* Faulty: the oldest writer is dropped as it is *)
EvictionDropsWriter ==
    /\ work.step = "evict" /\ ~Over
    /\ writers' = Tail(writers)
    /\ work' = [work EXCEPT !.step = "open"]
    /\ UNCHANGED <<source, stage, received, disk, directories, bounds>>

(* writer: close of the oldest writer ends *)
EvictionEnds ==
    /\ work.step = "evict" /\ ~Over
    /\ disk' = Settled(<<Head(writers)>>)
    /\ writers' = Tail(writers)
    /\ work' = [work EXCEPT !.step = "open"]
    /\ UNCHANGED <<source, stage, received, directories, bounds>>

(* writer: the file is there, its createWritable ends, and the write begins *)
WriterOpens ==
    /\ work.step = "open" /\ ~Over
    /\ LET opened == [fileId |-> Current.fileId, content |-> Content(Current.fileId),
                      closing |-> FALSE]
       IN  /\ writers' = Append(writers, opened)
           /\ disk' = [id \in DOMAIN disk \cup {Current.fileId} |-> Content(id)]
    /\ work' = [work EXCEPT !.step = "write"]
    /\ UNCHANGED <<source, stage, received, directories, bounds>>

(* write: the bytes of a piece, at its place in the file *)
Written(content, piece) ==
    [position \in DOMAIN content |->
        IF position \in piece.fileOffset .. piece.fileOffset + Len(piece.bytes) - 1
        THEN piece.bytes[position - piece.fileOffset + 1]
        ELSE content[position]]

(* A writer written to becomes the most recently used one *)
Used(piece) ==
    LET i == WriterOf(piece.fileId)
    IN  Append(RemoveAt(writers, i), [writers[i] EXCEPT !.content = Written(@, piece)])

----------------------------------------------------------------------------
(* The transfer *)

(* sendMissing begins with assertUnchanged *)
Receives == stage' = IF Unchanged THEN "receiving" ELSE "failed"

(* manifestEnd, of the first connection: prepare makes the directories and *)
(* the empty files.  A connection that is lost before finds nothing to     *)
(* keep, and is replaced by one that begins here again                     *)
ManifestEnds ==
    /\ stage = "offered"
    /\ Receives
    /\ directories' = {manifest[i].path : i \in DOMAIN manifest \ Files}
    /\ disk' = [id \in {id \in FileIds : EntryOf(id).size = 0} |-> Empty(id)]
    /\ UNCHANGED <<source, received, work, writers, bounds>>

(* sendMissing walks the tree again before each block, and sendBlock reads *)
(* it; beginBlock expects it                                               *)
BlockStarts ==
    /\ stage = "receiving" /\ block = NoBlock /\ work = NoWork /\ Missing # {}
    /\ LET next == CHOOSE b \in Missing : \A c \in Missing : b <= c
           ranges == BlockRanges(manifest, next)
       IN  IF Unchanged /\ \A i \in DOMAIN ranges : Readable(ranges[i])
           THEN /\ block' = [index |-> next, taken |-> 0,
                             bytes |-> FlattenSeq([i \in DOMAIN ranges |-> BytesOf(ranges[i])])]
                /\ UNCHANGED stage
           ELSE stage' = "failed" /\ UNCHANGED block
    /\ UNCHANGED <<source, record, work, writers, disk, directories, bounds>>

(* receiveData: a frame, and the pieces of files it is made of *)
FrameArrives ==
    /\ stage = "receiving" /\ block # NoBlock /\ work = NoWork
    /\ LET first == BlockStart(block.index)
           offset == first + block.taken
           length == Smaller(FrameBytes, Len(block.bytes) - block.taken)
           ranges == Ranges(manifest, offset, length)
       IN  work' = Begun([i \in DOMAIN ranges |->
                            [fileId |-> ranges[i].fileId, fileOffset |-> ranges[i].fileOffset,
                             bytes |-> SubSeq(block.bytes, ranges[i].streamOffset - first + 1,
                                              ranges[i].streamOffset - first + ranges[i].length)]])
    /\ UNCHANGED <<source, stage, received, writers, disk, directories, bounds>>

(* The frame is written; the last one of a block commits it *)
FrameTaken ==
    LET taken == Smaller(block.taken + FrameBytes, Len(block.bytes))
    IN  IF taken = Len(block.bytes)
        THEN /\ record' = [b \in DOMAIN record \cup {block.index} |->
                              IF b = block.index THEN block.bytes ELSE record[b]]
             /\ block' = NoBlock
        ELSE block' = [block EXCEPT !.taken = taken] /\ UNCHANGED record

(* receiveData: the write of a piece ends.  A frame of a connection that   *)
(* was lost ends with it.                                                  *)
WriteLands ==
    /\ work.step = "write" /\ ~Over
    /\ IF work.pooled THEN writers' = Used(Current) ELSE UNCHANGED writers
    /\ IF ~work.live THEN work' = NoWork /\ UNCHANGED received
       ELSE IF Len(work.pieces) = 1 THEN work' = NoWork /\ FrameTaken
       ELSE work' = Begun(Tail(work.pieces)) /\ UNCHANGED received
    /\ UNCHANGED <<source, stage, disk, directories, bounds>>

(* transportInterrupted *)
ConnectionIsLost ==
    /\ stage = "receiving" /\ losses < MaxLosses
    /\ losses' = losses + 1
    /\ stage' = "lost"
    /\ block' = NoBlock
    /\ work' = [work EXCEPT !.live = FALSE]
    /\ UNCHANGED <<source, record, writers, disk, directories, mishaps>>

(* offer asserts anew that the source is unchanged, and manifestEnd of the *)
(* new connection validates what is persisted: validateVerifiedRecovery    *)
(* closes the writers of the pool, of which the one being evicted is       *)
(* closed already                                                          *)
ConnectionIsReplaced ==
    /\ stage = "lost"
    /\ IF Unchanged
       THEN /\ stage' = IF work.step = "evict" THEN "failed" ELSE "validating"
            /\ writers' = [i \in DOMAIN writers |-> [writers[i] EXCEPT !.closing = TRUE]]
       ELSE stage' = "failed" /\ UNCHANGED writers
    /\ UNCHANGED <<source, received, work, disk, directories, bounds>>

(* A block is as it was committed, in the files alone *)
Rehashes(files, b) ==
    LET ranges == BlockRanges(manifest, b)
        piece(range) ==
            [i \in 1 .. range.length |-> files[range.fileId][range.fileOffset + i - 1]]
    IN  /\ \A i \in DOMAIN ranges : ranges[i].fileId \in DOMAIN files
        /\ FlattenSeq([i \in DOMAIN ranges |-> piece(ranges[i])]) = record[b]

(* settleOpenWriters ends, the pool is cleared, and the files are read.    *)
(* A writer opened meanwhile is forgotten with the others.                 *)
ValidationEnds ==
    /\ stage = "validating"
    /\ ~(work.step = "write" /\ work.pooled /\ writers[WriterOf(Current.fileId)].closing)
    /\ disk' = Settled(SelectSeq(writers, LAMBDA writer : writer.closing))
    /\ writers' = <<>>
    /\ work' = [work EXCEPT !.pooled = work.step # "write"]
    /\ IF \A b \in DOMAIN record : Rehashes(disk', b) THEN Receives ELSE stage' = "failed"
    /\ UNCHANGED <<source, received, directories, bounds>>

(* verifyRoot, with nothing missing: close *)
CloseBegins ==
    /\ stage = "receiving" /\ Missing = {} /\ work = NoWork
    /\ stage' = "closing"
    /\ UNCHANGED <<source, received, work, writers, disk, directories, bounds>>

CloseEnds ==
    /\ stage = "closing"
    /\ disk' = Settled(writers)
    /\ writers' = <<>>
    /\ stage' = "delivered"
    /\ UNCHANGED <<source, received, work, directories, bounds>>

(* The making of a directory, a write, a close, an opening or a save fails.*)
(* The writers that are open stay so                                       *)
StorageFails ==
    /\ Troubled
    /\ work # NoWork \/ stage \in {"offered", "validating", "closing"}
    /\ stage' = "failed"
    /\ UNCHANGED <<source, received, work, writers, disk, directories, losses>>

(* cancel: abort drops what the writers have.  A destination that is being *)
(* closed is closed to abort, and the delivery goes on                     *)
Cancelled ==
    /\ Troubled
    /\ IF stage = "closing" THEN UNCHANGED <<stage, writers>>
       ELSE stage' = "aborted" /\ writers' = <<>>
    /\ UNCHANGED <<source, received, work, disk, directories, losses>>

(* Another program changes a file of the directory, or removes it, while   *)
(* nothing is transferred                                                  *)
DirectoryChanges ==
    /\ Troubled
    /\ stage = "lost"
    /\ \E id \in DOMAIN disk :
          /\ disk[id] # Empty(id)
          /\ \/ disk' = [disk EXCEPT ![id] = Empty(id)]
             \/ disk' = [other \in DOMAIN disk \ {id} |-> disk[other]]
    /\ UNCHANGED <<source, stage, received, work, writers, directories, losses>>

Next ==
    \/ ManifestEnds \/ BlockStarts \/ FrameArrives \/ EvictionEnds \/ WriterOpens \/ WriteLands
    \/ ConnectionIsLost \/ ConnectionIsReplaced \/ ValidationEnds \/ CloseBegins \/ CloseEnds
    \/ SourceChanges \/ DirectoryChanges \/ StorageFails \/ Cancelled

Spec == Init /\ [][Next]_vars

----------------------------------------------------------------------------
(* What is delivered is the folder as it was picked: its directories, its  *)
(* empty files, and every byte of the others in its place, although blocks *)
(* and frames cross files, writers come and go (writer, settleOpenWriters) *)
(* and files change on both sides.                                         *)
DeliveredIsTheFolder ==
    stage = "delivered" =>
        /\ directories = {Canonical(folder[i].path) :
                             i \in {i \in DOMAIN folder : folder[i].type = "DIRECTORY"}}
        /\ DOMAIN disk = FileIds
        /\ {<<EntryOf(id).path, disk[id]>> : id \in FileIds} =
              {<<Canonical(folder[i].path),
                 [position \in 0 .. folder[i].size - 1 |-> <<i, position, "as picked">>]>> :
                  i \in {i \in DOMAIN folder : folder[i].type = "FILE"}}

(* A committed block is in the files or in the pool while the transfer     *)
(* goes on: none is only in a writer that was evicted or forgotten, or in  *)
(* a file that has been changed since (validateVerifiedRecovery).          *)
CommittedIsHeld ==
    stage \in {"receiving", "closing"} =>
        \A b \in DOMAIN record :
            Rehashes([id \in FileIds |->
                         IF HasWriter(id) THEN writers[WriterOf(id)].content ELSE Content(id)], b)

(* A folder is refused exactly when the receiver's file system may not     *)
(* hold it as it is: a name that is not portable, two paths that are one   *)
(* under normalisation and case folding, or when it or its manifest is     *)
(* beyond a limit (createStreamPackManifest, encodeStreamPackIntegrity-    *)
(* Manifest): neither the order of the walk nor that of the paths refuses  *)
(* another one, or lets one pass.                                          *)
RefusedIsUnportable ==
    stage = "refused" <=>
        \/ Len(folder) > MaxEntries
        \/ BlockCount(folder) > MaxBlocks
        \/ ManifestBytes(Discovered(folder)) > MaxManifestBytes
        \/ \E i \in DOMAIN folder : ~ValidPath(Canonical(folder[i].path))
        \/ \E i, j \in DOMAIN folder :
              i # j /\ Folded(Canonical(folder[i].path)) = Folded(Canonical(folder[j].path))

(* A lost connection fails no transfer by itself: nothing but a file that  *)
(* changed or an operation that failed does                                *)
(* (docs/TRANSFER-STATE-MAPPING.md).                                       *)
LossesDoNotFail == stage = "failed" => mishaps > 0
=============================================================================
