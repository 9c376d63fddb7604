--------------------------- MODULE ResumableCopy ---------------------------
(***************************************************************************)
(* The recovery record of packages/resume in the form that is stored and   *)
(* sent, with two of its users: ResumableBlockCopy, which copies the       *)
(* blocks that a record misses and can be interrupted at any await, or go  *)
(* with its page and with what the page has not closed, and                *)
(* RecoveryReconciler, which learns from the pages of a record which       *)
(* blocks are missing.                                                     *)
(*                                                                         *)
(* Block ranges are pairs [start, end), bytes are their offsets.  What     *)
(* binds a record to its transfer, file and destination is left out.       *)
(***************************************************************************)
EXTENDS Integers, FiniteSetsExt, SequencesExt

CONSTANTS
    TotalBytes,         \* sizes of the file
    BlockBytes,
    FrameBytes,
    RangesPerPage,      \* maximumRangesPerPage
    MaxInterruptions    \* bound: interruptions of a copy, with or without its page

VARIABLES
    totalBytes,     \* the size of the file
    stored,         \* committedBlockRanges of the stored record, or NoRecord
    file,           \* the offsets at which the file has the bytes of the source
    written,        \* those at which the destination has them, a stream over the file
    discarded,      \* those of recorded blocks that went with a page (history)
    copier,         \* copyMissingBlocks, with what it awaits
    reconciler      \* a RecoveryReconciler, with the pages it is for and what accept returned

destination == <<file, written, discarded>>
copyVars == <<totalBytes, stored, destination, copier, reconciler>>

\* a range that no record has
NoRecord == <<<<0, 0>>>>
Ended == [pc |-> "none", record |-> <<>>, todo |-> <<>>, offset |-> 0, interruptions |-> 0]

\* missing blocks that no reconciler has told yet
NotTold == {-1}
NoReconciler ==
    [pages |-> <<>>, expectedPage |-> 0, ranges |-> <<>>, complete |-> FALSE, missing |-> NotTold]

----------------------------------------------------------------------------
(* blockCountFor *)
RecordBlocks == 0 .. ((totalBytes + BlockBytes - 1) \div BlockBytes) - 1

(* blockByteRange *)
BlockByteRange(block) == <<block * BlockBytes, Min({(block + 1) * BlockBytes, totalBytes})>>

(* compactBlockIndexes: adjacent blocks share a range *)
Compacted(blocks) ==
    LET Joined(ranges, block) ==
            IF ranges # <<>> /\ Last(ranges)[2] = block
            THEN Append(Front(ranges), <<Last(ranges)[1], block + 1>>)
            ELSE Append(ranges, <<block, block + 1>>)
    IN  FoldLeft(Joined, <<>>, SetToSortSeq(blocks, <))

(* expandBlockRanges: in order, without overlap, of blocks of the file *)
ValidRanges(ranges) ==
    \A i \in DOMAIN ranges :
        /\ (IF i = 1 THEN 0 ELSE ranges[i - 1][2]) <= ranges[i][1]
        /\ ranges[i][1] < ranges[i][2]
        /\ ranges[i][2] - 1 \in RecordBlocks

Expanded(ranges) == UNION {r[1] .. r[2] - 1 : r \in {ranges[i] : i \in DOMAIN ranges}}

(* markBlockCommitted *)
MarkedCommitted(ranges, block) == Compacted(Expanded(ranges) \cup {block})

(* missingBlockIndexes *)
MissingIn(ranges) == RecordBlocks \ Expanded(ranges)

(* pageBlockRanges *)
RangesPages(ranges) ==
    [p \in 1 .. (Len(ranges) + RangesPerPage - 1) \div RangesPerPage |->
        SubSeq(ranges, (p - 1) * RangesPerPage + 1, Min({p * RangesPerPage, Len(ranges)}))]

(* createHaveBlocksPages: an empty record has one page *)
HavePages(ranges) ==
    LET pages == IF ranges = <<>> THEN <<<<>>>> ELSE RangesPages(ranges)
    IN  [p \in DOMAIN pages |->
            [page |-> p - 1, hasMore |-> p < Len(pages), ranges |-> pages[p]]]

(* A record that earlier transfers have left: of any blocks, as every one  *)
(* of them was written before, to a stream that was closed                 *)
CopyInit ==
    /\ totalBytes \in TotalBytes
    /\ \E blocks \in SUBSET RecordBlocks :
        /\ stored \in {Compacted(blocks)} \cup IF blocks = {} THEN {NoRecord} ELSE {}
        /\ file = {x \in 0 .. totalBytes - 1 : x \div BlockBytes \in blocks}
    /\ written = file
    /\ discarded = {}
    /\ copier = Ended
    /\ reconciler = NoReconciler

----------------------------------------------------------------------------
(* The copy of the next block begins, or all is copied *)
NextBlock(c) ==
    IF c.todo = <<>> THEN [c EXCEPT !.pc = "copied"]
    ELSE [c EXCEPT !.pc = "writing", !.offset = BlockByteRange(Head(c.todo))[1]]

(* copyMissingBlocks: ReceiverRecoveryCheckpoint.open takes the stored     *)
(* record, and stores a new one, of no blocks, where there is none.  A     *)
(* load or a save that fails leaves all as it was                          *)
CopyStarts ==
    /\ copier.pc = "none"
    /\ stored' = IF stored = NoRecord THEN <<>> ELSE stored
    /\ copier' = NextBlock([copier EXCEPT !.record = stored',
                                          !.todo = SetToSortSeq(MissingIn(stored'), <)])
    /\ UNCHANGED <<totalBytes, destination, reconciler>>

(* Faulty: the last frame only when it is a whole one *)
WholeFrameFits(offset, end) == offset + FrameBytes <= end

(* The condition of the loop over the frames of a block *)
FrameIsLeft(offset, end) == offset < end

(* One frame is read and written.  After the last one the block is to be   *)
(* committed                                                               *)
FrameIsWritten ==
    /\ copier.pc = "writing"
    /\ LET end == BlockByteRange(Head(copier.todo))[2]
           next == copier.offset + FrameBytes
       IN  /\ written' = written \cup copier.offset .. Min({next, end}) - 1
           /\ copier' = [copier EXCEPT
                            !.offset = next,
                            !.pc = IF FrameIsLeft(next, end) THEN "writing" ELSE "saving"]
    /\ UNCHANGED <<totalBytes, stored, file, discarded, reconciler>>

(* checkpoint.commit: the record counts when it is stored *)
BlockIsCommitted ==
    /\ copier.pc = "saving"
    /\ stored' = MarkedCommitted(copier.record, Head(copier.todo))
    /\ copier' = NextBlock([copier EXCEPT !.record = stored', !.todo = Tail(@)])
    /\ UNCHANGED <<totalBytes, destination, reconciler>>

(* A read, a write, a save or onBlockCommitted fails.  What was written    *)
(* stays, also of an uncommitted block                                     *)
CopyIsInterrupted ==
    /\ copier.pc \in {"writing", "saving"} /\ copier.interruptions < MaxInterruptions
    /\ copier' = [Ended EXCEPT !.interruptions = copier.interruptions + 1]
    /\ UNCHANGED <<totalBytes, stored, destination, reconciler>>

(* The page is gone, and what it wrote: the stream that destinationFrom-   *)
(* Writable wraps gives it to the file at close(), which is not the copy's *)
(* to call.  The record stays, also the one of a save that was under way:  *)
(* that is BlockIsCommitted, with this after                               *)
PageIsLost ==
    /\ copier.pc # "none" /\ copier.interruptions < MaxInterruptions
    /\ written' = file
    /\ discarded' = discarded \cup {x \in written \ file : x \div BlockBytes \in Expanded(stored)}
    /\ copier' = [Ended EXCEPT !.interruptions = copier.interruptions + 1]
    /\ UNCHANGED <<totalBytes, stored, file, reconciler>>

----------------------------------------------------------------------------
(* The pages of the stored record are created, and a sender has a new      *)
(* reconciler for them                                                     *)
PagesAreSent ==
    /\ stored # NoRecord
    /\ reconciler' = [NoReconciler EXCEPT !.pages = HavePages(stored)]
    /\ UNCHANGED <<totalBytes, stored, destination, copier>>

(* accept throws, and nothing changes, for a page that is not the expected *)
(* one                                                                     *)
TakesPage(r, page) == page.page = r.expectedPage

(* RecoveryReconciler.accept, for any of the pages.  The last one completes*)
(* it before the ranges are validated: it throws for invalid ones then,    *)
(* and no blocks are told                                                  *)
PageIsAccepted ==
    /\ ~reconciler.complete
    /\ \E i \in DOMAIN reconciler.pages :
        LET page == reconciler.pages[i]
            ranges == reconciler.ranges \o page.ranges
        IN  /\ TakesPage(reconciler, page)
            /\ reconciler' =
                   [reconciler EXCEPT
                       !.expectedPage = @ + 1,
                       !.ranges = ranges,
                       !.complete = ~page.hasMore,
                       !.missing = IF page.hasMore \/ ~ValidRanges(ranges) THEN NotTold
                                   ELSE MissingIn(ranges)]
    /\ UNCHANGED <<totalBytes, stored, destination, copier>>

CopyNext ==
    \/ CopyStarts
    \/ FrameIsWritten
    \/ BlockIsCommitted
    \/ CopyIsInterrupted
    \/ PageIsLost
    \/ PagesAreSent
    \/ PageIsAccepted

----------------------------------------------------------------------------
(* Every byte of a block that the stored record counts is in the           *)
(* destination, after any interruptions, but for what went with a page     *)
(* after its block was recorded: the copy closes nothing, and never comes  *)
(* back to a recorded block.  A copy that ends has recorded all the others *)
(* and written them (copyMissingBlocks, commit, destinationFromWritable).  *)
RecordedIsWritten ==
    /\ \A x \in 0 .. totalBytes - 1 :
           x \div BlockBytes \in Expanded(stored) => x \in written \cup discarded
    /\ copier.pc = "copied" =>
           written \cup discarded = 0 .. totalBytes - 1 /\ MissingIn(stored) = {}

(* A sender that accepts the pages of a record, whatever their order, is   *)
(* told to send exactly the blocks that were missing from it: a block too  *)
(* few would be lost, one too many refused by the receiver                 *)
(* (RecoveryReconciler.accept, pageBlockRanges, expandBlockRanges).        *)
ReconciledIsMissing ==
    reconciler.complete =>
        reconciler.missing
        = {b \in RecordBlocks :
              ~\E i \in DOMAIN reconciler.pages :
                  \E j \in DOMAIN reconciler.pages[i].ranges :
                      /\ reconciler.pages[i].ranges[j][1] <= b
                      /\ b < reconciler.pages[i].ranges[j][2]}
============================================================================
