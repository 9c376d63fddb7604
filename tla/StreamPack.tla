----------------------------- MODULE StreamPack -----------------------------
(***************************************************************************)
(* A folder as one stream of bytes: the manifest of its entries, in the    *)
(* order of their paths, and the addresses of their files in the stream    *)
(* (packages/stream-pack).                                                 *)
(*                                                                         *)
(* A name is what the rules of a path tell of it: its normal form (NFC),   *)
(* whether component refuses it, its lower case, its length, and its place *)
(* in the order of bytes.  A path is the sequence of its names, from the   *)
(* picked root on.                                                         *)
(***************************************************************************)
EXTENDS Integers, FiniteSets, SequencesExt

CONSTANTS
    BlockBytes,     \* manifest.blockBytes
    MaxEntries,     \* streamPackMaximumEntries
    MaxComponents,  \* streamPackMaximumPathComponents
    MaxPathBytes,   \* streamPackMaximumPathBytes
    MaxBlocks,      \* the 1_000_000 of createStreamPackManifest
    MaxManifestBytes, \* streamPackMaximumManifestBytes
    Names,          \* of files and directories
    NormalForm,     \* of each name
    Unportable,     \* the names that component refuses
    LowerCase,      \* of each name
    Bytes,          \* of each name
    ByteOrder       \* the names, each with what follows it in a path

ASSUME StreamPackAssumption ==
    /\ {BlockBytes, MaxEntries, MaxComponents, MaxPathBytes} \subseteq Nat \ {0}
    /\ {MaxBlocks, MaxManifestBytes} \subseteq Nat
    /\ {NormalForm, LowerCase} \subseteq [Names -> Names]
    /\ \A name \in Names : NormalForm[NormalForm[name]] = NormalForm[name]
    /\ Unportable \subseteq Names
    /\ Bytes \in [Names -> Nat \ {0}]
    /\ ToSet(ByteOrder) = Names \X {"slash", "end"} /\ IsInjective(ByteOrder)

(* No manifest: validateEntries lets none pass that has no entries *)
Refused == <<>>

(* canonicalRelativePath, and when it does not throw *)
Canonical(path) == [i \in DOMAIN path |-> NormalForm[path[i]]]

PathBytes(path) == FoldLeft(LAMBDA total, name : total + 1 + Bytes[name], -1, path)

ValidPath(path) ==
    /\ Len(path) \in 1 .. MaxComponents
    /\ ToSet(path) \cap Unportable = {}
    /\ PathBytes(path) <= MaxPathBytes

(* compareUtf8: the first name that differs decides, but where one begins  *)
(* the other it is what follows it in its path, a slash or nothing         *)
Rank(path, i) ==
    CHOOSE r \in DOMAIN ByteOrder :
        ByteOrder[r] = <<path[i], IF i = Len(path) THEN "end" ELSE "slash">>

Precedes(path, other) ==
    \E n \in 0 .. Len(path) :
        /\ n < Len(other)
        /\ SubSeq(path, 1, n) = SubSeq(other, 1, n)
        /\ n < Len(path) => Rank(path, n + 1) < Rank(other, n + 1)

(* The key of `portable` *)
Folded(path) == [i \in DOMAIN path |-> LowerCase[path[i]]]

----------------------------------------------------------------------------
(* Faulty: only equal paths collide *)
CollidesExactly(path, other) == path = other

(* `paths` and `portable` *)
Collides(path, other) == Folded(path) = Folded(other)

(* validateEntries, of entries that are numbered as it demands *)
ValidEntries(entries) ==
    /\ Len(entries) \in 1 .. MaxEntries
    /\ \A i \in DOMAIN entries :
          /\ ValidPath(entries[i].path)
          /\ Canonical(entries[i].path) = entries[i].path
          /\ \A j \in 1 .. i - 1 :
                /\ ~Collides(entries[j].path, entries[i].path)
                /\ Precedes(entries[j].path, entries[i].path)
          /\ Len(entries[i].path) > 1 =>
                \E j \in 1 .. i - 1 : entries[j].path = Front(entries[i].path)
    /\ Cardinality({i \in DOMAIN entries : Len(entries[i].path) = 1}) = 1
    /\ entries[1].type = "DIRECTORY"

(* Entries become files with numbers in the order of the manifest *)
FileId(entries, i) == Cardinality({j \in 1 .. i - 1 : entries[j].type = "FILE"})

(* The constructor of StreamPackLayout *)
StartOf(entries, i) ==
    FoldLeft(LAMBDA total, entry : total + entry.size, 0, SubSeq(entries, 1, i - 1))

TotalBytes(entries) == StartOf(entries, Len(entries) + 1)

BlockCount(entries) == (TotalBytes(entries) + BlockBytes - 1) \div BlockBytes

(* createStreamPackManifest, of entries with canonical paths *)
Manifest(raw) ==
    LET sorted == SortSeq(raw, LAMBDA a, b : Precedes(a.path, b.path))
    IN  IF raw # <<>> /\ ValidEntries(sorted) /\ BlockCount(sorted) <= MaxBlocks
        THEN [i \in DOMAIN sorted |->
                 [path |-> sorted[i].path, type |-> sorted[i].type, size |-> sorted[i].size,
                  fileId |-> IF sorted[i].type = "FILE" THEN FileId(sorted, i) ELSE -1]]
        ELSE Refused

(* buildStreamPackSource: the walk finds every node of the tree, and stops *)
(* at a name that it cannot use                                            *)
Discovered(tree) ==
    [i \in DOMAIN tree |->
        [path |-> Canonical(tree[i].path), type |-> tree[i].type, size |-> tree[i].size]]

(* The bytes that encodeStreamPackIntegrityManifest writes: a header, each  *)
(* entry and a digest for each block                                       *)
ManifestBytes(entries) ==
    FoldLeft(LAMBDA total, entry : total + 9 + PathBytes(entry.path)
                                     + (IF entry.type = "FILE" THEN 12 ELSE 0),
             27 + 32 * BlockCount(entries), entries)

(* The identity of the source is the digest of its encoded manifest *)
PackedManifest(tree) ==
    LET found == Discovered(tree)
        manifest == Manifest(found)
    IN  IF /\ \A i \in DOMAIN tree : ValidPath(found[i].path)
           /\ manifest # Refused => ManifestBytes(manifest) <= MaxManifestBytes
        THEN manifest ELSE Refused

(* The entry of the manifest that a node of the tree became *)
NodeOf(tree, entry) == CHOOSE i \in DOMAIN tree : Canonical(tree[i].path) = entry.path

----------------------------------------------------------------------------
(* Empty files have no address *)
IndexedFiles(entries) ==
    LET placed == [i \in DOMAIN entries |->
                      [fileId |-> entries[i].fileId, start |-> StartOf(entries, i),
                       end |-> StartOf(entries, i) + entries[i].size]]
    IN  SelectSeq(placed, LAMBDA file : file.start < file.end)

(* The binary search of ranges *)
FileAt(files, offset) ==
    LET Search[low \in 1 .. Len(files) + 1, high \in 0 .. Len(files)] ==
            LET middle == (low + high) \div 2
            IN  IF low > high THEN low
                ELSE IF offset < files[middle].start THEN Search[low, middle - 1]
                ELSE IF offset >= files[middle].end THEN Search[middle + 1, high]
                ELSE middle
    IN  Search[1, Len(files)]

Smaller(a, b) == IF a < b THEN a ELSE b
Larger(a, b) == IF a < b THEN b ELSE a

(* ranges: the pieces of the files that the stream holds there *)
Ranges(entries, offset, length) ==
    LET files == IndexedFiles(entries)
        touched == SelectSeq(SubSeq(files, FileAt(files, offset), Len(files)),
                             LAMBDA file : file.start < offset + length)
    IN  [i \in DOMAIN touched |->
            LET from == Larger(offset, touched[i].start)
            IN  [fileId |-> touched[i].fileId, streamOffset |-> from,
                 fileOffset |-> from - touched[i].start,
                 length |-> Smaller(offset + length, touched[i].end) - from]]

BlockStart(block) == block * BlockBytes
BlockLength(entries, block) == Smaller(BlockBytes, TotalBytes(entries) - BlockStart(block))

(* blockRanges *)
BlockRanges(entries, block) == Ranges(entries, BlockStart(block), BlockLength(entries, block))

(* What streamPackSourceIdentity binds: the encoding is injective *)
SourceIdentity(entries) == [entries |-> entries, blockBytes |-> BlockBytes]
=============================================================================
