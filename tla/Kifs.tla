-------------------------------- MODULE Kifs --------------------------------
(***************************************************************************)
(* A mounted KiFS volume (fs/kifs/kifs.c): inode and block bitmaps, inode  *)
(* table, directory blocks and file data, all reached through the buffer   *)
(* cache.  An operation changes cached blocks one after the other and ends *)
(* with bcache_sync_dev.  Until then the cache may have written any of the *)
(* changed blocks, so a loss of power leaves a mixture of old and new      *)
(* blocks on the device.  A block that cannot be read makes bcache_get     *)
(* fail wherever the operation asks for it.                                *)
(***************************************************************************)
EXTENDS Integers, Sequences, FiniteSets, SequencesExt

CONSTANTS
    NumInodes,      \* sb.inode_count: inodes 1 .. NumInodes - 1 exist
    InodesPerBlock, \* 16 in the code
    NumBlocks,      \* sb.data_blocks
    MaxExtents,     \* inline extents of an inode, 8 in the code
    BlockCells,     \* bytes in a block
    DirSlots,       \* directory entries that fit into a block
    Name,
    BaseDirs,       \* the lists of directories mkfs may be asked to create
    Value,          \* bytes other than zero
    MaxSize,        \* bound: size of a file
    MaxFaults       \* bound: operations that meet a failing device

ASSUME KifsAssumption ==
    /\ {NumInodes, InodesPerBlock, NumBlocks, MaxExtents, BlockCells, DirSlots,
        MaxSize, MaxFaults} \subseteq Nat
    /\ NumInodes > 2
    /\ BlockCells > 0 /\ InodesPerBlock > 0
    /\ \A base \in BaseDirs : /\ NumBlocks > Len(base) /\ DirSlots >= 2 + Len(base)
                              /\ ToSet(base) \subseteq Name

VARIABLES
    vol,      \* the volume as the buffer cache shows it
    disk,     \* the volume as of the last completed sync (as vol once a
              \* device has failed: the two faults are not combined)
    torn,     \* what failed half way, leaving old and new blocks mixed
    kifsFaults,   \* operations that have met a failing device
    content   \* what the callers have put into each file

kifsVars == <<vol, disk, torn, kifsFaults, content>>

Inode == 1 .. NumInodes - 1
Root == 1
Orphan == 2
Block == 1 .. NumBlocks
NoBlock == 0

\* The blocks that bcache_get can be asked for, and the kernel heap.
Imap == <<"imap", 0>>
Bmap == <<"bmap", 0>>
Itab(i) == <<"itab", i \div InodesPerBlock>>
Data(b) == <<"data", b>>
Heap == <<"heap", 0>>
Access == {Imap, Bmap, Heap} \cup {Itab(i) : i \in Inode} \cup {Data(b) : b \in Block}

InodeRecord(type, links, size, ext) ==
    [type |-> type, links |-> links, size |-> size, ext |-> ext]
Extent(f, d, n) == [file |-> f, disk |-> d, count |-> n]
NoInode == InodeRecord("none", 0, 0, <<>>)
Entry(name, i, rec) == [name |-> name, ino |-> i, rec |-> rec]
DirBlock(ents) == [dir |-> TRUE, ents |-> ents]
DataBlock(cells) == [dir |-> FALSE, cells |-> cells]
Zeros == [c \in 1 .. BlockCells |-> 0]
BlocksFor(n) == (n + BlockCells - 1) \div BlockCells

-----------------------------------------------------------------------------
(* Inodes and the blocks they own *)

\* disk_block_in_data_region
InDataRegion(b, n) == n > 0 /\ b >= 1 /\ b + n <= NumBlocks + 1

\* inode_validate; the kernel never gives an inode an extent tree.
InodeValid(r) ==
    /\ r.type \in {"file", "dir"} /\ Len(r.ext) <= MaxExtents
    /\ \A k \in DOMAIN r.ext :
          /\ r.ext[k].count > 0
          /\ k > 1 => r.ext[k].file >= r.ext[k-1].file + r.ext[k-1].count
          /\ InDataRegion(r.ext[k].disk, r.ext[k].count)

\* inode_read succeeds.
InodeRead(v, F, i) == Itab(i) \notin F /\ InodeValid(v.itab[i])
IsDir(v, F, i) == InodeRead(v, F, i) /\ v.itab[i].type = "dir"
IsFile(v, F, i) == InodeRead(v, F, i) /\ v.itab[i].type = "file"

ExtentCovers(e, fb) == fb >= e.file /\ fb < e.file + e.count

\* map_file_block: the disk block of block fb of a file.
MapBlock(r, fb) ==
    LET on == {e \in ToSet(r.ext) : ExtentCovers(e, fb)}
    IN  IF on = {} THEN NoBlock
        ELSE LET e == CHOOSE x \in on : TRUE IN e.disk + (fb - e.file)

ExtentBlocks(ext) ==
    UNION {e.disk .. e.disk + e.count - 1 : e \in ToSet(ext)}

\* The blocks of an extent list in file order.
BlockSeq(ext) ==
    FlattenSeq([k \in DOMAIN ext |->
        [j \in 1 .. ext[k].count |-> ext[k].disk + j - 1]])

\* kifs_vnode_read of a whole file.
Contents(v, r) ==
    [c \in 1 .. r.size |->
        LET b == MapBlock(r, (c - 1) \div BlockCells)
        IN  IF b = NoBlock \/ v.blk[b].dir THEN 0
            ELSE v.blk[b].cells[((c - 1) % BlockCells) + 1]]

-----------------------------------------------------------------------------
(* Directories.  An entry holds its record length in units of the space one *)
(* entry needs; the space behind a name is free for another entry.          *)

\* The blocks dir_iterate visits, those it cannot read or map left out.
DirBlocks(v, F, r) ==
    SelectSeq([n \in 1 .. BlocksFor(r.size) |-> MapBlock(r, n - 1)],
              LAMBDA b : b # NoBlock /\ Data(b) \notin F /\ v.blk[b].dir)

EntryAt(v, b, name) == SelectInSeq(v.blk[b].ents, LAMBDA e : e.name = name)
SlotAt(v, b) == SelectInSeq(v.blk[b].ents, LAMBDA e : e.rec > 1)

\* dir_iterate needs a page of memory and visits nothing without it.
Iterated(v, F, r) == IF Heap \in F THEN <<>> ELSE DirBlocks(v, F, r)

DirEntries(v, F, r) == UNION {ToSet(v.blk[b].ents) : b \in ToSet(Iterated(v, F, r))}

\* dir_lookup_cb: the first entry with the name, 0 if there is none.
Lookup(v, F, r, name) ==
    LET bs == Iterated(v, F, r)
        n == SelectInSeq(bs, LAMBDA b : EntryAt(v, b, name) # 0)
    IN  IF n = 0 THEN 0 ELSE v.blk[bs[n]].ents[EntryAt(v, bs[n], name)].ino

\* dir_is_empty
DirIsEmpty(v, F, r) == \A e \in DirEntries(v, F, r) : e.name \in {".", ".."}

-----------------------------------------------------------------------------
(* Allocation *)

\* bitmap_alloc_range
LowestFree(S, used) == CHOOSE x \in S \ used : \A y \in S \ used : x <= y
CanAlloc(F, map, S, used) == map \notin F /\ S \ used # {}

SetInode(v, i, r) == [v EXCEPT !.itab[i] = r]

\* data_block_free, of a set of blocks; a failure is ignored.
FreeBlocks(v, F, S) == IF Bmap \in F THEN v ELSE [v EXCEPT !.bmap = @ \ S]

DropInodeKeepingBit(v, F, i) ==
    [v EXCEPT !.itab[i] = IF Itab(i) \in F THEN @ ELSE NoInode]

\* inode_clear and inode_free; failures are ignored.
DropInode(v, F, i) ==
    [v EXCEPT !.itab[i] = IF Itab(i) \in F THEN @ ELSE NoInode,
              !.imap = IF Imap \in F THEN @ ELSE @ \ {i}]

\* An extent is complete: out_extents[ext_count++] = ...
Flush(s) ==
    IF Len(s.ext) >= MaxExtents THEN [s EXCEPT !.failed = TRUE]
    ELSE [s EXCEPT !.ext = Append(@, Extent(s.file, s.start, s.len)),
                   !.file = @ + s.len, !.len = 0]

\* One turn of the loop of allocate_extents.
AllocStep(v, s, b) ==
    IF s.left = 0 \/ s.failed THEN s
    ELSE IF b \in v.bmap THEN IF s.len = 0 THEN s ELSE Flush(s)
    ELSE [s EXCEPT !.start = IF s.len = 0 THEN b ELSE @, !.len = @ + 1,
                   !.left = @ - 1]

\* allocate_extents: the extents, and whether it succeeds.
AllocateExtents(v, F, need) ==
    LET none == [left |-> need, start |-> 0, len |-> 0, file |-> 0,
                 ext |-> <<>>, failed |-> FALSE]
        last == FoldLeft(LAMBDA s, b : AllocStep(v, s, b), none,
                         [n \in Block |-> n])
        done == IF last.len = 0 \/ last.failed THEN last ELSE Flush(last)
    IN  [ok |-> ~ done.failed /\ done.left = 0 /\ (need = 0 \/ Bmap \notin F),
         ext |-> done.ext]

-----------------------------------------------------------------------------
(* Results.  ok: the operation got as far as its sync.  v: the volume then, *)
(* or when it gave up.  undone: the volume it leaves when the sync fails.   *)

GiveUp(v) == [ok |-> FALSE, v |-> v, undone |-> v]
Done(v) == [ok |-> TRUE, v |-> v, undone |-> v]
DoneOr(v, u) == [ok |-> TRUE, v |-> v, undone |-> u]

DirFail(v, r) == [ok |-> FALSE, v |-> v, r |-> r]

\* The extents of an inode with block b added behind them as file block fb.
AddBlock(ext, fb, b) ==
    LET e == ext[Len(ext)]
    IN  IF ext # <<>> /\ e.file + e.count = fb /\ e.disk + e.count = b
        THEN [ext EXCEPT ![Len(ext)].count = @ + 1]
        ELSE Append(ext, Extent(fb, b, 1))

\* dir_append_entry_block: a new block whose only entry is the new one.
DirAppend(v, F, d, r, name, i) ==
    LET b == LowestFree(Block, v.bmap)
        w == [v EXCEPT !.blk[b] = DirBlock(<<Entry(name, i, DirSlots)>>)]
        fb == BlocksFor(r.size)
        n == [r EXCEPT !.ext = AddBlock(r.ext, fb, b), !.size = (fb + 1) * BlockCells]
    IN  IF ~ CanAlloc(F, Bmap, Block, v.bmap) \/ Data(b) \in F THEN DirFail(v, r)
        ELSE IF Len(n.ext) > MaxExtents \/ Itab(d) \in F THEN DirFail(w, r)
        ELSE [ok |-> TRUE, r |-> n,
              v |-> SetInode([w EXCEPT !.bmap = @ \cup {b}], d, n)]

\* The new entry takes the free space behind entry k.
SplitEntry(ents, k, name, i) ==
    InsertAt([ents EXCEPT ![k].rec = 1], k + 1, Entry(name, i, ents[k].rec - 1))

\* dir_add_entry: the first block that has room, else a new block.
DirAdd(v, F, d, r, name, i) ==
    LET bs == DirBlocks(v, F, r)
        n == SelectInSeq(bs, LAMBDA b : EntryAt(v, b, name) # 0 \/ SlotAt(v, b) # 0)
        b == bs[n]
    IN  IF n = 0 THEN DirAppend(v, F, d, r, name, i)
        ELSE IF EntryAt(v, b, name) # 0 THEN DirFail(v, r)
        ELSE [ok |-> TRUE, r |-> r,
              v |-> [v EXCEPT !.blk[b].ents = SplitEntry(@, SlotAt(v, b), name, i)]]

\* The entry before the removed one takes over its space.
MergeEntry(ents, k) == RemoveAt([ents EXCEPT ![k - 1].rec = @ + ents[k].rec], k)

\* dir_remove_entry; the first entry of a block has no entry before it.
DirRemove(v, F, r, name) ==
    LET bs == DirBlocks(v, F, r)
        n == SelectInSeq(bs, LAMBDA b : EntryAt(v, b, name) # 0)
        k == EntryAt(v, bs[n], name)
    IN  IF n = 0 THEN DirFail(v, r)
        ELSE IF k = 1 THEN DirFail(v, r)
        ELSE [ok |-> TRUE, r |-> r,
              v |-> [v EXCEPT !.blk[bs[n]].ents = MergeEntry(@, k)]]

-----------------------------------------------------------------------------
(* File contents *)

Pad(s, n) == [c \in 1 .. n |-> IF c <= Len(s) THEN s[c] ELSE 0]
ChunkOfFirst(s, n) == [c \in 1 .. BlockCells |-> IF c <= Len(s) THEN s[c] ELSE 0]
Chunk(s, n) == [c \in 1 .. BlockCells |->
                   IF (n - 1) * BlockCells + c <= Len(s)
                   THEN s[(n - 1) * BlockCells + c] ELSE 0]

\* write_extent_data: it stops at the first block it cannot get.
WriteExtents(v, F, ext, s) ==
    LET bs == BlockSeq(ext)
        stop == SelectInSeq(bs, LAMBDA b : Data(b) \in F)
        last == IF stop = 0 THEN Len(bs) ELSE stop - 1
    IN  [ok |-> stop = 0,
         v |-> [v EXCEPT !.blk = [b \in Block |->
                  IF \E n \in 1 .. last : bs[n] = b
                  THEN DataBlock(Chunk(s, CHOOSE n \in 1 .. last : bs[n] = b))
                  ELSE @[b]]]]

ReplaceReusing(v, F, i, s) ==
    LET r == v.itab[i]
        u == FreeBlocks(v, F, ExtentBlocks(r.ext))
        a == AllocateExtents(u, F, BlocksFor(Len(s)))
        w == WriteExtents([u EXCEPT !.bmap = @ \cup ExtentBlocks(a.ext)], F, a.ext, s)
    IN  IF ~ a.ok \/ ~ w.ok \/ Itab(i) \in F THEN GiveUp(v)
        ELSE Done(SetInode(w.v, i, [r EXCEPT !.size = Len(s), !.ext = a.ext]))

\* replace_file_contents: the new contents go to new blocks, the inode is
\* switched over, and only then are the old blocks freed.
Replace(v, F, i, s) ==
    LET r == v.itab[i]
        a == AllocateExtents(v, F, BlocksFor(Len(s)))
        w == WriteExtents([v EXCEPT !.bmap = @ \cup ExtentBlocks(a.ext)], F, a.ext, s)
    IN  IF ~ a.ok THEN GiveUp(v)
        ELSE IF ~ w.ok \/ Itab(i) \in F THEN GiveUp(FreeBlocks(w.v, F, ExtentBlocks(a.ext)))
        ELSE Done(FreeBlocks(SetInode(w.v, i, [r EXCEPT !.size = Len(s), !.ext = a.ext]),
                             F, ExtentBlocks(r.ext)))

\* The extents of an inode with more appended: an extent that continues the
\* last one on the disk extends it.
JoinExtents(ext, more) ==
    FoldLeft(LAMBDA x, e :
        IF x # <<>> /\ x[Len(x)].disk + x[Len(x)].count = e.disk
                    /\ x[Len(x)].file + x[Len(x)].count = e.file
        THEN [x EXCEPT ![Len(x)].count = @ + e.count]
        ELSE Append(x, e), ext, more)

\* append_file_contents: the rest of the last block is filled in place, then
\* new blocks are added.
AppendTo(v, F, i, s) ==
    LET r == v.itab[i]
        part == r.size % BlockCells
        tail == MapBlock(r, r.size \div BlockCells)
        room == IF part = 0 THEN 0 ELSE BlockCells - part
        filled == IF part = 0 THEN v
                  ELSE [v EXCEPT !.blk[tail].cells =
                          [c \in 1 .. BlockCells |->
                              IF c > part /\ c - part <= Len(s) THEN s[c - part] ELSE @[c]]]
        rest == SubSeq(s, room + 1, Len(s))
        a == AllocateExtents(v, F, BlocksFor(Len(rest)))
        new == [k \in DOMAIN a.ext |-> [a.ext[k] EXCEPT !.file = @ + BlocksFor(r.size)]]
        ext == JoinExtents(r.ext, new)
        w == WriteExtents([filled EXCEPT !.bmap = @ \cup ExtentBlocks(new)], F, new, rest)
    IN  IF part # 0 /\ (tail = NoBlock \/ Data(tail) \in F) THEN GiveUp(v)
        ELSE IF ~ a.ok \/ Len(ext) > MaxExtents THEN GiveUp(filled)
        ELSE IF ~ w.ok \/ Itab(i) \in F THEN GiveUp(FreeBlocks(w.v, F, ExtentBlocks(new)))
        ELSE Done(SetInode(w.v, i, [r EXCEPT !.size = @ + Len(s), !.ext = ext]))

\* A file can be read from its first byte to its last.
AllReadable(F, r) == \A b \in ExtentBlocks(r.ext) : Data(b) \notin F

Overwrite(old, off, s) ==
    [c \in 1 .. (IF off + Len(s) > Len(old) THEN off + Len(s) ELSE Len(old)) |->
        IF c > off /\ c <= off + Len(s) THEN s[c - off]
        ELSE IF c <= Len(old) THEN old[c] ELSE 0]

\* kifs_vnode_write
WriteResult(v, F, i, off, s) ==
    LET r == v.itab[i]
    IN  IF ~ IsFile(v, F, i) THEN GiveUp(v)
        ELSE IF off = r.size THEN AppendTo(v, F, i, s)
        ELSE IF Heap \in F \/ ~ AllReadable(F, r) THEN GiveUp(v)
        ELSE Replace(v, F, i, Overwrite(Contents(v, r), off, s))

\* kifs_vnode_truncate, to a size other than the file's.
TruncateResult(v, F, i, n) ==
    LET r == v.itab[i]
    IN  IF ~ IsFile(v, F, i) \/ (n # 0 /\ (Heap \in F \/ ~ AllReadable(F, r)))
        THEN GiveUp(v)
        ELSE Replace(v, F, i, Pad(Contents(v, r), n))

-----------------------------------------------------------------------------
(* Names *)

\* kifs_vnode_create
CreateResult(v, F, d, name) ==
    LET i == LowestFree(Inode, v.imap)
        w == SetInode([v EXCEPT !.imap = @ \cup {i}], i, InodeRecord("file", 1, 0, <<>>))
        a == DirAdd(w, F, d, v.itab[d], name, i)
    IN  IF \/ ~ IsDir(v, F, d) \/ Lookup(v, F, v.itab[d], name) # 0
           \/ ~ CanAlloc(F, Imap, Inode, v.imap) \/ Itab(i) \in F
        THEN GiveUp(v)
        ELSE IF ~ a.ok THEN GiveUp(DropInode(a.v, F, i))
        ELSE DoneOr(a.v, DropInode(DirRemove(a.v, F, a.r, name).v, F, i))

\* kifs_vnode_mkdir; a failure to update the parent undoes nothing.
MkdirResult(v, F, d, name) ==
    LET i == LowestFree(Inode, v.imap)
        b == LowestFree(Block, v.bmap)
        ents == <<Entry(".", i, 1), Entry("..", d, DirSlots - 1)>>
        w == [v EXCEPT !.imap = @ \cup {i}, !.bmap = @ \cup {b},
                       !.blk[b] = DirBlock(ents),
                       !.itab[i] = InodeRecord("dir", 2, BlockCells, <<Extent(0, b, 1)>>)]
        a == DirAdd(w, F, d, v.itab[d], name, i)
    IN  IF \/ ~ IsDir(v, F, d) \/ Lookup(v, F, v.itab[d], name) # 0
           \/ ~ CanAlloc(F, Imap, Inode, v.imap) \/ ~ CanAlloc(F, Bmap, Block, v.bmap)
           \/ Heap \in F \/ Data(b) \in F
        THEN GiveUp(v)
        ELSE IF Itab(i) \in F THEN GiveUp([v EXCEPT !.blk[b] = DirBlock(ents)])
        ELSE IF ~ a.ok THEN GiveUp(FreeBlocks(DropInode(a.v, F, i), F, {b}))
        ELSE Done(SetInode(a.v, d, [a.r EXCEPT !.links = @ + 1]))

\* kifs_vnode_unlink, of a file or an empty directory.
UnlinkResult(v, F, d, name) ==
    LET i == Lookup(v, F, v.itab[d], name)
        r == v.itab[i]
        a == DirRemove(v, F, v.itab[d], name)
        w == IF r.type = "dir" THEN SetInode(a.v, d, [v.itab[d] EXCEPT !.links = @ - 1])
                               ELSE a.v
    IN  IF \/ ~ IsDir(v, F, d) \/ i = 0 \/ ~ InodeRead(v, F, i)
           \/ (r.type = "dir" /\ ~ DirIsEmpty(v, F, r)) \/ ~ a.ok
        THEN GiveUp(v)
        ELSE IF r.type = "file" /\ r.links > 1
             THEN Done(SetInode(w, i, [r EXCEPT !.links = @ - 1]))
        ELSE Done(DropInode(FreeBlocks(w, F, ExtentBlocks(r.ext)), F, i))

-----------------------------------------------------------------------------
(* mkfs *)

\* kifs_mkfs_ex: root directory, orphan file and the base directories; other
\* data blocks keep their old contents.
Formatted(base, old) ==
    LET n == Len(base)
        used == 1 .. n + 1
        rootents == [k \in 1 .. n + 2 |->
            Entry(CASE k = 1 -> "." [] k = 2 -> ".." [] OTHER -> base[k - 2],
                  IF k <= 2 THEN Root ELSE k,
                  IF k = n + 2 THEN DirSlots - n - 1 ELSE 1)]
        dirents(k) == <<Entry(".", k + 1, 1), Entry("..", Root, DirSlots - 1)>>
    IN  [imap |-> 1 .. n + 2,
         bmap |-> used,
         itab |-> [i \in Inode |->
            CASE i = Root -> InodeRecord("dir", 2 + n, BlockCells, <<Extent(0, 1, 1)>>)
              [] i = Orphan -> InodeRecord("file", 1, 0, <<>>)
              [] i \in 3 .. n + 2 -> InodeRecord("dir", 2, BlockCells, <<Extent(0, i - 1, 1)>>)
              [] OTHER -> NoInode],
         blk |-> [b \in Block |-> CASE b = 1 -> DirBlock(rootents)
                                     [] b \in 2 .. n + 1 -> DirBlock(dirents(b))
                                     [] OTHER -> old[b]]]

-----------------------------------------------------------------------------
(* How an operation ends *)

\* The blocks in which two versions of the volume differ.
Changed(a, b) ==
    {x \in {Imap} : a.imap # b.imap} \cup {x \in {Bmap} : a.bmap # b.bmap}
    \cup {Itab(i) : i \in {j \in Inode : a.itab[j] # b.itab[j]}}
    \cup {Data(k) : k \in {j \in Block : a.blk[j] # b.blk[j]}}

\* Version a with the blocks S of version b.
Mix(a, b, S) ==
    [imap |-> IF Imap \in S THEN b.imap ELSE a.imap,
     bmap |-> IF Bmap \in S THEN b.bmap ELSE a.bmap,
     itab |-> [i \in Inode |-> IF Itab(i) \in S THEN b.itab[i] ELSE a.itab[i]],
     blk |-> [k \in Block |-> IF Data(k) \in S THEN b.blk[k] ELSE a.blk[k]]]

\* The device works, but for the blocks F.  put: the contents of the files if
\* the operation succeeds.
Complete(res, F, put) ==
    /\ kifsFaults' = IF F = {} THEN kifsFaults ELSE kifsFaults + 1
    /\ vol' = res.v
    /\ disk' = IF res.ok \/ kifsFaults' > 0 THEN res.v ELSE disk
    /\ content' = IF res.ok THEN put ELSE content
    /\ UNCHANGED torn

\* bcache_sync_dev fails.
SyncFails(res, put) ==
    /\ res.ok /\ kifsFaults < MaxFaults
    /\ kifsFaults' = kifsFaults + 1
    /\ vol' = res.undone /\ disk' = res.undone
    /\ content' = put
    /\ UNCHANGED torn

\* The power fails in the operation or before what it left in the cache is
\* written; not combined with a failing device.
PowerLoss(res) ==
    /\ kifsFaults = 0
    /\ \E S \in SUBSET Changed(disk, res.v) : S # {} /\ vol' = Mix(disk, res.v, S)
    /\ torn' = "write"
    /\ UNCHANGED <<disk, kifsFaults, content>>

\* What may fail in one operation.
FaultSets == {{x} : x \in IF kifsFaults < MaxFaults THEN Access ELSE {}}

Operation(Result(_), put) ==
    \E good \in {Result({})} :
        \/ Complete(good, {}, put)
        \/ \E F \in FaultSets : \E bad \in {Result(F)} :
              bad # good /\ Complete(bad, F, put)
        \/ SyncFails(good, put)
        \/ PowerLoss(good)

\* The directories and files that lookups from the root can reach.
Children(v, i) == {e.ino : e \in {x \in DirEntries(v, {}, v.itab[i]) : x.name \in Name}}
Dirs(v) == {Root} \cup {i \in Children(v, Root) : IsDir(v, {}, i)}
Files(v) == {i \in UNION {Children(v, d) : d \in Dirs(v)} : IsFile(v, {}, i)}

Create(d, name) ==
    LET R(F) == CreateResult(vol, F, d, name)
        new == IF Inode = vol.imap THEN {} ELSE {LowestFree(Inode, vol.imap)}
    IN  Operation(R, [i \in Inode |-> IF i \in new THEN <<>> ELSE content[i]])

Mkdir(d, name) ==
    LET R(F) == MkdirResult(vol, F, d, name) IN Operation(R, content)

Unlink(d, name) ==
    LET R(F) == UnlinkResult(vol, F, d, name)
        gone == Lookup(vol, {}, vol.itab[d], name)
    IN  Operation(R, [i \in Inode |-> IF i = gone THEN <<>> ELSE content[i]])

Write(i, off, s) ==
    LET R(F) == WriteResult(vol, F, i, off, s)
    IN  Operation(R, [content EXCEPT ![i] = Overwrite(@, off, s)])

Truncate(i, n) ==
    LET R(F) == TruncateResult(vol, F, i, n)
    IN  Operation(R, [content EXCEPT ![i] = Pad(@, n)])

\* The formatter does not look at the results of its writes: a block that it
\* cannot write keeps its old contents.
Mkfs(base) ==
    \E res \in {Done(Formatted(base, vol.blk))}, put \in {[i \in Inode |-> <<>>]} :
        \/ Complete(res, {}, put) \/ SyncFails(res, put)
        \/ /\ kifsFaults < MaxFaults
           /\ \E x \in Changed(vol, res.v) : vol' = Mix(res.v, vol, {x})
           /\ kifsFaults' = kifsFaults + 1 /\ torn' = "format"
           /\ UNCHANGED <<disk, content>>

KifsInit ==
    /\ vol = Formatted(<<>>, [b \in Block |-> DataBlock(Zeros)])
    /\ disk = vol
    /\ torn = "no"
    /\ kifsFaults = 0
    /\ content = [i \in Inode |-> <<>>]

KifsNext ==
    \/ \E d \in Dirs(vol), name \in Name :
          Create(d, name) \/ (d = Root /\ Mkdir(d, name)) \/ Unlink(d, name)
    \/ \E i \in Files(vol), off \in 0 .. MaxSize - 1, n \in 1 .. MaxSize, x \in Value :
          off + n <= MaxSize /\ Write(i, off, [c \in 1 .. n |-> x])
    \/ \E i \in Files(vol), n \in 0 .. MaxSize :
          n # vol.itab[i].size /\ Truncate(i, n)
    \/ \E base \in BaseDirs : Mkfs(base)

KifsSpec == KifsInit /\ [][KifsNext]_kifsVars

\* The volume that a failure half way leaves is looked at, not used further.
Intact == torn = "no"

-----------------------------------------------------------------------------
(* Properties *)

\* The variables keep their types, and cached inodes are well formed.
KifsTypeOK ==
    /\ vol.imap \subseteq Inode /\ vol.bmap \subseteq Block
    /\ \A i \in Inode : vol.itab[i] = NoInode \/ InodeValid(vol.itab[i])
    /\ \A b \in Block : ~ vol.blk[b].dir => Len(vol.blk[b].cells) = BlockCells
    /\ kifsFaults \in 0 .. MaxFaults /\ torn \in {"no", "write", "format"}

Live(v) == {i \in Inode : v.itab[i] # NoInode}
OwnBlocks(v, i) == ExtentBlocks(v.itab[i].ext)
Reached(v) == Dirs(v) \cup Files(v)

\* With a device that works the volume is always what a file system checker
\* accepts: the bitmaps mark exactly the live inodes and their blocks, no block
\* has two owners, every inode but the orphan file can be reached, every name
\* leads to a live inode, and the link counts are right.
Consistent ==
    (kifsFaults = 0 /\ Intact) =>
        /\ vol.imap = Live(vol)
        /\ vol.bmap = UNION {OwnBlocks(vol, i) : i \in Live(vol)}
        /\ \A i, j \in Live(vol) : i # j => OwnBlocks(vol, i) \cap OwnBlocks(vol, j) = {}
        /\ \A i \in Live(vol) :
              Cardinality(OwnBlocks(vol, i)) = BlocksFor(vol.itab[i].size)
        /\ Live(vol) = Reached(vol) \cup {Orphan}
        /\ \A d \in Dirs(vol) :
              /\ Children(vol, d) \subseteq Live(vol)
              /\ vol.itab[d].links =
                    2 + Cardinality({i \in Children(vol, d) : IsDir(vol, {}, i)})

\* What keeps files apart when the device fails: the blocks of a file that can
\* be reached are marked used, and no other inode that can be reached has them,
\* so no later write to one file lands in another.
NoAliasing ==
    Intact => \A i \in Reached(vol) :
        /\ OwnBlocks(vol, i) \subseteq vol.bmap
        /\ \A j \in Reached(vol) : i # j => OwnBlocks(vol, i) \cap OwnBlocks(vol, j) = {}

\* A file reads back what callers wrote, to the byte, through overwriting,
\* appending, truncation, reuse of blocks, full volumes and failing devices; a
\* call that fails before its sync has changed nothing a reader can see.
HoldsLastWrites ==
    Intact => \A i \in Files(vol) : Contents(vol, vol.itab[i]) = content[i]

Lowest(S, n) == {x \in S : Cardinality({y \in S : y <= x}) <= n}

\* The blocks that allocate_extents takes are the lowest free ones in ascending
\* order, cut into as few extents as possible, and it fails only when there are
\* too few blocks or too many extents.
ExtentsAreLowestFree ==
    Intact => \A need \in 0 .. NumBlocks :
        LET a == AllocateExtents(vol, {}, need)
            free == Block \ vol.bmap
            want == Lowest(free, need)
            runs == {x \in want : x - 1 \notin want}
        IN  /\ a.ok <=> Cardinality(free) >= need /\ Cardinality(runs) <= MaxExtents
            /\ a.ok => /\ Len(a.ext) = Cardinality(runs)
                       /\ {MapBlock([ext |-> a.ext], fb) : fb \in 0 .. need - 1} = want
                       /\ \A fb \in 1 .. need - 1 : MapBlock([ext |-> a.ext], fb)
                                                 > MapBlock([ext |-> a.ext], fb - 1)

\* kifs.c keeps its volume sound: consistent while the device works, its files
\* apart even when it fails.
KifsSound == KifsTypeOK /\ Consistent /\ NoAliasing /\ ExtentsAreLowestFree

\* A loss of power does not touch the data under an inode that survives: a file
\* whose inode is the old one still has its old contents, because overwriting
\* goes to fresh blocks and appending fills only the space behind the end.
OldInodeOldData ==
    torn = "write" => \A i \in Files(disk) : vol.itab[i] = disk.itab[i] =>
        Contents(vol, vol.itab[i]) = Contents(disk, disk.itab[i])

\* kifs.txt, section 12: a crash may leak, but it leaves no name that leads to
\* an invalid inode and no referenced block that the bitmap calls free.
CrashLeavesNoBadPointers ==
    torn = "write" => /\ \A d \in Dirs(vol) : Children(vol, d) \subseteq Live(vol)
                      /\ \A i \in Reached(vol) : OwnBlocks(vol, i) \subseteq vol.bmap
=============================================================================
