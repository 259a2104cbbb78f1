-------------------------------- MODULE Fat ---------------------------------
(***************************************************************************)
(* A mounted FAT volume (fs/fat/fat.c): the allocation table, the fixed    *)
(* root directory, directories and files in chains of clusters, and the    *)
(* vnodes of open files, which keep a copy of the first cluster and of the *)
(* size.  There is no cache: an operation writes one sector after the      *)
(* other.  One of its writes may fail, or all of them from some write on,  *)
(* which is a device pulled out or a loss of power.  Every read precedes a *)
(* write of the same helper and fails like it.  A file has one vnode, and  *)
(* is not unlinked while it is open.                                       *)
(***************************************************************************)
EXTENDS Integers, Sequences, FiniteSets, SequencesExt, FiniteSetsExt

CONSTANTS
    NumClusters,   \* fs->cluster_count
    RootSlots,     \* entries of the fixed root directory
    DirSlots,      \* entries in a cluster of a directory
    ClusterCells,  \* bytes in a cluster
    FatCopies,     \* fs->fat_count
    FatName,       \* short names
    FatMaxSize,    \* bound: size of a file
    MaxOpen,       \* bound: files open at a time
    FatFaults      \* bound: operations that meet a failing device

VARIABLES
    fat,           \* the volume: table, root directory, cluster contents
    open,          \* the vnodes of open files, by the place of their entry
    bytes,         \* what the callers have put into each file, by place
    fatfaults      \* operations that have met a failing device

fatVars == <<fat, open, bytes, fatfaults>>

Cluster == 2 .. NumClusters + 1
Free == 0
Eoc == 1
RootDir == 0
NoCluster == 0
NoPlace == <<RootDir, 0>>

\* Directory slots: the end mark 0x00, the deleted mark 0xe5, or an entry.
NoEntry(mark) == [name |-> mark, dir |-> FALSE, first |-> NoCluster, size |-> 0]
End == NoEntry("end")
Deleted == NoEntry("deleted")
DirEntry(name, c) == [name |-> name, dir |-> TRUE, first |-> c, size |-> 0]
FileEntry(name) == [name |-> name, dir |-> FALSE, first |-> NoCluster, size |-> 0]

\* A cluster full of zeros, and one that is free, whose contents do not matter.
Junk == [cells |-> [k \in 1 .. ClusterCells |-> -1],
         slots |-> [k \in 1 .. DirSlots |->
                       [name |-> "junk", dir |-> FALSE, first |-> Min(Cluster), size |-> 1]]]
Zeroed == [cells |-> [k \in 1 .. ClusterCells |-> 0],
           slots |-> [k \in 1 .. DirSlots |-> End]]

-----------------------------------------------------------------------------
(* Device writes.  A call is carried along as a record: the volume v, the  *)
(* number of writes before the one that fails, whether the device stays    *)
(* dead after it, whether a failing write of the table reaches the first   *)
(* copy, and the outcome so far.                                           *)

Call(v, vnodes, left, dead, half) ==
    [v |-> v, open |-> vnodes, left |-> left, dead |-> dead, half |-> half,
     ok |-> TRUE, c |-> NoCluster, first |-> NoCluster, at |-> NoPlace]
Never == -1

Failed(w) == [w EXCEPT !.ok = FALSE]
Put(w, v) ==
    IF w.left # 0 THEN [w EXCEPT !.v = v, !.left = @ - 1, !.ok = TRUE]
    ELSE [w EXCEPT !.ok = FALSE, !.left = IF w.dead THEN 0 ELSE Never]

\* What follows a part of a call that succeeds, and what undoes one that fails.
Then(w, Go(_)) == IF w.ok THEN Go(w) ELSE w
Undo(w, Back(_)) == IF w.ok THEN w ELSE Failed(Back(w))

\* fat_write_cluster_entry, of all copies of the table.
SetEntry(w, c, x) ==
    LET v == [w.v EXCEPT !.fat[c] = x, !.data[c] = IF x = Free THEN Junk ELSE @]
    IN  Undo(Put(w, v), LAMBDA p : IF p.half THEN [p EXCEPT !.v = v] ELSE p)

ZeroCluster(w, c) == Put(w, [w.v EXCEPT !.data[c] = Zeroed])

\* fat_flush
Flush(w) == Put(w, w.v)

-----------------------------------------------------------------------------
(* Chains *)

FreeClusters(v) == {c \in Cluster : v.fat[c] = Free}

\* A cluster is marked as the end of a chain and then zeroed.
Take(w, c) ==
    Then(SetEntry(w, c, Eoc), LAMBDA a :
        [Undo(ZeroCluster(a, c), LAMBDA z : SetEntry(z, c, Free)) EXCEPT !.c = c])

\* fat_alloc_cluster: the lowest free cluster.
AllocCluster(w) ==
    IF FreeClusters(w.v) = {} THEN Failed(w) ELSE Take(w, Min(FreeClusters(w.v)))

\* One turn of fat_free_chain; w.c is the cluster it has come to.
FreeStep(w) ==
    LET next == w.v.fat[w.c]
    IN  IF next = Free THEN Failed(w)
        ELSE Then(SetEntry(w, w.c, Free), LAMBDA a :
                [a EXCEPT !.c = IF next = Eoc THEN NoCluster ELSE next])

\* fat_free_chain
FreeChain(w, c) ==
    FoldLeft(LAMBDA x, n : IF x.ok /\ x.c # NoCluster THEN FreeStep(x) ELSE x,
             [w EXCEPT !.c = c, !.ok = TRUE], [n \in 1 .. NumClusters |-> n])

\* The cluster after w.c, allocated and linked in at the end of the chain.
NextOrNew(w) ==
    LET next == w.v.fat[w.c]
    IN  IF next \in Cluster THEN [w EXCEPT !.c = next]
        ELSE IF next = Free THEN Failed(w)
        ELSE Then(AllocCluster(w), LAMBDA a :
                Undo(SetEntry(a, w.c, a.c), LAMBDA b : SetEntry(b, a.c, Free)))

\* The first cluster of a file, allocated if it has none; w.first is the
\* vnode's copy of it.
FirstOrNew(w) ==
    IF w.first # NoCluster THEN [w EXCEPT !.c = w.first]
    ELSE Then(AllocCluster(w), LAMBDA a : [a EXCEPT !.first = a.c])

\* fat_file_cluster_for_index with allocation.
ClusterForIndex(w, i) ==
    FoldLeft(LAMBDA x, n : Then(x, NextOrNew), FirstOrNew(w), [n \in 1 .. i |-> n])

\* The clusters of a chain, as fat_next_cluster leads through them.
Chain(v, c) ==
    FoldLeft(LAMBDA s, n : LET x == v.fat[s[Len(s)]]
                           IN  IF x \in Cluster THEN Append(s, x) ELSE s,
             <<c>>, [n \in 1 .. NumClusters |-> n])

-----------------------------------------------------------------------------
(* Directories; d is RootDir or the first cluster of a directory *)

\* The places of the entries of a directory in their order.
Places(v, d) ==
    IF d = RootDir THEN [k \in 1 .. RootSlots |-> <<RootDir, k>>]
    ELSE LET chain == Chain(v, d)
         IN  [n \in 1 .. Len(chain) * DirSlots |->
                <<chain[((n - 1) \div DirSlots) + 1], ((n - 1) % DirSlots) + 1>>]

SlotAt(v, p) == IF p[1] = RootDir THEN v.root[p[2]] ELSE v.data[p[1]].slots[p[2]]

\* fat_write_dirent_at
PutSlot(w, p, e) ==
    Put(w, IF p[1] = RootDir THEN [w.v EXCEPT !.root[p[2]] = e]
           ELSE [w.v EXCEPT !.data[p[1]].slots[p[2]] = e])

\* fat_iter_dir: the places it visits, up to the first end mark; dot entries
\* and deleted ones are passed over.
Visited(v, d) ==
    LET ps == Places(v, d)
        end == SelectInSeq(ps, LAMBDA p : SlotAt(v, p) = End)
        seen == IF end = 0 THEN ps ELSE SubSeq(ps, 1, end - 1)
    IN  SelectSeq(seen, LAMBDA p : SlotAt(v, p).name \notin {"deleted", ".", ".."})

\* fat_vnode_lookup
FatLookup(v, d, name) ==
    LET ps == Visited(v, d)
        n == SelectInSeq(ps, LAMBDA p : SlotAt(v, p).name = name)
    IN  IF n = 0 THEN NoPlace ELSE ps[n]

\* fat_find_free_dir_slot: the first end or deleted mark; a directory other
\* than the root grows by a cluster when it has none.  w.at is the slot.
FindFreeSlot(w, d) ==
    LET ps == Places(w.v, d)
        n == SelectInSeq(ps, LAMBDA p : SlotAt(w.v, p) \in {End, Deleted})
    IN  IF n # 0 THEN [w EXCEPT !.at = ps[n]]
        ELSE IF d = RootDir THEN Failed(w)
        ELSE Then(NextOrNew([w EXCEPT !.c = Last(Chain(w.v, d))]), LAMBDA g :
                [g EXCEPT !.at = <<g.c, 1>>])

Dirs(v) == {RootDir} \cup
    {SlotAt(v, p).first : p \in {q \in ToSet(Visited(v, RootDir)) : SlotAt(v, q).dir}}
EntryPlaces(v) == UNION {ToSet(Visited(v, d)) : d \in Dirs(v)}
FilePlaces(v) == {p \in EntryPlaces(v) : ~ SlotAt(v, p).dir}

-----------------------------------------------------------------------------
(* File contents *)

\* fat_vnode_read of a whole file through a vnode or an entry.
ReadAll(v, node) ==
    LET chain == Chain(v, node.first)
    IN  [k \in 1 .. node.size |->
            v.data[chain[((k - 1) \div ClusterCells) + 1]].cells[((k - 1) % ClusterCells) + 1]]

Stored(old, off, s) ==
    [k \in 1 .. Max({Len(old), off + Len(s)}) |->
        IF k > off /\ k <= off + Len(s) THEN s[k - off] ELSE old[k]]

PutCellsFromStart(w, i, off, s) ==
    Put(w, [w.v EXCEPT !.data[w.c].cells =
        [k \in 1 .. ClusterCells |-> IF k - off \in DOMAIN s THEN s[k - off] ELSE @[k]]])

\* The part of a write of s at off that falls into cluster i of the file.
PutCells(w, i, off, s) ==
    Put(w, [w.v EXCEPT !.data[w.c].cells =
        [k \in 1 .. ClusterCells |->
            LET n == i * ClusterCells + k - off
            IN  IF n \in DOMAIN s THEN s[n] ELSE @[k]]])

\* One turn of the loop of fat_vnode_write: cluster i of the file.  was: the
\* first cluster before the call.
WriteCluster(w, was, i, off, s) ==
    Then(Undo(ClusterForIndex(w, i), LAMBDA a :
            IF was = NoCluster /\ a.first # NoCluster
            THEN [FreeChain(a, a.first) EXCEPT !.first = was] ELSE a),
         LAMBDA a : PutCells(a, i, off, s))

\* fat_update_node_dirent
UpdateEntry(w, p, node) ==
    PutSlot(w, p, [SlotAt(w.v, p) EXCEPT !.first = node.first, !.size = node.size])

-----------------------------------------------------------------------------
(* Operations.  w.open: the vnodes. *)

Vnode(first, size) == [first |-> first, size |-> size]
SetNode(w, p, node) ==
    [w EXCEPT !.open = [q \in DOMAIN w.open \cup {p} |-> IF q = p THEN node ELSE w.open[q]]]

\* fat_vnode_write; off is not behind the end of the file.
WriteLoop(w, p, off, s) ==
    FoldLeft(LAMBDA x, n : Then(x, LAMBDA y : WriteCluster(y, w.open[p].first, n, off, s)),
             [w EXCEPT !.first = w.open[p].first],
             [n \in 1 .. 1 + ((off + Len(s) - 1) \div ClusterCells) - (off \div ClusterCells)
                |-> (off \div ClusterCells) + n - 1])

EndWrite(w, p, size) ==
    IF ~ w.ok THEN SetNode(w, p, Vnode(w.first, w.open[p].size))
    ELSE Then(UpdateEntry(SetNode(w, p, Vnode(w.first, size)), p, Vnode(w.first, size)), Flush)

WriteResult(w, p, off, s) ==
    EndWrite(WriteLoop(w, p, off, s), p, Max({w.open[p].size, off + Len(s)}))

FreeIfAny(w, c) == IF c = NoCluster THEN w ELSE FreeChain(w, c)

TruncateFreesFirst(w, p) ==
    Then(Then(SetNode(FreeIfAny(w, w.open[p].first), p, Vnode(NoCluster, 0)),
              LAMBDA a : UpdateEntry(a, p, Vnode(NoCluster, 0))), Flush)

\* fat_vnode_truncate to 0: the entry first, then the chain.  When the entry
\* cannot be written only the first cluster of the vnode is restored.
TruncateResult(w, p) ==
    Then(Undo(UpdateEntry(SetNode(w, p, Vnode(NoCluster, 0)), p, Vnode(NoCluster, 0)),
              LAMBDA a : SetNode(a, p, Vnode(w.open[p].first, 0))),
         LAMBDA b : Then(FreeIfAny(b, w.open[p].first), Flush))

MayOpen == Cardinality(DOMAIN open) < MaxOpen

\* fat_vnode_create, and the vnode it returns if the caller wants one.
CreateResult(w, d, name) ==
    IF FatLookup(w.v, d, name) # NoPlace THEN Failed(w)
    ELSE Then(FindFreeSlot(w, d), LAMBDA a :
         Then(PutSlot(a, a.at, FileEntry(name)), LAMBDA b :
         Then(Flush(b), LAMBDA e :
             IF MayOpen THEN SetNode(e, e.at, Vnode(NoCluster, 0)) ELSE e)))

\* fat_write_initial_dir_cluster
InitialDir(w, d) ==
    Put(w, [w.v EXCEPT !.data[w.c].slots = [k \in 1 .. DirSlots |->
        IF k = 1 THEN DirEntry(".", w.c) ELSE IF k = 2 THEN DirEntry("..", d) ELSE End]])

\* fat_vnode_mkdir
MkdirResult(w, d, name) ==
    IF FatLookup(w.v, d, name) # NoPlace THEN Failed(w)
    ELSE Then(Then(FindFreeSlot(w, d), AllocCluster), LAMBDA a :
         Then(Undo(InitialDir(a, d), LAMBDA x : SetEntry(x, a.c, Free)), LAMBDA b :
         Then(Undo(PutSlot(b, b.at, DirEntry(name, a.c)), LAMBDA x : FreeChain(x, a.c)),
              Flush)))

\* fat_vnode_unlink, of a file or of an empty directory.
UnlinkResult(w, d, name) ==
    LET p == FatLookup(w.v, d, name)
        e == SlotAt(w.v, p)
    IN  IF p = NoPlace THEN Failed(w)
        ELSE IF e.dir /\ Visited(w.v, e.first) # <<>> THEN Failed(w)
        ELSE Then(Then(PutSlot(w, p, Deleted), LAMBDA a : FreeIfAny(a, e.first)), Flush)

-----------------------------------------------------------------------------
(* Behaviour *)

Place == (({RootDir} \X (1 .. RootSlots)) \cup (Cluster \X (1 .. DirSlots)))

\* What a reader gets of the file at place p.
Seen(v, vnodes, p) ==
    IF p \in DOMAIN vnodes THEN ReadAll(v, vnodes[p])
    ELSE IF p \in FilePlaces(v) THEN ReadAll(v, SlotAt(v, p)) ELSE <<>>

\* A call on the file at place p has come to its end r.  With a dead device the
\* volume is mounted again and no file is open.
\* put: the contents of the file if the call succeeds.
Ends(r, p, put) ==
    /\ fat' = r.v
    /\ open' = IF r.dead THEN <<>> ELSE r.open
    /\ bytes' = [bytes EXCEPT ![p] = IF r.ok THEN put ELSE Seen(fat', open', p)]

\* The call succeeds at every write, or one of its writes fails, alone or with
\* all that follow.
Operation(R(_), p, put) ==
    \E good \in {R(Call(fat, open, Never, FALSE, FALSE))} :
        \/ Ends(good, p, put) /\ UNCHANGED fatfaults
        \/ /\ fatfaults < FatFaults
           /\ \E k \in 0 .. Never - good.left - 1, dead \in BOOLEAN,
                 half \in IF FatCopies > 1 THEN BOOLEAN ELSE {FALSE} :
                \E r \in {R(Call(fat, open, k, dead, half))} : Ends(r, p, put)
           /\ fatfaults' = fatfaults + 1

FatCreate(d, name) ==
    LET R(w) == CreateResult(w, d, name)
    IN  Operation(R, <<RootDir, 1>>, bytes[<<RootDir, 1>>])

FatMkdir(d, name) ==
    LET R(w) == MkdirResult(w, d, name)
    IN  Operation(R, <<RootDir, 1>>, bytes[<<RootDir, 1>>])

FatUnlink(d, name) ==
    LET R(w) == UnlinkResult(w, d, name)
        p == FatLookup(fat, d, name)
    IN  p # NoPlace /\ p \notin DOMAIN open /\ Operation(R, p, <<>>)

FatWrite(p, off, s) ==
    LET R(w) == WriteResult(w, p, off, s)
    IN  off <= open[p].size /\ Operation(R, p, Stored(bytes[p], off, s))

FatTruncate(p) ==
    LET R(w) == TruncateResult(w, p)
    IN  open[p].size # 0 /\ Operation(R, p, <<>>)

\* fat_build_child_vnode
FatOpen(p) ==
    /\ MayOpen /\ p \notin DOMAIN open
    /\ open' = [q \in DOMAIN open \cup {p} |->
          IF q = p THEN Vnode(SlotAt(fat, p).first, SlotAt(fat, p).size) ELSE open[q]]
    /\ UNCHANGED <<fat, bytes, fatfaults>>

\* fat_vnode_release; what a failed call has left in the vnode only is lost.
FatClose(p) ==
    /\ open' = [q \in DOMAIN open \ {p} |-> open[q]]
    /\ bytes' = IF fatfaults = 0 THEN bytes
                ELSE [bytes EXCEPT ![p] = Seen(fat, open', p)]
    /\ UNCHANGED <<fat, fatfaults>>

FatInit ==
    /\ fat = [fat |-> [c \in Cluster |-> Free],
              root |-> [k \in 1 .. RootSlots |-> End],
              data |-> [c \in Cluster |-> Junk]]
    /\ open = <<>>
    /\ bytes = [p \in Place |-> <<>>]
    /\ fatfaults = 0

FatNext ==
    \/ \E d \in Dirs(fat), name \in FatName :
          FatCreate(d, name) \/ (d = RootDir /\ FatMkdir(d, name)) \/ FatUnlink(d, name)
    \/ \E p \in FilePlaces(fat) : FatOpen(p)
    \/ \E p \in DOMAIN open : FatClose(p) \/ FatTruncate(p)
    \/ \E p \in DOMAIN open, off \in 0 .. FatMaxSize - 1, n \in 1 .. FatMaxSize :
          off + n <= FatMaxSize /\ FatWrite(p, off, [k \in 1 .. n |-> p[2]])

FatSpec == FatInit /\ [][FatNext]_fatVars

-----------------------------------------------------------------------------
(* Properties *)

\* The variables keep their types.
FatTypeOK ==
    /\ fat.fat \in [Cluster -> Cluster \cup {Free, Eoc}]
    /\ \A p \in Place : SlotAt(fat, p).first \in Cluster \cup {NoCluster}
    /\ DOMAIN open \subseteq Place
    /\ \A p \in DOMAIN open : open[p].first \in Cluster \cup {NoCluster}
    /\ fatfaults \in 0 .. FatFaults

\* The first clusters of everything that can be reached, with what needs them.
Heads ==
    {<<p, SlotAt(fat, p).first>> : p \in EntryPlaces(fat) \ DOMAIN open}
    \cup {<<p, open[p].first>> : p \in DOMAIN open}
Owner == {h \in Heads : h[2] # NoCluster}

\* Whatever write fails, and wherever the power fails: every chain that an entry
\* or an open file leads to runs through allocated clusters to an end mark, and
\* no cluster is in two chains or twice in one, so files never share clusters.
ChainsSound ==
    /\ \A h \in Owner : /\ Len(Chain(fat, h[2])) <= NumClusters
                        /\ IsInjective(Chain(fat, h[2]))
                        /\ fat.fat[Last(Chain(fat, h[2]))] = Eoc
    /\ \A g, h \in Owner : g # h =>
          ToSet(Chain(fat, g[2])) \cap ToSet(Chain(fat, h[2])) = {}

\* As long as the device works nothing is lost either: a cluster that is not
\* free is in the chain of some entry, full volumes and directories included.
NoClusterLost ==
    fatfaults = 0 =>
        {c \in Cluster : fat.fat[c] # Free} = UNION {ToSet(Chain(fat, h[2])) : h \in Owner}

\* A reader gets what was written last, and a call that fails, or is cut off by
\* a loss of power, changes no other file.
FilesHoldBytes ==
    \A p \in FilePlaces(fat) \cup DOMAIN open : Seen(fat, open, p) = bytes[p]

\* No directory has two entries of one name, and an open file keeps its entry.
NamesUnique ==
    /\ \A d \in Dirs(fat) : \A p, q \in ToSet(Visited(fat, d)) :
          SlotAt(fat, p).name = SlotAt(fat, q).name => p = q
    /\ DOMAIN open \subseteq FilePlaces(fat)

\* fat.c keeps its volume sound after every write of every operation.
FatSound == FatTypeOK /\ ChainsSound /\ NoClusterLost /\ NamesUnique
=============================================================================
