-------------------------------- MODULE Heap --------------------------------
(***************************************************************************)
(* The kernel heap (src/memory/heap.c): a list of blocks, each with a      *)
(* header in front of its bytes, found first fit, split when there is room *)
(* for another block and merged with free neighbours when freed.           *)
(*                                                                         *)
(* Memory is counted in units of 16 bytes, the alignment of every size.    *)
(* A holder fills what it asked for with its mark; writing a header        *)
(* destroys the marks under it, so blocks that overlap show.               *)
(***************************************************************************)
EXTENDS Integers, Sequences, FiniteSets

CONSTANTS
  HeapPages,    \* pages of physical memory the heap may get
  PageUnits,    \* PAGE_SIZE
  HeaderUnits,  \* BLOCK_HEADER_SIZE
  InitialPages, \* the pages heap_init asks for
  Requests,     \* the sizes asked for
  Holders       \* the callers, each with at most one allocation

VARIABLES
  heap,         \* the list, the pages and the statistics
  holding          \* what each holder got: a pointer, or 0, and its length

heapVars == <<heap, holding>>

MinAllocUnits == 1
Null == 0
Scribbled == 0

ASSUME HeapAssumption ==
  /\ HeapPages \in Nat /\ PageUnits \in Nat \ {0} /\ HeaderUnits \in Nat \ {0}
  /\ InitialPages \in 1..(HeapPages - 1)
  /\ Requests \subseteq Nat /\ 0 \notin Holders

FirstUnit(page) == 1 + (page - 1) * PageUnits
UnitsOf(at, size) == at..(at + size - 1)
BlockUnits(b) == UnitsOf(b.at, HeaderUnits + b.size)
Payload(b) == b.at + HeaderUnits

EmptyHeap == [list |-> <<>>, pages |-> {}, total |-> 0, allocated |-> 0, count |-> 0,
              mark |-> [u \in {} |-> 0]]

\* Writing the header of a block over whatever was there.
WithHeader(H, at) ==
  [H EXCEPT !.mark = [u \in DOMAIN @ |-> IF u \in UnitsOf(at, HeaderUnits) THEN Scribbled ELSE @[u]]]

\* The runs of n free pages, and the heap with each of them as its last block.
PageRuns(H, n) ==
  {p \in 1..(HeapPages - n + 1) : \A q \in p..(p + n - 1) : q \notin H.pages}

PagesNeeded(size) == (size + HeaderUnits + PageUnits - 1) \div PageUnits

Grown(H, p, n) ==
  WithHeader([H EXCEPT !.list = Append(@, [at |-> FirstUnit(p), size |-> n * PageUnits - HeaderUnits, free |-> TRUE]),
                       !.pages = @ \union (p..(p + n - 1)),
                       !.total = @ + n * PageUnits],
             FirstUnit(p))

ExpandHeap(H, size) == {Grown(H, p, PagesNeeded(size)) : p \in PageRuns(H, PagesNeeded(size))}

-----------------------------------------------------------------------------
InsertAfter(s, i, e) == SubSeq(s, 1, i) \o <<e>> \o SubSeq(s, i + 1, Len(s))
Without(s, i) == SubSeq(s, 1, i - 1) \o SubSeq(s, i + 1, Len(s))

SplitBlock(H, i, size) ==
  LET b == H.list[i]
      rest == [at |-> b.at + HeaderUnits + size, size |-> b.size - size - HeaderUnits, free |-> TRUE]
  IN IF b.size >= size + HeaderUnits + MinAllocUnits
     THEN WithHeader([H EXCEPT !.list = InsertAfter([@ EXCEPT ![i].size = size], i, rest)], rest.at)
     ELSE H

NextTo(b, c) == b.at + HeaderUnits + b.size = c.at

MergeListed(H, i) ==
  IF i < Len(H.list) /\ i > 0 /\ H.list[i].free /\ H.list[i + 1].free
  THEN [H EXCEPT !.list = Without([@ EXCEPT ![i].size = @ + HeaderUnits + H.list[i + 1].size], i + 1)]
  ELSE H

\* Block i takes over block i + 1 when both are free and next to each other.
MergeWithNext(H, i) ==
  IF i < Len(H.list) /\ i > 0 /\ H.list[i].free /\ H.list[i + 1].free /\ NextTo(H.list[i], H.list[i + 1])
  THEN [H EXCEPT !.list = Without([@ EXCEPT ![i].size = @ + HeaderUnits + H.list[i + 1].size], i + 1)]
  ELSE H

MergeFreeBlocks(H, i) == MergeWithNext(MergeWithNext(H, i), i - 1)

Take(H, i) == [H EXCEPT !.list[i].free = FALSE, !.allocated = @ + H.list[i].size, !.count = @ + 1]

TakeSplit(H, i, size) == [heap |-> Take(SplitBlock(H, i, size), i), ptr |-> Payload(H.list[i])]

Suitable(H, size) == {i \in DOMAIN H.list : H.list[i].free /\ H.list[i].size >= size}

\* kmalloc: the possible outcomes, more than one only in the pages that a
\* growing heap gets.
Kmalloc(H, size) ==
  IF size = 0 THEN {[heap |-> H, ptr |-> Null]}
  ELSE IF Suitable(H, size) # {}
       THEN {TakeSplit(H, CHOOSE i \in Suitable(H, size) : \A j \in Suitable(H, size) : i <= j, size)}
       ELSE IF ExpandHeap(H, size) = {} THEN {[heap |-> H, ptr |-> Null]}
            ELSE {TakeSplit(G, Len(G.list), size) : G \in ExpandHeap(H, size)}

FreeAt(H, i) ==
  IF H.list[i].free THEN H
  ELSE MergeFreeBlocks([H EXCEPT !.list[i].free = TRUE, !.allocated = @ - H.list[i].size, !.count = @ - 1], i)

BlockOf(H, ptr) == CHOOSE i \in DOMAIN H.list : Payload(H.list[i]) = ptr

Kfree(H, ptr) == IF ptr = Null THEN H ELSE FreeAt(H, BlockOf(H, ptr))

-----------------------------------------------------------------------------
(* What the holders do with their memory.                                  *)

Fill(H, ptr, len, who) ==
  [H EXCEPT !.mark = [u \in DOMAIN @ \union UnitsOf(ptr, len) |-> IF u \in UnitsOf(ptr, len) THEN who ELSE @[u]]]

Forget(H, ptr, len) ==
  [H EXCEPT !.mark = [u \in DOMAIN @ \ UnitsOf(ptr, len) |-> @[u]]]

\* memcpy of n units; then only the new copy is the holder's.
CopiedBlock(H, to, from, n, old) ==
  LET dom == (DOMAIN H.mark \ UnitsOf(from, old)) \union UnitsOf(to, old)
  IN [H EXCEPT !.mark = [u \in dom |->
        IF u \in UnitsOf(to, old)
        THEN IF u - to < n THEN H.mark[from + (u - to)] ELSE Scribbled
        ELSE @[u]]]

Nothing == [ptr |-> Null, len |-> 0]

HolderAllocates(h, size) ==
  /\ holding[h].ptr = Null
  /\ \E r \in Kmalloc(heap, size) :
       IF r.ptr = Null THEN heap' = r.heap /\ UNCHANGED holding
       ELSE /\ heap' = Fill(r.heap, r.ptr, size, h)
            /\ holding' = [holding EXCEPT ![h] = [ptr |-> r.ptr, len |-> size]]

HolderFrees(h) ==
  /\ heap' = Kfree(Forget(heap, holding[h].ptr, holding[h].len), holding[h].ptr)
  /\ holding' = [holding EXCEPT ![h] = Nothing]

\* krealloc of a live pointer to a larger size: in place when the block has
\* the room, else a new block, a copy and a kfree.  What the holder had is
\* looked at before it fills the rest.
KreallocMoves(H, h, r, size) ==
  IF r.ptr = Null THEN [heap |-> H, holding |-> holding[h]]
  ELSE [heap |-> Kfree(CopiedBlock(r.heap, r.ptr, holding[h].ptr, H.list[BlockOf(H, holding[h].ptr)].size, holding[h].len), holding[h].ptr),
        holding |-> [ptr |-> r.ptr, len |-> holding[h].len]]

Krealloc(H, h, size) ==
  IF size <= H.list[BlockOf(H, holding[h].ptr)].size THEN {[heap |-> H, holding |-> holding[h]]}
  ELSE {KreallocMoves(H, h, r, size) : r \in Kmalloc(H, size)}

HolderGrows(h, size) ==
  /\ holding[h].ptr # Null /\ size > holding[h].len
  /\ \E r \in Krealloc(heap, h, size) : heap' = r.heap /\ holding' = [holding EXCEPT ![h] = r.holding]

HeapInit ==
  /\ \E H \in ExpandHeap(EmptyHeap, InitialPages * PageUnits) : heap = H
  /\ holding = [h \in Holders |-> Nothing]

HeapNext ==
  \E h \in Holders :
    \/ \E size \in Requests : HolderAllocates(h, size) \/ HolderGrows(h, size)
    \/ HolderFrees(h)

HeapSpec == HeapInit /\ [][HeapNext]_heapVars

-----------------------------------------------------------------------------
HeapTypeOK ==
  /\ \A i \in DOMAIN heap.list : heap.list[i].size \in Nat /\ heap.list[i].free \in BOOLEAN
  /\ heap.pages \subseteq 1..HeapPages
  /\ heap.allocated \in Nat /\ heap.count \in Nat
  /\ holding \in [Holders -> [ptr : Nat, len : Nat]]

\* The blocks of the list tile the pages of the heap exactly, whatever was
\* split and merged: no unit is in two blocks and none is lost
\* (split_block, merge_free_blocks).
BlocksTile ==
  /\ UNION {BlockUnits(heap.list[i]) : i \in DOMAIN heap.list}
       = UNION {UnitsOf(FirstUnit(p), PageUnits) : p \in heap.pages}
  /\ \A i, j \in DOMAIN heap.list : i < j => BlockUnits(heap.list[i]) \cap BlockUnits(heap.list[j]) = {}

\* What a holder wrote stays: no other allocation, no header and no
\* krealloc changes it (kmalloc, kfree, krealloc).
HeapDataKept ==
  \A h \in Holders : holding[h].ptr # Null =>
    \A u \in UnitsOf(holding[h].ptr, holding[h].len) : heap.mark[u] = h

\* kfree leaves no two free blocks side by side in the list, so a run of
\* free memory is always found as one block (merge_free_blocks).
FreeBlocksMerged ==
  \A i \in 1..(Len(heap.list) - 1) :
    ~(heap.list[i].free /\ heap.list[i + 1].free /\ NextTo(heap.list[i], heap.list[i + 1]))

\* The statistics of heap_get_stats: one allocation counted for each holder,
\* and as many bytes as their blocks have.
HeapStatsTrue ==
  LET Sum[i \in 0..Len(heap.list)] ==
        IF i = 0 THEN 0 ELSE Sum[i - 1] + (IF heap.list[i].free THEN 0 ELSE heap.list[i].size)
  IN /\ heap.count = Cardinality({h \in Holders : holding[h].ptr # Null})
     /\ heap.allocated = Sum[Len(heap.list)]
     /\ heap.total = Cardinality(heap.pages) * PageUnits

\* The block list of heap.c tiles its pages and keeps what callers stored.
HeapSound ==
  /\ HeapTypeOK /\ BlocksTile /\ HeapDataKept
  /\ FreeBlocksMerged /\ HeapStatsTrue
=============================================================================
