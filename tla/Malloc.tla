------------------------------- MODULE Malloc -------------------------------
(***************************************************************************)
(* The user heap of kiwilib (userspace/kiwilib/src/stdlib.c) and the parts *)
(* of the library that live in it: the environment (setenv, putenv,        *)
(* unsetenv, clearenv, getenv) and the anonymous mappings of posix.c.      *)
(*                                                                         *)
(* Sizes are counted in units of 8 bytes, so the header of a block has 3   *)
(* and the alignment is 2.  The break grows through sbrk only in malloc:   *)
(* no program of the repository calls sbrk itself, and coalesce_blocks     *)
(* relies on that (it merges neighbours of the list without looking at     *)
(* their addresses).  Owners mark what they own; headers and copies move   *)
(* or destroy the marks.                                                   *)
(***************************************************************************)
EXTENDS Integers, Sequences, FiniteSets

CONSTANTS
  BreakMax,     \* the units the kernel lets the break reach
  EnvNames,     \* names of variables
  EnvValues,    \* values; EntryUnits gives the size of an entry
  EntryUnits,
  Inherited,    \* the variables of environ: a function on some of the names
  EnvSlots,     \* the length of g_extra_env
  MapSlots,     \* the length of g_mmap_regions
  MapSizes,     \* lengths asked of mmap
  UserSizes     \* sizes asked of malloc and realloc by the program

VARIABLES
  arena,        \* the blocks, the break and the marks
  environment,  \* g_extra_env, and whether environ is still there
  regions,      \* g_mmap_regions
  kept,         \* the pointer of the program and its size
  latest        \* history: what the last call about each variable said

mallocVars == <<arena, environment, regions, kept, latest>>

HeaderWords == 3
MinSplit == 4
NoPtr == 0
Program == <<"program", 0>>
UnitSpan(at, n) == at..(at + n - 1)
AlignWords(n) == ((n + 1) \div 2) * 2
Smallest(S) == CHOOSE x \in S : \A y \in S : x <= y

WordsOf(b) == b.at + HeaderWords

HeaderAt(A, at) ==
  [A EXCEPT !.mark = [u \in DOMAIN @ \ UnitSpan(at, HeaderWords) |-> @[u]]]

SplitArena(A, i, size) ==
  LET b == A.list[i]
      rest == [at |-> WordsOf(b) + size, size |-> b.size - size - HeaderWords, free |-> TRUE]
  IN IF b.size < size + HeaderWords + MinSplit THEN A
     ELSE HeaderAt([A EXCEPT !.list = SubSeq(@, 1, i - 1) \o <<[b EXCEPT !.size = size], rest>>
                                        \o SubSeq(@, i + 1, Len(@))], rest.at)

CoalesceForgetsHeader(list) ==
  LET Add(done, b) ==
        IF done # <<>> /\ done[Len(done)].free /\ b.free
        THEN [done EXCEPT ![Len(done)].size = @ + b.size] ELSE Append(done, b)
      F[i \in 0..Len(list)] == IF i = 0 THEN <<>> ELSE Add(F[i - 1], list[i])
  IN F[Len(list)]

\* coalesce_blocks: one pass that merges every run of free blocks.
Coalesce(list) ==
  LET Add(done, b) ==
        IF done # <<>> /\ done[Len(done)].free /\ b.free
        THEN [done EXCEPT ![Len(done)].size = @ + HeaderWords + b.size] ELSE Append(done, b)
      F[i \in 0..Len(list)] == IF i = 0 THEN <<>> ELSE Add(F[i - 1], list[i])
  IN F[Len(list)]

AppendBlock(A, size) ==
  IF A.brk + HeaderWords + size > BreakMax THEN [arena |-> A, ptr |-> NoPtr]
  ELSE [arena |-> HeaderAt([A EXCEPT !.list = Append(@, [at |-> A.brk, size |-> size, free |-> FALSE]),
                                     !.brk = @ + HeaderWords + size], A.brk),
        ptr |-> A.brk + HeaderWords]

FreeBlocks(A, size) == {i \in DOMAIN A.list : A.list[i].free /\ A.list[i].size >= size}

TakeBlock(A, i, size) ==
  [arena |-> SplitArena([A EXCEPT !.list[i].free = FALSE], i, size), ptr |-> WordsOf(A.list[i])]

MallocAligned(A, size) ==
  IF FreeBlocks(A, size) # {} THEN TakeBlock(A, Smallest(FreeBlocks(A, size)), size)
  ELSE AppendBlock(A, size)

MallocOf(A, size) == IF size = 0 THEN [arena |-> A, ptr |-> NoPtr] ELSE MallocAligned(A, AlignWords(size))

IndexOf(A, ptr) == CHOOSE i \in DOMAIN A.list : WordsOf(A.list[i]) = ptr

FreeOf(A, ptr) ==
  IF ptr = NoPtr THEN A
  ELSE [A EXCEPT !.list = Coalesce([@ EXCEPT ![IndexOf(A, ptr)].free = TRUE])]

\* An owner writes its mark over what it asked for, and takes it away again.
Own(A, ptr, n, who) ==
  [A EXCEPT !.mark = [u \in DOMAIN @ \union UnitSpan(ptr, n) |-> IF u \in UnitSpan(ptr, n) THEN who ELSE @[u]]]
Disown(A, who) == [A EXCEPT !.mark = [u \in {v \in DOMAIN @ : @[v] # who} |-> @[u]]]

\* memcpy of n words.
MoveMarks(A, to, from, n) ==
  [A EXCEPT !.mark = [u \in (DOMAIN @ \ (UnitSpan(from, n) \union UnitSpan(to, n))) \union {v \in UnitSpan(to, n) : from + (v - to) \in DOMAIN @} |->
                       IF u \in UnitSpan(to, n) THEN @[from + (u - to)] ELSE @[u]]]

-----------------------------------------------------------------------------
(* realloc of the program's block; the program keeps one.                  *)

ReallocMoves(A, r, ptr) ==
  IF r.ptr = NoPtr THEN [arena |-> A, ptr |-> ptr]
  ELSE [arena |-> FreeOf(MoveMarks(r.arena, r.ptr, ptr, A.list[IndexOf(A, ptr)].size), ptr), ptr |-> r.ptr]

ReallocTo(A, ptr, size) ==
  IF A.list[IndexOf(A, ptr)].size >= size
  THEN [arena |-> SplitArena(A, IndexOf(A, ptr), size), ptr |-> ptr]
  ELSE ReallocMoves(A, MallocOf(A, size), ptr)

\* The program fills the words it has and did not have before, or gives up
\* those past the new end.
Resized(A, ptr, n) == IF ptr = NoPtr THEN Disown(A, Program) ELSE Own(Disown(A, Program), ptr, n, Program)
SameMarks(A, ptr, n) == \A u \in UnitSpan(ptr, n) : u \in DOMAIN A.mark /\ A.mark[u] = Program

UserMalloc(size) ==
  /\ kept.ptr = NoPtr
  /\ \E r \in {MallocOf(arena, size)} :
       /\ arena' = IF r.ptr = NoPtr THEN r.arena ELSE Own(r.arena, r.ptr, size, Program)
       /\ kept' = [ptr |-> r.ptr, size |-> IF r.ptr = NoPtr THEN 0 ELSE size, whole |-> TRUE]
  /\ UNCHANGED <<environment, regions, latest>>

\* "whole": the words both sizes have in common are still the program's.
UserRealloc(size) ==
  /\ kept.ptr # NoPtr /\ size > 0
  /\ \E r \in {ReallocTo(arena, kept.ptr, AlignWords(size))} :
       LET n == IF r.ptr = kept.ptr /\ arena.list[IndexOf(arena, kept.ptr)].size < AlignWords(size)
                THEN kept.size ELSE size
       IN /\ arena' = Resized(r.arena, r.ptr, n)
          /\ kept' = [ptr |-> r.ptr, size |-> n,
                      whole |-> SameMarks(r.arena, r.ptr, IF n < kept.size THEN n ELSE kept.size)]
  /\ UNCHANGED <<environment, regions, latest>>

UserFree ==
  /\ arena' = FreeOf(Disown(arena, Program), kept.ptr)
  /\ kept' = [ptr |-> NoPtr, size |-> 0, whole |-> TRUE]
  /\ UNCHANGED <<environment, regions, latest>>

-----------------------------------------------------------------------------
(* The environment.                                                        *)

NoEntry == [name |-> "", value |-> "", owned |-> FALSE, ptr |-> NoPtr]
EnvOwner(slot) == <<"env", slot>>

SlotsNamed(name) == {i \in 1..EnvSlots : environment.extra[i].name = name}
SlotsFree == {i \in 1..EnvSlots : environment.extra[i].name = ""}

\* env_find_extra, then env_find_free_extra.
SlotFor(name) ==
  IF SlotsNamed(name) # {} THEN Smallest(SlotsNamed(name))
  ELSE IF SlotsFree # {} THEN Smallest(SlotsFree) ELSE 0

Released(A, slot) ==
  IF environment.extra[slot].owned THEN FreeOf(Disown(A, EnvOwner(slot)), environment.extra[slot].ptr) ELSE A

Stored(slot, entry) == [environment EXCEPT !.extra[slot] = entry]

Setenv(name, value, overwrite) ==
  /\ SlotsNamed(name) = {} \/ overwrite
  /\ SlotFor(name) # 0
  /\ \E slot \in {SlotFor(name)}, r \in {MallocOf(arena, EntryUnits[value])} :
       /\ r.ptr # NoPtr
       /\ arena' = Own(Released(r.arena, slot), r.ptr, EntryUnits[value], EnvOwner(slot))
       /\ environment' = Stored(slot, [name |-> name, value |-> value, owned |-> TRUE, ptr |-> r.ptr])
       /\ latest' = [latest EXCEPT ![name] = <<"is", value>>]
  /\ UNCHANGED <<regions, kept>>

\* The caller of putenv keeps the string: no block belongs to the entry.
Putenv(name, value) ==
  /\ SlotFor(name) # 0
  /\ arena' = Released(arena, SlotFor(name))
  /\ environment' = Stored(SlotFor(name), [name |-> name, value |-> value, owned |-> FALSE, ptr |-> NoPtr])
  /\ latest' = [latest EXCEPT ![name] = <<"is", value>>]
  /\ UNCHANGED <<regions, kept>>

Unsetenv(name) ==
  /\ SlotsNamed(name) # {}
  /\ arena' = Released(arena, Smallest(SlotsNamed(name)))
  /\ environment' = Stored(Smallest(SlotsNamed(name)), NoEntry)
  /\ latest' = [latest EXCEPT ![name] = <<"unset">>]
  /\ UNCHANGED <<regions, kept>>

Clearenv ==
  LET F[i \in 0..EnvSlots] == IF i = 0 THEN arena ELSE Released(F[i - 1], i)
  IN /\ \E A \in {F[EnvSlots]} : arena' = A
     /\ environment' = [extra |-> [i \in 1..EnvSlots |-> NoEntry], inherits |-> FALSE]
     /\ latest' = [n \in EnvNames |-> <<"unset">>]
     /\ UNCHANGED <<regions, kept>>

\* getenv; the library's own defaults for TERM, PATH and the like come last
\* and are <<"default">> here.
Getenv(name) ==
  IF SlotsNamed(name) # {} THEN <<"is", environment.extra[Smallest(SlotsNamed(name))].value>>
  ELSE IF environment.inherits /\ name \in DOMAIN Inherited THEN <<"is", Inherited[name]>>
  ELSE <<"default">>

-----------------------------------------------------------------------------
(* Anonymous mappings.                                                     *)

NoRegion == [ptr |-> NoPtr, length |-> 0]
FreeRegions == {i \in 1..MapSlots : regions[i].ptr = NoPtr}

\* mmap: calloc first, then a slot for it; without a slot the block goes back.
MapRegion(r, length) ==
  IF FreeRegions = {} THEN arena' = FreeOf(r.arena, r.ptr) /\ UNCHANGED regions
  ELSE \E slot \in {Smallest(FreeRegions)} :
         /\ regions' = [regions EXCEPT ![slot] = [ptr |-> r.ptr, length |-> length]]
         /\ arena' = Own(r.arena, r.ptr, length, <<"map", slot>>)

Mmap(length) ==
  /\ \E r \in {MallocOf(arena, length)} : r.ptr # NoPtr /\ MapRegion(r, length)
  /\ UNCHANGED <<environment, kept, latest>>

Munmap(slot) ==
  /\ regions[slot].ptr # NoPtr
  /\ arena' = FreeOf(Disown(arena, <<"map", slot>>), regions[slot].ptr)
  /\ regions' = [regions EXCEPT ![slot] = NoRegion]
  /\ UNCHANGED <<environment, kept, latest>>

MallocInit ==
  /\ arena = [list |-> <<>>, brk |-> 1, mark |-> [u \in {} |-> Program]]
  /\ environment = [extra |-> [i \in 1..EnvSlots |-> NoEntry], inherits |-> TRUE]
  /\ regions = [i \in 1..MapSlots |-> NoRegion]
  /\ kept = [ptr |-> NoPtr, size |-> 0, whole |-> TRUE]
  /\ latest = [n \in EnvNames |-> <<"unset">>]

MallocNext ==
  \/ \E size \in UserSizes : UserMalloc(size) \/ UserRealloc(size)
  \/ UserFree
  \/ \E name \in EnvNames :
       \/ \E value \in EnvValues :
            Putenv(name, value) \/ \E overwrite \in BOOLEAN : Setenv(name, value, overwrite)
       \/ Unsetenv(name)
  \/ Clearenv
  \/ \E length \in MapSizes : Mmap(length)
  \/ \E slot \in 1..MapSlots : Munmap(slot)

MallocSpec == MallocInit /\ [][MallocNext]_mallocVars

-----------------------------------------------------------------------------
Owned ==
  [who \in {EnvOwner(i) : i \in {j \in 1..EnvSlots : environment.extra[j].owned}}
           \union {<<"map", i>> : i \in (1..MapSlots) \ FreeRegions}
           \union (IF kept.ptr = NoPtr THEN {} ELSE {Program}) |->
     IF who = Program THEN [ptr |-> kept.ptr, size |-> kept.size]
     ELSE IF who[1] = "env" THEN [ptr |-> environment.extra[who[2]].ptr, size |-> EntryUnits[environment.extra[who[2]].value]]
     ELSE [ptr |-> regions[who[2]].ptr, size |-> regions[who[2]].length]]

MallocTypeOK ==
  /\ \A i \in DOMAIN arena.list : arena.list[i].size \in Nat \ {0} /\ arena.list[i].free \in BOOLEAN
  /\ arena.brk \in 1..BreakMax
  /\ \A i \in 1..EnvSlots : environment.extra[i].owned => environment.extra[i].ptr # NoPtr
  /\ kept.size \in Nat

\* The blocks of the list follow each other without a gap from the start of
\* the heap to the break, after any mix of splitting, merging and growing
\* (split_block, coalesce_blocks, append_block).
ArenaContiguous ==
  /\ \A i \in 1..(Len(arena.list) - 1) :
       WordsOf(arena.list[i]) + arena.list[i].size = arena.list[i + 1].at
  /\ arena.list # <<>> =>
       /\ arena.list[1].at = 1
       /\ WordsOf(arena.list[Len(arena.list)]) + arena.list[Len(arena.list)].size = arena.brk

\* Every block in use belongs to exactly one owner, and every owner's block
\* is in use: nothing is freed twice or early, and nothing leaks (setenv over
\* an old value, putenv over a setenv, mmap without a slot, realloc).
BlocksOwnedOnce ==
  LET used == {WordsOf(arena.list[i]) : i \in {j \in DOMAIN arena.list : ~arena.list[j].free}}
  IN /\ used = {Owned[w].ptr : w \in DOMAIN Owned}
     /\ Cardinality(used) = Cardinality(DOMAIN Owned)

\* What an owner wrote stays until it gives the block back, and realloc
\* brings along what both sizes have in common.
UserDataKept ==
  /\ kept.whole
  /\ \A w \in DOMAIN Owned : \A u \in UnitSpan(Owned[w].ptr, Owned[w].size) :
       u \in DOMAIN arena.mark /\ arena.mark[u] = w

\* getenv answers with the last setenv or putenv since the variable was
\* unset or the environment cleared, else with what the process started with.
GetenvLatest ==
  \A n \in EnvNames :
    Getenv(n) = IF latest[n] # <<"unset">> THEN latest[n]
                ELSE IF environment.inherits /\ n \in DOMAIN Inherited THEN <<"is", Inherited[n]>>
                ELSE <<"default">>

\* The arena, and what the environment and the mappings keep in it, stay sound.
MallocSound ==
  /\ MallocTypeOK /\ ArenaContiguous /\ BlocksOwnedOnce
  /\ UserDataKept /\ GetenvLatest
=============================================================================
