---------------------------- MODULE AddressSpace ----------------------------
(***************************************************************************)
(* User address spaces: page tables (src/memory/vmm.c), the start and the  *)
(* end of a process (src/core/process.c), the loading of KXE programs      *)
(* (src/core/kxe.c), and, from src/core/syscall.c, brk and the check of    *)
(* user pointers.                                                          *)
(*                                                                         *)
(* Addresses are small: a page has PageBytes bytes and page v is reached   *)
(* through the three tables of TablesOf(v).  Frames come from pmm.c, which *)
(* gives the lowest free ones (see Pmm); that a run of frames is           *)
(* contiguous makes no difference here.  What the pages hold is left out,  *)
(* except for the arguments on the initial stack.                          *)
(***************************************************************************)
EXTENDS Integers, Sequences, FiniteSets, SequencesExt

CONSTANTS
  Spaces,       \* slots of g_procs
  NumFrames,    \* the physical frames are 1..NumFrames
  PageBytes,    \* PAGE_SIZE
  StackPage,    \* the page of the user stack (KXE_USER_STACK_PAGES is one)
  UserMaxPage,  \* the first page past KXE_USER_MAX_VADDR
  AddressBits,  \* the width of an address
  Images,       \* the programs on disk, well formed or not
  Arguments,    \* argument lists
  StackBytes,   \* the size of the stack, for the arguments
  MaxArgc,      \* KXE_MAX_ARGC
  ArgMax,       \* KXE_ARG_MAX, with the final zero
  Pointers      \* the user pointers of system calls: <<address, length>>

VARIABLES
  installed,    \* how many frames the machine has
  freeFrames,   \* pmm.c's bitmap
  space,        \* page tables and the like of each process
  ranOut        \* history: a brk has failed for want of a frame

spaceVars == <<installed, freeFrames, space, ranOut>>

ASSUME SpaceAssumption ==
  /\ PageBytes > 0 /\ StackPage < UserMaxPage
  /\ UserMaxPage * PageBytes < 2^AddressBits

UserMin == PageBytes
StackBase == StackPage * PageBytes
StackTop == (StackPage + 1) * PageBytes
UserMax == UserMaxPage * PageBytes

PageOf(addr) == addr \div PageBytes
PageAlignUp(addr) == ((addr + PageBytes - 1) \div PageBytes) * PageBytes
PagesOf(from, end) == PageOf(from)..(PageOf(PageAlignUp(end)) - 1)

NoImage == [min |-> 0, max |-> 0, entry |-> 0, size |-> 0, sections |-> <<>>]

NoSpace == [live |-> FALSE, pml4 |-> {}, kstack |-> {}, tables |-> <<>>, pages |-> <<>>,
            image |-> NoImage, args |-> <<>>, brkBase |-> 0, brk |-> 0]

-----------------------------------------------------------------------------
(* Page tables.  A working state S of a call has the process, the free     *)
(* frames, and "ok": no allocation has failed yet.                         *)

TablesOf(v) == <<<<1, v \div 8>>, <<2, v \div 4>>, <<3, v \div 4>>>>

Lowest(S) == CHOOSE f \in S : \A g \in S : f <= g

\* get_or_create_table
WithTable(S, key) ==
  IF ~S.ok \/ key \in DOMAIN S.p.tables THEN S
  ELSE IF S.free = {} THEN [S EXCEPT !.ok = FALSE]
  ELSE [S EXCEPT !.free = @ \ {Lowest(S.free)},
                 !.p.tables = [k \in DOMAIN @ \cup {key} |->
                                 IF k = key THEN Lowest(S.free) ELSE @[k]]]

SetPage(S, v, f, write) ==
  IF ~S.ok THEN S
  ELSE [S EXCEPT !.p.pages = [u \in DOMAIN @ \cup {v} |->
                                IF u = v THEN [frame |-> f, write |-> write] ELSE @[u]]]

\* vmm_map_page: tables made on the way stay when a later one fails.
MapPage(S, v, f, write) ==
  SetPage(WithTable(WithTable(WithTable(S, TablesOf(v)[1]), TablesOf(v)[2]), TablesOf(v)[3]),
          v, f, write)

\* vmm_unmap_page
UnmapPages(S, vs) == [S EXCEPT !.p.pages = [u \in DOMAIN @ \ vs |-> @[u]]]

\* The n lowest free frames of pmm_alloc_pages, in order.
FirstFree(free, n) ==
  SubSeq(SelectSeq([f \in 1..NumFrames |-> f], LAMBDA f : f \in free), 1, n)

GiveBack(S, fs) == [S EXCEPT !.free = @ \cup fs, !.ok = FALSE]

\* Map the frames fs at the pages from v on; on failure unmap and free them.
MapOrUndo(S, v, fs, write) ==
  LET M[i \in 0..Len(fs)] ==
        IF i = 0 THEN S ELSE MapPage(M[i - 1], v + i - 1, fs[i], write)
  IN IF M[Len(fs)].ok THEN M[Len(fs)]
     ELSE GiveBack(UnmapPages(M[Len(fs)], v..(v + Len(fs) - 1)), Range(fs))

MapRun(S, v, fs, write) ==
  MapOrUndo([S EXCEPT !.free = @ \ Range(fs)], v, fs, write)

\* The n pages from v on, as kxe_load_section and process_map_user_stack map
\* them.  "readable" says whether the file could be read into the frames.
AllocateAndMap(S, v, n, write, readable) ==
  IF ~S.ok \/ Cardinality(S.free) < n \/ ~readable THEN [S EXCEPT !.ok = FALSE]
  ELSE MapRun(S, v, FirstFree(S.free, n), write)

-----------------------------------------------------------------------------
(* kxe_validate.                                                           *)

PageSpan(s) == PagesOf(s.va, s.va + s.size)

\* section_validate
SectionValid(h, s) ==
  /\ s.size > 0
  /\ ~(s.write /\ s.exec)
  /\ s.va % PageBytes = 0
  /\ s.va >= UserMin /\ s.va < UserMax
  /\ s.va + s.size <= UserMax
  /\ s.va >= h.min /\ s.va + s.size <= h.max
  /\ IF s.load THEN /\ s.fsize <= s.size
                    /\ s.fsize > 0 => s.off >= 1     \* past the header page
                    /\ s.off + s.fsize <= h.size
               ELSE s.fsize = 0

ImageValid(h) ==
  /\ h.sections # <<>>
  /\ h.min >= UserMin /\ h.min < UserMax /\ h.max <= UserMax /\ h.min < h.max
  /\ \A i \in 1..Len(h.sections) : SectionValid(h, h.sections[i])
  /\ \A i, j \in 1..Len(h.sections) :
       j < i => PageSpan(h.sections[i]) \cap PageSpan(h.sections[j]) = {}
  /\ \E i \in 1..Len(h.sections) :
       /\ h.sections[i].exec
       /\ h.sections[i].va <= h.entry /\ h.entry < h.sections[i].va + h.sections[i].size

-----------------------------------------------------------------------------
(* The initial stack: kxe_setup_initial_stack.  Strings end in a zero; a   *)
(* word is WordBytes bytes long and holds its value in the first.          *)

WordBytes == 2

\* write_user_bytes
Write(mem, at, bytes) ==
  [a \in DOMAIN mem \cup (at..(at + Len(bytes) - 1)) |->
     IF a >= at /\ a < at + Len(bytes) THEN bytes[a - at + 1] ELSE mem[a]]

\* Copy the strings below sp, the last one first; "at" lists their addresses.
PushStrings(st, strings) ==
  LET P[i \in 0..Len(strings)] ==
        IF i = 0 THEN [st EXCEPT !.at = <<>>]
        ELSE LET s == strings[Len(strings) + 1 - i] \o <<0>>
                 prev == P[i - 1]
             IN [sp |-> prev.sp - Len(s), at |-> <<prev.sp - Len(s)>> \o prev.at,
                 mem |-> Write(prev.mem, prev.sp - Len(s), s)]
  IN P[Len(strings)]

\* push_user_u64
PushWord(st, w) ==
  [st EXCEPT !.sp = @ - WordBytes, !.mem = Write(@, st.sp - WordBytes, <<w, 0>>)]

PushWords(st, words) ==
  LET P[i \in 0..Len(words)] ==
        IF i = 0 THEN st ELSE PushWord(P[i - 1], words[Len(words) + 1 - i])
  IN P[Len(words)]

Aligned(st) == [st EXCEPT !.sp = (@ \div WordBytes) * WordBytes]

\* The strings, then from high to low: 0, the environment, 0, argv, argc.
PushVectors(st, args, env) ==
  PushWord(PushWords(PushWord(PushWords(PushWord(Aligned(st), 0), env), 0), args), Len(args))

WithArguments(st, env, args) == PushVectors(PushStrings(st, args), PushStrings(st, args).at, env)
InitialStackFrom(st, args) == WithArguments(st, st.at, args)

Environment == <<<<7, 7>>>>

InitialStack(top, args) ==
  InitialStackFrom(PushStrings([sp |-> top, at |-> <<>>, mem |-> <<>>], Environment), args)

\* Whether it all fits; address 0 is the end of the stack.
StackFits(args) ==
  /\ Len(args) <= MaxArgc
  /\ \A i \in 1..Len(args) : Len(args[i]) < ArgMax
  /\ InitialStack(StackBytes, args).sp >= 0

-----------------------------------------------------------------------------
(* Processes.                                                              *)

\* The end of process_destroy: the tables are walked and everything freed.
FramesOf(p) ==
  p.pml4 \cup p.kstack \cup {p.tables[k] : k \in DOMAIN p.tables}
    \cup {p.pages[v].frame : v \in DOMAIN p.pages}

\* process_create: the top table and the kernel stack.
CreatedSpace(free) ==
  IF Cardinality(free) < 2 THEN [ok |-> FALSE, free |-> free, p |-> NoSpace]
  ELSE LET fs == FirstFree(free, 2)
       IN [ok |-> TRUE, free |-> free \ Range(fs),
           p |-> [NoSpace EXCEPT !.live = TRUE, !.pml4 = {fs[1]}, !.kstack = {fs[2]}]]

\* The sections one by one; "bad" is the one that cannot be read, if any.
LoadSections(S, h, bad) ==
  LET L[i \in 0..Len(h.sections)] ==
        IF i = 0 THEN S
        ELSE AllocateAndMap(L[i - 1], PageOf(h.sections[i].va),
                            Cardinality(PageSpan(h.sections[i])), h.sections[i].write,
                            i # bad \/ h.sections[i].fsize = 0)
  IN L[Len(h.sections)]

LoadAll(S, h, bad) == AllocateAndMap(LoadSections(S, h, bad), StackPage, 1, TRUE, TRUE)

\* The last part of kxe_load_argv: a failed load is destroyed.
Finish(S, h, args) ==
  IF ~S.ok \/ ~StackFits(args)
  THEN [free |-> S.free \cup FramesOf(S.p), p |-> NoSpace]
  ELSE [free |-> S.free,
        p |-> [S.p EXCEPT !.image = h, !.args = args, !.brkBase = PageAlignUp(h.max),
                          !.brk = PageAlignUp(h.max)]]

Load(q, h, args, bad) ==
  /\ ~space[q].live
  /\ ImageValid(h) /\ h.max <= StackBase
  /\ \E S \in {CreatedSpace(freeFrames)} :
     \E r \in {IF S.ok THEN Finish(LoadAll(S, h, bad), h, args) ELSE S} :
       /\ freeFrames' = r.free
       /\ space' = [space EXCEPT ![q] = r.p]
  /\ UNCHANGED <<installed, ranOut>>

\* process_destroy
DestroySpace(q) ==
  /\ space[q].live
  /\ freeFrames' = freeFrames \cup FramesOf(space[q])
  /\ space' = [space EXCEPT ![q] = NoSpace]
  /\ UNCHANGED <<installed, ranOut>>

-----------------------------------------------------------------------------
(* brk.                                                                    *)

RollBackKeeps(S, vs) ==
  [S EXCEPT !.free = @ \cup {S.p.pages[u].frame : u \in vs \cap DOMAIN S.p.pages}]

\* The pages vs are unmapped and their frames freed.
UnmapAndFree(S, vs) ==
  [UnmapPages(S, vs) EXCEPT
     !.free = @ \cup {S.p.pages[u].frame : u \in vs \cap DOMAIN S.p.pages}]

MappedOrBack(T, from, v) == IF T.ok THEN T ELSE UnmapAndFree(T, from..(v - 1))

\* One more page of the heap.  When no frame is left for the page itself, brk
\* returns at once and keeps the pages mapped so far; when none is left for a
\* table, it unmaps and frees them.
GrowStep(S, from, v) ==
  IF ~S.ok THEN S
  ELSE IF S.free = {} THEN [S EXCEPT !.ok = FALSE]
  ELSE MappedOrBack(MapRun(S, v, <<Lowest(S.free)>>, TRUE), from, v)

GrowPages(S, from, end) ==
  LET G[v \in (from - 1)..end] ==
        IF v = from - 1 THEN S ELSE GrowStep(G[v - 1], from, v)
  IN G[end]

\* brk_current is moved within the page of the old break, up, or down.
MoveBreakFrom(S, oldTop, newTop) ==
  IF newTop > oldTop THEN GrowPages(S, oldTop, newTop - 1)
  ELSE UnmapAndFree(S, newTop..(oldTop - 1))

MoveBreak(S, addr) ==
  MoveBreakFrom(S, PageOf(PageAlignUp(S.p.brk)), PageOf(PageAlignUp(addr)))

BreakAllowed(p, addr) == addr >= p.brkBase /\ addr <= StackBase

Brk(q, addr) ==
  /\ space[q].live
  /\ BreakAllowed(space[q], addr)
  /\ \E S \in {MoveBreak([ok |-> TRUE, free |-> freeFrames, p |-> space[q]], addr)} :
       /\ freeFrames' = S.free
       /\ space' = [space EXCEPT ![q] = IF S.ok THEN [S.p EXCEPT !.brk = addr] ELSE S.p]
       /\ ranOut' = (ranOut \/ ~S.ok)
  /\ UNCHANGED installed

-----------------------------------------------------------------------------
(* validate_user_buffer.                                                   *)

EndOf(addr, len) == (addr + len) % 2^AddressBits

UserBufferValidShort(p, addr, len, needsWrite) ==
  \/ len = 0
  \/ /\ addr >= UserMin /\ addr < UserMax
     /\ EndOf(addr, len) <= UserMax
     /\ \A v \in PageOf(addr)..PageOf(EndOf(addr, len) - 1) :
          v \in DOMAIN p.pages /\ (needsWrite => p.pages[v].write)

UserBufferValid(p, addr, len, needsWrite) ==
  \/ len = 0
  \/ /\ addr >= UserMin /\ addr < UserMax
     /\ EndOf(addr, len) >= addr /\ EndOf(addr, len) <= UserMax
     /\ \A v \in PageOf(addr)..PageOf(EndOf(addr, len) - 1) :
          v \in DOMAIN p.pages /\ (needsWrite => p.pages[v].write)

-----------------------------------------------------------------------------
SpaceInit ==
  /\ installed \in 1..NumFrames
  /\ freeFrames = 1..installed
  /\ space = [q \in Spaces |-> NoSpace]
  /\ ranOut = FALSE

SpaceNext ==
  \E q \in Spaces :
    \/ DestroySpace(q)
    \/ \E h \in Images, args \in Arguments : \E bad \in 0..Len(h.sections) : Load(q, h, args, bad)
    \/ \E addr \in UserMin..StackBase : Brk(q, addr)

-----------------------------------------------------------------------------
(* Properties.                                                             *)

SpaceTypeOK ==
  /\ freeFrames \subseteq 1..installed
  /\ \A q \in Spaces :
       /\ space[q].live => space[q].brk \in space[q].brkBase..StackBase
       /\ DOMAIN space[q].pages \subseteq 1..(UserMaxPage - 1)
       /\ FramesOf(space[q]) \subseteq 1..installed

\* No frame has two uses: a table, a page, a kernel stack of one process, or
\* free in pmm.c's bitmap.  Above all, no mapped page's frame is ever free,
\* also after a load or a brk that ran out of memory half way.
SpaceFramesOnce ==
  /\ \A q \in Spaces :
       /\ FramesOf(space[q]) \cap freeFrames = {}
       /\ Cardinality(FramesOf(space[q])) =
            Cardinality(space[q].pml4) + Cardinality(space[q].kstack)
              + Cardinality(DOMAIN space[q].tables) + Cardinality(DOMAIN space[q].pages)
  /\ \A q, r \in Spaces : q # r => FramesOf(space[q]) \cap FramesOf(space[r]) = {}

\* No frame is lost: every one is free or in use by a process, unless a brk has
\* run out of frames.  (sys_brk then leaves the pages it has mapped beyond the
\* break, and a later brk maps new frames over them.)
FramesAccounted ==
  ranOut \/ 1..installed = freeFrames \cup UNION {FramesOf(space[q]) : q \in Spaces}

\* Every page of the heap below the break that brk returned is mapped and can
\* be written, whatever growing, shrinking and failing went before.
HeapBacked ==
  \A q \in Spaces : space[q].live =>
    \A v \in PagesOf(space[q].brkBase, space[q].brk) :
      v \in DOMAIN space[q].pages /\ space[q].pages[v].write

\* Every page of a loaded program is mapped with the protection of its section:
\* no program that kxe_validate accepts gets its code mapped writable, by an
\* overlapping section or by a later brk.
CodeProtected ==
  \A q \in Spaces : \A i \in 1..Len(space[q].image.sections) :
    LET s == space[q].image.sections[i]
    IN \A v \in PageSpan(s) :
         v \in DOMAIN space[q].pages /\ space[q].pages[v].write = s.write

\* Every frame of an address space has one owner and the protection its section
\* asks for, through failing loads and breaks.
SpacesSound ==
  /\ SpaceTypeOK /\ SpaceFramesOnce /\ FramesAccounted
  /\ HeapBacked /\ CodeProtected

\* validate_user_buffer accepts a buffer exactly when each of its bytes is a
\* user address whose page is mapped (and can be written): nothing wraps round
\* the end of the address space, no last page is forgotten.
ValidateExact ==
  \A q \in {r \in Spaces : space[r].live} : \A b \in Pointers, w \in BOOLEAN :
    UserBufferValid(space[q], b[1], b[2], w)
      <=> \A x \in b[1]..(b[1] + b[2] - 1) :
            /\ x >= UserMin /\ x < UserMax
            /\ PageOf(x) \in DOMAIN space[q].pages
            /\ w => space[q].pages[PageOf(x)].write

\* A string in memory.
StringAt(mem, a) ==
  LET end == CHOOSE b \in DOMAIN mem : b >= a /\ mem[b] = 0 /\ \A c \in a..(b - 1) : mem[c] # 0
  IN [i \in 1..(end - a) |-> mem[a + i - 1]]

\* What main finds on the stack that kxe_setup_initial_stack has built is what
\* was passed: argc, the arguments in their order, a null pointer, and the
\* environment with its null pointer.
ArgsReadBack ==
  \A q \in Spaces : space[q].live =>
    LET st == InitialStack(StackBytes, space[q].args)
        word(i) == st.mem[st.sp + i * WordBytes]
        argc == word(0)
    IN /\ st.sp % WordBytes = 0
       /\ argc = Len(space[q].args)
       /\ \A i \in 1..argc : StringAt(st.mem, word(i)) = space[q].args[i]
       /\ word(argc + 1) = 0
       /\ \A i \in 1..Len(Environment) :
            StringAt(st.mem, word(argc + 1 + i)) = Environment[i]
       /\ word(argc + 2 + Len(Environment)) = 0

\* The kernel and a program agree on the memory they exchange data through.
UserMemoryExact == ValidateExact /\ ArgsReadBack
=============================================================================
