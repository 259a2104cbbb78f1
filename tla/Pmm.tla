-------------------------------- MODULE Pmm --------------------------------
(***************************************************************************)
(* The physical memory manager, memory/pmm.c: a bitmap of frames, a count  *)
(* of used frames and a cursor where the next search begins.  Callers free *)
(* what they were given, all of it, once; owned is what they hold.         *)
(***************************************************************************)
EXTENDS Integers, FiniteSets

CONSTANT TotalPages   \* total_pages

ASSUME TotalPagesAssumption == TotalPages \in Nat \ {0}

VARIABLES
    used,            \* the set bits of bitmap
    used_pages,
    search_cursor,
    owned,           \* runs handed out and not freed: <<first frame, count>>
    reserved         \* frames that are not usable, or hold the bitmap

pmmVars == <<used, used_pages, search_cursor, owned, reserved>>

Frames == 0 .. TotalPages - 1
Run(i, count) == i .. i + count - 1

\* After pmm_init.  The boot loader never reports frame 0 as usable, and leaves
\* some frame besides those of the bitmap.
PmmInit ==
    /\ reserved \in {R \in SUBSET Frames : 0 \in R /\ R # Frames}
    /\ used = reserved
    /\ used_pages = Cardinality(reserved)
    /\ search_cursor = 0
    /\ owned = {}

-----------------------------------------------------------------------------
NoRun == -1

\* The inner loop of allocate_run_from: free frames from i on, at most count.
RunLength(i, end, count) ==
    CHOOSE r \in 0 .. count :
        /\ i + r <= end /\ Run(i, r) \cap used = {}
        /\ r = count \/ i + r = end \/ i + r \in used

RunFromSkipping(start, end, count) ==
    LET Scan[i \in Nat] ==
            IF i + count > end THEN NoRun
            ELSE IF RunLength(i, end, count) = count THEN i ELSE Scan[i + count]
    IN  Scan[start]

\* The outer loop of allocate_run_from.
RunFrom(start, end, count) ==
    LET Scan[i \in Nat] ==
            IF i + count > end THEN NoRun
            ELSE LET r == RunLength(i, end, count)
                 IN  IF r = count THEN i ELSE Scan[i + r + 1]
    IN  Scan[start]

\* What the loops look for, and the calls below take: the first run of free
\* frames in [start, end).  LoopIsFirstFit says that the loops find it.
IsRun(start, end, count, i) ==
    i >= start /\ i + count <= end /\ Run(i, count) \cap used = {}

IsFirstRun(start, end, count, i) ==
    /\ IsRun(start, end, count, i)
    /\ \A j \in start .. i - 1 : ~ IsRun(start, end, count, j)

\* Two searches: from start to end, then from 0 to start.
IsFound(start, end, count, i) ==
    \/ IsFirstRun(start, end, count, i)
    \/ /\ start > 0 /\ \A j \in Frames : ~ IsRun(start, end, count, j)
       /\ IsFirstRun(0, start, count, i)

TakeFrames(i, count) ==
    /\ used' = used \cup Run(i, count)
    /\ used_pages' = used_pages + count
    /\ search_cursor' = (i + count) % TotalPages
    /\ owned' = owned \cup {<<i, count>>}
    /\ UNCHANGED reserved

\* pmm_alloc: the first free frame at or after the cursor, around the end.
Alloc ==
    \E n \in Frames :
        LET Nth(m) == (search_cursor + m) % TotalPages
        IN  /\ Nth(n) \notin used
            /\ \A m \in 0 .. n - 1 : Nth(m) \in used
            /\ TakeFrames(Nth(n), 1)

\* Where pmm_alloc_below(limit) begins, for limit in frames.
BelowEnd(limit) == IF limit > TotalPages THEN TotalPages ELSE limit
BelowStart(limit) == IF search_cursor < BelowEnd(limit) THEN search_cursor ELSE 0

AllocBelow(limit) ==
    /\ limit > 1
    /\ \E i \in Frames : IsFound(BelowStart(limit), BelowEnd(limit), 1, i) /\ TakeFrames(i, 1)

AllocPages(count) ==
    /\ count > 1
    /\ \E i \in Frames : IsFound(search_cursor, TotalPages, count, i) /\ TakeFrames(i, count)

FreeRunTooFar(i, count) ==
    /\ <<i, count>> \in owned
    /\ used' = used \ Run(i, count + 1)
    /\ used_pages' = used_pages - Cardinality(Run(i, count + 1) \cap used)
    /\ search_cursor' = IF i < search_cursor THEN i ELSE search_cursor
    /\ owned' = owned \ {<<i, count>>}
    /\ UNCHANGED reserved

\* pmm_free and pmm_free_pages: set bits are cleared and counted one by one,
\* and the cursor moves back to the first of them.
FreeRun(i, count) ==
    /\ <<i, count>> \in owned
    /\ used' = used \ Run(i, count)
    /\ used_pages' = used_pages - Cardinality(Run(i, count) \cap used)
    /\ search_cursor' = IF i < search_cursor THEN i ELSE search_cursor
    /\ owned' = owned \ {<<i, count>>}
    /\ UNCHANGED reserved

PmmNext ==
    \/ Alloc
    \/ \E limit \in 0 .. TotalPages + 1 : AllocBelow(limit)
    \/ \E count \in 1 .. TotalPages : AllocPages(count)
    \/ \E i \in Frames, count \in 1 .. TotalPages : FreeRun(i, count)

PmmSpec == PmmInit /\ [][PmmNext]_pmmVars

-----------------------------------------------------------------------------
(* Properties *)

\* The variables keep their types; the cursor is always a frame, so that the
\* bitmap is never read past its end.
PmmTypeOK ==
    /\ used \subseteq Frames /\ reserved \subseteq Frames
    /\ used_pages \in 0 .. TotalPages
    /\ search_cursor \in Frames
    /\ owned \subseteq Frames \X (1 .. TotalPages)

\* No frame is handed out twice or taken from the reserved ones, and a frame is
\* marked used exactly if it is reserved or some caller holds it: whatever mix
\* of single frames, low frames and runs is allocated and freed, none leaks.
FramesOwnedOnce ==
    /\ used = reserved \cup UNION {Run(r[1], r[2]) : r \in owned}
    /\ \A r \in owned : Run(r[1], r[2]) \cap reserved = {}
    /\ \A r, s \in owned : r # s => Run(r[1], r[2]) \cap Run(s[1], s[2]) = {}

\* used_pages, which pmm_get_stats reports, is the number of used frames.
CountExact == used_pages = Cardinality(used)

\* The bitmap, the count and the cursor of pmm.c fit what the callers hold.
PmmSound == PmmTypeOK /\ FramesOwnedOnce /\ CountExact

\* The skipping loop of allocate_run_from finds the first run that fits, for
\* every window of the bitmap, and reports none only if there is none.
LoopIsFirstFit ==
    \A start, end \in 0 .. TotalPages, count \in 1 .. TotalPages :
        LET i == RunFrom(start, end, count)
        IN  IF i = NoRun THEN \A j \in Frames : ~ IsRun(start, end, count, j)
                         ELSE IsFirstRun(start, end, count, i)

\* pmm_alloc_below returns a frame below the limit, as devices with 32-bit
\* addresses need, and fails only if all of them are used: beginning the search
\* at the cursor hides no frame and reaches none too high.
LowFrameFound ==
    \A limit \in 2 .. TotalPages + 1 :
        LET S == {i \in Frames : IsFound(BelowStart(limit), BelowEnd(limit), 1, i)}
        IN  /\ \A i \in S : i < limit /\ i \notin used
            /\ S = {} => \A j \in Frames : j < limit => j \in used

\* memory/pmm.h on pmm_alloc_pages: "or 0 if can't find contiguous space", so
\* that a free run of the right length is found wherever it is.
RunFound ==
    \A count \in 2 .. TotalPages :
        (\E j \in Frames : IsRun(0, TotalPages, count, j))
            => \E i \in Frames : IsFound(search_cursor, TotalPages, count, i)
=============================================================================
