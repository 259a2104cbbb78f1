------------------------------- MODULE Bcache -------------------------------
(***************************************************************************)
(* The buffer cache of fs/bcache.c over block devices whose reads, writes  *)
(* and flushes may fail, and which keep written blocks in a volatile cache *)
(* of their own until they are flushed.  File systems pin a buffer, change *)
(* it, mark it dirty and unpin it; several buffers may be pinned at a      *)
(* time, and one more than once.                                           *)
(***************************************************************************)
EXTENDS Integers, Sequences, FiniteSets

CONSTANTS
    NumBufs,   \* buffers that got a page in bcache_init
    Key,       \* the blocks in use: a device and a block number each
    Value,
    MaxPins    \* bound: pins held on one buffer

ASSUME BcacheAssumption == NumBufs \in Nat \ {0} /\ MaxPins \in Nat \ {0}
ASSUME KeyAssumption == <<"none", 0>> \notin Key /\ Value # {}

VARIABLES
    bufs,      \* g_bufs
    ht,        \* buffers linked into the hash table
    lru,       \* the LRU list, most recent first
    dirty_bufs,\* g_stats.dirty_bufs
    disk,      \* what a device returns for a block
    media,     \* what it would return after a loss of power
    stored     \* what callers last put into each block

bcacheVars == <<bufs, ht, lru, dirty_bufs, disk, media, stored>>

Bufs == 1 .. NumBufs
CachedDevices == {k[1] : k \in Key}
NoKey == <<"none", 0>>

\* bcache_buf_t; key is dev and block_no.
BufRecord == [key : Key \cup {NoKey}, refcnt : 0 .. MaxPins,
              valid : BOOLEAN, dirty : BOOLEAN, data : Value]

NoBuf == [key |-> NoKey, refcnt |-> 0, valid |-> FALSE, dirty |-> FALSE,
          data |-> CHOOSE v \in Value : TRUE]

BcacheInit ==
    /\ bufs = [i \in Bufs |-> NoBuf]
    /\ ht = {}
    /\ lru = [n \in Bufs |-> NumBufs + 1 - n]
    /\ dirty_bufs = 0
    /\ disk \in [Key -> Value]
    /\ media = disk
    /\ stored = disk

-----------------------------------------------------------------------------
\* ht_lookup
Found(i, k) == i \in ht /\ bufs[i].valid /\ bufs[i].key = k
Cached(k) == \E i \in Bufs : Found(i, k)

\* lru_touch: i moves from place p of the list to the front.
Touch(i) ==
    LET p == CHOOSE n \in Bufs : lru[n] = i
    IN  [n \in Bufs |-> IF n = 1 THEN i ELSE IF n <= p THEN lru[n - 1] ELSE lru[n]]

\* find_evictable: the least recently used buffer that nobody has pinned.
IsEvictable(i) ==
    \E n \in Bufs :
        /\ lru[n] = i /\ bufs[i].refcnt = 0
        /\ \A m \in Bufs : m > n => bufs[lru[m]].refcnt > 0

NeedsWriteback(i) == bufs[i].valid /\ bufs[i].dirty

\* writeback_one succeeds for the dirty buffers S.
WriteBack(S) ==
    /\ disk' = [k \in Key |-> IF \E i \in S : bufs[i].key = k
                              THEN bufs[CHOOSE i \in S : bufs[i].key = k].data
                              ELSE disk[k]]
    /\ dirty_bufs' = dirty_bufs - Cardinality(S)

Victim(i) == IF NeedsWriteback(i) THEN {i} ELSE {}

-----------------------------------------------------------------------------
(* bcache_get *)

Hit(k, i) ==
    /\ Found(i, k) /\ bufs[i].refcnt < MaxPins
    /\ bufs' = [bufs EXCEPT ![i].refcnt = @ + 1]
    /\ lru' = Touch(i)
    /\ UNCHANGED <<ht, dirty_bufs, disk, media, stored>>

MissDrops(k, i) ==
    /\ ~ Cached(k) /\ IsEvictable(i)
    /\ dirty_bufs' = dirty_bufs - Cardinality(Victim(i))
    /\ bufs' = [bufs EXCEPT ![i] = [key |-> k, refcnt |-> 1, valid |-> TRUE,
                                    dirty |-> FALSE, data |-> disk[k]]]
    /\ ht' = ht \cup {i}
    /\ lru' = Touch(i)
    /\ UNCHANGED <<disk, media, stored>>

\* The victim is written back if dirty, unlinked, filled and pinned.
Miss(k, i) ==
    /\ ~ Cached(k) /\ IsEvictable(i)
    /\ WriteBack(Victim(i))
    /\ bufs' = [bufs EXCEPT ![i] = [key |-> k, refcnt |-> 1, valid |-> TRUE,
                                    dirty |-> FALSE, data |-> disk'[k]]]
    /\ ht' = ht \cup {i}
    /\ lru' = Touch(i)
    /\ UNCHANGED <<media, stored>>

\* The read fails (perhaps half way, so the page may hold anything): the
\* victim's old block is gone from the cache, and the buffer is invalid.
MissFails(k, i) ==
    /\ ~ Cached(k) /\ IsEvictable(i)
    /\ WriteBack(Victim(i))
    /\ \E v \in Value :
          bufs' = [bufs EXCEPT ![i] = [@ EXCEPT !.key = NoKey, !.valid = FALSE,
                                                !.dirty = FALSE, !.data = v]]
    /\ ht' = ht \ {i}
    /\ UNCHANGED <<lru, media, stored>>

\* A write-back fails, in a bcache_get, which then does nothing else, or in a
\* sync: the buffer stays dirty and the block on the device may be torn.
WriteFails(i, v) ==
    /\ NeedsWriteback(i)
    /\ disk' = [disk EXCEPT ![bufs[i].key] = v]
    /\ UNCHANGED <<bufs, ht, lru, dirty_bufs, media, stored>>

-----------------------------------------------------------------------------
(* Callers *)

\* bcache_put
BcachePut(i) ==
    /\ bufs[i].refcnt > 0
    /\ bufs' = [bufs EXCEPT ![i].refcnt = @ - 1]
    /\ UNCHANGED <<ht, lru, dirty_bufs, disk, media, stored>>

\* A caller stores into a buffer it has pinned and calls bcache_mark_dirty.
Modify(i, v) ==
    /\ bufs[i].refcnt > 0 /\ bufs[i].valid
    /\ bufs' = [bufs EXCEPT ![i] = [@ EXCEPT !.data = v, !.dirty = TRUE]]
    /\ dirty_bufs' = IF bufs[i].dirty THEN dirty_bufs ELSE dirty_bufs + 1
    /\ stored' = [stored EXCEPT ![bufs[i].key] = v]
    /\ UNCHANGED <<ht, lru, disk, media>>

DirtyOf(D) == {i \in Bufs : NeedsWriteback(i) /\ bufs[i].key[1] \in D}

\* The writes of a sync: those of S succeed, the others leave their buffers
\* dirty.
SyncWrites(S) ==
    /\ WriteBack(S)
    /\ bufs' = [i \in Bufs |-> IF i \in S THEN [bufs[i] EXCEPT !.dirty = FALSE]
                                          ELSE bufs[i]]
    /\ UNCHANGED <<ht, lru>>

SyncDevUnflushed(d) == SyncWrites(DirtyOf({d})) /\ UNCHANGED <<media, stored>>

\* bcache_sync_dev returning true: every write and the flush succeed.
SyncDev(d) ==
    /\ SyncWrites(DirtyOf({d}))
    /\ media' = [k \in Key |-> IF k[1] = d THEN disk'[k] ELSE media[k]]
    /\ UNCHANGED stored

\* bcache_sync_dev returning false: some writes fail, or the flush does.
SyncDevFails(d) ==
    /\ \E S \in SUBSET DirtyOf({d}) : SyncWrites(S)
    /\ UNCHANGED <<media, stored>>

\* bcache_sync_all writes back and flushes nothing.
SyncAll == SyncWrites(DirtyOf(CachedDevices)) /\ UNCHANGED <<media, stored>>

SyncAllFails ==
    /\ \E S \in SUBSET DirtyOf(CachedDevices) : SyncWrites(S)
    /\ UNCHANGED <<media, stored>>

\* A device may make a written block permanent at any time.
Settle(k) ==
    /\ media' = [media EXCEPT ![k] = disk[k]]
    /\ UNCHANGED <<bufs, ht, lru, dirty_bufs, disk, stored>>

BcacheNext ==
    \/ \E k \in Key, i \in Bufs : Hit(k, i) \/ Miss(k, i) \/ MissFails(k, i)
    \/ \E i \in Bufs : BcachePut(i)
    \/ \E i \in Bufs, v \in Value : Modify(i, v) \/ WriteFails(i, v)
    \/ \E d \in CachedDevices : SyncDev(d) \/ SyncDevFails(d)
    \/ SyncAll \/ SyncAllFails
    \/ \E k \in Key : Settle(k)

BcacheSpec == BcacheInit /\ [][BcacheNext]_bcacheVars

-----------------------------------------------------------------------------
(* Properties *)

\* The variables keep their types, and the LRU list holds each buffer once.
BcacheTypeOK ==
    /\ bufs \in [Bufs -> BufRecord]
    /\ ht \subseteq Bufs
    /\ lru \in [Bufs -> Bufs] /\ \A m, n \in Bufs : lru[m] = lru[n] => m = n
    /\ disk \in [Key -> Value] /\ media \in [Key -> Value]

\* A block has at most one buffer; the hash table links exactly the valid
\* buffers; and a buffer someone has pinned stays valid, so that its holder
\* never looks at a page that bcache_get has given to another block.
OneBufferPerBlock ==
    /\ \A i \in Bufs : bufs[i].valid <=> i \in ht
    /\ \A i, j \in ht : bufs[i].key = bufs[j].key => i = j
    /\ \A i \in Bufs : bufs[i].refcnt > 0 => bufs[i].valid

\* g_stats.dirty_bufs counts the buffers that hold unwritten data, and a clean
\* buffer equals the block on the device: nothing but a dirty flag is needed to
\* decide that a block may be dropped.
CleanMatchesDisk ==
    /\ dirty_bufs = Cardinality({i \in Bufs : NeedsWriteback(i)})
    /\ \A i \in ht : bufs[i].dirty \/ bufs[i].data = disk[bufs[i].key]

\* The value of a block: that of its buffer, else that on the device.
Current(k) == IF Cached(k) THEN bufs[CHOOSE i \in Bufs : Found(i, k)].data
                           ELSE disk[k]

\* The cache is transparent: a block holds what a caller last put into it,
\* through evictions, failed reads, and failed and successful syncs.
HoldsLastStore == \A k \in Key : Current(k) = stored[k]

\* The table, the list and the flags of bcache.c agree, and together with the
\* devices hold what callers stored, whichever reads and writes fail.
CacheSound ==
  /\ BcacheTypeOK /\ OneBufferPerBlock /\ CleanMatchesDisk
  /\ HoldsLastStore

\* When bcache_sync_dev returns true, every block of the device, cached or
\* evicted before, is permanent.
SyncIsDurable ==
    [][\A d \in CachedDevices : SyncDev(d) =>
          \A k \in Key : k[1] = d => media'[k] = stored[k]]_bcacheVars

\* fs/bcache.h: bcache_sync_all "Calls each dev flush where possible", so that
\* after it nothing is left in the devices' own caches.
SyncAllIsDurable ==
    [][SyncAll => \A k \in Key : media'[k] = stored[k]]_bcacheVars
=============================================================================
