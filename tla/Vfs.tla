--------------------------------- MODULE Vfs ---------------------------------
(***************************************************************************)
(* The mount table and path lookup of src/vfs/vfs.c, the device directory  *)
(* of src/fs/devfs/devfs.c, and the system calls on paths of               *)
(* src/core/syscall.c.                                                     *)
(*                                                                         *)
(* A path is the sequence of its components.  A filesystem is the tree on  *)
(* its device, a function from paths to files and directories; the calls a *)
(* driver answers (lookup, create, unlink, ...) are operators on the tree  *)
(* and may fail, as Kifs and Fat show in detail.  What a file holds is a   *)
(* sequence of the 256-byte pieces that sys_rename copies.                 *)
(*                                                                         *)
(* Every vnode is a heap object that its finder must put.  "vnodes" counts *)
(* the objects in existence; "opened" is how many of them descriptors      *)
(* hold, the only ones that outlive a call.                                *)
(***************************************************************************)
EXTENDS Integers, Sequences, FiniteSets, Functions

CONSTANTS
  Disk,        \* the block devices
  Removable,   \* those of them on USB
  FormatOf,    \* "kifs", "fat" or "none": what a device's probe finds
  Room,        \* the files and directories each device has room for
  Contents,    \* the trees the devices start with
  Inputs,      \* the paths that programs pass
  Targets,     \* those of them that they mount on
  MountSlots,  \* VFS_MAX_MOUNTS
  PathMax,     \* SYSCALL_PATH_MAX and VFS_MAX_MOUNT_PATH, in components
  MaxOpened    \* descriptors

VARIABLES
  mounts,      \* g_mounts
  tree,        \* what is on each device
  attached,    \* the devices that are present
  cwd,         \* the working directory of the calling process
  vnodes,      \* vnode objects in existence
  opened,      \* of those, the ones descriptors hold
  lost         \* history: the contents that a rename has lost

vfsVars == <<mounts, tree, attached, cwd, vnodes, opened, lost>>

\* The components of the paths.
Component == {"dev"} \cup UNION {Range(i.comps) : i \in Inputs}

ASSUME VfsAssumption ==
  /\ Removable \subseteq Disk /\ "none" \notin Disk
  /\ FormatOf \in [Disk -> {"kifs", "fat", "none"}] /\ DOMAIN Contents = Disk
  /\ \A i \in Inputs : i.comps \in Seq(Component)
  /\ MountSlots \in Nat \ {0} /\ PathMax \in Nat \ {0} /\ MaxOpened \in Nat

Dir == [type |-> "dir", data |-> <<>>]
File(data) == [type |-> "file", data |-> data]

Unmounted == [path |-> <<>>, fs |-> "none", disk |-> "none", ro |-> FALSE]
Mount(path, fs, d, ro) == [path |-> path, fs |-> fs, disk |-> d, ro |-> ro]

-----------------------------------------------------------------------------
(* Paths: resolve_kernel_path and what it calls.                           *)

Parent(path) == SubSeq(path, 1, Len(path) - 1)
Leaf(path) == path[Len(path)]

\* path is dir or lies below it.
IsWithin(dir, path) == Len(dir) <= Len(path) /\ SubSeq(path, 1, Len(dir)) = dir
IsInside(dir, path) == IsWithin(dir, path) /\ dir # path

\* append_path_component; a path that grows too long fails at once.
AppendComponent(r, c) ==
  IF ~r.ok \/ c = "." THEN r
  ELSE IF c = ".." THEN [r EXCEPT !.path = IF @ = <<>> THEN @ ELSE Parent(@)]
  ELSE IF Len(r.path) = PathMax THEN [r EXCEPT !.ok = FALSE]
  ELSE [r EXCEPT !.path = Append(@, c)]

Normalized(comps) ==
  LET N[n \in 0..Len(comps)] ==
        IF n = 0 THEN [ok |-> TRUE, path |-> <<>>] ELSE AppendComponent(N[n - 1], comps[n])
  IN N[Len(comps)]

KernelPath(input) == Normalized(IF input.abs THEN input.comps ELSE cwd \o input.comps)

-----------------------------------------------------------------------------
(* Mounts and lookup.                                                      *)

Used(m) == m.fs # "none"

AvailableOnce(m) == Used(m)

\* mount_available
Available(m) == Used(m) /\ (m.fs = "devfs" \/ m.disk \in attached)

SlotsAt(mts, path) == {i \in 1..MountSlots : Used(mts[i]) /\ mts[i].path = path}

\* find_mount_slot_available: the first unused slot, 0 if there is none.
FreeSlot(mts) ==
  LET free == {i \in 1..MountSlots : ~Used(mts[i])}
  IN IF free = {} THEN 0 ELSE CHOOSE i \in free : \A j \in free : i <= j

\* select_mount_for_path: the first of the longest available prefixes.
Deepest(fit) ==
  IF fit = {} THEN 0
  ELSE CHOOSE i \in fit : \A j \in fit :
         \/ Len(mounts[i].path) > Len(mounts[j].path)
         \/ Len(mounts[i].path) = Len(mounts[j].path) /\ i <= j

SelectMount(path) ==
  Deepest({i \in 1..MountSlots : Available(mounts[i]) /\ IsWithin(mounts[i].path, path)})

DevNames == {"console"} \cup attached

Exists(t, m, rel) ==
  \/ rel = <<>>
  \/ m.fs = "devfs" /\ Len(rel) = 1 /\ rel[1] \in DevNames
  \/ m.fs # "devfs" /\ rel \in DOMAIN t[m.disk]

TypeAt(t, m, rel) ==
  IF rel = <<>> THEN "dir"
  ELSE IF m.fs = "devfs" THEN "file" ELSE t[m.disk][rel].type

LookupStepKeeps(t, m, r, name) ==
  IF ~r.ok THEN r
  ELSE IF TypeAt(t, m, r.rel) # "dir" \/ ~Exists(t, m, Append(r.rel, name))
       THEN [r EXCEPT !.ok = FALSE]
       ELSE [r EXCEPT !.rel = Append(@, name), !.held = @ + 1 - 1]

\* One round of vfs_resolve: the next vnode is found and the last one put.
LookupStep(t, m, r, name) ==
  IF ~r.ok THEN r
  ELSE IF TypeAt(t, m, r.rel) # "dir" \/ ~Exists(t, m, Append(r.rel, name))
       THEN [r EXCEPT !.ok = FALSE, !.held = @ - 1]
       ELSE [r EXCEPT !.rel = Append(@, name), !.held = @ + 1 - 1]

Failed == [ok |-> FALSE, m |-> Unmounted, rel |-> <<>>, held |-> 0]

\* The lookups below the root of mount m; clone_mount_root gives the first vnode.
WalkFrom(t, m, path) ==
  LET W[n \in Len(m.path)..Len(path)] ==
        IF n = Len(m.path) THEN [ok |-> TRUE, m |-> m, rel |-> <<>>, held |-> 1]
        ELSE LookupStep(t, m, W[n - 1], path[n])
  IN W[Len(path)]

ResolveIn(t, path, slot) == IF slot = 0 THEN Failed ELSE WalkFrom(t, mounts[slot], path)

\* vfs_resolve.  "held" is the number of vnodes the caller is left with.
Resolve(t, path) == ResolveIn(t, path, SelectMount(path))

\* The vnodes left once a vnode that was found has been put.
AfterPut(r) == IF r.ok THEN r.held - 1 ELSE r.held

IsDir(t, r) == r.ok /\ TypeAt(t, r.m, r.rel) = "dir"
IsFile(t, r) == r.ok /\ r.m.fs # "devfs" /\ TypeAt(t, r.m, r.rel) = "file"

\* The directory part of vfs_create, vfs_mkdir and vfs_unlink: a path that
\* split_parent_child accepts, whose parent r is a directory of a filesystem
\* that can be written.
CanChange(t, path, r) == path # <<>> /\ IsDir(t, r) /\ ~r.m.ro

\* A call on the tree: its success, the tree after it, the vnodes left over.
Outcome(ok, t, held) == [ok |-> ok, t |-> t, held |-> held]

PutNode(t, d, rel, node) ==
  [t EXCEPT ![d] = [x \in DOMAIN @ \cup {rel} |-> IF x = rel THEN node ELSE @[x]]]
DropNode(t, d, rel) == [t EXCEPT ![d] = [x \in DOMAIN @ \ {rel} |-> @[x]]]

\* The driver's create and mkdir in the directory r.  "up" says whether the
\* device answers.  A created file comes with a vnode.
CreatedIn(t, path, node, up, r, rel) ==
  IF /\ CanChange(t, path, r)
     /\ rel \notin DOMAIN t[r.m.disk] /\ <<rel, node.type>> \in Room[r.m.disk]
     /\ up
  THEN Outcome(TRUE, PutNode(t, r.m.disk, rel, node),
               AfterPut(r) + (IF node.type = "file" THEN 1 ELSE 0))
  ELSE Outcome(FALSE, t, AfterPut(r))

ParentOf(t, path) == IF path = <<>> THEN Failed ELSE Resolve(t, Parent(path))
Below(r, path) == IF path = <<>> THEN <<>> ELSE Append(r.rel, Leaf(path))

CreatedBelow(t, path, node, up, r) == CreatedIn(t, path, node, up, r, Below(r, path))

\* vfs_create and vfs_mkdir
Created(t, path, node, up) == CreatedBelow(t, path, node, up, ParentOf(t, path))

\* The driver's unlink of a file or an empty directory.
UnlinkedIn(t, path, up, r, rel) ==
  IF /\ CanChange(t, path, r)
     /\ rel \in DOMAIN t[r.m.disk]
     /\ \A x \in DOMAIN t[r.m.disk] : ~IsInside(rel, x)
     /\ up
  THEN Outcome(TRUE, DropNode(t, r.m.disk, rel), AfterPut(r))
  ELSE Outcome(FALSE, t, AfterPut(r))

UnlinkedBelow(t, path, up, r) == UnlinkedIn(t, path, up, r, Below(r, path))

\* vfs_unlink
Unlinked(t, path, up) == UnlinkedBelow(t, path, up, ParentOf(t, path))

-----------------------------------------------------------------------------
(* Directory listings: vfs_readdir.                                        *)

\* A set of names in the order in which a driver happens to list them.
Listed(names) == CHOOSE s \in [1..Cardinality(names) -> names] : IsInjective(s)

\* What the driver's readdir lists, "." and ".." left out as sys_readdir does.
DriverNames(m, rel) ==
  IF m.fs = "devfs" THEN Listed(DevNames)
  ELSE Listed({Leaf(x) : x \in {y \in DOMAIN tree[m.disk] :
                                    Len(y) = Len(rel) + 1 /\ IsWithin(rel, y)}})

\* One mount that lies below the listed directory adds its first component,
\* unless an earlier mount or the directory itself has listed it.
AddMountName(r, dir, seen, m) ==
  IF /\ Available(m) /\ IsInside(dir, m.path)
     /\ m.path[Len(dir) + 1] \notin Range(seen)
     /\ ~Exists(tree, r.m, Append(r.rel, m.path[Len(dir) + 1]))
  THEN Append(seen, m.path[Len(dir) + 1])
  ELSE seen

MountNames(path, r) ==
  LET N[i \in 0..MountSlots] ==
        IF i = 0 THEN <<>> ELSE AddMountName(r, path, N[i - 1], mounts[i])
  IN N[MountSlots]

ReaddirAt(path, r) ==
  IF ~IsDir(tree, r) THEN <<>>
  ELSE DriverNames(r.m, r.rel) \o MountNames(path, r)

Readdir(path) == ReaddirAt(path, Resolve(tree, path))

-----------------------------------------------------------------------------
(* Mounting.                                                               *)

\* A stale mount at the path is dropped.
Cleared(mts, path) ==
  [i \in 1..MountSlots |-> IF i \in SlotsAt(mts, path) THEN Unmounted ELSE mts[i]]

InFreeSlot(mts, m, slot) == IF slot = 0 THEN mts ELSE [mts EXCEPT ![slot] = m]

\* bind_mount_normalized, for a path whose mount, if any, is not available.
BindCleared(mts, m) == InFreeSlot(mts, m, FreeSlot(mts))
Bind(mts, m) == BindCleared(Cleared(mts, m.path), m)

Taken(path) == \E i \in SlotsAt(mounts, path) : Available(mounts[i])

\* vfs_mount_dev once the target is known to be a directory: the stale mount is
\* dropped even when no driver then accepts the device.
MountDev(path, d, up) ==
  IF Taken(path) THEN mounts
  ELSE IF FormatOf[d] = "none" \/ ~up THEN Cleared(mounts, path)
  ELSE Bind(mounts, Mount(path, FormatOf[d], d, FALSE))

\* pick_default_root_device: a fixed disk with KIFS, or else any fixed disk.
RootCandidates ==
  LET fixed == attached \ Removable
      kifs == {d \in fixed : FormatOf[d] = "kifs"}
  IN IF kifs # {} THEN kifs ELSE fixed

\* kmain: the root by vfs_mount_root_auto, then devfs_mount_at("/dev").
Boot ==
  /\ \A i \in 1..MountSlots : ~Used(mounts[i])
  /\ \E up \in BOOLEAN :
       LET rooted == IF RootCandidates = {} THEN mounts
                     ELSE MountDev(<<>>, CHOOSE d \in RootCandidates : TRUE, up)
       IN mounts' = Bind(rooted, Mount(<<"dev">>, "devfs", "none", TRUE))
  /\ UNCHANGED <<tree, attached, cwd, vnodes, opened, lost>>

\* sys_mount
SysMount(input, d) ==
  \E k \in {KernelPath(input)} : \E r \in {Resolve(tree, k.path)} :
    /\ k.ok /\ d \in attached
    /\ \E up \in BOOLEAN :
         mounts' = IF k.path = <<>> \/ IsDir(tree, r) THEN MountDev(k.path, d, up) ELSE mounts
    /\ vnodes' = vnodes + (IF k.path = <<>> THEN 0 ELSE AfterPut(r))
    /\ UNCHANGED <<tree, attached, cwd, opened, lost>>

\* vfs_remount_root_dev: the root mount is replaced, available or not.
RemountRoot(d) ==
  /\ d \in attached /\ FormatOf[d] # "none"
  /\ LET at == SlotsAt(mounts, <<>>)
         slot == IF at = {} THEN FreeSlot(mounts) ELSE CHOOSE i \in at : TRUE
     IN /\ slot # 0
        /\ mounts' = [mounts EXCEPT ![slot] = Mount(<<>>, FormatOf[d], d, FALSE)]
  /\ UNCHANGED <<tree, attached, cwd, vnodes, opened, lost>>

Unplug(d) ==
  /\ d \in attached \cap Removable
  /\ attached' = attached \ {d}
  /\ UNCHANGED <<mounts, tree, cwd, vnodes, opened, lost>>

Plug(d) ==
  /\ d \notin attached
  /\ attached' = attached \cup {d}
  /\ UNCHANGED <<mounts, tree, cwd, vnodes, opened, lost>>

-----------------------------------------------------------------------------
(* System calls on paths.                                                  *)

\* sys_stat and sys_access put the vnode they have looked at; sys_readdir also
\* puts the ones it finds while it checks for duplicates.
SysStat(input) ==
  \E k \in {KernelPath(input)} : \E r \in {Resolve(tree, k.path)} :
    /\ k.ok
    /\ vnodes' = vnodes + AfterPut(r)
    /\ UNCHANGED <<mounts, tree, attached, cwd, opened, lost>>

SysMkdir(input) ==
  \E k \in {KernelPath(input)} : \E up \in BOOLEAN :
  \E c \in {Created(tree, k.path, Dir, up)} :
    /\ k.ok
    /\ tree' = c.t
    /\ vnodes' = vnodes + c.held
    /\ UNCHANGED <<mounts, attached, cwd, opened, lost>>

SysUnlink(input) ==
  \E k \in {KernelPath(input)} : \E up \in BOOLEAN :
  \E u \in {Unlinked(tree, k.path, up)} :
    /\ k.ok
    /\ tree' = u.t
    /\ vnodes' = vnodes + u.held
    /\ UNCHANGED <<mounts, attached, cwd, opened, lost>>

SysChdir(input) ==
  \E k \in {KernelPath(input)} : \E r \in {Resolve(tree, k.path)} :
    /\ k.ok
    /\ cwd' = IF IsDir(tree, r) THEN k.path ELSE cwd
    /\ vnodes' = vnodes + AfterPut(r)
    /\ UNCHANGED <<mounts, tree, attached, opened, lost>>

\* sys_open: a file that is there, or one that O_CREAT makes.  A vnode without
\* read and write operations, as all of devfs, is put again, and so is one that
\* no descriptor is free for.
SysOpen(input, creat) ==
  \E k \in {KernelPath(input)} : \E r \in {Resolve(tree, k.path)} :
  \E up \in BOOLEAN : \E c \in {Created(tree, k.path, File(<<>>), up)} :
    LET made == ~r.ok /\ creat /\ c.ok
        held == IF r.ok THEN r.held ELSE IF creat THEN r.held + c.held ELSE r.held
        kept == (r.ok \/ made) /\ (r.ok => r.m.fs # "devfs") /\ opened < MaxOpened
    IN /\ k.ok
       /\ tree' = IF made THEN c.t ELSE tree
       /\ opened' = IF kept THEN opened + 1 ELSE opened
       /\ vnodes' = vnodes + held - (IF (r.ok \/ made) /\ ~kept THEN 1 ELSE 0)
    /\ UNCHANGED <<mounts, attached, cwd, lost>>

SysClose ==
  /\ opened > 0
  /\ opened' = opened - 1
  /\ vnodes' = vnodes - 1
  /\ UNCHANGED <<mounts, tree, attached, cwd, lost>>

-----------------------------------------------------------------------------
(* sys_rename copies the file and unlinks the old one.                     *)

SetData(t, r, data) == [t EXCEPT ![r.m.disk][r.rel].data = data]

\* The first of its calls on the drivers that fails, if one does, and whether
\* the device then still lets the copy be taken back.  "most" is the number of
\* pieces that a failing copy wrote.
NoFault == [at |-> "none", most |-> 0, undo |-> TRUE]
RenameFaults ==
  [at : {"none", "unlinkNew", "create"}, most : {0}, undo : {TRUE}]
    \cup [at : {"copy"}, most : {0, 1}, undo : BOOLEAN]
    \cup [at : {"unlinkOld"}, most : {0}, undo : BOOLEAN]

\* The last steps, with the copy in the tree: the old file is unlinked, or, if
\* the copy is not whole or the old file stays, the copy is.
Dropped(copied, old, new, fault, whole, drop) ==
  IF whole /\ drop.ok THEN Outcome(TRUE, drop.t, 0)
  ELSE Outcome(FALSE, Unlinked(copied, new, fault.undo).t, 0)

Copied(copied, old, new, fault, whole) ==
  Dropped(copied, old, new, fault, whole, Unlinked(copied, old, fault.at # "unlinkOld"))

\* The copy of "data" to the created file r, and its vnode put.
CopyTo(c, r, data, old, new, fault, whole) ==
  [Copied(SetData(c.t, r, IF whole THEN data ELSE SubSeq(data, 1, fault.most)),
          old, new, fault, whole) EXCEPT !.held = @ + c.held - 1]

CopyAndDrop(c, data, old, new, fault) ==
  IF ~c.ok THEN c
  ELSE CopyTo(c, Resolve(c.t, new), data, old, new, fault,
              fault.at # "copy" \/ fault.most >= Len(data))

\* A file already at the new name is unlinked first.
RenameFrom(src, dst, clear, old, new, fault) ==
  IF ~IsFile(tree, src) THEN Outcome(FALSE, tree, AfterPut(src))
  ELSE IF dst.ok /\ ~(IsFile(tree, dst) /\ clear.ok)
       THEN Outcome(FALSE, tree, AfterPut(dst) + AfterPut(src))
       ELSE [CopyAndDrop(Created(IF dst.ok THEN clear.t ELSE tree, new, File(<<>>),
                                 fault.at # "create"),
                         tree[src.m.disk][src.rel].data, old, new, fault)
               EXCEPT !.held = @ + AfterPut(dst) + AfterPut(src)]

\* The data in the file that r leads to, if it leads to one.
DataOf(t, r) == IF IsFile(t, r) THEN {t[r.m.disk][r.rel].data} ELSE {}
DataAt(t, path) == DataOf(t, Resolve(t, path))

\* Two names for one file, when its device is mounted twice.
SameNode(r, s) == r.ok /\ s.ok /\ r.m.disk = s.m.disk /\ r.rel = s.rel

\* What a rename of src with outcome c has lost: the contents that are neither
\* still at the old name nor, if it reports success, now at the new one and
\* only there.
Lost(src, dst, old, new, c) ==
  IF ~IsFile(tree, src) \/ SameNode(src, dst) THEN {}
  ELSE IF c.ok
       THEN (DataOf(tree, src) \ DataAt(c.t, new)) \cup DataAt(c.t, old)
       ELSE DataOf(tree, src) \ DataAt(c.t, old)

SysRename(from, to) ==
  \E k1 \in {KernelPath(from)} : \E k2 \in {KernelPath(to)} :
  \E src \in {Resolve(tree, k1.path)} : \E dst \in {Resolve(tree, k2.path)} :
    /\ k1.ok /\ k2.ok /\ k1.path # k2.path
    /\ \E fault \in IF IsFile(tree, src) THEN RenameFaults ELSE {NoFault} :
       \E clear \in {Unlinked(tree, k2.path, fault.at # "unlinkNew")} :
       \E c \in {RenameFrom(src, dst, clear, k1.path, k2.path, fault)} :
         /\ tree' = c.t
         /\ vnodes' = vnodes + c.held
         /\ lost' = lost \cup Lost(src, dst, k1.path, k2.path, c)
    /\ UNCHANGED <<mounts, attached, cwd, opened>>

-----------------------------------------------------------------------------
VfsInit ==
  /\ mounts = [i \in 1..MountSlots |-> Unmounted]
  /\ tree = Contents
  /\ attached \in {Disk, Disk \ Removable}
  /\ cwd = <<>>
  /\ vnodes = 0
  /\ opened = 0
  /\ lost = {}

VfsNext ==
  \/ Boot \/ SysClose
  \/ \E d \in Disk : Plug(d) \/ Unplug(d) \/ RemountRoot(d)
  \/ \E i \in Inputs :
       \/ SysStat(i) \/ SysMkdir(i) \/ SysUnlink(i) \/ SysChdir(i)
       \/ i \in Targets /\ \E d \in Disk : SysMount(i, d)
       \/ \E creat \in BOOLEAN : SysOpen(i, creat)
       \/ \E j \in Inputs : SysRename(i, j)
VfsSpec == VfsInit /\ [][VfsNext]_vfsVars

-----------------------------------------------------------------------------
(* Properties.                                                             *)

\* Every piece of state has its shape, and no path is longer than its buffer
\* (PROC_CWD_MAX, VFS_MAX_MOUNT_PATH).
VfsTypeOK ==
  /\ \A i \in 1..MountSlots :
       /\ mounts[i].fs \in {"none", "kifs", "fat", "devfs"}
       /\ mounts[i].fs \in {"kifs", "fat"} => mounts[i].disk \in Disk
       /\ Len(mounts[i].path) <= PathMax
  /\ \A d \in Disk : \A x \in DOMAIN tree[d] : <<x, tree[d][x].type>> \in Room[d]
  /\ attached \subseteq Disk
  /\ Len(cwd) <= PathMax
  /\ opened \in 0..MaxOpened /\ vnodes \in Nat

\* Two entries of the mount table never have one mount point, also not after
\* the device of the first was unplugged and another mounted over it
\* (vfs_mount_dev, bind_mount_normalized, vfs_remount_root_dev): what is
\* mounted there does not depend on which entry is found first.
MountPointsUnique ==
  \A i, j \in 1..MountSlots :
    Used(mounts[i]) /\ Used(mounts[j]) /\ mounts[i].path = mounts[j].path => i = j

\* Every vnode that a system call looks up, on any of its error paths, is put
\* again: between calls only the vnodes of open descriptors exist.
VnodesBalanced == vnodes = opened

\* vfs_readdir lists no name twice, though entries, earlier mounts and the
\* mount points below a directory can all have one name.
ReaddirUnique ==
  \A i \in Inputs : i.abs => IsInjective(Readdir(i.comps))

\* Whatever call of sys_rename fails, the contents of the file are afterwards
\* at the old name, or, if it reports success, at the new one and only there.
\* Two names for one file are left out: sys_rename compares only the strings,
\* and unlinks the file before it copies it.
RenameKeepsData == lost = {}

\* Mounts and vnodes of vfs.c stay in order whatever devices come and go, and
\* rename loses no file.
VfsSound ==
  /\ VfsTypeOK /\ MountPointsUnique /\ VnodesBalanced
  /\ ReaddirUnique /\ RenameKeepsData

\* A device that has been pulled out is never changed, whatever is still in
\* the mount table: paths below its mount point lead elsewhere.
AbsentUntouched ==
  [][\A d \in Disk : d \notin attached => tree'[d] = tree[d]]_vfsVars
=============================================================================
