-------------------------------- MODULE Files --------------------------------
(***************************************************************************)
(* The descriptor layer of core/syscall.c: one descriptor table per        *)
(* process, vnodes with reference counts, offsets and flags shared by      *)
(* duplicated descriptors, and the table of pipes.  A system call runs     *)
(* with interrupts masked, so each is one step; calls of the processes     *)
(* interleave.  A call that fails without changing anything is no step.    *)
(***************************************************************************)
EXTENDS Pipe, FiniteSets

CONSTANTS
    Procs,       \* slots of the process table
    FdMax,       \* PROC_MAX_FDS
    FirstUser,   \* FD_FIRST_USER: lower numbers default to the console
    PipeMax,     \* PIPE_MAX
    VnodeMax,    \* bound: vnodes alive at a time
    File,        \* files of the mounted file system
    MaxOffset,   \* bound: stands for INT64_MAX
    MaxDesc,     \* bound: description ids handed out
    Chunks,      \* what a program may write to a pipe
    Lengths,     \* the lengths a program may ask for
    Modes        \* the access modes and flags of open that programs use

ASSUME FilesAssumption ==
    /\ IsFiniteSet(Procs) /\ File # {}
    /\ FdMax \in Nat /\ FirstUser \in 1 .. FdMax
    /\ PipeMax \in Nat /\ VnodeMax \in Nat
    /\ MaxOffset \in Nat /\ MaxDesc \in Nat
    /\ Chunks \subseteq Seq(Byte) /\ Lengths \subseteq Nat
    /\ Modes \subseteq {"r", "w", "rw"} \X SUBSET {"creat", "trunc", "append"}

VARIABLES
    state,     \* life of each process
    fds,       \* its descriptor table
    pipes,     \* g_pipes
    vnodes,    \* vnode objects on the kernel heap
    fsize,     \* size in the inode of each file, Absent if it does not exist
    next_id,   \* g_next_fd_description_id
    last       \* the last read or write on a pipe and its result

filesVars == <<state, fds, pipes, vnodes, fsize, next_id, last>>

Fds == 0 .. FdMax - 1
Pipes == 1 .. PipeMax
Vnodes == 1 .. VnodeMax
Absent == -1

Transfer(op, q, n, data) == [op |-> op, pipe |-> q, n |-> n, data |-> data]

\* process_fd_t.  obj is the vnode or the pipe (or console_fd), end the end of
\* the pipe; acc and append are the parts of flags that calls look at.
FdRecord == [kind : {"free", "console", "file", "pipe"}, end : {"-", "r", "w"},
             obj : Nat, desc : 0 .. MaxDesc, offset : 0 .. MaxOffset,
             acc : {"r", "w", "rw"}, append : {"no", "yes"}]

FreeFd == [kind |-> "free", end |-> "-", obj |-> 0, desc |-> 0, offset |-> 0,
           acc |-> "r", append |-> "no"]

\* vnode_t: refcount (0 once freed), the file it was resolved from, and the
\* size cached in it, which other vnodes of the same file do not share.
VnodeRecord == [refs : Nat, file : File, size : 0 .. MaxOffset]

FreeVnode == [refs |-> 0, file |-> CHOOSE f \in File : TRUE, size |-> 0]

FilesInit ==
    /\ state = [p \in Procs |-> "none"]
    /\ fds = [p \in Procs |-> [i \in Fds |-> FreeFd]]
    /\ pipes = [q \in Pipes |-> UnusedPipe]
    /\ vnodes = [v \in Vnodes |-> FreeVnode]
    /\ fsize \in [File -> {Absent, 0}]
    /\ next_id = 1
    /\ last = Transfer("none", 0, 0, << >>)

-----------------------------------------------------------------------------
(* Descriptor tables *)

Running(p) == state[p] = "live"

\* The first free descriptor from min on: process_fd_find_free, and the loops
\* of process_fd_alloc, sys_dup and F_DUPFD.
IsFirstFree(p, min, i) ==
    /\ i >= min /\ fds[p][i].kind = "free"
    /\ \A j \in Fds : j >= min /\ j < i => fds[p][j].kind # "free"

TableFull(p, min) == \A j \in Fds : j >= min => fds[p][j].kind # "free"

IsFirstUnused(q) ==
    /\ pipes[q].used = "no"
    /\ \A r \in Pipes : r < q => pipes[r].used = "yes"

\* A new vnode comes from the heap; which address it has does not matter.
IsNewVnode(v) ==
    /\ vnodes[v].refs = 0
    /\ \A u \in Vnodes : u < v => vnodes[u].refs > 0

ConsoleFd(i) == [kind |-> "console", end |-> "-", obj |-> i, desc |-> 0, offset |-> 0,
                 acc |-> IF i = 0 THEN "r" ELSE "w", append |-> "no"]

\* process_fd_source: the entry, or the console for an unused standard one.
HasSource(p, i) == fds[p][i].kind # "free" \/ i < FirstUser

SourceOf(p, i) == IF fds[p][i].kind # "free" THEN fds[p][i] ELSE ConsoleFd(i)

CanRead(e) == e.acc \in {"r", "rw"}
CanWrite(e) == e.acc \in {"w", "rw"}

-----------------------------------------------------------------------------
(* References *)

EndsIn(p, S, q, end) ==
    Cardinality({i \in S : /\ fds[p][i].kind = "pipe"
                           /\ fds[p][i].obj = q
                           /\ fds[p][i].end = end})

VnodesIn(p, S, v) ==
    Cardinality({i \in S : fds[p][i].kind = "file" /\ fds[p][i].obj = v})

\* vfs_vnode_put called k times.
Put(vnode, k) ==
    IF k = 0 THEN vnode
    ELSE IF k < vnode.refs THEN [vnode EXCEPT !.refs = @ - k]
    ELSE FreeVnode

\* vfs_vnode_get
Get(vnode) == [vnode EXCEPT !.refs = IF @ = 0 THEN 2 ELSE @ + 1]

\* syscall_fd_release_resources for the descriptors S of a process.
PipesWithout(p, S) ==
    [q \in Pipes |-> ReleaseEndpoints(pipes[q], EndsIn(p, S, q, "r"),
                                                EndsIn(p, S, q, "w"))]

VnodesWithout(p, S) == [v \in Vnodes |-> Put(vnodes[v], VnodesIn(p, S, v))]

PipesWith(table, e) ==
    IF e.kind # "pipe" THEN table
    ELSE [table EXCEPT ![e.obj] = RefEndpoint(@, IF e.end = "r" THEN 1 ELSE 0,
                                                 IF e.end = "w" THEN 1 ELSE 0)]

VnodesWith(table, e) ==
    IF e.kind # "file" THEN table ELSE [table EXCEPT ![e.obj] = Get(@)]

\* process_fd_clear and process_close_files.
Clear(p, S) ==
    /\ fds' = [fds EXCEPT ![p] = [i \in Fds |-> IF i \in S THEN FreeFd ELSE @[i]]]
    /\ pipes' = PipesWithout(p, S)
    /\ vnodes' = VnodesWithout(p, S)

\* process_fd_install_copy: the target is closed first.
InstallCopy(p, i, e) ==
    /\ fds' = [fds EXCEPT ![p] = [@ EXCEPT ![i] = e]]
    /\ pipes' = PipesWith(PipesWithout(p, {i}), e)
    /\ vnodes' = VnodesWith(VnodesWithout(p, {i}), e)

Shares(e, d) == e.kind = "file" /\ d.desc # 0 /\ e.desc = d.desc

SyncOffsetAlone(p, i, offset) ==
    fds' = [fds EXCEPT ![p] = [@ EXCEPT ![i] = [@ EXCEPT !.offset = offset]]]

\* process_fd_sync_offset and process_fd_sync_flags: every descriptor of this
\* process with the same description id.
SyncOffset(p, i, offset) ==
    fds' = [fds EXCEPT ![p] =
               [j \in Fds |-> IF Shares(@[j], @[i])
                              THEN [@[j] EXCEPT !.offset = offset] ELSE @[j]]]

SyncFlags(p, i, append) ==
    fds' = [fds EXCEPT ![p] =
               [j \in Fds |-> IF Shares(@[j], @[i])
                              THEN [@[j] EXCEPT !.append = append] ELSE @[j]]]

-----------------------------------------------------------------------------
(* Processes *)

\* process_create clears the slot: descriptors are not inherited.
Start(p) ==
    /\ state[p] = "none"
    /\ state' = [state EXCEPT ![p] = "live"]
    /\ fds' = [fds EXCEPT ![p] = [i \in Fds |-> FreeFd]]
    /\ UNCHANGED <<pipes, vnodes, fsize, next_id, last>>

\* The descriptor part of sys_exit and of exec_replace_current.
Exit(p) ==
    /\ state[p] = "live"
    /\ state' = [state EXCEPT ![p] = "zombie"]
    /\ Clear(p, Fds)
    /\ UNCHANGED <<fsize, next_id, last>>

\* process_destroy closes again what exit has closed.
Destroy(p) ==
    /\ state[p] = "zombie"
    /\ state' = [state EXCEPT ![p] = "none"]
    /\ Clear(p, Fds)
    /\ UNCHANGED <<fsize, next_id, last>>

-----------------------------------------------------------------------------
(* Descriptors *)

Close(p, i) ==
    /\ Running(p)
    /\ fds[p][i].kind # "free"
    /\ Clear(p, {i})
    /\ UNCHANGED <<state, fsize, next_id, last>>

\* sys_dup, and F_DUPFD with its lower bound.
Dup(p, i, min) ==
    /\ Running(p)
    /\ HasSource(p, i)
    /\ \E j \in Fds : IsFirstFree(p, min, j) /\ InstallCopy(p, j, SourceOf(p, i))
    /\ UNCHANGED <<state, fsize, next_id, last>>

Dup2(p, i, j) ==
    /\ Running(p)
    /\ HasSource(p, i) /\ i # j
    /\ InstallCopy(p, j, SourceOf(p, i))
    /\ UNCHANGED <<state, fsize, next_id, last>>

\* F_SETFL: no effect on the console and on pipes.
SetFlags(p, i, append) ==
    /\ Running(p)
    /\ fds[p][i].kind = "file"
    /\ SyncFlags(p, i, append)
    /\ UNCHANGED <<state, pipes, vnodes, fsize, next_id, last>>

-----------------------------------------------------------------------------
(* Files *)

\* sys_open.  A file that exists is truncated before a descriptor is found, and
\* stays truncated if there is none.
Open(p, f, acc, flags) ==
    LET size == IF fsize[f] = Absent \/ "trunc" \in flags THEN 0 ELSE fsize[f]
        entry(v) == [kind |-> "file", end |-> "-", obj |-> v, desc |-> next_id,
                     offset |-> IF "append" \in flags THEN size ELSE 0, acc |-> acc,
                     append |-> IF "append" \in flags THEN "yes" ELSE "no"]
    IN  /\ Running(p)
        /\ acc = "r" => flags = {}
        /\ fsize[f] # Absent \/ "creat" \in flags
        /\ fsize' = [fsize EXCEPT ![f] = size]
        /\ \E v \in Vnodes :
              /\ IsNewVnode(v)
              /\ \/ /\ TableFull(p, FirstUser)
                    /\ UNCHANGED <<fds, vnodes, next_id>>
                 \/ \E i \in Fds :
                      /\ IsFirstFree(p, FirstUser, i)
                      /\ next_id <= MaxDesc
                      /\ next_id' = next_id + 1
                      /\ fds' = [fds EXCEPT ![p] = [@ EXCEPT ![i] = entry(v)]]
                      /\ vnodes' = [vnodes EXCEPT ![v] =
                                      [refs |-> 1, file |-> f, size |-> size]]
        /\ UNCHANGED <<state, pipes, last>>

\* The file end of sys_read, with kifs_vnode_read.
ReadFile(p, i, len) ==
    LET e == fds[p][i]
        n == Least(len, Less(fsize[vnodes[e.obj].file], e.offset))
    IN  /\ Running(p)
        /\ e.kind = "file" /\ CanRead(e)
        /\ n > 0
        /\ SyncOffset(p, i, e.offset + n)
        /\ UNCHANGED <<state, pipes, vnodes, fsize, next_id, last>>

\* The file end of sys_write, with kifs_vnode_write, which writes everything or
\* fails.  In append mode the offset moves to the size cached in the vnode
\* before the write is tried.
WriteFile(p, i, len) ==
    LET e == fds[p][i]
        v == vnodes[e.obj]
        base == IF e.append = "yes" THEN v.size ELSE e.offset
        size == IF fsize[v.file] > base + len THEN fsize[v.file] ELSE base + len
    IN  /\ Running(p)
        /\ e.kind = "file" /\ CanWrite(e)
        /\ \/ /\ len > 0 /\ base + len <= MaxOffset
              /\ fsize' = [fsize EXCEPT ![v.file] = size]
              /\ vnodes' = [vnodes EXCEPT ![e.obj] = [@ EXCEPT !.size = size]]
              /\ SyncOffset(p, i, base + len)
           \/ /\ SyncOffset(p, i, base)
              /\ UNCHANGED <<vnodes, fsize>>
        /\ UNCHANGED <<state, pipes, next_id, last>>

\* sys_seek, to a position reached from the start, the offset or the end.
Seek(p, i, offset) ==
    /\ Running(p)
    /\ fds[p][i].kind = "file"
    /\ offset <= MaxOffset
    /\ SyncOffset(p, i, offset)
    /\ UNCHANGED <<state, pipes, vnodes, fsize, next_id, last>>

\* sys_ftruncate, with kifs_vnode_truncate, which returns early when the file
\* has the size already.
Ftruncate(p, i, size) ==
    LET v == vnodes[fds[p][i].obj]
    IN  /\ Running(p)
        /\ fds[p][i].kind = "file" /\ CanWrite(fds[p][i])
        /\ size # fsize[v.file]
        /\ fsize' = [fsize EXCEPT ![v.file] = size]
        /\ vnodes' = [vnodes EXCEPT ![fds[p][i].obj] = [@ EXCEPT !.size = size]]
        /\ UNCHANGED <<state, fds, pipes, next_id, last>>

\* sys_truncate resolves a vnode of its own and drops it again.
Truncate(p, f, size) ==
    /\ Running(p)
    /\ fsize[f] # Absent
    /\ fsize' = [fsize EXCEPT ![f] = size]
    /\ UNCHANGED <<state, fds, pipes, vnodes, next_id, last>>

-----------------------------------------------------------------------------
(* Pipes *)

PipeFd(end, q, id) == [kind |-> "pipe", end |-> end, obj |-> q, desc |-> id,
                       offset |-> 0, acc |-> end, append |-> "no"]

\* sys_pipe
MakePipe(p) ==
    /\ Running(p)
    /\ next_id < MaxDesc
    /\ \E r, w \in Fds, q \in Pipes :
          /\ IsFirstFree(p, FirstUser, r) /\ IsFirstFree(p, r + 1, w)
          /\ IsFirstUnused(q)
          /\ pipes' = [pipes EXCEPT ![q] = RefEndpoint(NewPipe, 1, 1)]
          /\ fds' = [fds EXCEPT ![p] = [@ EXCEPT ![r] = PipeFd("r", q, next_id),
                                                 ![w] = PipeFd("w", q, next_id + 1)]]
    /\ next_id' = next_id + 2
    /\ UNCHANGED <<state, vnodes, fsize, last>>

\* The pipe end of sys_read: an empty pipe reads as zero bytes, with or
\* without writers.
ReadPipe(p, i, len) ==
    LET e == fds[p][i]
    IN  /\ Running(p)
        /\ e.kind = "pipe" /\ e.end = "r" /\ CanRead(e)
        /\ last' = Transfer("read", e.obj, ReadCount(pipes[e.obj], len),
                            BytesRead(pipes[e.obj], len))
        /\ pipes' = [pipes EXCEPT ![e.obj] = AfterRead(@, len)]
        /\ UNCHANGED <<state, fds, vnodes, fsize, next_id>>

\* The pipe end of sys_write.
WritePipe(p, i, data) ==
    LET e == fds[p][i]
    IN  /\ Running(p)
        /\ e.kind = "pipe" /\ e.end = "w" /\ CanWrite(e)
        /\ \/ /\ pipes[e.obj].readers = 0
              /\ last' = Transfer("write", e.obj, -1, data)
              /\ UNCHANGED pipes
           \/ /\ pipes[e.obj].readers > 0
              /\ last' = Transfer("write", e.obj,
                                  WriteCount(pipes[e.obj], data), data)
              /\ pipes' = [pipes EXCEPT ![e.obj] = AfterWrite(@, data)]
        /\ UNCHANGED <<state, fds, vnodes, fsize, next_id>>

-----------------------------------------------------------------------------
Lives(p) == Start(p) \/ Exit(p) \/ Destroy(p)

DescriptorCalls(p) ==
    \E i \in Fds : Close(p, i) \/ \E j \in Fds : Dup(p, i, j) \/ Dup2(p, i, j)

FileCalls(p) ==
    \/ \E f \in File, mode \in Modes : Open(p, f, mode[1], mode[2])
    \/ \E f \in File, size \in 0 .. MaxOffset : Truncate(p, f, size)
    \/ \E i \in Fds :
          \/ \E append \in {"no", "yes"} : SetFlags(p, i, append)
          \/ \E len \in Lengths : ReadFile(p, i, len) \/ WriteFile(p, i, len)
          \/ \E offset \in 0 .. MaxOffset + 1 : Seek(p, i, offset)
          \/ \E size \in 0 .. MaxOffset : Ftruncate(p, i, size)

PipeCalls(p) ==
    \/ MakePipe(p)
    \/ \E i \in Fds :
          \/ \E len \in Lengths : ReadPipe(p, i, len)
          \/ \E data \in Chunks : WritePipe(p, i, data)

FilesNext ==
    \E p \in Procs : Lives(p) \/ DescriptorCalls(p) \/ FileCalls(p) \/ PipeCalls(p)

FilesSpec == FilesInit /\ [][FilesNext]_filesVars

-----------------------------------------------------------------------------
(* Properties *)

\* Every variable keeps its type: ring positions and counts stay inside the
\* buffer, offsets stay below the limit sys_seek enforces.
FilesTypeOK ==
    /\ state \in [Procs -> {"none", "live", "zombie"}]
    /\ fds \in [Procs -> [Fds -> FdRecord]]
    /\ pipes \in [Pipes -> PipeRecord]
    /\ vnodes \in [Vnodes -> VnodeRecord]
    /\ fsize \in [File -> Absent .. MaxOffset]
    /\ next_id \in 1 .. MaxDesc + 1

\* The descriptors open on an end of a pipe, over all processes.
Ends(q, end) == {x \in Procs \X Fds : /\ fds[x[1]][x[2]].kind = "pipe"
                                      /\ fds[x[1]][x[2]].obj = q
                                      /\ fds[x[1]][x[2]].end = end}

\* The counts in a pipe are the numbers of descriptors open on it, so that
\* "no readers" and "no writers" mean what they say, and a pipe is in use just
\* as long as a descriptor refers to it: pipe, dup, dup2, close, exit and the
\* second close in process_destroy keep the books together.
EndsExact ==
    \A q \in Pipes :
        /\ pipes[q].readers = Cardinality(Ends(q, "r"))
        /\ pipes[q].writers = Cardinality(Ends(q, "w"))
        /\ pipes[q].refs = pipes[q].readers + pipes[q].writers
        /\ pipes[q].used = "yes" <=> pipes[q].refs > 0

\* The reference count of a vnode is the number of descriptors on it: none is
\* freed while a descriptor uses it, none outlives its last descriptor.
VnodesExact ==
    \A v \in Vnodes :
        vnodes[v].refs = Cardinality({x \in Procs \X Fds :
                                        /\ fds[x[1]][x[2]].kind = "file"
                                        /\ fds[x[1]][x[2]].obj = v})

\* Descriptors made from one open by dup, dup2 and F_DUPFD keep one offset and
\* one set of flags whatever is done through any of them, and nothing is shared
\* between different opens or different processes.
DescriptionsShared ==
    \A p1, p2 \in Procs, i, j \in Fds :
        LET d == fds[p1][i]
            e == fds[p2][j]
        IN  d.kind = "file" /\ e.kind = "file" =>
              /\ d.obj = e.obj <=> p1 = p2 /\ d.desc = e.desc
              /\ d.obj = e.obj => d = e

\* A process that has ended holds no pipe and no vnode: when all have ended,
\* every pipe of the fixed table is free again.
ExitReleases ==
    (\A p \in Procs : state[p] # "live") =>
        /\ \A q \in Pipes : pipes[q] = UnusedPipe
        /\ \A v \in Vnodes : vnodes[v].refs = 0

\* The counts that pipes and vnodes keep are those of the descriptor tables, in
\* every process, and exit gives everything back.
DescriptorsExact == FilesTypeOK /\ EndsExact /\ VnodesExact /\ ExitReleases
=============================================================================
