---------------------------- MODULE KernelProofs ----------------------------
(***************************************************************************)
(* Proofs about the memory and the files of the kernel.  Module Pmm, for   *)
(* every number of frames: the bitmap, the count and the cursor stay       *)
(* exact, and the search loops find what they are asked for.  Module       *)
(* Bcache, for every number of buffers, every set of blocks and values and *)
(* every bound on pins: the cache is transparent whatever fails, and a     *)
(* sync that succeeds makes a device durable.  Module Vfs, for every set   *)
(* of devices and paths, every contents of the devices and every number of *)
(* mount slots: a device that has been pulled out is never changed, no     *)
(* mount point is used twice, and every vnode is put again.                *)
(***************************************************************************)
EXTENDS Pmm, Bcache, Vfs, BasicLemmas, FiniteSetTheorems

USE ZenonT(3), SMTT(30), Z3T(30), ZenonT(60)

-----------------------------------------------------------------------------
(* Files: the mount table and the paths *)

Paths == {p \in Seq(Component) : Len(p) <= PathMax}

MountRecord ==
  {m \in [path : Paths, fs : {"none", "kifs", "fat", "devfs"}, disk : Disk \cup {"none"},
          ro : BOOLEAN] : m.fs = "devfs" => m.disk = "none"}

Table == [1..MountSlots -> MountRecord]

\* MountPointsUnique, of any table.
Unique(mts) ==
  \A i, j \in 1..MountSlots : Used(mts[i]) /\ Used(mts[j]) /\ mts[i].path = mts[j].path => i = j

VfsInv ==
  /\ mounts \in Table /\ Unique(mounts)
  /\ DOMAIN tree = Disk
  /\ attached \subseteq Disk
  /\ cwd \in Paths
  /\ opened \in Nat /\ vnodes = opened

-----------------------------------------------------------------------------
(* Paths.                                                                  *)

\* append_path_component keeps a path within its buffer.
LEMMA ComponentFacts ==
  ASSUME NEW r \in [ok : BOOLEAN, path : Paths], NEW c \in Component
  PROVE  AppendComponent(r, c) \in [ok : BOOLEAN, path : Paths]
<1> DEFINE p == r.path
<1>1. p \in Seq(Component) /\ Len(p) \in Nat /\ Len(p) <= PathMax /\ PathMax \in Nat /\ p \in Paths
  BY SeqShape, VfsAssumption DEF Paths
<1>2. Append(p, c) \in Seq(Component) /\ Len(Append(p, c)) = Len(p) + 1
  BY <1>1, SeqAppend
<1>3. Len(p) # PathMax => Append(p, c) \in Paths
  BY <1>1, <1>2 DEF Paths
<1>4. p # <<>> => Parent(p) \in Paths
  <2> SUFFICES ASSUME p # <<>> PROVE Parent(p) \in Paths
    OBVIOUS
  <2>1. Parent(p) \in Seq(Component) /\ Len(Parent(p)) <= Len(p)
    BY <1>1, SeqPart DEF Parent
  <2> QED BY <1>1, <2>1 DEF Paths
<1>5. /\ \A x \in Paths : [r EXCEPT !.path = x] \in [ok : BOOLEAN, path : Paths]
      /\ [r EXCEPT !.ok = FALSE] \in [ok : BOOLEAN, path : Paths]
  BY ZenonT(60)
<1>6. (IF p = <<>> THEN p ELSE Parent(p)) \in Paths
  BY <1>1, <1>4
<1>7. \/ AppendComponent(r, c) \in {r, [r EXCEPT !.ok = FALSE]}
      \/ AppendComponent(r, c) = [r EXCEPT !.path = IF p = <<>> THEN p ELSE Parent(p)]
      \/ Len(p) # PathMax /\ AppendComponent(r, c) = [r EXCEPT !.path = Append(p, c)]
  BY ZenonT(60) DEF AppendComponent
<1> HIDE DEF p
<1> QED BY <1>3, <1>5, <1>6, <1>7, ZenonT(60)

PathResult == [ok : BOOLEAN, path : Paths]

PathTurns(comps) ==
  CHOOSE f : f = [n \in 0..Len(comps) |->
                    IF n = 0 THEN [ok |-> TRUE, path |-> <<>>]
                    ELSE AppendComponent(f[n - 1], comps[n])]

\* So does resolve_kernel_path, whatever the components are.
LEMMA NormalizedFacts ==
  ASSUME NEW comps \in Seq(Component)
  PROVE  Normalized(comps) \in PathResult
<1> DEFINE m == Len(comps)
           b == [ok |-> TRUE, path |-> <<>>]
           S == PathResult
           step == [x \in S \X (1..m) |-> AppendComponent(x[1], comps[x[2]])]
           f == PathTurns(comps)
<1>1. m \in Nat /\ \A i \in 1..m : comps[i] \in Component
  BY SeqShape, ZenonT(60)
<1>2. ASSUME NEW q \in S, NEW i \in 1..m PROVE AppendComponent(q, comps[i]) \in S
  BY <1>1, ComponentFacts DEF PathResult
<1>3. /\ step \in [S \X (1..m) -> S]
      /\ \A q \in S, i \in 1..m : step[<<q, i>>] = AppendComponent(q, comps[i])
  <2> HIDE DEF S, m
  <2> QED BY <1>2
<1>4. b \in S
  <2>1. <<>> \in Seq(Component) /\ Len(<<>>) = 0
    OBVIOUS
  <2> QED BY <2>1, VfsAssumption DEF PathResult, Paths
<1> HIDE DEF step, S, b
<1>5. PICK g : IsLoop(S, m, b, step, g)
  <2> HIDE DEF m
  <2> QED BY <1>1, <1>3, <1>4, LoopRuns, ZenonT(60)
<1>6. g = [i \in 0..m |-> IF i = 0 THEN b ELSE AppendComponent(g[i - 1], comps[i])]
  <2>1. \A i \in 0..m : i = 0 \/ (i \in 1..m /\ i - 1 \in 0..m)
    BY <1>1
  <2>2. \A i \in 0..m : g[i] = IF i = 0 THEN b ELSE AppendComponent(g[i - 1], comps[i])
    BY <1>3, <1>5, <2>1, ZenonT(60) DEF IsLoop
  <2>3. g = [i \in 0..m |-> g[i]]
    BY <1>5 DEF IsLoop
  <2> QED BY <2>2, <2>3
<1>7. f = [i \in 0..m |-> IF i = 0 THEN b ELSE AppendComponent(f[i - 1], comps[i])]
  <2> HIDE DEF m
  <2> QED BY <1>6, ZenonT(60) DEF PathTurns, m, b
<1>8. Normalized(comps) = f[m]
  BY ZenonT(60) DEF Normalized, PathTurns, b
<1> HIDE DEF f, m
<1>9. \A i \in 0..m : f[i] \in S
  <2> DEFINE G == {i \in 0..m : f[i] \in S}
  <2>1. 0 \in G
    BY <1>1, <1>4, <1>7
  <2>2. ASSUME NEW i \in 1..m, i - 1 \in G PROVE i \in G
    <3>1. i \in 0..m /\ i # 0
      BY <1>1
    <3>2. f[i] = AppendComponent(f[i - 1], comps[i])
      BY <1>7, <3>1, ZenonT(60)
    <3> QED BY <1>2, <2>2, <3>1, <3>2
  <2> HIDE DEF G
  <2>3. \A i \in 0..m : i \in G
    BY <1>1, <2>1, <2>2, UpTo, ZenonT(60)
  <2> QED BY <2>3 DEF G
<1>10. m \in 0..m
  BY <1>1
<1> QED BY <1>8, <1>9, <1>10 DEF S

\* Every path a system call works on fits its buffer.
LEMMA KernelPathFacts ==
  ASSUME VfsInv, NEW input \in Inputs
  PROVE  KernelPath(input) \in PathResult
<1>1. input.comps \in Seq(Component) /\ cwd \in Seq(Component)
  BY VfsAssumption DEF VfsInv, Paths
<1>2. cwd \o input.comps \in Seq(Component)
  BY <1>1, SeqConcat
<1> QED BY <1>1, <1>2, NormalizedFacts, ZenonT(60) DEF KernelPath

-----------------------------------------------------------------------------
(* Lookup.                                                                 *)

\* select_mount_for_path finds an entry when there is one that fits.
LEMMA DeepestFacts ==
  ASSUME mounts \in Table, NEW fit, fit \subseteq 1..MountSlots, fit # {}
  PROVE  Deepest(fit) \in fit
<1> DEFINE Depth(i) == Len(mounts[i].path)
           Above(i) == PathMax - Depth(i)
           T == {Above(i) : i \in fit}
<1>1. \A i \in fit : Depth(i) \in Nat /\ Above(i) \in Nat /\ i \in Nat
  <2>1. \A i \in fit : mounts[i] \in MountRecord
    BY DEF Table
  <2>2. \A i \in fit : mounts[i].path \in Paths
    BY <2>1 DEF MountRecord
  <2>3. \A i \in fit : Depth(i) \in Nat /\ Depth(i) <= PathMax
    BY <2>2, SeqShape DEF Paths
  <2> HIDE DEF Depth
  <2> QED BY <2>3, VfsAssumption
<1> HIDE DEF Depth
<1>2. PICK x \in T : \A y \in T : x <= y
  <2>1. T \subseteq Nat /\ T # {}
    BY <1>1, ZenonT(60)
  <2> HIDE DEF T
  <2> QED BY <2>1, LeastNatural, ZenonT(60)
<1> DEFINE I == {i \in fit : Above(i) = x}
<1>3. PICK i \in I : \A j \in I : i <= j
  <2>1. I \subseteq Nat /\ I # {}
    BY <1>1, <1>2, ZenonT(60)
  <2> HIDE DEF I
  <2> QED BY <2>1, LeastNatural, ZenonT(60)
<1>4. ASSUME NEW j \in fit PROVE Depth(i) > Depth(j) \/ (Depth(i) = Depth(j) /\ i <= j)
  <2>1. Above(i) <= Above(j) /\ (Above(j) = Above(i) => i <= j)
    BY <1>2, <1>3
  <2>2. i \in fit
    BY <1>3
  <2> QED BY <1>1, <2>1, <2>2, VfsAssumption
<1>5. i \in fit
  BY <1>3
<1> QED BY <1>4, <1>5, ZenonT(60) DEF Deepest, Depth

\* What a lookup leaves its caller with: one vnode if it succeeds and none if it
\* fails, on a device that is present, or on no device.
Looked(r) ==
  /\ r.ok \in BOOLEAN /\ r.held = (IF r.ok THEN 1 ELSE 0)
  /\ r.m.disk \in attached \cup {"none"}

Walk(m) == {r \in [ok : BOOLEAN, m : {m}, rel : Seq(Component), held : {0, 1}] :
              r.held = IF r.ok THEN 1 ELSE 0}

\* One round of vfs_resolve puts the vnode it leaves.
LEMMA LookupFacts ==
  ASSUME NEW t, NEW m, NEW r \in Walk(m), NEW name \in Component
  PROVE  LookupStep(t, m, r, name) \in Walk(m)
<1>1. /\ r = [ok |-> r.ok, m |-> m, rel |-> r.rel, held |-> r.held]
      /\ r.ok \in BOOLEAN /\ r.rel \in Seq(Component) /\ r.held = IF r.ok THEN 1 ELSE 0
  BY DEF Walk
<1>2. Append(r.rel, name) \in Seq(Component)
  BY <1>1, SeqAppend
<1>3. CASE ~r.ok
  BY <1>3 DEF LookupStep
<1>4. CASE r.ok
  <2>1. r.held = 1
    BY <1>1, <1>4
  <2> DEFINE x == [r EXCEPT !.ok = FALSE, !.held = @ - 1]
             y == [r EXCEPT !.rel = Append(@, name), !.held = @ + 1 - 1]
  <2>2. x.held = r.held - 1 /\ y.held = r.held + (1 - 1)
    BY DEF Walk
  <2>3. x.held = 0 /\ y.held = 1
    BY <2>1, <2>2
  <2>4. /\ x \in [ok : BOOLEAN, m : {m}, rel : Seq(Component), held : {x.held}] /\ x.ok = FALSE
        /\ y \in [ok : BOOLEAN, m : {m}, rel : Seq(Component), held : {y.held}] /\ y.ok = r.ok
    BY <1>2, ZenonT(60) DEF Walk
  <2>5. LookupStep(t, m, r, name) \in {x, y}
    BY <1>4, ZenonT(60) DEF LookupStep
  <2> HIDE DEF x, y
  <2>6. x \in Walk(m) /\ y \in Walk(m)
    BY <1>4, <2>3, <2>4, ZenonT(60) DEF Walk
  <2> QED BY <2>5, <2>6
<1> QED BY <1>3, <1>4

WalkTurns(t, m, path) ==
  CHOOSE f : f = [n \in Len(m.path)..Len(path) |->
                    IF n = Len(m.path) THEN [ok |-> TRUE, m |-> m, rel |-> <<>>, held |-> 1]
                    ELSE LookupStep(t, m, f[n - 1], path[n])]

\* The loop of vfs_resolve holds one vnode at a time.
LEMMA WalkFacts ==
  ASSUME NEW t, NEW m, m.path \in Seq(Component), NEW path \in Seq(Component),
         Len(m.path) <= Len(path)
  PROVE  WalkFrom(t, m, path) \in Walk(m)
<1> DEFINE a == Len(m.path)
           e == Len(path)
           k == e - a
           b == [ok |-> TRUE, m |-> m, rel |-> <<>>, held |-> 1]
           S == Walk(m)
           step == [x \in S \X (1..k) |-> LookupStep(t, m, x[1], path[a + x[2]])]
           f == WalkTurns(t, m, path)
<1>1. a \in Nat /\ e \in Nat /\ k \in Nat /\ a <= e
  BY SeqShape
<1>2. \A i \in 1..e : path[i] \in Component
  BY SeqShape, ZenonT(60)
<1>3. \A i \in 1..k : a + i \in 1..e
  BY <1>1
<1>4. ASSUME NEW q \in S, NEW n \in 1..e PROVE LookupStep(t, m, q, path[n]) \in S
  BY <1>2, LookupFacts
<1>5. /\ step \in [S \X (1..k) -> S]
      /\ \A q \in S, i \in 1..k : step[<<q, i>>] = LookupStep(t, m, q, path[a + i])
  <2> HIDE DEF S, k, a, e
  <2> QED BY <1>3, <1>4
<1>6. b \in S
  <2>1. <<>> \in Seq(Component)
    OBVIOUS
  <2> QED BY <2>1 DEF Walk
<1> HIDE DEF step, S, b
<1>7. PICK g : IsLoop(S, k, b, step, g)
  <2> HIDE DEF k
  <2> QED BY <1>1, <1>5, <1>6, LoopRuns, ZenonT(60)
<1> DEFINE h == [n \in a..e |-> g[n - a]]
<1>8. h = [n \in a..e |-> IF n = a THEN b ELSE LookupStep(t, m, h[n - 1], path[n])]
  <2>1. \A n \in a..e : /\ n - a \in 0..k /\ (n - 1) - a = (n - a) - 1 /\ a + (n - a) = n
                         /\ n # a => n - a \in 1..k /\ n - 1 \in a..e
    BY <1>1
  <2>2. \A i \in 1..k : i - 1 \in 0..k
    BY <1>1
  <2>3. g[0] = b /\ \A i \in 1..k : g[i] = LookupStep(t, m, g[i - 1], path[a + i])
    BY <1>5, <1>7, <2>2, ZenonT(60) DEF IsLoop
  <2>4. a - a = 0
    BY <1>1
  <2>5. ASSUME NEW n \in a..e PROVE h[n] = IF n = a THEN b ELSE LookupStep(t, m, h[n - 1], path[n])
    <3>1. CASE n = a
      BY <2>3, <2>4, <3>1
    <3>2. CASE n # a
      <4>1. /\ n - a \in 1..k /\ n - 1 \in a..e /\ (n - 1) - a = (n - a) - 1 /\ a + (n - a) = n
        BY <2>1, <3>2
      <4>2. h[n - 1] = g[(n - a) - 1] /\ h[n] = g[n - a]
        BY <4>1
      <4>3. g[n - a] = LookupStep(t, m, g[(n - a) - 1], path[a + (n - a)])
        BY <2>3, <4>1
      <4> HIDE DEF h
      <4> QED BY <3>2, <4>1, <4>2, <4>3
    <3> QED BY <3>1, <3>2
  <2>6. h = [n \in a..e |-> h[n]]
    OBVIOUS
  <2> HIDE DEF h
  <2> QED BY <2>5, <2>6, ZenonT(60)
<1> HIDE DEF h
<1>9. f = [n \in a..e |-> IF n = a THEN b ELSE LookupStep(t, m, f[n - 1], path[n])]
  <2> HIDE DEF a, e
  <2> QED BY <1>8, ZenonT(60) DEF WalkTurns, a, e, b
<1>10. WalkFrom(t, m, path) = f[e]
  BY ZenonT(60) DEF WalkFrom, WalkTurns, b
<1> HIDE DEF f, a, e, k
<1>11. k = e - a
  BY DEF k
<1> DEFINE G == {i \in 0..k : f[a + i] \in S}
<1>12. 0 \in G
  <2>1. a \in a..e /\ a + 0 = a
    BY <1>1
  <2>2. f[a] = b
    BY <1>9, <2>1
  <2> QED BY <1>1, <1>6, <2>1, <2>2
<1>13. ASSUME NEW i \in 1..k, i - 1 \in G PROVE i \in G
  <2>1. /\ a + i \in a..e /\ a + i # a /\ (a + i) - 1 = a + (i - 1) /\ a + i \in 1..e
        /\ i \in 0..k
    BY <1>1, <1>11
  <2>2. f[a + i] = LookupStep(t, m, f[a + (i - 1)], path[a + i])
    BY <1>9, <2>1, ZenonT(60)
  <2> QED BY <1>4, <1>13, <2>1, <2>2
<1>14. k \in G
  <2> HIDE DEF G
  <2>1. \A i \in 0..k : i \in G
    BY <1>1, <1>12, <1>13, UpTo, ZenonT(60)
  <2>2. k \in 0..k
    BY <1>1
  <2> QED BY <2>1, <2>2
<1>15. a + k = e
  BY <1>1, <1>11
<1> QED BY <1>10, <1>14, <1>15 DEF S

\* vfs_resolve never leaves its caller with a vnode of a device that is gone.
LEMMA ResolveFacts ==
  ASSUME mounts \in Table, NEW t, NEW path \in Seq(Component)
  PROVE  Looked(Resolve(t, path))
<1> DEFINE fit == {i \in 1..MountSlots : Available(mounts[i]) /\ IsWithin(mounts[i].path, path)}
           slot == SelectMount(path)
<1>1. slot = Deepest(fit)
  BY DEF SelectMount
<1>2. CASE slot = 0
  BY <1>2 DEF Resolve, ResolveIn, Failed, Looked, Unmounted
<1>3. CASE slot # 0
  <2>1. fit # {}
    BY <1>1, <1>3, ZenonT(60) DEF Deepest
  <2>2. slot \in fit
    BY <1>1, <2>1, DeepestFacts, ZenonT(60)
  <2> DEFINE m == mounts[slot]
  <2>3. m \in MountRecord /\ Available(m) /\ Len(m.path) <= Len(path)
    BY <2>2 DEF Table, IsWithin
  <2>4. m.path \in Seq(Component)
    BY <2>3 DEF MountRecord, Paths
  <2>5. m.disk \in attached \cup {"none"}
    BY <2>3 DEF Available, MountRecord
  <2>6. Resolve(t, path) = WalkFrom(t, m, path)
    BY <1>3, ZenonT(60) DEF Resolve, ResolveIn
  <2> HIDE DEF m
  <2>7. WalkFrom(t, m, path) \in Walk(m)
    BY <2>3, <2>4, WalkFacts
  <2> QED BY <2>5, <2>6, <2>7 DEF Walk, Looked
<1> QED BY <1>2, <1>3

\* The vnode found is the only one to put.
LEMMA PutFacts ==
  ASSUME NEW r, Looked(r)
  PROVE  AfterPut(r) = 0
BY DEF Looked, AfterPut

-----------------------------------------------------------------------------
(* Changes of the trees.                                                   *)

\* t2 is t, but for devices that are present.
Touched(t, t2) ==
  DOMAIN t2 = Disk /\ \A d \in Disk : d \notin attached => t2[d] = t[d]

\* A change below a vnode that was found is one of a device that is present.
LEMMA ChangedAt ==
  ASSUME NEW t, DOMAIN t = Disk, NEW d \in attached \cup {"none"}, NEW new
  PROVE  Touched(t, [t EXCEPT ![d] = new])
BY VfsAssumption DEF Touched

\* The result of a call that makes a node of type "kind", or of one that makes
\* none: a new file comes with a vnode.
Made(t, c, kind) ==
  /\ Touched(t, c.t)
  /\ c.ok /\ kind = "file" => c.held = 1
  /\ ~(c.ok /\ kind = "file") => c.held = 0

\* The parent of a path is found, or there is none.
LEMMA ParentFacts ==
  ASSUME mounts \in Table, NEW t, NEW path \in Seq(Component)
  PROVE  Looked(ParentOf(t, path))
<1>1. CASE path = <<>>
  BY <1>1 DEF ParentOf, Failed, Looked, Unmounted
<1>2. CASE path # <<>>
  <2>1. Parent(path) \in Seq(Component)
    BY <1>2, SeqPart, SeqShape DEF Parent
  <2> QED BY <1>2, <2>1, ResolveFacts, ZenonT(60) DEF ParentOf
<1> QED BY <1>1, <1>2

\* vfs_create and vfs_mkdir change a device that is present, or nothing, and put
\* the directory they have found.
LEMMA CreatedFacts ==
  ASSUME mounts \in Table, NEW t, DOMAIN t = Disk, NEW path \in Seq(Component), NEW node,
         NEW up \in BOOLEAN
  PROVE  Made(t, Created(t, path, node, up), node.type)
<1> DEFINE r == ParentOf(t, path)
           rel == Below(r, path)
           c == Created(t, path, node, up)
           t2 == PutNode(t, r.m.disk, rel, node)
<1>1. Looked(r)
  BY ParentFacts
<1>2. AfterPut(r) = 0
  BY <1>1, PutFacts
<1>3. c = CreatedIn(t, path, node, up, r, rel)
  BY DEF Created, CreatedBelow
<1>4. Touched(t, t2) /\ Touched(t, t)
  <2>1. r.m.disk \in attached \cup {"none"}
    BY <1>1 DEF Looked
  <2> HIDE DEF r, rel
  <2> QED BY <2>1, ChangedAt DEF PutNode, Touched
<1> HIDE DEF r, rel, t2
<1>5. \/ c = Outcome(TRUE, t2, AfterPut(r) + (IF node.type = "file" THEN 1 ELSE 0))
      \/ c = Outcome(FALSE, t, AfterPut(r))
  BY <1>3, ZenonT(60) DEF CreatedIn, t2
<1> HIDE DEF c
<1>6. CASE c = Outcome(FALSE, t, AfterPut(r))
  <2>1. c.ok = FALSE /\ c.t = t /\ c.held = 0
    BY <1>2, <1>6 DEF Outcome
  <2> QED BY <1>4, <2>1, ZenonT(60) DEF Made, c
<1>7. CASE c = Outcome(TRUE, t2, AfterPut(r) + (IF node.type = "file" THEN 1 ELSE 0))
  <2>1. c.ok = TRUE /\ c.t = t2 /\ c.held = (IF node.type = "file" THEN 1 ELSE 0)
    BY <1>2, <1>7 DEF Outcome
  <2> QED BY <1>4, <2>1, ZenonT(60) DEF Made, c
<1> QED BY <1>5, <1>6, <1>7, ZenonT(60) DEF c

\* And so does vfs_unlink.
LEMMA UnlinkedFacts ==
  ASSUME mounts \in Table, NEW t, DOMAIN t = Disk, NEW path \in Seq(Component), NEW up \in BOOLEAN
  PROVE  Made(t, Unlinked(t, path, up), "none")
<1> DEFINE r == ParentOf(t, path)
           rel == Below(r, path)
           c == Unlinked(t, path, up)
           t2 == DropNode(t, r.m.disk, rel)
<1>1. Looked(r)
  BY ParentFacts
<1>2. AfterPut(r) = 0
  BY <1>1, PutFacts
<1>3. c = UnlinkedIn(t, path, up, r, rel)
  BY DEF Unlinked, UnlinkedBelow
<1>4. Touched(t, t2) /\ Touched(t, t)
  <2>1. r.m.disk \in attached \cup {"none"}
    BY <1>1 DEF Looked
  <2> HIDE DEF r, rel
  <2>2. Touched(t, t2)
    BY <2>1, ChangedAt, ZenonT(60) DEF DropNode
  <2>3. Touched(t, t)
    BY ZenonT(60) DEF Touched
  <2> QED BY <2>2, <2>3
<1> HIDE DEF r, rel, t2
<1>5. c \in {Outcome(TRUE, t2, AfterPut(r)), Outcome(FALSE, t, AfterPut(r))}
  BY <1>3, ZenonT(60) DEF UnlinkedIn, t2
<1> HIDE DEF c
<1>6. CASE c = Outcome(FALSE, t, AfterPut(r))
  <2>1. c.ok = FALSE /\ c.t = t /\ c.held = 0
    BY <1>2, <1>6 DEF Outcome
  <2> QED BY <1>4, <2>1, ZenonT(60) DEF Made, c
<1>7. CASE c = Outcome(TRUE, t2, AfterPut(r))
  <2>1. c.ok = TRUE /\ c.t = t2 /\ c.held = 0
    BY <1>2, <1>7 DEF Outcome
  <2>2. "none" # "file"
    OBVIOUS
  <2> QED BY <1>4, <2>1, <2>2, ZenonT(60) DEF Made, c
<1> QED BY <1>5, <1>6, <1>7, ZenonT(60) DEF c

\* Changes add up.
LEMMA TouchedTwice ==
  ASSUME NEW t, NEW t2, NEW t3, Touched(t, t2), Touched(t2, t3)
  PROVE  Touched(t, t3)
BY DEF Touched

\* sys_rename, whichever of its calls fails.
LEMMA RenameFacts ==
  ASSUME mounts \in Table, DOMAIN tree = Disk, NEW old \in Seq(Component), NEW new \in Seq(Component),
         NEW fault \in RenameFaults \cup {NoFault}
  PROVE  LET src == Resolve(tree, old)
             dst == Resolve(tree, new)
             clear == Unlinked(tree, new, fault.at # "unlinkNew")
             c == RenameFrom(src, dst, clear, old, new, fault)
         IN Touched(tree, c.t) /\ c.held = 0
<1> DEFINE src == Resolve(tree, old)
           dst == Resolve(tree, new)
           clear == Unlinked(tree, new, fault.at # "unlinkNew")
           c == RenameFrom(src, dst, clear, old, new, fault)
           from == IF dst.ok THEN clear.t ELSE tree
           made == Created(from, new, File(<<>>), fault.at # "create")
           data == tree[src.m.disk][src.rel].data
           end == CopyAndDrop(made, data, old, new, fault)
<1>1. AfterPut(src) = 0 /\ AfterPut(dst) = 0
  BY ResolveFacts, PutFacts
<1>2. Touched(tree, tree)
  BY DEF Touched
<1>3. Touched(tree, from) /\ DOMAIN from = Disk
  <2>1. Made(tree, clear, "none")
    <3>1. (fault.at # "unlinkNew") \in BOOLEAN
      OBVIOUS
    <3> QED BY <3>1, UnlinkedFacts, ZenonT(60)
  <2> HIDE DEF clear
  <2> QED BY <1>2, <2>1 DEF Made, Touched
<1> HIDE DEF from
<1>4. Made(from, made, "file")
  <2>1. (fault.at # "create") \in BOOLEAN /\ File(<<>>).type = "file"
    BY DEF File
  <2>2. Made(from, made, File(<<>>).type)
    BY <1>3, <2>1, CreatedFacts, ZenonT(60)
  <2> HIDE DEF made
  <2> QED BY <2>1, <2>2
<1> HIDE DEF made, data
<1>5. Touched(from, end.t) /\ end.held = 0
  <2>1. CASE ~made.ok
    <3>1. end = made
      BY <2>1 DEF CopyAndDrop
    <3> QED BY <1>4, <2>1, <3>1 DEF Made
  <2>2. CASE made.ok
    <3> DEFINE r == Resolve(made.t, new)
               whole == fault.at # "copy" \/ fault.most >= Len(data)
               bytes == IF whole THEN data ELSE SubSeq(data, 1, fault.most)
               copied == SetData(made.t, r, bytes)
               drop == Unlinked(copied, old, fault.at # "unlinkOld")
               back == Unlinked(copied, new, fault.undo)
               last == Dropped(copied, old, new, fault, whole, drop)
    <3>1. end = [last EXCEPT !.held = @ + made.held - 1]
      BY <2>2, ZenonT(60) DEF CopyAndDrop, CopyTo, Copied
    <3>2. Touched(from, made.t) /\ made.held = 1 /\ DOMAIN made.t = Disk
      BY <1>4, <2>2 DEF Made, Touched
    <3>3. Touched(made.t, copied) /\ DOMAIN copied = Disk
      <4>1. r.m.disk \in attached \cup {"none"}
        BY ResolveFacts DEF Looked
      <4> HIDE DEF r, bytes
      <4> QED BY <3>2, <4>1, VfsAssumption DEF Touched, SetData
    <3> HIDE DEF copied
    <3>4. Touched(copied, drop.t)
      <4>1. (fault.at # "unlinkOld") \in BOOLEAN
        OBVIOUS
      <4> QED BY <3>3, <4>1, UnlinkedFacts, ZenonT(60) DEF Made
    <3>5. Touched(copied, back.t)
      <4>1. fault.undo \in BOOLEAN
        <5>1. CASE fault = NoFault
          BY <5>1 DEF NoFault
        <5>2. CASE fault \in RenameFaults
          BY <5>2, ZenonT(60) DEF RenameFaults
        <5> QED BY <5>1, <5>2
      <4> QED BY <3>3, <4>1, UnlinkedFacts DEF Made
    <3> HIDE DEF drop
    <3>6. last \in {Outcome(TRUE, drop.t, 0), Outcome(FALSE, back.t, 0)}
      BY ZenonT(60) DEF Dropped
    <3> HIDE DEF back, last
    <3>7. Touched(copied, last.t) /\ last.held = 0 /\ last = [ok |-> last.ok, t |-> last.t, held |-> 0]
      BY <3>4, <3>5, <3>6 DEF Outcome
    <3>8. end.t = last.t /\ end.held = 0 + (1 - 1)
      BY <3>1, <3>2, <3>7
    <3>9. Touched(from, end.t)
      BY <3>2, <3>3, <3>7, <3>8, TouchedTwice
    <3> QED BY <3>8, <3>9
  <2> QED BY <2>1, <2>2 DEF Made
<1>6. Touched(tree, end.t)
  BY <1>3, <1>5, TouchedTwice
<1>7. \/ c = Outcome(FALSE, tree, AfterPut(src))
      \/ c = Outcome(FALSE, tree, AfterPut(dst) + AfterPut(src))
      \/ c = [end EXCEPT !.held = @ + AfterPut(dst) + AfterPut(src)]
  BY ZenonT(60) DEF RenameFrom, from, made, data
<1> HIDE DEF src, dst, end, c
<1>9. CASE c = Outcome(FALSE, tree, AfterPut(src)) \/ c = Outcome(FALSE, tree, AfterPut(dst) + AfterPut(src))
  <2>1. c.t = tree /\ c.held = 0
    BY <1>1, <1>9 DEF Outcome
  <2> QED BY <1>2, <2>1, ZenonT(60) DEF c, src, dst
<1>10. CASE c = [end EXCEPT !.held = @ + AfterPut(dst) + AfterPut(src)]
  <2>1. c.t = end.t
    BY <1>10
  <2>2. c.held = end.held + AfterPut(dst) + AfterPut(src)
    BY <1>5, <1>10
  <2>3. c.held = 0
    BY <1>1, <1>5, <2>2
  <2> QED BY <1>6, <2>1, <2>3, ZenonT(60) DEF c, src, dst
<1> QED BY <1>7, <1>9, <1>10, ZenonT(60) DEF c, src, dst

-----------------------------------------------------------------------------
(* The mount table.                                                        *)

\* find_mount_slot_available finds an unused slot or none.
LEMMA FreeSlotFacts ==
  ASSUME NEW mts
  PROVE  FreeSlot(mts) # 0 => FreeSlot(mts) \in 1..MountSlots /\ ~Used(mts[FreeSlot(mts)])
<1> DEFINE free == {i \in 1..MountSlots : ~Used(mts[i])}
<1>1. CASE free = {}
  BY <1>1, ZenonT(60) DEF FreeSlot
<1>2. CASE free # {}
  <2>1. free \subseteq Nat
    BY VfsAssumption
  <2>2. \E i \in free : \A j \in free : i <= j
    <3> HIDE DEF free
    <3> QED BY <1>2, <2>1, LeastNatural, ZenonT(60)
  <2>3. FreeSlot(mts) = CHOOSE i \in free : \A j \in free : i <= j
    BY <1>2, ZenonT(60) DEF FreeSlot
  <2>4. FreeSlot(mts) \in free
    <3> HIDE DEF free
    <3> QED BY <2>2, <2>3, ZenonT(60)
  <2> QED BY <2>4
<1> QED BY <1>1, <1>2

\* A table of mounts in which no mount point is used twice.
Good(mts) == mts \in Table /\ Unique(mts)

\* The mounts that are made.
LEMMA MountFacts ==
  ASSUME NEW path \in Paths, NEW d \in Disk
  PROVE  /\ FormatOf[d] # "none" =>
              Mount(path, FormatOf[d], d, FALSE) \in MountRecord
         /\ Mount(path, "devfs", "none", TRUE) \in MountRecord
         /\ Mount(path, FormatOf[d], d, FALSE).path = path
         /\ Mount(path, "devfs", "none", TRUE).path = path
         /\ Unmounted \in MountRecord /\ ~Used(Unmounted)
<1>1. FormatOf[d] \in {"kifs", "fat", "none"}
  BY VfsAssumption
<1>2. <<>> \in Paths
  BY VfsAssumption DEF Paths
<1> QED BY <1>1, <1>2 DEF Mount, Unmounted, MountRecord, Used

\* Dropping the stale mount at a path leaves that mount point free.
LEMMA ClearedFacts ==
  ASSUME NEW mts, Good(mts), NEW path
  PROVE  Good(Cleared(mts, path)) /\ SlotsAt(Cleared(mts, path), path) = {}
<1> DEFINE c == Cleared(mts, path)
<1>1. Unmounted \in MountRecord /\ ~Used(Unmounted)
  <2>1. <<>> \in Paths
    BY VfsAssumption DEF Paths
  <2> QED BY <2>1 DEF Unmounted, MountRecord, Used
<1>2. c = [i \in 1..MountSlots |-> IF i \in SlotsAt(mts, path) THEN Unmounted ELSE mts[i]]
  BY DEF Cleared
<1>3. \A i \in 1..MountSlots : c[i] = IF i \in SlotsAt(mts, path) THEN Unmounted ELSE mts[i]
  BY <1>2
<1>4. c \in Table
  BY <1>1, <1>2 DEF Good, Table
<1> HIDE DEF c
<1>5. \A i \in 1..MountSlots : Used(c[i]) => c[i] = mts[i] /\ Used(mts[i]) /\ c[i].path # path
  BY <1>1, <1>3, ZenonT(60) DEF SlotsAt
<1>6. Unique(c)
  BY <1>5 DEF Unique, Good
<1>7. SlotsAt(c, path) = {}
  BY <1>5, ZenonT(60) DEF SlotsAt
<1> QED BY <1>4, <1>6, <1>7 DEF Good, c

\* A mount put in a slot that is unused, or that has its own mount point.
LEMMA PutMountFacts ==
  ASSUME NEW mts, Good(mts), NEW m \in MountRecord, NEW s \in 1..MountSlots,
         \A i \in SlotsAt(mts, m.path) : i = s
  PROVE  Good([mts EXCEPT ![s] = m])
<1> DEFINE c == [mts EXCEPT ![s] = m]
<1>1. c \in Table
  BY DEF Good, Table
<1>2. \A i \in 1..MountSlots : c[i] = IF i = s THEN m ELSE mts[i]
  BY DEF Good, Table
<1> HIDE DEF c
<1>3. \A i, j \in 1..MountSlots : Used(c[i]) /\ Used(c[j]) /\ c[i].path = c[j].path => i = j
  BY <1>2 DEF Good, Unique, SlotsAt
<1> QED BY <1>1, <1>3 DEF Good, Unique, c

\* bind_mount_normalized, the stale mount cleared first.
LEMMA BindFacts ==
  ASSUME NEW mts, Good(mts), NEW m \in MountRecord
  PROVE  Good(Bind(mts, m))
<1> DEFINE c == Cleared(mts, m.path)
           s == FreeSlot(c)
<1>1. Good(c) /\ SlotsAt(c, m.path) = {}
  BY ClearedFacts
<1>2. s # 0 => s \in 1..MountSlots
  BY FreeSlotFacts
<1> HIDE DEF c, s
<1>3. Bind(mts, m) = IF s = 0 THEN c ELSE [c EXCEPT ![s] = m]
  BY ZenonT(60) DEF Bind, BindCleared, InFreeSlot, c, s
<1>4. s # 0 => Good([c EXCEPT ![s] = m])
  BY <1>1, <1>2, PutMountFacts
<1> QED BY <1>1, <1>3, <1>4, ZenonT(60)

\* vfs_mount_dev, whatever comes of it.
LEMMA MountDevFacts ==
  ASSUME Good(mounts), NEW path \in Paths, NEW d \in Disk, NEW up \in BOOLEAN
  PROVE  Good(MountDev(path, d, up))
<1>1. Good(Cleared(mounts, path))
  BY ClearedFacts
<1>2. FormatOf[d] # "none" => Good(Bind(mounts, Mount(path, FormatOf[d], d, FALSE)))
  BY MountFacts, BindFacts, ZenonT(60)
<1> QED BY <1>1, <1>2, ZenonT(60) DEF MountDev

-----------------------------------------------------------------------------
(* The invariant.                                                          *)

\* At boot nothing is mounted and nothing open.
LEMMA VfsInitInv == VfsInit => VfsInv
<1> SUFFICES ASSUME VfsInit PROVE VfsInv
  OBVIOUS
<1>1. <<>> \in Paths
  BY VfsAssumption DEF Paths
<1>2. Unmounted \in MountRecord /\ ~Used(Unmounted)
  BY <1>1 DEF Unmounted, MountRecord, Used
<1>3. mounts \in Table
  BY <1>2 DEF VfsInit, Table
<1>4. Unique(mounts)
  BY <1>2 DEF VfsInit, Unique
<1> QED BY <1>1, <1>3, <1>4, VfsAssumption DEF VfsInit, VfsInv

\* What a call may do that leaves the mounts alone.
LEMMA CallKeeps ==
  ASSUME VfsInv, UNCHANGED <<mounts, attached>>, cwd' \in Paths, Touched(tree, tree'),
         opened' \in Nat, vnodes' = opened'
  PROVE  VfsInv' /\ \A d \in Disk : d \notin attached => tree'[d] = tree[d]
<1>1. Table' = Table /\ Paths' = Paths
  BY DEF Table, Paths, MountRecord
<1>2. Unique(mounts)'
  BY DEF VfsInv, Unique, Used
<1> QED BY <1>1, <1>2 DEF VfsInv, Touched, Unique

\* And one that changes only them and the devices present.
LEMMA MountKeeps ==
  ASSUME VfsInv, Good(mounts'), attached' \subseteq Disk, UNCHANGED <<tree, cwd, opened, vnodes>>
  PROVE  VfsInv' /\ \A d \in Disk : d \notin attached => tree'[d] = tree[d]
BY DEF VfsInv, Good, Unique, Used, Table, Paths, MountRecord

\* Every action keeps the invariant, and changes no device that is absent.
VfsStep == VfsInv' /\ \A d \in Disk : d \notin attached => tree'[d] = tree[d]

\* The paths of a call: the normalised path, and what it leads to.
LEMMA CallFacts ==
  ASSUME VfsInv, NEW i \in Inputs
  PROVE  /\ KernelPath(i).path \in Paths
         /\ KernelPath(i).path \in Seq(Component)
         /\ Looked(Resolve(tree, KernelPath(i).path))
         /\ AfterPut(Resolve(tree, KernelPath(i).path)) = 0
<1>1. KernelPath(i).path \in Paths /\ KernelPath(i).path \in Seq(Component)
  BY KernelPathFacts DEF PathResult, Paths
<1>2. Looked(Resolve(tree, KernelPath(i).path))
  BY <1>1, ResolveFacts DEF VfsInv
<1> QED BY <1>1, <1>2, PutFacts

\* kmain's mounts of the root and of /dev.
LEMMA BootStep == ASSUME VfsInv, Boot PROVE VfsStep
<1>1. PICK up \in BOOLEAN :
        LET rooted == IF RootCandidates = {} THEN mounts
                      ELSE MountDev(<<>>, CHOOSE d \in RootCandidates : TRUE, up)
        IN mounts' = Bind(rooted, Mount(<<"dev">>, "devfs", "none", TRUE))
  BY ZenonT(60) DEF Boot
<1> DEFINE d == CHOOSE x \in RootCandidates : TRUE
           rooted == IF RootCandidates = {} THEN mounts ELSE MountDev(<<>>, d, up)
<1>2. Good(mounts)
  BY DEF VfsInv, Good
<1>3. <<>> \in Paths /\ <<"dev">> \in Paths
  <2>1. \A x \in Component : <<x>> \in Seq(Component) /\ Len(<<x>>) = 1
    OBVIOUS
  <2>2. "dev" \in Component
    BY DEF Component
  <2> QED BY <2>1, <2>2, VfsAssumption DEF Paths
<1>4. Good(rooted)
  <2>1. CASE RootCandidates = {}
    BY <1>2, <2>1
  <2>2. CASE RootCandidates # {}
    <3>1. d \in RootCandidates
      BY <2>2
    <3>2. d \in Disk
      BY <3>1 DEF RootCandidates, VfsInv
    <3> HIDE DEF d
    <3>3. Good(MountDev(<<>>, d, up))
      BY <1>2, <1>3, <3>2, MountDevFacts
    <3> QED BY <2>2, <3>3, ZenonT(60)
  <2> QED BY <2>1, <2>2
<1> HIDE DEF rooted
<1>5. Mount(<<"dev">>, "devfs", "none", TRUE) \in MountRecord
  BY <1>3 DEF Mount, MountRecord
<1>6. Good(mounts')
  <2>1. mounts' = Bind(rooted, Mount(<<"dev">>, "devfs", "none", TRUE))
    BY <1>1, ZenonT(60) DEF rooted
  <2> QED BY <1>4, <1>5, <2>1, BindFacts, ZenonT(60)
<1>7. attached' \subseteq Disk /\ UNCHANGED <<tree, cwd, opened, vnodes>>
  BY DEF Boot, VfsInv
<1> QED BY <1>6, <1>7, MountKeeps DEF VfsStep

\* sys_mount
LEMMA MountStep ==
  ASSUME VfsInv, NEW i \in Inputs, NEW d \in Disk, SysMount(i, d)
  PROVE  VfsStep
<1> DEFINE p == KernelPath(i).path
           r == Resolve(tree, p)
<1>1. PICK up \in BOOLEAN :
        mounts' = IF p = <<>> \/ IsDir(tree, r) THEN MountDev(p, d, up) ELSE mounts
  BY DEF SysMount
<1>2. p \in Paths /\ AfterPut(r) = 0
  BY CallFacts
<1>3. vnodes' = vnodes
  <2>1. vnodes' = vnodes + (IF p = <<>> THEN 0 ELSE AfterPut(r))
    BY DEF SysMount
  <2> HIDE DEF p, r
  <2> QED BY <1>2, <2>1 DEF VfsInv
<1> HIDE DEF p, r
<1>4. Good(mounts) /\ Good(MountDev(p, d, up))
  BY <1>2, MountDevFacts DEF VfsInv, Good
<1>5. Good(mounts')
  BY <1>1, <1>4, ZenonT(60)
<1>6. attached' \subseteq Disk /\ UNCHANGED <<tree, cwd, opened>>
  BY DEF SysMount, VfsInv
<1> QED BY <1>3, <1>5, <1>6, MountKeeps DEF VfsStep

\* vfs_remount_root_dev
LEMMA RemountStep ==
  ASSUME VfsInv, NEW d \in Disk, RemountRoot(d)
  PROVE  VfsStep
<1> DEFINE at == SlotsAt(mounts, <<>>)
           slot == IF at = {} THEN FreeSlot(mounts) ELSE CHOOSE i \in at : TRUE
           m == Mount(<<>>, FormatOf[d], d, FALSE)
<1>1. slot # 0 /\ mounts' = [mounts EXCEPT ![slot] = m] /\ FormatOf[d] # "none"
  BY DEF RemountRoot
<1>2. Good(mounts)
  BY DEF VfsInv, Good
<1>3. <<>> \in Paths
  BY VfsAssumption DEF Paths
<1>4. m \in MountRecord /\ m.path = <<>>
  BY <1>1, <1>3, MountFacts, ZenonT(60)
<1>5. slot \in 1..MountSlots /\ \A i \in at : i = slot
  <2>1. CASE at = {}
    <3>1. slot = FreeSlot(mounts)
      BY <2>1
    <3> QED BY <1>1, <2>1, <3>1, FreeSlotFacts
  <2>2. CASE at # {}
    <3>1. slot \in at
      BY <2>2
    <3> QED BY <1>2, <3>1 DEF Good, Unique, SlotsAt
  <2> QED BY <2>1, <2>2
<1> HIDE DEF slot, m
<1>6. Good(mounts')
  BY <1>1, <1>2, <1>4, <1>5, PutMountFacts, ZenonT(60)
<1>7. attached' \subseteq Disk /\ UNCHANGED <<tree, cwd, opened, vnodes>>
  BY DEF RemountRoot, VfsInv
<1> QED BY <1>6, <1>7, MountKeeps DEF VfsStep

\* sys_open
LEMMA OpenStep ==
  ASSUME VfsInv, NEW i \in Inputs, NEW creat \in BOOLEAN, SysOpen(i, creat)
  PROVE  VfsStep
<1> DEFINE p == KernelPath(i).path
           r == Resolve(tree, p)
<1>1. Looked(r) /\ p \in Seq(Component)
  BY CallFacts
<1>2. PICK up \in BOOLEAN : \E c \in {Created(tree, p, File(<<>>), up)} :
        LET made == ~r.ok /\ creat /\ c.ok
            held == IF r.ok THEN r.held ELSE IF creat THEN r.held + c.held ELSE r.held
            kept == (r.ok \/ made) /\ (r.ok => r.m.fs # "devfs") /\ opened < MaxOpened
        IN /\ tree' = IF made THEN c.t ELSE tree
           /\ opened' = IF kept THEN opened + 1 ELSE opened
           /\ vnodes' = vnodes + held - (IF (r.ok \/ made) /\ ~kept THEN 1 ELSE 0)
  <2> DEFINE Does(k, s, c) ==
        /\ LET made == ~s.ok /\ creat /\ c.ok
               held == IF s.ok THEN s.held ELSE IF creat THEN s.held + c.held ELSE s.held
               kept == (s.ok \/ made) /\ (s.ok => s.m.fs # "devfs") /\ opened < MaxOpened
           IN /\ k.ok
              /\ tree' = IF made THEN c.t ELSE tree
              /\ opened' = IF kept THEN opened + 1 ELSE opened
              /\ vnodes' = vnodes + held - (IF (s.ok \/ made) /\ ~kept THEN 1 ELSE 0)
        /\ UNCHANGED <<mounts, attached, cwd, lost>>
  <2>1. \E k \in {KernelPath(i)} : \E s \in {Resolve(tree, k.path)} :
        \E up \in BOOLEAN : \E c \in {Created(tree, k.path, File(<<>>), up)} : Does(k, s, c)
    BY ZenonT(60) DEF SysOpen
  <2> HIDE DEF Does
  <2>2. \E up \in BOOLEAN : \E c \in {Created(tree, p, File(<<>>), up)} :
          Does(KernelPath(i), r, c)
    BY <2>1, ZenonT(60)
  <2> QED BY <2>2, ZenonT(60) DEF Does
<1> DEFINE c == Created(tree, p, File(<<>>), up)
           made == ~r.ok /\ creat /\ c.ok
           held == IF r.ok THEN r.held ELSE IF creat THEN r.held + c.held ELSE r.held
           kept == (r.ok \/ made) /\ (r.ok => r.m.fs # "devfs") /\ opened < MaxOpened
<1>3. /\ tree' = IF made THEN c.t ELSE tree
      /\ opened' = IF kept THEN opened + 1 ELSE opened
      /\ vnodes' = vnodes + held - (IF (r.ok \/ made) /\ ~kept THEN 1 ELSE 0)
  BY <1>2, ZenonT(60)
<1>4. Made(tree, c, "file")
  <2>1. File(<<>>).type = "file"
    BY DEF File
  <2>2. Made(tree, c, File(<<>>).type)
    BY <1>1, CreatedFacts DEF VfsInv
  <2> QED BY <2>1, <2>2, ZenonT(60)
<1>5. r.ok => r.held = 1
  BY <1>1 DEF Looked
<1>6. ~r.ok => r.held = 0
  BY <1>1 DEF Looked
<1> HIDE DEF c, r
<1>7. (c.ok => c.held = 1) /\ (~c.ok => c.held = 0) /\ Touched(tree, c.t)
  BY <1>4, ZenonT(60) DEF Made
<1>8. Touched(tree, tree')
  <2>1. Touched(tree, tree)
    BY DEF Touched, VfsInv
  <2> QED BY <1>3, <1>7, <2>1, ZenonT(60)
<1>9. held = IF r.ok \/ made THEN 1 ELSE 0
  BY <1>5, <1>6, <1>7
<1>10. kept => r.ok \/ made
  OBVIOUS
<1> HIDE DEF held, made, kept
<1>11. opened' \in Nat /\ vnodes' = opened'
  <2>1. CASE kept
    BY <1>3, <1>9, <1>10, <2>1 DEF VfsInv
  <2>2. CASE ~kept
    BY <1>3, <1>9, <2>2 DEF VfsInv
  <2> QED BY <2>1, <2>2
<1>12. UNCHANGED <<mounts, attached>> /\ cwd' \in Paths
  BY DEF SysOpen, VfsInv
<1> QED BY <1>8, <1>11, <1>12, CallKeeps DEF VfsStep

\* sys_rename
LEMMA RenameStep ==
  ASSUME VfsInv, NEW i \in Inputs, NEW j \in Inputs, SysRename(i, j)
  PROVE  VfsStep
<1> DEFINE p == KernelPath(i).path
           q == KernelPath(j).path
           src == Resolve(tree, p)
           dst == Resolve(tree, q)
<1>1. PICK fault \in (IF IsFile(tree, src) THEN RenameFaults ELSE {NoFault}) :
        \E clear \in {Unlinked(tree, q, fault.at # "unlinkNew")} :
        \E c \in {RenameFrom(src, dst, clear, p, q, fault)} :
          tree' = c.t /\ vnodes' = vnodes + c.held
  <2> DEFINE Does(k1, k2, s, e, fault) ==
        \E clear \in {Unlinked(tree, k2.path, fault.at # "unlinkNew")} :
        \E c \in {RenameFrom(s, e, clear, k1.path, k2.path, fault)} :
          tree' = c.t /\ vnodes' = vnodes + c.held
  <2>1. \E k1 \in {KernelPath(i)} : \E k2 \in {KernelPath(j)} :
        \E s \in {Resolve(tree, k1.path)} : \E e \in {Resolve(tree, k2.path)} :
        \E fault \in IF IsFile(tree, s) THEN RenameFaults ELSE {NoFault} :
          Does(k1, k2, s, e, fault)
    BY DEF SysRename
  <2> HIDE DEF Does
  <2>2. \E fault \in IF IsFile(tree, src) THEN RenameFaults ELSE {NoFault} :
          Does(KernelPath(i), KernelPath(j), src, dst, fault)
    BY <2>1, ZenonT(60)
  <2> QED BY <2>2, ZenonT(60) DEF Does
<1> DEFINE c == RenameFrom(src, dst, Unlinked(tree, q, fault.at # "unlinkNew"), p, q, fault)
<1>2. tree' = c.t /\ vnodes' = vnodes + c.held
  BY <1>1, ZenonT(60)
<1>3. fault \in RenameFaults \cup {NoFault}
  BY <1>1, ZenonT(60)
<1>4. p \in Seq(Component) /\ q \in Seq(Component)
  BY CallFacts
<1>5. Touched(tree, c.t) /\ c.held = 0
  <2> HIDE DEF p, q
  <2>1. mounts \in Table /\ DOMAIN tree = Disk
    BY DEF VfsInv
  <2> QED BY <1>3, <1>4, <2>1, RenameFacts, ZenonT(60)
<1> HIDE DEF c
<1>6. opened' \in Nat /\ vnodes' = opened' /\ UNCHANGED <<mounts, attached>> /\ cwd' \in Paths
  BY <1>2, <1>5 DEF SysRename, VfsInv
<1> QED BY <1>2, <1>5, <1>6, CallKeeps DEF VfsStep

\* One step.
LEMMA VfsNextInv == VfsInv /\ [VfsNext]_vfsVars => VfsStep
<1> SUFFICES ASSUME VfsInv, [VfsNext]_vfsVars PROVE VfsStep
  OBVIOUS
<1>1. Touched(tree, tree) /\ Good(mounts)
  BY DEF VfsInv, Touched, Good
<1>2. CASE Boot
  BY <1>2, BootStep
<1>3. CASE SysClose
  <2>1. opened' \in Nat /\ vnodes' = opened'
    BY <1>3 DEF SysClose, VfsInv
  <2> QED BY <1>1, <1>3, <2>1, CallKeeps DEF SysClose, VfsStep, VfsInv
<1>4. ASSUME NEW d \in Disk, Plug(d) \/ Unplug(d) PROVE VfsStep
  <2>1. /\ Good(mounts') /\ attached' \subseteq Disk
        /\ UNCHANGED <<tree, cwd, opened, vnodes>>
    BY <1>1, <1>4 DEF Plug, Unplug, VfsInv
  <2> QED BY <2>1, MountKeeps DEF VfsStep
<1>5. ASSUME NEW d \in Disk, RemountRoot(d) PROVE VfsStep
  BY <1>5, RemountStep
<1>6. ASSUME NEW i \in Inputs, SysStat(i) PROVE VfsStep
  <2>1. vnodes' = vnodes + AfterPut(Resolve(tree, KernelPath(i).path))
    BY <1>6, ZenonT(60) DEF SysStat
  <2>2. opened' \in Nat /\ vnodes' = opened'
    BY <1>6, <2>1, CallFacts DEF SysStat, VfsInv
  <2> QED BY <1>1, <1>6, <2>2, CallKeeps DEF SysStat, VfsStep, VfsInv
<1>7. ASSUME NEW i \in Inputs, SysMkdir(i) PROVE VfsStep
  <2>1. PICK up \in BOOLEAN :
          /\ tree' = Created(tree, KernelPath(i).path, Dir, up).t
          /\ vnodes' = vnodes + Created(tree, KernelPath(i).path, Dir, up).held
    BY <1>7, ZenonT(60) DEF SysMkdir
  <2> DEFINE c == Created(tree, KernelPath(i).path, Dir, up)
  <2>2. Made(tree, c, Dir.type)
    BY CallFacts, CreatedFacts DEF VfsInv
  <2>3. Dir.type # "file"
    BY DEF Dir
  <2>4. Touched(tree, c.t) /\ c.held = 0
    BY <2>2, <2>3, ZenonT(60) DEF Made
  <2> HIDE DEF c
  <2>5. opened' \in Nat /\ vnodes' = opened' /\ Touched(tree, tree')
    BY <1>7, <2>1, <2>4 DEF SysMkdir, VfsInv, c
  <2> QED BY <1>7, <2>5, CallKeeps DEF SysMkdir, VfsStep, VfsInv
<1>8. ASSUME NEW i \in Inputs, SysUnlink(i) PROVE VfsStep
  <2>1. PICK up \in BOOLEAN :
          /\ tree' = Unlinked(tree, KernelPath(i).path, up).t
          /\ vnodes' = vnodes + Unlinked(tree, KernelPath(i).path, up).held
    BY <1>8, ZenonT(60) DEF SysUnlink
  <2> DEFINE c == Unlinked(tree, KernelPath(i).path, up)
  <2>2. Made(tree, c, "none")
    BY CallFacts, UnlinkedFacts DEF VfsInv
  <2>3. "none" # "file"
    OBVIOUS
  <2>4. Touched(tree, c.t) /\ c.held = 0
    BY <2>2, <2>3, ZenonT(60) DEF Made
  <2> HIDE DEF c
  <2>5. opened' \in Nat /\ vnodes' = opened' /\ Touched(tree, tree')
    BY <1>8, <2>1, <2>4 DEF SysUnlink, VfsInv, c
  <2> QED BY <1>8, <2>5, CallKeeps DEF SysUnlink, VfsStep, VfsInv
<1>9. ASSUME NEW i \in Inputs, SysChdir(i) PROVE VfsStep
  <2>1. /\ vnodes' = vnodes + AfterPut(Resolve(tree, KernelPath(i).path))
        /\ cwd' = KernelPath(i).path \/ cwd' = cwd
    BY <1>9, ZenonT(60) DEF SysChdir
  <2>2. opened' \in Nat /\ vnodes' = opened' /\ cwd' \in Paths
    BY <1>9, <2>1, CallFacts DEF SysChdir, VfsInv
  <2> QED BY <1>1, <1>9, <2>2, CallKeeps DEF SysChdir, VfsStep
<1>10. ASSUME NEW i \in Inputs, NEW d \in Disk, SysMount(i, d) PROVE VfsStep
  BY <1>10, MountStep
<1>11. ASSUME NEW i \in Inputs, NEW creat \in BOOLEAN, SysOpen(i, creat) PROVE VfsStep
  BY <1>11, OpenStep
<1>12. ASSUME NEW i \in Inputs, NEW j \in Inputs, SysRename(i, j) PROVE VfsStep
  BY <1>12, RenameStep
<1>13. CASE UNCHANGED vfsVars
  BY <1>1, <1>13, CallKeeps DEF vfsVars, VfsStep, VfsInv
<1> QED BY <1>2, <1>3, <1>4, <1>5, <1>6, <1>7, <1>8, <1>9, <1>10, <1>11, <1>12, <1>13, ZenonT(60)
        DEF VfsNext

\* Whatever is still in the mount table, no system call changes the tree of a
\* device that has been pulled out (mount_available).
THEOREM AbsentStayUntouched == VfsSpec => AbsentUntouched
<1>1. VfsInv /\ [VfsNext]_vfsVars => VfsInv'
  BY VfsNextInv DEF VfsStep
<1>2. VfsInv /\ [VfsNext]_vfsVars
        => [\A d \in Disk : d \notin attached => tree'[d] = tree[d]]_vfsVars
  BY VfsNextInv DEF VfsStep
<1> QED BY <1>1, <1>2, VfsInitInv, PTL DEF VfsSpec, AbsentUntouched

\* No mount point is ever in the table twice, and between system calls the only
\* vnodes are those of open descriptors: every error path puts what it found.
THEOREM MountsAndVnodesExact == VfsSpec => [](MountPointsUnique /\ VnodesBalanced)
<1>1. VfsInv /\ [VfsNext]_vfsVars => VfsInv'
  BY VfsNextInv DEF VfsStep
<1>2. VfsInv => MountPointsUnique /\ VnodesBalanced
  BY ZenonT(60) DEF VfsInv, Unique, MountPointsUnique, VnodesBalanced
<1> QED BY <1>1, <1>2, VfsInitInv, PTL DEF VfsSpec

-----------------------------------------------------------------------------
(* Runs of frames *)

\* A run that lies in the bitmap: its frames, their number.
LEMMA RunFacts ==
    ASSUME NEW i \in Frames, NEW n \in 1 .. TotalPages, i + n <= TotalPages
    PROVE  /\ Run(i, n) \subseteq Frames /\ i \in Run(i, n)
           /\ IsFiniteSet(Run(i, n)) /\ Cardinality(Run(i, n)) = n
<1>1. i \in Int /\ n \in Int /\ i + n - 1 \in Int /\ i <= i + n - 1 /\ TotalPages \in Nat
  BY TotalPagesAssumption DEF Frames
<1>2. IsFiniteSet(Run(i, n)) /\ Cardinality(Run(i, n)) = n
  BY <1>1, FS_Interval DEF Run
<1> QED BY <1>1, <1>2 DEF Run, Frames

\* Every set of frames is finite and has at most TotalPages elements.
LEMMA FrameSets ==
    ASSUME NEW S, S \subseteq Frames
    PROVE  IsFiniteSet(S) /\ Cardinality(S) \in 0 .. TotalPages
<1>1. IsFiniteSet(Frames) /\ Cardinality(Frames) = TotalPages
  BY TotalPagesAssumption, FS_Interval DEF Frames
<1>2. IsFiniteSet(S) /\ Cardinality(S) <= Cardinality(Frames)
  BY <1>1, FS_Subset
<1>3. Cardinality(S) \in Nat
  BY <1>2, FS_CardinalityType
<1> QED BY <1>1, <1>2, <1>3, TotalPagesAssumption

\* The cardinality of a set without some of its elements.
LEMMA CardinalityMinus ==
    ASSUME NEW S, IsFiniteSet(S), NEW T, T \subseteq S
    PROVE  Cardinality(S \ T) = Cardinality(S) - Cardinality(T)
<1>1. S \cap T = T
  OBVIOUS
<1> QED BY <1>1, FS_Difference, ZenonT(60)

\* The cardinality of a disjoint union.
LEMMA CardinalityPlus ==
    ASSUME NEW S, NEW T, IsFiniteSet(S), IsFiniteSet(T), S \cap T = {}
    PROVE  Cardinality(S \cup T) = Cardinality(S) + Cardinality(T)
<1>1. Cardinality(S \cup T)
        = Cardinality(S) + Cardinality(T) - Cardinality(S \cap T)
  BY FS_Union
<1>2. Cardinality(S \cap T) = 0
  BY FS_EmptySet
<1>3. Cardinality(S) \in Nat /\ Cardinality(T) \in Nat
  BY FS_CardinalityType
<1> QED BY <1>1, <1>2, <1>3

-----------------------------------------------------------------------------
(* The invariant *)

\* The runs that callers hold lie in the bitmap.
RunsInBitmap == \A r \in owned : r[1] + r[2] <= TotalPages

PmmInv == PmmSound /\ RunsInBitmap

\* pmm_init.
LEMMA PmmInitInv == PmmInit => PmmInv
<1> SUFFICES ASSUME PmmInit PROVE PmmInv
  OBVIOUS
<1>1. reserved \subseteq Frames /\ used = reserved /\ owned = {}
      /\ used_pages = Cardinality(reserved) /\ search_cursor = 0
  BY DEF PmmInit
<1>2. used_pages \in 0 .. TotalPages
  BY <1>1, FrameSets
<1>3. 0 \in Frames
  BY TotalPagesAssumption DEF Frames
<1>4. UNION {Run(r[1], r[2]) : r \in owned} = {}
  BY <1>1
<1>5. PmmTypeOK
  BY <1>1, <1>2, <1>3 DEF PmmTypeOK
<1>6. FramesOwnedOnce
  BY <1>1, <1>4 DEF FramesOwnedOnce
<1>7. CountExact /\ RunsInBitmap
  BY <1>1 DEF CountExact, RunsInBitmap
<1> QED BY <1>5, <1>6, <1>7 DEF PmmInv, PmmSound

\* Taking a run of free frames, however it was found.
LEMMA TakeInv ==
    ASSUME PmmInv, NEW i \in Frames, NEW n \in 1 .. TotalPages, i + n <= TotalPages,
           Run(i, n) \cap used = {}, TakeFrames(i, n)
    PROVE  PmmInv'
<1> DEFINE R == Run(i, n)
<1>1. /\ used' = used \cup R /\ used_pages' = used_pages + n
      /\ search_cursor' = (i + n) % TotalPages
      /\ owned' = owned \cup {<<i, n>>} /\ reserved' = reserved
  BY DEF TakeFrames
<1>2. R \subseteq Frames /\ i \in R /\ IsFiniteSet(R) /\ Cardinality(R) = n
  BY RunFacts
<1>3. /\ used \subseteq Frames /\ reserved \subseteq Frames
      /\ owned \subseteq Frames \X (1 .. TotalPages) /\ used_pages = Cardinality(used)
  BY DEF PmmInv, PmmSound, PmmTypeOK, CountExact
<1>4. IsFiniteSet(used)
  BY <1>3, FrameSets
<1>5. CountExact'
  <2> HIDE DEF R
  <2>1. R \cap used = {}
    BY DEF R
  <2>2. Cardinality(used \cup R) = Cardinality(used) + n
    BY <1>2, <1>4, <2>1, CardinalityPlus
  <2> QED BY <1>1, <1>3, <2>2 DEF CountExact
<1>6. PmmTypeOK'
  <2>1. used' \subseteq Frames
    BY <1>1, <1>2, <1>3
  <2>2. used_pages' \in 0 .. TotalPages
    BY <1>5, <2>1, FrameSets DEF CountExact
  <2>3. search_cursor' \in Frames
    BY <1>1, TotalPagesAssumption DEF Frames
  <2> QED BY <1>1, <1>3, <2>1, <2>2, <2>3 DEF PmmTypeOK
<1>7. FramesOwnedOnce'
  <2> DEFINE U == UNION {Run(r[1], r[2]) : r \in owned}
  <2>1. UNION {Run(r[1], r[2]) : r \in owned'} = U \cup R
    <3>1. ASSUME NEW x, x \in UNION {Run(r[1], r[2]) : r \in owned'} PROVE x \in U \cup R
      <4>1. PICK r \in owned' : x \in Run(r[1], r[2])
        BY <3>1
      <4> QED BY <1>1, <4>1
    <3>2. ASSUME NEW x \in U PROVE x \in UNION {Run(r[1], r[2]) : r \in owned'}
      <4>1. PICK r \in owned : x \in Run(r[1], r[2])
        OBVIOUS
      <4> QED BY <1>1, <4>1
    <3>3. R \subseteq UNION {Run(r[1], r[2]) : r \in owned'}
      <4>1. <<i, n>> \in owned'
        BY <1>1
      <4> QED BY <4>1
    <3> QED BY <3>1, <3>2, <3>3
  <2>2. used = reserved \cup U
    BY DEF PmmInv, PmmSound, FramesOwnedOnce
  <2>3. used' = reserved' \cup UNION {Run(r[1], r[2]) : r \in owned'}
    BY <1>1, <2>1, <2>2
  <2>4. \A r \in owned : Run(r[1], r[2]) \cap R = {}
    BY <2>2
  <2>5. R \cap reserved = {}
    BY <2>2
  <2>6. \A r \in owned' : Run(r[1], r[2]) \cap reserved' = {}
    BY <1>1, <2>5 DEF PmmInv, PmmSound, FramesOwnedOnce
  <2>7. ASSUME NEW r \in owned', NEW s \in owned', r # s
        PROVE  Run(r[1], r[2]) \cap Run(s[1], s[2]) = {}
    <3>1. CASE r \in owned /\ s \in owned
      BY <2>7, <3>1 DEF PmmInv, PmmSound, FramesOwnedOnce
    <3>2. CASE r \in owned /\ s = <<i, n>>
      BY <2>4, <3>2
    <3>3. CASE r = <<i, n>> /\ s \in owned
      BY <2>4, <3>3
    <3> QED BY <1>1, <2>7, <3>1, <3>2, <3>3
  <2> HIDE DEF U
  <2> QED BY <2>3, <2>6, <2>7 DEF FramesOwnedOnce
<1>8. RunsInBitmap'
  BY <1>1 DEF PmmInv, RunsInBitmap
<1> QED BY <1>5, <1>6, <1>7, <1>8 DEF PmmInv, PmmSound

\* pmm_free and pmm_free_pages give back what was handed out.
LEMMA FreeInv ==
    ASSUME PmmInv, NEW i \in Frames, NEW n \in 1 .. TotalPages, FreeRun(i, n)
    PROVE  PmmInv'
<1> DEFINE R == Run(i, n)
<1>1. /\ <<i, n>> \in owned /\ used' = used \ R
      /\ used_pages' = used_pages - Cardinality(R \cap used)
      /\ search_cursor' \in {i, search_cursor}
      /\ owned' = owned \ {<<i, n>>} /\ reserved' = reserved
  BY DEF FreeRun
<1>2. i + n <= TotalPages
  BY <1>1 DEF PmmInv, RunsInBitmap
<1>3. R \subseteq Frames /\ i \in R /\ IsFiniteSet(R) /\ Cardinality(R) = n
  BY <1>2, RunFacts
<1>4. /\ used \subseteq Frames /\ reserved \subseteq Frames /\ search_cursor \in Frames
      /\ owned \subseteq Frames \X (1 .. TotalPages) /\ used_pages = Cardinality(used)
  BY DEF PmmInv, PmmSound, PmmTypeOK, CountExact
<1> DEFINE U == UNION {Run(r[1], r[2]) : r \in owned}
           V == UNION {Run(r[1], r[2]) : r \in owned'}
<1>5. used = reserved \cup U /\ R \cap reserved = {} /\ R \subseteq U
  BY <1>1 DEF PmmInv, PmmSound, FramesOwnedOnce
<1>6. \A s \in owned' : Run(s[1], s[2]) \cap R = {}
  BY <1>1 DEF PmmInv, PmmSound, FramesOwnedOnce
<1>7. V = U \ R
  <2>1. V \subseteq U /\ V \cap R = {}
    BY <1>1, <1>6
  <2>2. ASSUME NEW x \in U, x \notin R PROVE x \in V
    <3>1. PICK r \in owned : x \in Run(r[1], r[2])
      OBVIOUS
    <3>2. r \in owned'
      BY <1>1, <2>2, <3>1
    <3> QED BY <3>1, <3>2
  <2> QED BY <2>1, <2>2
<1>8. FramesOwnedOnce'
  <2>1. used' = reserved' \cup V
    BY <1>1, <1>5, <1>7
  <2>2. /\ \A r \in owned' : Run(r[1], r[2]) \cap reserved' = {}
        /\ \A r, s \in owned' : r # s => Run(r[1], r[2]) \cap Run(s[1], s[2]) = {}
    BY <1>1 DEF PmmInv, PmmSound, FramesOwnedOnce
  <2> QED BY <2>1, <2>2 DEF FramesOwnedOnce
<1> HIDE DEF U, V
<1>9. CountExact'
  <2>1. R \subseteq used /\ R \cap used = R
    BY <1>5
  <2>2. IsFiniteSet(used)
    BY <1>4, FrameSets
  <2> HIDE DEF R
  <2>3. Cardinality(used \ R) = Cardinality(used) - Cardinality(R)
    BY <2>1, <2>2, CardinalityMinus
  <2> QED BY <1>1, <1>4, <2>1, <2>3, ZenonT(60) DEF CountExact
<1>10. PmmTypeOK'
  <2>1. used' \subseteq Frames
    BY <1>1, <1>4
  <2>2. used_pages' \in 0 .. TotalPages
    BY <1>9, <2>1, FrameSets DEF CountExact
  <2> QED BY <1>1, <1>4, <2>1, <2>2 DEF PmmTypeOK
<1>11. RunsInBitmap'
  BY <1>1 DEF PmmInv, RunsInBitmap
<1> QED BY <1>8, <1>9, <1>10, <1>11 DEF PmmInv, PmmSound

\* A run that one of the two searches accepts lies in the bitmap and is free.
LEMMA FoundFits ==
    ASSUME NEW start \in Nat, NEW end \in 0 .. TotalPages, start <= TotalPages,
           NEW count \in 1 .. TotalPages, NEW i \in Frames,
           IsFound(start, end, count, i)
    PROVE  i + count <= TotalPages /\ Run(i, count) \cap used = {}
BY TotalPagesAssumption DEF IsFound, IsFirstRun, IsRun, Frames

\* Every step keeps the invariant.
LEMMA PmmNextInv == PmmInv /\ [PmmNext]_pmmVars => PmmInv'
<1> SUFFICES ASSUME PmmInv, [PmmNext]_pmmVars PROVE PmmInv'
  OBVIOUS
<1>1. search_cursor \in Frames /\ TotalPages \in Nat \ {0} /\ search_cursor \in Nat
      /\ search_cursor <= TotalPages
  BY TotalPagesAssumption DEF PmmInv, PmmSound, PmmTypeOK, Frames
<1>2. CASE Alloc
  <2>1. PICK n \in Frames : /\ (search_cursor + n) % TotalPages \notin used
                            /\ TakeFrames((search_cursor + n) % TotalPages, 1)
    BY <1>2 DEF Alloc
  <2> DEFINE i == (search_cursor + n) % TotalPages
  <2>2. i \in Frames /\ i + 1 <= TotalPages
    BY <1>1 DEF Frames
  <2>3. i \notin used /\ TakeFrames(i, 1)
    BY <2>1
  <2> HIDE DEF i
  <2>4. Run(i, 1) \cap used = {}
    BY <2>2, <2>3 DEF Run, Frames
  <2> QED BY <1>1, <2>2, <2>3, <2>4, TakeInv
<1>3. ASSUME NEW limit \in 0 .. TotalPages + 1, AllocBelow(limit) PROVE PmmInv'
  <2>1. PICK i \in Frames : /\ IsFound(BelowStart(limit), BelowEnd(limit), 1, i)
                            /\ TakeFrames(i, 1)
    BY <1>3 DEF AllocBelow
  <2>2. BelowStart(limit) \in Nat /\ BelowEnd(limit) \in 0 .. TotalPages
        /\ BelowStart(limit) <= TotalPages
    BY <1>1 DEF BelowStart, BelowEnd
  <2>3. i + 1 <= TotalPages /\ Run(i, 1) \cap used = {}
    BY <1>1, <2>1, <2>2, FoundFits
  <2> QED BY <1>1, <2>1, <2>3, TakeInv
<1>4. ASSUME NEW count \in 1 .. TotalPages, AllocPages(count) PROVE PmmInv'
  <2>1. PICK i \in Frames : /\ IsFound(search_cursor, TotalPages, count, i)
                            /\ TakeFrames(i, count)
    BY <1>4 DEF AllocPages
  <2>2. i + count <= TotalPages /\ Run(i, count) \cap used = {}
    BY <1>1, <2>1, FoundFits
  <2> QED BY <2>1, <2>2, TakeInv
<1>5. ASSUME NEW i \in Frames, NEW count \in 1 .. TotalPages, FreeRun(i, count)
      PROVE  PmmInv'
  BY <1>5, FreeInv
<1>6. CASE UNCHANGED pmmVars
  BY <1>6 DEF pmmVars, PmmInv, PmmSound, PmmTypeOK, FramesOwnedOnce, CountExact, RunsInBitmap
<1> QED BY <1>2, <1>3, <1>4, <1>5, <1>6 DEF PmmNext

\* No frame is handed out twice, leaked, or taken from the reserved ones; the
\* count is exact and the cursor stays in the bitmap.
THEOREM PmmStaysSound == PmmSpec => []PmmSound
<1>1. PmmInv => PmmSound
  BY DEF PmmInv
<1> QED BY <1>1, PmmInitInv, PmmNextInv, PTL DEF PmmSpec

-----------------------------------------------------------------------------
(* The search loops *)

\* Where a run fits, a first one does.
LEMMA FirstRunExists ==
    ASSUME NEW start \in Nat, NEW end \in 0 .. TotalPages,
           NEW count \in 1 .. TotalPages, NEW j \in Int, IsRun(start, end, count, j)
    PROVE  \E i \in Frames : IsFirstRun(start, end, count, i)
<1> DEFINE T == {k \in Nat : IsRun(start, end, count, k)}
<1>1. j \in T /\ TotalPages \in Nat
  BY TotalPagesAssumption DEF IsRun
<1>2. PICK i \in T : \A k \in T : i <= k
  <2> HIDE DEF T
  <2>1. T \subseteq Nat
    BY DEF T
  <2> QED BY <1>1, <2>1, LeastNatural, ZenonT(60)
<1>3. \A k \in start .. i - 1 : ~ IsRun(start, end, count, k)
  BY <1>2
<1>4. i \in Frames
  BY <1>1, <1>2 DEF IsRun, Frames
<1> QED BY <1>2, <1>3, <1>4 DEF IsFirstRun

\* pmm_alloc_below finds a frame below its limit whenever one is free there.
LEMMA TypedFindsLow == PmmTypeOK => LowFrameFound
<1> SUFFICES ASSUME PmmTypeOK, NEW limit \in 2 .. TotalPages + 1
             PROVE  LET S == {i \in Frames :
                                IsFound(BelowStart(limit), BelowEnd(limit), 1, i)}
                    IN  /\ \A i \in S : i < limit /\ i \notin used
                        /\ S = {} => \A j \in Frames : j < limit => j \in used
  BY DEF LowFrameFound
<1> DEFINE start == BelowStart(limit)
           end == BelowEnd(limit)
<1>1. /\ TotalPages \in Nat \ {0} /\ 1 \in 1 .. TotalPages
      /\ start \in Nat /\ end \in 0 .. TotalPages /\ start <= end /\ end <= limit
      /\ \A j \in Frames : j < limit => j + 1 <= end
  BY TotalPagesAssumption DEF PmmTypeOK, BelowStart, BelowEnd, Frames
<1> HIDE DEF start, end
<1>2. \A i \in Frames : Run(i, 1) = {i}
  BY <1>1 DEF Run, Frames
<1>3. ASSUME NEW i \in Frames, IsFound(start, end, 1, i)
      PROVE  i < limit /\ i \notin used
  <2>1. i + 1 <= end /\ Run(i, 1) \cap used = {}
    BY <1>1, <1>3 DEF IsFound, IsFirstRun, IsRun, Frames
  <2> QED BY <1>1, <1>2, <2>1 DEF Frames
<1>4. ASSUME NEW j \in Frames, j < limit, j \notin used
      PROVE  \E i \in Frames : IsFound(start, end, 1, i)
  <2>1. j \in Int /\ j >= 0 /\ j + 1 <= end /\ Run(j, 1) \cap used = {}
    BY <1>1, <1>2, <1>4 DEF Frames
  <2>2. CASE \E k \in Frames : IsRun(start, end, 1, k)
    <3>1. PICK k \in Frames : IsRun(start, end, 1, k)
      BY <2>2
    <3>2. k \in Int
      BY DEF Frames
    <3>3. PICK i \in Frames : IsFirstRun(start, end, 1, i)
      BY <1>1, <3>1, <3>2, FirstRunExists
    <3> QED BY <3>3 DEF IsFound
  <2>3. CASE \A k \in Frames : ~ IsRun(start, end, 1, k)
    <3>1. j < start
      BY <1>1, <2>1, <2>3 DEF IsRun
    <3>2. IsRun(0, start, 1, j) /\ start > 0 /\ start \in 0 .. TotalPages
      BY <1>1, <2>1, <3>1 DEF IsRun
    <3>3. PICK i \in Frames : IsFirstRun(0, start, 1, i)
      BY <1>1, <2>1, <3>2, FirstRunExists
    <3> QED BY <2>3, <3>2, <3>3 DEF IsFound
  <2> QED BY <2>2, <2>3
<1> QED BY <1>3, <1>4 DEF start, end

\* The inner loop stops at the first used frame or with count free ones.
LEMMA RunLengthFacts ==
    ASSUME NEW i \in Nat, NEW end \in 0 .. TotalPages,
           NEW count \in 1 .. TotalPages, i + count <= end
    PROVE  LET r == RunLength(i, end, count)
           IN  /\ r \in 0 .. count /\ Run(i, r) \cap used = {}
               /\ r = count \/ i + r \in used
<1> DEFINE T == {k \in Nat : k = count \/ i + k \in used}
<1>1. count \in T /\ count \in Nat /\ end \in Nat
  BY TotalPagesAssumption
<1>2. PICK r \in T : \A k \in T : r <= k
  <2> HIDE DEF T
  <2>1. T \subseteq Nat
    BY DEF T
  <2> QED BY <1>1, <2>1, LeastNatural, ZenonT(60)
<1>3. r \in 0 .. count
  BY <1>1, <1>2
<1>4. \A x \in Run(i, r) : x \notin used
  <2> SUFFICES ASSUME NEW x \in Run(i, r), x \in used PROVE FALSE
    OBVIOUS
  <2>1. x - i \in Nat /\ i + (x - i) = x /\ x - i < r
    BY <1>1, <1>2 DEF Run
  <2>2. x - i \in T
    BY <2>1
  <2> QED BY <1>2, <2>1, <2>2
<1> DEFINE P(k) == /\ i + k <= end /\ Run(i, k) \cap used = {}
                   /\ k = count \/ i + k = end \/ i + k \in used
<1>5. P(r)
  BY <1>1, <1>2, <1>3, <1>4
<1>6. RunLength(i, end, count) \in 0 .. count /\ P(RunLength(i, end, count))
  <2>1. RunLength(i, end, count) = CHOOSE k \in 0 .. count : P(k)
    BY DEF RunLength
  <2> HIDE DEF P
  <2> QED BY <1>3, <1>5, <2>1
<1> HIDE DEF P
<1>7. LET q == RunLength(i, end, count) IN i + q = end => q = count
  BY <1>1, <1>6
<1> QED BY <1>6, <1>7 DEF P

\* The answer that a search from frame i should give: NoRun if no run fits, or
\* the first that does.
IsAnswer(end, count, i, v) ==
    \/ v = NoRun /\ \A j \in Nat : ~ IsRun(i, end, count, j)
    \/ v \in Nat /\ IsFirstRun(i, end, count, v)

\* There is exactly one.
LEMMA OneAnswer ==
    ASSUME NEW end \in 0 .. TotalPages, NEW count \in 1 .. TotalPages, NEW i \in Nat
    PROVE  /\ \E v : IsAnswer(end, count, i, v)
           /\ \A v, w : IsAnswer(end, count, i, v) /\ IsAnswer(end, count, i, w) => v = w
<1>1. \E v : IsAnswer(end, count, i, v)
  <2>1. CASE \A j \in Nat : ~ IsRun(i, end, count, j)
    BY <2>1 DEF IsAnswer
  <2>2. CASE \E j \in Nat : IsRun(i, end, count, j)
    <3>1. PICK v \in Frames : IsFirstRun(i, end, count, v)
      BY <2>2, FirstRunExists
    <3>2. v \in Nat
      BY DEF Frames
    <3> QED BY <3>1, <3>2 DEF IsAnswer
  <2> QED BY <2>1, <2>2
<1>2. ASSUME NEW v, NEW w, IsAnswer(end, count, i, v), IsAnswer(end, count, i, w)
      PROVE  v = w
  <2>1. CASE v = NoRun /\ \A j \in Nat : ~ IsRun(i, end, count, j)
    BY <1>2, <2>1 DEF IsAnswer, IsFirstRun
  <2>2. CASE w = NoRun /\ \A j \in Nat : ~ IsRun(i, end, count, j)
    BY <1>2, <2>2 DEF IsAnswer, IsFirstRun
  <2>3. CASE /\ v \in Nat /\ IsFirstRun(i, end, count, v)
             /\ w \in Nat /\ IsFirstRun(i, end, count, w)
    <3>1. v >= i /\ w >= i /\ ~ (v < w) /\ ~ (w < v)
      BY <2>3 DEF IsFirstRun, IsRun
    <3> QED BY <2>3, <3>1
  <2> QED BY <1>2, <2>1, <2>2, <2>3 DEF IsAnswer
<1> QED BY <1>1, <1>2

\* One turn of the outer loop of allocate_run_from, f giving the turns after it.
Turn(end, count, f, i) ==
    IF i + count > end THEN NoRun
    ELSE LET r == RunLength(i, end, count)
         IN  IF r = count THEN i ELSE f[i + r + 1]

\* A turn that skips to i + r + 1 skips no run: the used frame i + r lies in
\* every run that begins at i .. i + r.
LEMMA TurnAnswers ==
    ASSUME NEW end \in 0 .. TotalPages, NEW count \in 1 .. TotalPages, NEW i \in Nat,
           NEW f, i + count <= end => \A k \in Nat : k > i => IsAnswer(end, count, k, f[k])
    PROVE  IsAnswer(end, count, i, Turn(end, count, f, i))
<1>1. count \in Nat /\ count > 0 /\ end \in Nat
  BY TotalPagesAssumption
<1>2. CASE i + count > end
  <2>1. \A j \in Nat : ~ IsRun(i, end, count, j)
    BY <1>1, <1>2 DEF IsRun
  <2> QED BY <1>2, <2>1 DEF Turn, IsAnswer
<1>3. CASE i + count <= end
  <2> DEFINE r == RunLength(i, end, count)
  <2>1. r \in 0 .. count /\ Run(i, r) \cap used = {} /\ (r = count \/ i + r \in used)
    BY <1>3, RunLengthFacts
  <2>2. Turn(end, count, f, i) = IF r = count THEN i ELSE f[i + r + 1]
    BY <1>1, <1>3 DEF Turn
  <2> HIDE DEF r
  <2>3. CASE r = count
    <3>1. IsFirstRun(i, end, count, i)
      BY <1>1, <1>3, <2>1, <2>3 DEF IsFirstRun, IsRun
    <3> QED BY <2>2, <2>3, <3>1 DEF IsAnswer
  <2>4. CASE r # count
    <3> DEFINE k == i + r + 1
               v == f[k]
    <3>1. k \in Nat /\ k > i /\ Turn(end, count, f, i) = v /\ i + r \in used /\ r < count
      BY <1>1, <2>1, <2>2, <2>4
    <3>2. IsAnswer(end, count, k, v)
      BY <1>3, <3>1
    <3> HIDE DEF v
    <3>3. ASSUME NEW j \in Nat, IsRun(i, end, count, j) PROVE IsRun(k, end, count, j)
      <4>1. i + r \notin Run(j, count)
        BY <3>1, <3>3 DEF IsRun
      <4>2. j >= k
        BY <1>1, <2>1, <3>1, <3>3, <4>1 DEF IsRun, Run
      <4> QED BY <3>3, <4>2 DEF IsRun
    <3>4. \A j \in Nat : IsRun(k, end, count, j) => IsRun(i, end, count, j)
      BY <1>1, <2>1 DEF IsRun
    <3>5. CASE v = NoRun /\ \A j \in Nat : ~ IsRun(k, end, count, j)
      BY <3>1, <3>3, <3>5 DEF IsAnswer
    <3>6. CASE v \in Nat /\ IsFirstRun(k, end, count, v)
      <4>1. ASSUME NEW j \in i .. v - 1 PROVE ~ IsRun(i, end, count, j)
        <5>1. j \in Nat
          BY <3>6
        <5>2. ~ IsRun(k, end, count, j)
          BY <3>1, <3>6, <5>1 DEF IsFirstRun, IsRun
        <5> QED BY <3>3, <5>1, <5>2
      <4>2. IsRun(i, end, count, v)
        BY <3>4, <3>6 DEF IsFirstRun
      <4> QED BY <3>1, <3>6, <4>1, <4>2 DEF IsAnswer, IsFirstRun
    <3> QED BY <3>2, <3>5, <3>6 DEF IsAnswer
  <2> QED BY <2>3, <2>4
<1> QED BY <1>1, <1>2, <1>3

\* The loop as the function that its turns define.
Loop(end, count) == CHOOSE f : f = [i \in Nat |-> Turn(end, count, f, i)]

\* There is such a function: the one that gives every answer right away.
LEMMA LoopTurns ==
    ASSUME NEW end \in 0 .. TotalPages, NEW count \in 1 .. TotalPages, NEW i \in Nat
    PROVE  Loop(end, count)[i] = Turn(end, count, Loop(end, count), i)
<1> DEFINE g == [k \in Nat |-> CHOOSE v : IsAnswer(end, count, k, v)]
<1>1. \A k \in Nat : IsAnswer(end, count, k, g[k])
  BY OneAnswer
<1>2. g = [k \in Nat |-> g[k]]
  OBVIOUS
<1> HIDE DEF g
<1>3. \A k \in Nat : g[k] = Turn(end, count, g, k)
  BY <1>1, OneAnswer, TurnAnswers
<1>4. g = [k \in Nat |-> Turn(end, count, g, k)]
  BY <1>2, <1>3
<1>5. Loop(end, count) = [k \in Nat |-> Turn(end, count, Loop(end, count), k)]
  BY <1>4 DEF Loop
<1> QED BY <1>5

\* The loop gives the right answer from every frame on: a wrong answer from a
\* last frame would follow from right ones.
LEMMA LoopAnswers ==
    ASSUME NEW end \in 0 .. TotalPages, NEW count \in 1 .. TotalPages
    PROVE  \A i \in Nat : IsAnswer(end, count, i, Loop(end, count)[i])
<1> DEFINE f == Loop(end, count)
           T == {n \in Nat : \E i \in Nat : i + n = end /\ ~ IsAnswer(end, count, i, f[i])}
<1>1. count \in Nat /\ count > 0 /\ end \in Nat
  BY TotalPagesAssumption
<1>2. \A i \in Nat : f[i] = Turn(end, count, f, i)
  BY LoopTurns
<1> HIDE DEF f
<1>3. ASSUME NEW i \in Nat, i > end PROVE IsAnswer(end, count, i, f[i])
  <2>1. ~ (i + count <= end)
    BY <1>1, <1>3
  <2>2. IsAnswer(end, count, i, Turn(end, count, f, i))
    BY <2>1, TurnAnswers
  <2> QED BY <1>2, <2>2
<1>4. SUFFICES ASSUME NEW z \in Nat, ~ IsAnswer(end, count, z, f[z]) PROVE FALSE
  BY DEF f
<1>5. z <= end
  BY <1>1, <1>3, <1>4
<1>6. end - z \in T
  BY <1>1, <1>4, <1>5
<1>7. PICK n \in T : \A m \in T : n <= m
  <2> HIDE DEF T
  <2>1. T \subseteq Nat
    BY DEF T
  <2> QED BY <1>6, <2>1, LeastNatural, ZenonT(60)
<1>8. PICK i \in Nat : i + n = end /\ ~ IsAnswer(end, count, i, f[i])
  OBVIOUS
<1>9. ASSUME NEW k \in Nat, k > i PROVE IsAnswer(end, count, k, f[k])
  <2>1. CASE k > end
    BY <1>3, <2>1
  <2>2. CASE k <= end
    <3>1. end - k \in Nat /\ k + (end - k) = end /\ end - k < n
      BY <1>1, <1>8, <1>9, <2>2
    <3>2. end - k \notin T
      BY <1>7, <3>1
    <3> QED BY <3>1, <3>2
  <2> QED BY <1>1, <2>1, <2>2
<1>10. IsAnswer(end, count, i, f[i])
  BY <1>2, <1>9, TurnAnswers
<1> QED BY <1>8, <1>10

\* allocate_run_from is a first-fit search, for every bitmap and every window.
LEMMA LoopFits == LoopIsFirstFit
<1> SUFFICES ASSUME NEW start \in 0 .. TotalPages, NEW end \in 0 .. TotalPages,
                    NEW count \in 1 .. TotalPages
             PROVE  LET i == RunFrom(start, end, count)
                    IN  IF i = NoRun THEN \A j \in Frames : ~ IsRun(start, end, count, j)
                                     ELSE IsFirstRun(start, end, count, i)
  BY DEF LoopIsFirstFit
<1>1. RunFrom(start, end, count) = Loop(end, count)[start]
  BY ZenonT(60) DEF RunFrom, Loop, Turn
<1>2. IsAnswer(end, count, start, RunFrom(start, end, count))
  BY <1>1, LoopAnswers
<1>3. Frames \subseteq Nat
  BY DEF Frames
<1> QED BY <1>2, <1>3 DEF IsAnswer, NoRun

\* In every reachable state, whatever was allocated and freed before, the loop of
\* allocate_run_from finds the first run that fits in any window, and
\* pmm_alloc_below fails only if no frame below its limit is free.
THEOREM SearchesFind == PmmSpec => [](LoopIsFirstFit /\ LowFrameFound)
<1>1. PmmInv => LoopIsFirstFit /\ LowFrameFound
  BY LoopFits, TypedFindsLow DEF PmmInv, PmmSound
<1> QED BY <1>1, PmmInitInv, PmmNextInv, PTL DEF PmmSpec


-----------------------------------------------------------------------------
(* The inductive invariant *)

DirtyBufs == {i \in Bufs : NeedsWriteback(i)}

\* The LRU list is a permutation of the buffers.
LruExact ==
    /\ lru \in [Bufs -> Bufs]
    /\ \A m, n \in Bufs : lru[m] = lru[n] => m = n
    /\ \A i \in Bufs : \E n \in Bufs : lru[n] = i

Types ==
    /\ bufs \in [Bufs -> BufRecord]
    /\ ht \subseteq Bufs
    /\ disk \in [Key -> Value] /\ media \in [Key -> Value] /\ stored \in [Key -> Value]

\* OneBufferPerBlock, and linked buffers have a key.
TableExact ==
    /\ \A i \in Bufs : bufs[i].valid <=> i \in ht
    /\ \A i \in ht : bufs[i].key \in Key
    /\ \A i, j \in ht : bufs[i].key = bufs[j].key => i = j
    /\ \A i \in Bufs : bufs[i].refcnt > 0 => bufs[i].valid

\* A linked buffer holds what was stored last, a clean one also what the device
\* has, and so does the device for a block that no buffer holds.
DataExact ==
    /\ \A i \in ht : bufs[i].data = stored[bufs[i].key]
    /\ \A i \in ht : bufs[i].dirty \/ bufs[i].data = disk[bufs[i].key]
    /\ \A k \in Key : (\A i \in ht : bufs[i].key # k) => disk[k] = stored[k]

DirtyCounted == dirty_bufs = Cardinality(DirtyBufs)

CacheInv == Types /\ LruExact /\ TableExact /\ DataExact /\ DirtyCounted

\* The invariant is what the run checks, and more.
LEMMA InvSound == CacheInv => CacheSound
<1> SUFFICES ASSUME CacheInv PROVE CacheSound
  OBVIOUS
<1>1. BcacheTypeOK
  BY DEF CacheInv, Types, LruExact, BcacheTypeOK
<1>2. OneBufferPerBlock
  BY DEF CacheInv, TableExact, OneBufferPerBlock
<1>3. CleanMatchesDisk
  BY DEF CacheInv, DataExact, DirtyCounted, DirtyBufs, CleanMatchesDisk
<1>4. ASSUME NEW k \in Key PROVE Current(k) = stored[k]
  <2>1. CASE Cached(k)
    <3> DEFINE i == CHOOSE j \in Bufs : Found(j, k)
    <3>1. i \in Bufs /\ Found(i, k) /\ Current(k) = bufs[i].data
      BY <2>1 DEF Cached, Current
    <3> HIDE DEF i
    <3> QED BY <3>1 DEF Found, CacheInv, DataExact
  <2>2. CASE ~ Cached(k)
    <3>1. \A i \in ht : bufs[i].key # k
      BY <2>2 DEF Cached, Found, CacheInv, Types, TableExact
    <3> QED BY <2>2, <3>1 DEF Current, CacheInv, DataExact
  <2> QED BY <2>1, <2>2
<1> QED BY <1>1, <1>2, <1>3, <1>4 DEF CacheSound, HoldsLastStore

\* Sets of buffers are finite.
LEMMA BufSets ==
    ASSUME NEW S, S \subseteq Bufs
    PROVE  IsFiniteSet(S) /\ Cardinality(S) \in Nat
<1>1. IsFiniteSet(Bufs)
  BY BcacheAssumption, FS_Interval DEF Bufs
<1>2. IsFiniteSet(S)
  BY <1>1, FS_Subset
<1> QED BY <1>2, FS_CardinalityType

\* Writing back dirty buffers takes that many off the count.
LEMMA CountMinus ==
    ASSUME NEW S, S \subseteq DirtyBufs, DirtyCounted
    PROVE  dirty_bufs - Cardinality(S) = Cardinality(DirtyBufs \ S)
<1>1. DirtyBufs \subseteq Bufs /\ DirtyBufs \cap S = S
  BY DEF DirtyBufs
<1>2. IsFiniteSet(DirtyBufs)
  BY <1>1, BufSets
<1> HIDE DEF DirtyBufs
<1>3. Cardinality(DirtyBufs \ S) = Cardinality(DirtyBufs) - Cardinality(DirtyBufs \cap S)
  BY <1>2, FS_Difference, ZenonT(60)
<1> QED BY <1>1, <1>3 DEF DirtyCounted

\* lru_touch keeps every buffer in the list, once.
LEMMA TouchExact ==
    ASSUME LruExact, NEW i \in Bufs
    PROVE  /\ Touch(i) \in [Bufs -> Bufs]
           /\ \A m, n \in Bufs : Touch(i)[m] = Touch(i)[n] => m = n
           /\ \A j \in Bufs : \E n \in Bufs : Touch(i)[n] = j
<1> DEFINE p == CHOOSE n \in Bufs : lru[n] = i
           q == [n \in Bufs |-> IF n = 1 THEN i ELSE IF n <= p THEN lru[n - 1] ELSE lru[n]]
<1>1. p \in Bufs /\ lru[p] = i
  BY DEF LruExact
<1>2. Touch(i) = q
  BY DEF Touch
<1> HIDE DEF p
<1>3. Bufs \subseteq Nat \ {0} /\ \A n \in Bufs : n # 1 => n - 1 \in Bufs
  BY BcacheAssumption DEF Bufs
<1>4. \A n \in Bufs : q[n] = IF n = 1 THEN i ELSE IF n <= p THEN lru[n - 1] ELSE lru[n]
  OBVIOUS
<1>5. q \in [Bufs -> Bufs]
  BY <1>3 DEF LruExact
<1> HIDE DEF q
<1>6. ASSUME NEW m \in Bufs, NEW n \in Bufs, m < n PROVE q[m] # q[n]
  <2>1. n # 1 /\ n - 1 \in Bufs /\ n \in Nat /\ m \in Nat /\ p \in Nat
    BY <1>1, <1>3, <1>6
  <2>2. CASE m = 1
    <3>1. q[m] = lru[p] /\ ((q[n] = lru[n - 1] /\ n - 1 # p) \/ (q[n] = lru[n] /\ n # p))
      BY <1>1, <1>4, <2>1, <2>2
    <3> QED BY <1>1, <2>1, <3>1 DEF LruExact
  <2>3. CASE m # 1
    <3>1. m - 1 \in Bufs
      BY <1>3, <2>3
    <3>2. \E a, b \in Bufs : a # b /\ q[m] = lru[a] /\ q[n] = lru[b]
      <4>1. CASE n <= p
        BY <1>4, <1>6, <2>1, <2>3, <3>1, <4>1
      <4>2. CASE ~ (n <= p) /\ m <= p
        <5>1. q[n] = lru[n] /\ q[m] = lru[m - 1] /\ m - 1 # n
          BY <1>4, <1>6, <2>1, <2>3, <4>2
        <5> QED BY <3>1, <5>1
      <4>3. CASE ~ (n <= p) /\ ~ (m <= p)
        <5>1. q[n] = lru[n] /\ q[m] = lru[m] /\ m # n
          BY <1>4, <1>6, <2>1, <2>3, <4>3
        <5> QED BY <5>1
      <4> QED BY <4>1, <4>2, <4>3
    <3> QED BY <3>2 DEF LruExact
  <2> QED BY <2>2, <2>3
<1>7. \A m, n \in Bufs : q[m] = q[n] => m = n
  BY <1>3, <1>6
<1>8. ASSUME NEW j \in Bufs PROVE \E n \in Bufs : q[n] = j
  <2>1. PICK n \in Bufs : lru[n] = j
    BY DEF LruExact
  <2>2. 1 \in Bufs /\ n \in Nat /\ p \in Nat
    BY <1>1, <1>3, BcacheAssumption DEF Bufs
  <2>3. CASE n = p
    BY <1>1, <1>4, <2>1, <2>2, <2>3
  <2>4. CASE n < p
    <3>1. n + 1 \in Bufs /\ n + 1 # 1 /\ n + 1 <= p /\ (n + 1) - 1 = n
      BY <1>1, <2>2, <2>4, BcacheAssumption DEF Bufs
    <3>2. q[n + 1] = lru[n]
      BY <1>4, <3>1
    <3> QED BY <2>1, <3>1, <3>2
  <2>5. CASE n > p
    <3>1. n # 1 /\ ~ (n <= p)
      BY <1>1, <1>3, <2>2, <2>5
    <3>2. q[n] = lru[n]
      BY <1>4, <3>1
    <3> QED BY <2>1, <3>2
  <2> QED BY <2>2, <2>3, <2>4, <2>5
<1> QED BY <1>2, <1>5, <1>7, <1>8

\* The list after lru_touch.
LEMMA TouchedLru == ASSUME LruExact, NEW i \in Bufs, lru' = Touch(i) PROVE LruExact'
<1>1. /\ lru' \in [Bufs -> Bufs]
      /\ \A m, n \in Bufs : lru'[m] = lru'[n] => m = n
      /\ \A j \in Bufs : \E n \in Bufs : lru'[n] = j
  <2>1. /\ Touch(i) \in [Bufs -> Bufs]
        /\ \A m, n \in Bufs : Touch(i)[m] = Touch(i)[n] => m = n
        /\ \A j \in Bufs : \E n \in Bufs : Touch(i)[n] = j
    BY TouchExact, ZenonT(60)
  <2> QED BY <2>1
<1> QED BY <1>1, ZenonT(60) DEF LruExact

-----------------------------------------------------------------------------
(* The steps *)

\* bcache_init.
LEMMA CacheInitInv == BcacheInit => CacheInv
<1> SUFFICES ASSUME BcacheInit PROVE CacheInv
  OBVIOUS
<1>1. NoBuf \in BufRecord /\ NoBuf.refcnt = 0 /\ NoBuf.valid = FALSE
  <2>1. (CHOOSE v \in Value : TRUE) \in Value
    BY KeyAssumption
  <2>2. 0 \in 0 .. MaxPins
    BY BcacheAssumption
  <2> QED BY <2>1, <2>2 DEF NoBuf, BufRecord
<1>2. /\ bufs = [i \in Bufs |-> NoBuf] /\ ht = {} /\ dirty_bufs = 0
      /\ lru = [n \in Bufs |-> NumBufs + 1 - n]
      /\ disk \in [Key -> Value] /\ media = disk /\ stored = disk
  BY DEF BcacheInit
<1> HIDE DEF NoBuf
<1>3. Types
  BY <1>1, <1>2 DEF Types
<1>4. TableExact
  BY <1>1, <1>2 DEF TableExact
<1>5. DataExact
  BY <1>2 DEF DataExact
<1>6. DirtyCounted
  <2>1. DirtyBufs = {}
    BY <1>1, <1>2 DEF DirtyBufs, NeedsWriteback
  <2> QED BY <1>2, <2>1, FS_EmptySet DEF DirtyCounted
<1>7. LruExact
  <2>1. NumBufs \in Nat
    BY BcacheAssumption
  <2>2. \A n \in Bufs : NumBufs + 1 - n \in Bufs
    BY <2>1 DEF Bufs
  <2>3. lru \in [Bufs -> Bufs] /\ \A m, n \in Bufs : lru[m] = lru[n] => m = n
    BY <1>2, <2>1, <2>2 DEF Bufs
  <2>4. ASSUME NEW i \in Bufs PROVE \E n \in Bufs : lru[n] = i
    <3>1. NumBufs + 1 - (NumBufs + 1 - i) = i
      BY <2>1 DEF Bufs
    <3>2. lru[NumBufs + 1 - i] = i
      BY <1>2, <2>2, <3>1
    <3> QED BY <2>2, <3>2
  <2> QED BY <2>3, <2>4 DEF LruExact
<1> QED BY <1>3, <1>4, <1>5, <1>6, <1>7 DEF CacheInv

\* A record that replaces that of buffer i.
LEMMA OneRecord ==
    ASSUME CacheInv, NEW i \in Bufs, NEW rec \in BufRecord,
           bufs' = [bufs EXCEPT ![i] = rec]
    PROVE  /\ bufs' \in [Bufs -> BufRecord] /\ bufs'[i] = rec
           /\ \A j \in Bufs : j # i => bufs'[j] = bufs[j]
BY DEF CacheInv, Types

\* A cached block is found: only a pin and the place in the list change.
LEMMA HitInv == ASSUME CacheInv, NEW k \in Key, NEW i \in Bufs, Hit(k, i) PROVE CacheInv'
<1> DEFINE rec == [bufs[i] EXCEPT !.refcnt = @ + 1]
<1>1. /\ Found(i, k) /\ bufs[i].refcnt < MaxPins /\ bufs' = [bufs EXCEPT ![i] = rec]
      /\ lru' = Touch(i)
      /\ UNCHANGED <<ht, dirty_bufs, disk, media, stored>>
  BY DEF Hit
<1>2. bufs[i] \in BufRecord
  BY DEF CacheInv, Types
<1>3. /\ rec \in BufRecord /\ rec.key = bufs[i].key /\ rec.valid = bufs[i].valid
      /\ rec.dirty = bufs[i].dirty /\ rec.data = bufs[i].data
  <2>1. bufs[i].refcnt + 1 \in 0 .. MaxPins
    BY <1>1, <1>2, BcacheAssumption DEF BufRecord
  <2> QED BY <1>2, <2>1 DEF BufRecord
<1> HIDE DEF rec
<1>4. /\ bufs' \in [Bufs -> BufRecord] /\ bufs'[i] = rec
      /\ \A j \in Bufs : j # i => bufs'[j] = bufs[j]
  BY <1>1, <1>3, OneRecord, ZenonT(60)
<1>5. \A j \in Bufs : /\ bufs'[j].key = bufs[j].key /\ bufs'[j].valid = bufs[j].valid
                      /\ bufs'[j].dirty = bufs[j].dirty /\ bufs'[j].data = bufs[j].data
  BY <1>3, <1>4
<1>6. Types'
  BY <1>1, <1>4 DEF CacheInv, Types
<1>7. LruExact'
  BY <1>1, TouchedLru DEF CacheInv
<1>8. TableExact'
  <2>1. ht' = ht /\ ht \subseteq Bufs
    BY <1>1 DEF CacheInv, Types
  <2>2. \A j \in Bufs : bufs'[j].refcnt > 0 => bufs'[j].valid
    BY <1>1, <1>3, <1>4, ZenonT(60) DEF CacheInv, TableExact, Found
  <2> QED BY <1>5, <2>1, <2>2 DEF CacheInv, TableExact
<1>9. DataExact'
  BY <1>1, <1>5 DEF CacheInv, Types, DataExact
<1>10. DirtyCounted'
  <2>1. DirtyBufs' = DirtyBufs
    BY <1>5 DEF DirtyBufs, NeedsWriteback
  <2> QED BY <1>1, <2>1 DEF CacheInv, DirtyCounted
<1> QED BY <1>6, <1>7, <1>8, <1>9, <1>10 DEF CacheInv

\* bcache_put.
LEMMA PutInv == ASSUME CacheInv, NEW i \in Bufs, BcachePut(i) PROVE CacheInv'
<1> DEFINE rec == [bufs[i] EXCEPT !.refcnt = @ - 1]
<1>1. /\ bufs[i].refcnt > 0 /\ bufs' = [bufs EXCEPT ![i] = rec]
      /\ UNCHANGED <<ht, lru, dirty_bufs, disk, media, stored>>
  BY DEF BcachePut
<1>2. bufs[i] \in BufRecord
  BY DEF CacheInv, Types
<1>3. /\ rec \in BufRecord /\ rec.key = bufs[i].key /\ rec.valid = bufs[i].valid
      /\ rec.dirty = bufs[i].dirty /\ rec.data = bufs[i].data
  <2>1. bufs[i].refcnt - 1 \in 0 .. MaxPins
    BY <1>1, <1>2, BcacheAssumption DEF BufRecord
  <2> QED BY <1>2, <2>1 DEF BufRecord
<1> HIDE DEF rec
<1>4. /\ bufs' \in [Bufs -> BufRecord] /\ bufs'[i] = rec
      /\ \A j \in Bufs : j # i => bufs'[j] = bufs[j]
  BY <1>1, <1>3, OneRecord, ZenonT(60)
<1>5. \A j \in Bufs : /\ bufs'[j].key = bufs[j].key /\ bufs'[j].valid = bufs[j].valid
                      /\ bufs'[j].dirty = bufs[j].dirty /\ bufs'[j].data = bufs[j].data
  BY <1>3, <1>4
<1>6. Types' /\ LruExact'
  BY <1>1, <1>4 DEF CacheInv, Types, LruExact
<1>7. TableExact'
  <2>1. ht' = ht /\ ht \subseteq Bufs
    BY <1>1 DEF CacheInv, Types
  <2>2. \A j \in Bufs : bufs'[j].refcnt > 0 => bufs'[j].valid
    BY <1>1, <1>3, <1>4 DEF CacheInv, TableExact
  <2> QED BY <1>5, <2>1, <2>2 DEF CacheInv, TableExact
<1>8. DataExact'
  BY <1>1, <1>5 DEF CacheInv, Types, DataExact
<1>9. DirtyCounted'
  <2>1. DirtyBufs' = DirtyBufs
    BY <1>5 DEF DirtyBufs, NeedsWriteback
  <2> QED BY <1>1, <2>1 DEF CacheInv, DirtyCounted
<1> QED BY <1>6, <1>7, <1>8, <1>9 DEF CacheInv

\* A caller stores into a pinned buffer and marks it dirty.
LEMMA ModifyInv ==
    ASSUME CacheInv, NEW i \in Bufs, NEW v \in Value, Modify(i, v) PROVE CacheInv'
<1> DEFINE rec == [bufs[i] EXCEPT !.data = v, !.dirty = TRUE]
           b == bufs[i].key
<1>1. /\ bufs[i].refcnt > 0 /\ bufs[i].valid /\ bufs' = [bufs EXCEPT ![i] = rec]
      /\ dirty_bufs' = IF bufs[i].dirty THEN dirty_bufs ELSE dirty_bufs + 1
      /\ stored' = [stored EXCEPT ![b] = v]
      /\ UNCHANGED <<ht, lru, disk, media>>
  BY DEF Modify
<1>2. bufs[i] \in BufRecord /\ ht \subseteq Bufs /\ stored \in [Key -> Value]
  BY DEF CacheInv, Types
<1>3. /\ rec \in BufRecord /\ rec.key = b /\ rec.valid = bufs[i].valid
      /\ rec.dirty = TRUE /\ rec.data = v /\ rec.refcnt = bufs[i].refcnt
  BY <1>2, ZenonT(60) DEF BufRecord
<1>4. i \in ht /\ b \in Key
  BY <1>1 DEF CacheInv, TableExact
<1> HIDE DEF rec
<1>5. /\ bufs' \in [Bufs -> BufRecord] /\ bufs'[i] = rec
      /\ \A j \in Bufs : j # i => bufs'[j] = bufs[j]
  BY <1>1, <1>3, OneRecord, ZenonT(60)
<1>6. stored' \in [Key -> Value] /\ stored'[b] = v
      /\ \A k \in Key : k # b => stored'[k] = stored[k]
  BY <1>1, <1>2, <1>4
<1>7. Types' /\ LruExact'
  BY <1>1, <1>5, <1>6 DEF CacheInv, Types, LruExact
<1>8. TableExact'
  <2>1. \A j \in Bufs : /\ bufs'[j].key = bufs[j].key /\ bufs'[j].valid = bufs[j].valid
                        /\ bufs'[j].refcnt = bufs[j].refcnt
    BY <1>3, <1>5
  <2> QED BY <1>1, <1>2, <2>1 DEF CacheInv, TableExact
<1>9. DataExact'
  <2>1. \A j \in ht : bufs'[j].key = bufs[j].key
    BY <1>2, <1>3, <1>5
  <2>2. ASSUME NEW j \in ht, j # i
        PROVE  /\ bufs'[j].data = stored'[bufs'[j].key]
               /\ bufs'[j].dirty \/ bufs'[j].data = disk[bufs'[j].key]
    <3>1. bufs'[j] = bufs[j] /\ bufs[j].key # b /\ bufs[j].key \in Key
      BY <1>2, <1>4, <1>5, <2>2 DEF CacheInv, TableExact
    <3> QED BY <1>6, <3>1 DEF CacheInv, DataExact
  <2>3. /\ bufs'[i].data = stored'[bufs'[i].key] /\ bufs'[i].dirty
    BY <1>3, <1>5, <1>6
  <2>4. \A k \in Key : (\A j \in ht : bufs'[j].key # k) => disk[k] = stored'[k]
    BY <1>4, <1>6, <2>1 DEF CacheInv, DataExact
  <2> QED BY <1>1, <2>2, <2>3, <2>4 DEF DataExact
<1>10. DirtyCounted'
  <2>1. DirtyBufs' = DirtyBufs \cup {i}
    BY <1>1, <1>3, <1>5, ZenonT(60) DEF DirtyBufs, NeedsWriteback
  <2>2. i \in DirtyBufs <=> bufs[i].dirty
    BY <1>1 DEF DirtyBufs, NeedsWriteback
  <2>3. IsFiniteSet(DirtyBufs)
    BY BufSets DEF DirtyBufs
  <2> HIDE DEF DirtyBufs
  <2>4. Cardinality(DirtyBufs \cup {i})
          = IF i \in DirtyBufs THEN Cardinality(DirtyBufs) ELSE Cardinality(DirtyBufs) + 1
    BY <2>3, FS_AddElement, ZenonT(60)
  <2> QED BY <1>1, <2>1, <2>2, <2>4 DEF CacheInv, DirtyCounted
<1> QED BY <1>7, <1>8, <1>9, <1>10 DEF CacheInv

\* A failed write may tear the block on the device; its buffer stays dirty.
LEMMA WriteFailsInv ==
    ASSUME CacheInv, NEW i \in Bufs, NEW v \in Value, WriteFails(i, v) PROVE CacheInv'
<1> DEFINE b == bufs[i].key
<1>1. /\ bufs[i].valid /\ bufs[i].dirty /\ disk' = [disk EXCEPT ![b] = v]
      /\ UNCHANGED <<bufs, ht, lru, dirty_bufs, media, stored>>
  BY DEF WriteFails, NeedsWriteback
<1>2. i \in ht /\ b \in Key /\ disk \in [Key -> Value]
  BY <1>1 DEF CacheInv, TableExact, Types
<1>3. disk' \in [Key -> Value] /\ \A k \in Key : k # b => disk'[k] = disk[k]
  BY <1>1, <1>2
<1>4. DataExact'
  <2>1. ASSUME NEW j \in ht PROVE bufs[j].dirty \/ bufs[j].data = disk'[bufs[j].key]
    <3>1. CASE j = i
      BY <1>1, <3>1
    <3>2. CASE j # i
      BY <1>2, <1>3, <3>2 DEF CacheInv, TableExact, DataExact
    <3> QED BY <3>1, <3>2
  <2>2. \A k \in Key : (\A j \in ht : bufs[j].key # k) => disk'[k] = stored[k]
    BY <1>2, <1>3 DEF CacheInv, DataExact
  <2> QED BY <1>1, <2>1, <2>2 DEF CacheInv, DataExact
<1>5. Types' /\ LruExact' /\ TableExact'
  BY <1>1, <1>3 DEF CacheInv, Types, LruExact, TableExact
<1>6. DirtyCounted'
  BY <1>1 DEF CacheInv, DirtyCounted, DirtyBufs, NeedsWriteback
<1> QED BY <1>4, <1>5, <1>6 DEF CacheInv

\* What writeback_one does for the dirty buffers S: their blocks on the device
\* become what they hold, and no other block changes.
LEMMA WriteBackFacts ==
    ASSUME CacheInv, NEW S, S \subseteq DirtyBufs, WriteBack(S)
    PROVE  /\ disk' \in [Key -> Value]
           /\ \A j \in S : /\ bufs[j].key \in Key /\ j \in ht
                           /\ disk'[bufs[j].key] = bufs[j].data
           /\ \A k \in Key : (\A j \in S : bufs[j].key # k) => disk'[k] = disk[k]
           /\ dirty_bufs' = Cardinality(DirtyBufs \ S)
<1> DEFINE pick(k) == CHOOSE i \in S : bufs[i].key = k
<1>1. /\ disk' = [k \in Key |-> IF \E i \in S : bufs[i].key = k
                                THEN bufs[pick(k)].data ELSE disk[k]]
      /\ dirty_bufs' = dirty_bufs - Cardinality(S)
  BY DEF WriteBack
<1>2. S \subseteq Bufs /\ \A j \in S : j \in ht /\ bufs[j].key \in Key
  BY DEF DirtyBufs, NeedsWriteback, CacheInv, TableExact
<1>3. \A k \in Key : (\E i \in S : bufs[i].key = k) => pick(k) \in S /\ bufs[pick(k)].key = k
  OBVIOUS
<1>4. \A j \in S : pick(bufs[j].key) = j
  BY <1>2, <1>3 DEF CacheInv, TableExact
<1> HIDE DEF pick
<1>5. \A j \in Bufs : bufs[j].data \in Value
  BY DEF CacheInv, Types, BufRecord
<1>6. disk' \in [Key -> Value]
  BY <1>1, <1>2, <1>3, <1>5 DEF CacheInv, Types
<1>7. \A j \in S : disk'[bufs[j].key] = bufs[j].data
  BY <1>1, <1>2, <1>4
<1>8. \A k \in Key : (\A j \in S : bufs[j].key # k) => disk'[k] = disk[k]
  BY <1>1
<1>9. dirty_bufs' = Cardinality(DirtyBufs \ S)
  BY <1>1, CountMinus DEF CacheInv
<1> QED BY <1>2, <1>6, <1>7, <1>8, <1>9

\* The device after the victim i of bcache_get was written back if dirty: then
\* it has what was stored last of the victim's block too.
LEMMA VictimFacts ==
    ASSUME CacheInv, NEW i \in Bufs, WriteBack(Victim(i)), stored' = stored
    PROVE  /\ disk' \in [Key -> Value]
           /\ \A j \in ht : j # i => bufs[j].dirty \/ bufs[j].data = disk'[bufs[j].key]
           /\ \A k \in Key : (\A j \in ht \ {i} : bufs[j].key # k) => disk'[k] = stored[k]
           /\ dirty_bufs' = Cardinality(DirtyBufs \ {i})
<1> DEFINE S == Victim(i)
<1>1. S \subseteq DirtyBufs /\ S \subseteq {i} /\ DirtyBufs \ S = DirtyBufs \ {i}
  BY DEF Victim, DirtyBufs
<1>2. i \notin S => ~ NeedsWriteback(i)
  BY DEF Victim
<1>3. /\ disk' \in [Key -> Value]
      /\ \A j \in S : /\ bufs[j].key \in Key /\ j \in ht
                      /\ disk'[bufs[j].key] = bufs[j].data
      /\ \A k \in Key : (\A j \in S : bufs[j].key # k) => disk'[k] = disk[k]
      /\ dirty_bufs' = Cardinality(DirtyBufs \ S)
  <2> HIDE DEF S
  <2>1. WriteBack(S)
    BY DEF S
  <2> QED BY <1>1, <2>1, WriteBackFacts
<1> HIDE DEF S
<1>4. ASSUME NEW j \in ht, j # i PROVE bufs[j].dirty \/ bufs[j].data = disk'[bufs[j].key]
  <2>1. \A h \in S : bufs[h].key # bufs[j].key
    BY <1>1, <1>3, <1>4 DEF CacheInv, TableExact
  <2>2. disk'[bufs[j].key] = disk[bufs[j].key]
    BY <1>3, <2>1 DEF CacheInv, TableExact
  <2> QED BY <2>2 DEF CacheInv, DataExact
<1>5. ASSUME NEW k \in Key, \A j \in ht \ {i} : bufs[j].key # k PROVE disk'[k] = stored[k]
  <2>1. CASE i \in S /\ bufs[i].key = k
    BY <1>3, <2>1, ZenonT(60) DEF CacheInv, DataExact
  <2>2. CASE i \in S /\ bufs[i].key # k
    <3>1. disk'[k] = disk[k]
      BY <1>1, <1>3, <2>2
    <3> QED BY <1>5, <2>2, <3>1 DEF CacheInv, DataExact
  <2>3. CASE i \notin S
    <3>1. disk'[k] = disk[k]
      BY <1>1, <1>3, <2>3
    <3>2. CASE i \in ht /\ bufs[i].key = k
      <4>1. ~ bufs[i].dirty
        BY <1>2, <2>3, <3>2 DEF NeedsWriteback, CacheInv, TableExact
      <4> QED BY <3>1, <3>2, <4>1 DEF CacheInv, DataExact
    <3>3. CASE ~ (i \in ht /\ bufs[i].key = k)
      BY <1>5, <3>1, <3>3 DEF CacheInv, DataExact
    <3> QED BY <3>2, <3>3
  <2> QED BY <2>1, <2>2, <2>3
<1> QED BY <1>1, <1>3, <1>4, <1>5, ZenonT(60)

\* A block that is not cached is read into the victim's page.
LEMMA MissInv == ASSUME CacheInv, NEW k \in Key, NEW i \in Bufs, Miss(k, i) PROVE CacheInv'
<1> DEFINE rec == [key |-> k, refcnt |-> 1, valid |-> TRUE, dirty |-> FALSE,
                   data |-> disk'[k]]
<1>1. /\ ~ Cached(k) /\ WriteBack(Victim(i)) /\ bufs' = [bufs EXCEPT ![i] = rec]
      /\ ht' = ht \cup {i} /\ lru' = Touch(i) /\ media' = media /\ stored' = stored
  BY DEF Miss
<1>2. /\ disk' \in [Key -> Value]
      /\ \A j \in ht : j # i => bufs[j].dirty \/ bufs[j].data = disk'[bufs[j].key]
      /\ \A b \in Key : (\A j \in ht \ {i} : bufs[j].key # b) => disk'[b] = stored[b]
      /\ dirty_bufs' = Cardinality(DirtyBufs \ {i})
  BY <1>1, VictimFacts
<1>3. ht \subseteq Bufs /\ \A j \in ht : bufs[j].key # k
  BY <1>1 DEF Cached, Found, CacheInv, Types, TableExact
<1>4. /\ rec \in BufRecord /\ rec.key = k /\ rec.valid = TRUE /\ rec.dirty = FALSE
      /\ rec.data = disk'[k]
  <2>1. 1 \in 0 .. MaxPins /\ disk'[k] \in Value
    BY <1>2, BcacheAssumption
  <2> QED BY <2>1 DEF BufRecord
<1> HIDE DEF rec
<1>5. /\ bufs' \in [Bufs -> BufRecord] /\ bufs'[i] = rec
      /\ \A j \in Bufs : j # i => bufs'[j] = bufs[j]
  BY <1>1, <1>4, OneRecord, ZenonT(60)
<1>6. disk'[k] = stored[k]
  BY <1>2, <1>3
<1>7. Types'
  BY <1>1, <1>2, <1>5 DEF CacheInv, Types
<1>8. LruExact'
  BY <1>1, TouchedLru DEF CacheInv
<1>9. TableExact'
  <2>1. \A j \in Bufs : bufs'[j].valid <=> j \in ht'
    BY <1>1, <1>4, <1>5 DEF CacheInv, TableExact
  <2>2. \A j \in ht' : bufs'[j].key \in Key
    BY <1>1, <1>3, <1>4, <1>5 DEF CacheInv, TableExact
  <2>3. \A j, h \in ht' : bufs'[j].key = bufs'[h].key => j = h
    BY <1>1, <1>3, <1>4, <1>5 DEF CacheInv, TableExact
  <2>4. \A j \in Bufs : bufs'[j].refcnt > 0 => bufs'[j].valid
    BY <1>4, <1>5 DEF CacheInv, TableExact
  <2> QED BY <2>1, <2>2, <2>3, <2>4 DEF TableExact
<1>10. DataExact'
  <2>1. \A j \in ht' : bufs'[j].data = stored'[bufs'[j].key]
    BY <1>1, <1>3, <1>4, <1>5, <1>6 DEF CacheInv, DataExact
  <2>2. \A j \in ht' : bufs'[j].dirty \/ bufs'[j].data = disk'[bufs'[j].key]
    BY <1>1, <1>2, <1>3, <1>4, <1>5
  <2>3. ASSUME NEW b \in Key, \A j \in ht' : bufs'[j].key # b PROVE disk'[b] = stored'[b]
    <3>1. \A j \in ht \ {i} : bufs[j].key # b
      BY <1>1, <1>3, <1>5, <2>3
    <3> QED BY <1>1, <1>2, <3>1
  <2> QED BY <2>1, <2>2, <2>3 DEF DataExact
<1>11. DirtyCounted'
  <2>1. DirtyBufs' = DirtyBufs \ {i}
    BY <1>4, <1>5 DEF DirtyBufs, NeedsWriteback
  <2> QED BY <1>2, <2>1 DEF DirtyCounted
<1> QED BY <1>7, <1>8, <1>9, <1>10, <1>11 DEF CacheInv

\* The read fails: the victim's buffer is invalid and unlinked.
LEMMA MissFailsInv ==
    ASSUME CacheInv, NEW k \in Key, NEW i \in Bufs, MissFails(k, i) PROVE CacheInv'
<1>1. PICK v \in Value :
         bufs' = [bufs EXCEPT ![i] = [@ EXCEPT !.key = NoKey, !.valid = FALSE,
                                               !.dirty = FALSE, !.data = v]]
  BY ZenonT(60) DEF MissFails
<1> DEFINE rec == [bufs[i] EXCEPT !.key = NoKey, !.valid = FALSE,
                                  !.dirty = FALSE, !.data = v]
<1>2. /\ IsEvictable(i) /\ WriteBack(Victim(i)) /\ bufs' = [bufs EXCEPT ![i] = rec]
      /\ ht' = ht \ {i} /\ lru' = lru /\ media' = media /\ stored' = stored
  BY <1>1, ZenonT(60) DEF MissFails
<1>3. bufs[i].refcnt = 0
  BY <1>2 DEF IsEvictable
<1>4. /\ disk' \in [Key -> Value]
      /\ \A j \in ht : j # i => bufs[j].dirty \/ bufs[j].data = disk'[bufs[j].key]
      /\ \A b \in Key : (\A j \in ht \ {i} : bufs[j].key # b) => disk'[b] = stored[b]
      /\ dirty_bufs' = Cardinality(DirtyBufs \ {i})
  BY <1>2, VictimFacts
<1>5. rec \in BufRecord /\ rec.valid = FALSE /\ rec.dirty = FALSE /\ rec.refcnt = 0
  <2>1. bufs[i] \in BufRecord
    BY DEF CacheInv, Types
  <2> QED BY <1>3, <2>1, ZenonT(60) DEF BufRecord
<1> HIDE DEF rec
<1>6. /\ bufs' \in [Bufs -> BufRecord] /\ bufs'[i] = rec
      /\ \A j \in Bufs : j # i => bufs'[j] = bufs[j]
  BY <1>2, <1>5, OneRecord, ZenonT(60)
<1>7. Types' /\ LruExact'
  BY <1>2, <1>4, <1>6 DEF CacheInv, Types, LruExact
<1>8. ht \subseteq Bufs
  BY DEF CacheInv, Types
<1>9. TableExact'
  BY <1>2, <1>5, <1>6, <1>8 DEF CacheInv, TableExact
<1>10. DataExact'
  <2>1. \A j \in ht' : bufs'[j].data = stored'[bufs'[j].key]
    BY <1>2, <1>6, <1>8 DEF CacheInv, DataExact
  <2>2. \A j \in ht' : bufs'[j].dirty \/ bufs'[j].data = disk'[bufs'[j].key]
    BY <1>2, <1>4, <1>6, <1>8
  <2>3. \A b \in Key : (\A j \in ht' : bufs'[j].key # b) => disk'[b] = stored'[b]
    BY <1>2, <1>4, <1>6, <1>8
  <2> QED BY <2>1, <2>2, <2>3 DEF DataExact
<1>11. DirtyCounted'
  <2>1. DirtyBufs' = DirtyBufs \ {i}
    BY <1>5, <1>6 DEF DirtyBufs, NeedsWriteback
  <2> QED BY <1>4, <2>1 DEF DirtyCounted
<1> QED BY <1>7, <1>9, <1>10, <1>11 DEF CacheInv

\* The writes of a sync, of which those of S succeed.
LEMMA SyncWritesInv ==
    ASSUME CacheInv, NEW S, S \subseteq DirtyBufs, SyncWrites(S),
           media' \in [Key -> Value], stored' = stored
    PROVE  CacheInv'
<1> DEFINE clean(i) == [bufs[i] EXCEPT !.dirty = FALSE]
<1>1. /\ WriteBack(S) /\ ht' = ht /\ lru' = lru
      /\ bufs' = [i \in Bufs |-> IF i \in S THEN clean(i) ELSE bufs[i]]
  BY DEF SyncWrites
<1>2. /\ disk' \in [Key -> Value]
      /\ \A j \in S : /\ bufs[j].key \in Key /\ j \in ht
                      /\ disk'[bufs[j].key] = bufs[j].data
      /\ \A k \in Key : (\A j \in S : bufs[j].key # k) => disk'[k] = disk[k]
      /\ dirty_bufs' = Cardinality(DirtyBufs \ S)
  BY <1>1, WriteBackFacts
<1>3. \A i \in Bufs : /\ clean(i) \in BufRecord /\ clean(i).key = bufs[i].key
                      /\ clean(i).valid = bufs[i].valid /\ clean(i).data = bufs[i].data
                      /\ clean(i).refcnt = bufs[i].refcnt /\ clean(i).dirty = FALSE
  <2> SUFFICES ASSUME NEW i \in Bufs
               PROVE  /\ clean(i) \in BufRecord /\ clean(i).key = bufs[i].key
                      /\ clean(i).valid = bufs[i].valid /\ clean(i).data = bufs[i].data
                      /\ clean(i).refcnt = bufs[i].refcnt /\ clean(i).dirty = FALSE
    OBVIOUS
  <2>1. bufs[i] \in BufRecord
    BY DEF CacheInv, Types
  <2> QED BY <2>1, ZenonT(60) DEF BufRecord
<1> HIDE DEF clean
<1>4. /\ bufs' \in [Bufs -> BufRecord]
      /\ \A i \in Bufs : /\ bufs'[i].key = bufs[i].key /\ bufs'[i].valid = bufs[i].valid
                         /\ bufs'[i].data = bufs[i].data
                         /\ bufs'[i].refcnt = bufs[i].refcnt
                         /\ i \in S => bufs'[i].dirty = FALSE
                         /\ i \notin S => bufs'[i].dirty = bufs[i].dirty
  BY <1>1, <1>3 DEF CacheInv, Types
<1>5. ht \subseteq Bufs
  BY DEF CacheInv, Types
<1>6. Types' /\ LruExact'
  BY <1>1, <1>2, <1>4 DEF CacheInv, Types, LruExact
<1>7. TableExact'
  <2>1. TableExact /\ ht' = ht
    BY <1>1 DEF CacheInv
  <2> QED BY <1>4, <1>5, <2>1 DEF TableExact
<1>8. DataExact'
  <2>1. \A j \in ht : bufs'[j].data = stored[bufs'[j].key]
    BY <1>4, <1>5 DEF CacheInv, DataExact
  <2>2. ASSUME NEW j \in ht PROVE bufs'[j].dirty \/ bufs'[j].data = disk'[bufs'[j].key]
    <3>1. CASE j \in S
      BY <1>2, <1>4, <1>5, <3>1
    <3>2. CASE j \notin S
      <4>1. \A h \in S : bufs[h].key # bufs[j].key
        BY <1>2, <3>2 DEF CacheInv, TableExact
      <4>2. disk'[bufs[j].key] = disk[bufs[j].key]
        BY <1>2, <4>1 DEF CacheInv, TableExact
      <4> QED BY <1>4, <1>5, <3>2, <4>2, ZenonT(60) DEF CacheInv, DataExact
    <3> QED BY <3>1, <3>2
  <2>3. \A k \in Key : (\A j \in ht : bufs'[j].key # k) => disk'[k] = stored[k]
    BY <1>2, <1>4, <1>5 DEF CacheInv, DataExact
  <2> QED BY <1>1, <2>1, <2>2, <2>3 DEF DataExact
<1>9. DirtyCounted'
  <2>1. DirtyBufs' = DirtyBufs \ S
    BY <1>4 DEF DirtyBufs, NeedsWriteback
  <2> QED BY <1>2, <2>1 DEF DirtyCounted
<1> QED BY <1>6, <1>7, <1>8, <1>9 DEF CacheInv

\* Every step keeps the invariant.
LEMMA CacheNextInv == CacheInv /\ [BcacheNext]_bcacheVars => CacheInv'
<1> SUFFICES ASSUME CacheInv, [BcacheNext]_bcacheVars PROVE CacheInv'
  OBVIOUS
<1>1. \A D : DirtyOf(D) \subseteq DirtyBufs
  BY DEF DirtyOf, DirtyBufs
<1>2. media \in [Key -> Value]
  BY DEF CacheInv, Types
<1>3. ASSUME NEW d \in CachedDevices, SyncDev(d) PROVE CacheInv'
  <2>1. /\ SyncWrites(DirtyOf({d})) /\ stored' = stored
        /\ media' = [k \in Key |-> IF k[1] = d THEN disk'[k] ELSE media[k]]
    BY <1>3 DEF SyncDev
  <2>2. disk' \in [Key -> Value]
    BY <1>1, <2>1, WriteBackFacts, ZenonT(60) DEF SyncWrites
  <2>3. media' \in [Key -> Value]
    BY <1>2, <2>1, <2>2
  <2> QED BY <1>1, <2>1, <2>3, SyncWritesInv
<1>4. ASSUME NEW d \in CachedDevices, SyncDevFails(d) PROVE CacheInv'
  <2>1. PICK S \in SUBSET DirtyOf({d}) : SyncWrites(S)
    BY <1>4 DEF SyncDevFails
  <2>2. S \subseteq DirtyBufs /\ media' = media /\ stored' = stored
    BY <1>1, <1>4 DEF SyncDevFails
  <2> QED BY <1>2, <2>1, <2>2, SyncWritesInv
<1>5. CASE SyncAll
  BY <1>1, <1>2, <1>5, SyncWritesInv DEF SyncAll
<1>6. CASE SyncAllFails
  <2>1. PICK S \in SUBSET DirtyOf(CachedDevices) : SyncWrites(S)
    BY <1>6 DEF SyncAllFails
  <2>2. S \subseteq DirtyBufs /\ media' = media /\ stored' = stored
    BY <1>1, <1>6 DEF SyncAllFails
  <2> QED BY <1>2, <2>1, <2>2, SyncWritesInv
<1>7. ASSUME NEW k \in Key, Settle(k) PROVE CacheInv'
  <2>1. /\ media' = [media EXCEPT ![k] = disk[k]]
        /\ UNCHANGED <<bufs, ht, lru, dirty_bufs, disk, stored>>
    BY <1>7 DEF Settle
  <2>2. media' \in [Key -> Value]
    BY <1>2, <2>1 DEF CacheInv, Types
  <2> QED BY <2>1, <2>2 DEF CacheInv, Types, LruExact, TableExact, DataExact, DirtyCounted,
                            DirtyBufs, NeedsWriteback
<1>8. CASE UNCHANGED bcacheVars
  BY <1>8 DEF bcacheVars, CacheInv, Types, LruExact, TableExact, DataExact, DirtyCounted,
              DirtyBufs, NeedsWriteback
<1> QED BY <1>3, <1>4, <1>5, <1>6, <1>7, <1>8, HitInv, MissInv, MissFailsInv, PutInv,
           ModifyInv, WriteFailsInv DEF BcacheNext

\* The cache is transparent: through evictions, failed reads and failed and
\* successful syncs, a block holds what a caller last put into it; a block has
\* one buffer, a clean buffer equals the device, and dirty_bufs is exact.
THEOREM CacheStaysSound == BcacheSpec => []CacheSound
<1> QED BY CacheInitInv, CacheNextInv, InvSound, PTL DEF BcacheSpec

\* When bcache_sync_dev returns true, every block of the device is permanent.
THEOREM SyncsAreDurable == BcacheSpec => SyncIsDurable
<1> DEFINE Durable == \A d \in CachedDevices : SyncDev(d) =>
                         \A k \in Key : k[1] = d => media'[k] = stored[k]
<1>1. ASSUME CacheInv, NEW d \in CachedDevices, SyncDev(d), NEW k \in Key, k[1] = d
      PROVE  media'[k] = stored[k]
  <2> DEFINE S == DirtyOf({d})
  <2>1. WriteBack(S) /\ media'[k] = disk'[k]
    BY <1>1 DEF SyncDev, SyncWrites
  <2>2. S \subseteq DirtyBufs
    BY DEF DirtyOf, DirtyBufs
  <2>3. \A i \in ht : bufs[i].key = k /\ bufs[i].dirty => i \in S
    BY <1>1 DEF DirtyOf, NeedsWriteback, CacheInv, TableExact, Types
  <2> HIDE DEF S
  <2>4. /\ \A j \in S : j \in ht /\ disk'[bufs[j].key] = bufs[j].data
        /\ (\A j \in S : bufs[j].key # k) => disk'[k] = disk[k]
    BY <1>1, <2>1, <2>2, WriteBackFacts, ZenonT(60)
  <2>5. CASE \E i \in S : bufs[i].key = k
    BY <1>1, <2>1, <2>4, <2>5 DEF CacheInv, DataExact
  <2>6. CASE \A j \in S : bufs[j].key # k
    <3>1. disk'[k] = disk[k] /\ \A i \in ht : bufs[i].key = k => ~ bufs[i].dirty
      BY <2>3, <2>4, <2>6
    <3>2. disk[k] = stored[k]
      BY <1>1, <3>1 DEF CacheInv, DataExact
    <3> QED BY <2>1, <3>1, <3>2
  <2> QED BY <2>5, <2>6
<1>2. CacheInv /\ [BcacheNext]_bcacheVars => [Durable]_bcacheVars
  BY <1>1
<1> QED BY <1>2, CacheInitInv, CacheNextInv, PTL DEF BcacheSpec, SyncIsDurable

=============================================================================
