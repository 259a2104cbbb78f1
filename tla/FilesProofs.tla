----------------------------- MODULE FilesProofs ------------------------------
(***************************************************************************)
(* Proofs about the descriptor layer, for every number of processes,       *)
(* descriptors, pipes and vnodes: the counts kept in pipes and vnodes are  *)
(* those of the descriptor tables, and duplicated descriptors share one    *)
(* description.                                                            *)
(***************************************************************************)
EXTENDS Files, TLAPS, FiniteSetTheorems

USE ZenonT(3), SMTT(30), Z3T(30), ZenonT(60)

Tables == [Procs -> [Fds -> FdRecord]]

\* The descriptors of a table T on an end of pipe q, and on vnode v.
At(T, q, end) == {x \in Procs \X Fds : /\ T[x[1]][x[2]].kind = "pipe"
                                       /\ T[x[1]][x[2]].obj = q
                                       /\ T[x[1]][x[2]].end = end}

On(T, v) == {x \in Procs \X Fds : T[x[1]][x[2]].kind = "file" /\ T[x[1]][x[2]].obj = v}

\* A pipe whose own counts agree, with its write position where its bytes end.
Consistent(pipe) ==
    /\ pipe \in PipeRecord
    /\ pipe.refs = pipe.readers + pipe.writers
    /\ pipe.used = "yes" <=> pipe.refs > 0
    /\ pipe.used = "no" => pipe = UnusedPipe
    /\ pipe.write_pos = (pipe.read_pos + pipe.count) % Capacity

SameRing(a, b) == /\ a.read_pos = b.read_pos /\ a.write_pos = b.write_pos
                  /\ a.count = b.count /\ a.buffer = b.buffer

\* The counts of the pipes P and of the vnodes V are those of the table T.
PipeBooks(T, P) ==
    \A q \in Pipes : /\ Consistent(P[q])
                     /\ P[q].readers = Cardinality(At(T, q, "r"))
                     /\ P[q].writers = Cardinality(At(T, q, "w"))

VnodeBooks(T, V) == \A v \in Vnodes : V[v].refs = Cardinality(On(T, v))

\* A descriptor names an object of its kind; the description of a file has an
\* id that was handed out.
EntryOK(e) == /\ e.kind = "pipe" => e.obj \in Pipes /\ e.end \in {"r", "w"}
              /\ e.kind = "file" => e.obj \in Vnodes /\ e.desc # 0

Entries == \A p \in Procs, i \in Fds :
              EntryOK(fds[p][i]) /\ (fds[p][i].kind = "file" => fds[p][i].desc < next_id)

EndedHoldNothing ==
    \A p \in Procs : state[p] # "live" => \A i \in Fds : fds[p][i].kind = "free"

\* The inductive invariant.
Inv == /\ FilesTypeOK /\ Entries /\ EndedHoldNothing /\ DescriptionsShared
       /\ PipeBooks(fds, pipes) /\ VnodeBooks(fds, vnodes)

-----------------------------------------------------------------------------
(* Counting descriptors *)

\* There are finitely many descriptors.
LEMMA TableFinite == IsFiniteSet(Procs \X Fds)
<1>1. IsFiniteSet(Fds)
  BY FS_Interval, FilesAssumption DEF Fds
<1> QED BY <1>1, FS_Product, FilesAssumption

\* Any set of table entries is counted by a natural number.
LEMMA Counted ==
    ASSUME NEW A, A \subseteq Procs \X Fds
    PROVE  /\ IsFiniteSet(A) /\ Cardinality(A) \in Nat
           /\ Cardinality(A) = 0 <=> A = {}
BY TableFinite, FS_Subset, FS_CardinalityType, FS_EmptySet

\* One more descriptor in a set adds one to its count.
LEMMA CountAdded ==
    ASSUME NEW A, A \subseteq Procs \X Fds, NEW x \in Procs \X Fds, x \notin A
    PROVE  Cardinality(A \cup {x}) = Cardinality(A) + 1
BY Counted, FS_AddElement

\* Taking the entries S of process p out of A, where they are those of D,
\* leaves B.
Splits(A, p, S, D, B) ==
    /\ A \subseteq Procs \X Fds /\ p \in Procs /\ S \subseteq Fds
    /\ D \subseteq S /\ \A i \in S : i \in D <=> <<p, i>> \in A
    /\ B \subseteq A /\ \A x \in A : x \in B <=> ~ (x[1] = p /\ x[2] \in S)

\* Clearing entries lowers a count by the number of entries cleared.
LEMMA CountCleared ==
    ASSUME NEW A, NEW p, NEW S, NEW D, NEW B, Splits(A, p, S, D, B)
    PROVE  /\ Cardinality(D) \in 0 .. Cardinality(A)
           /\ Cardinality(B) = Cardinality(A) - Cardinality(D)
<1> DEFINE C == {x \in A : x[1] = p /\ x[2] \in S}
           f == [i \in D |-> <<p, i>>]
<1> USE DEF Splits
<1>1. IsFiniteSet(A) /\ Cardinality(A) \in Nat
  BY Counted
<1>2. IsFiniteSet(C) /\ Cardinality(C) \in Nat /\ Cardinality(C) <= Cardinality(A)
  BY <1>1, FS_Subset, FS_CardinalityType
<1>3. f \in Bijection(D, C)
  <2>1. \A x \in A : x = <<x[1], x[2]>>
    OBVIOUS
  <2>2. f \in [D -> C]
    OBVIOUS
  <2>3. \A i, j \in D : f[i] = f[j] => i = j
    OBVIOUS
  <2>4. \A x \in C : \E i \in D : f[i] = x
    <3> TAKE x \in C
    <3>1. x[2] \in D /\ f[x[2]] = x
      BY <2>1
    <3> QED BY <3>1
  <2> HIDE DEF f, C
  <2> QED BY <2>2, <2>3, <2>4 DEF Bijection, Injection, Surjection,
                                    IsInjective
<1>4. IsFiniteSet(D)
  <2>1. IsFiniteSet(Fds)
    BY FS_Interval, FilesAssumption DEF Fds
  <2> QED BY <2>1, FS_Subset
<1>5. Cardinality(D) = Cardinality(C)
  <2> HIDE DEF f, C
  <2>1. ExistsBijection(D, C)
    BY <1>3 DEF ExistsBijection
  <2> QED BY <1>4, <2>1, FS_Bijection
<1>6. Cardinality(A \ C) = Cardinality(A) - Cardinality(A \cap C)
  <2> HIDE DEF C
  <2> QED BY <1>1, <1>2, FS_Difference, ZenonT(60)
<1>7. A \ C = B /\ A \cap C = C
  OBVIOUS
<1>8. Cardinality(B) = Cardinality(A) - Cardinality(C)
  BY <1>6, <1>7, ZenonT(60)
<1> HIDE DEF C, f
<1> QED BY <1>1, <1>2, <1>5, <1>8

-----------------------------------------------------------------------------
(* Pipe records *)

\* The pipe that pipe_release_endpoint leaves behind is in order.
LEMMA UnusedConsistent == Consistent(UnusedPipe) /\ UnusedPipe.readers = 0 /\ UnusedPipe.writers = 0
<1>1. 0 \in Cells /\ 0 % Capacity = 0 /\ 0 \in 0 .. Capacity
  BY CapacityAssumption DEF Cells
<1>2. [c \in Cells |-> 0] \in [Cells -> Byte]
  BY ByteAssumption
<1>3. UnusedPipe \in PipeRecord
  BY <1>1, <1>2 DEF UnusedPipe, PipeRecord
<1> QED BY <1>1, <1>3 DEF UnusedPipe, Consistent

\* Changing the three counters of a pipe leaves it a pipe.
LEMMA Counters ==
    ASSUME NEW pipe \in PipeRecord, NEW n \in Nat, NEW r \in Nat, NEW w \in Nat
    PROVE  [pipe EXCEPT !.refs = n, !.readers = r, !.writers = w] \in PipeRecord
<1> DEFINE a == [pipe EXCEPT !.refs = n]
           b == [a EXCEPT !.readers = r]
           c == [b EXCEPT !.writers = w]
<1>1. a \in PipeRecord
  BY DEF PipeRecord
<1>2. b \in PipeRecord
  <2> HIDE DEF a
  <2> QED BY <1>1 DEF PipeRecord
<1>3. c \in PipeRecord
  <2> HIDE DEF b
  <2> QED BY <1>2 DEF PipeRecord
<1>4. c = [pipe EXCEPT !.refs = n, !.readers = r, !.writers = w]
  OBVIOUS
<1> QED BY <1>3, <1>4

\* pipe_release_endpoint takes off what it is called for.
LEMMA ReleasedPipe ==
    ASSUME NEW pipe, Consistent(pipe), NEW r \in 0 .. pipe.readers,
           NEW w \in 0 .. pipe.writers, NEW after, after = ReleaseEndpoints(pipe, r, w)
    PROVE  /\ Consistent(after)
           /\ after.readers = pipe.readers - r /\ after.writers = pipe.writers - w
           /\ after.readers + after.writers > 0 => SameRing(after, pipe)
           /\ after.readers + after.writers = 0 => after = UnusedPipe
<1>1. /\ pipe \in PipeRecord /\ pipe.refs = pipe.readers + pipe.writers
      /\ pipe.used = "yes" <=> pipe.refs > 0
      /\ pipe.used = "no" => pipe = UnusedPipe
      /\ pipe.write_pos = (pipe.read_pos + pipe.count) % Capacity
  BY DEF Consistent
<1>2. /\ pipe.readers \in Nat /\ pipe.writers \in Nat /\ r \in Nat /\ w \in Nat
      /\ r <= pipe.readers /\ w <= pipe.writers /\ pipe.used \in {"no", "yes"}
  BY <1>1 DEF PipeRecord
<1>3. CASE pipe.used = "no" \/ r + w = 0
  <2>1. after = pipe /\ r = 0 /\ w = 0
    BY <1>1, <1>2, <1>3 DEF ReleaseEndpoints
  <2>2. pipe.readers + pipe.writers = 0 => pipe = UnusedPipe
    BY <1>1, <1>2
  <2> QED BY <1>2, <2>1, <2>2 DEF SameRing
<1>4. CASE ~ (pipe.used = "no" \/ r + w = 0) /\ pipe.refs <= r + w
  <2>1. after = UnusedPipe /\ r = pipe.readers /\ w = pipe.writers
    BY <1>1, <1>2, <1>4 DEF ReleaseEndpoints
  <2> QED BY <1>2, <2>1, UnusedConsistent
<1>5. CASE ~ (pipe.used = "no" \/ r + w = 0) /\ ~ (pipe.refs <= r + w)
  <2>1. after = [pipe EXCEPT !.refs = pipe.refs - (r + w), !.readers = Less(pipe.readers, r),
                             !.writers = Less(pipe.writers, w)]
    BY <1>5 DEF ReleaseEndpoints
  <2>2. Less(pipe.readers, r) = pipe.readers - r /\ Less(pipe.writers, w) = pipe.writers - w
    BY <1>2 DEF Less
  <2>3. /\ after.refs = pipe.refs - (r + w) /\ after.readers = pipe.readers - r
        /\ after.writers = pipe.writers - w /\ after.used = "yes" /\ SameRing(after, pipe)
    BY <1>1, <1>2, <1>5, <2>1, <2>2 DEF PipeRecord, SameRing
  <2>4. after \in PipeRecord
    <3>1. pipe.refs - (r + w) \in Nat /\ pipe.readers - r \in Nat /\ pipe.writers - w \in Nat
      BY <1>1, <1>2, <1>5
    <3>2. after = [pipe EXCEPT !.refs = pipe.refs - (r + w), !.readers = pipe.readers - r,
                               !.writers = pipe.writers - w]
      BY <2>1, <2>2
    <3>3. [pipe EXCEPT !.refs = pipe.refs - (r + w), !.readers = pipe.readers - r,
                       !.writers = pipe.writers - w] \in PipeRecord
      BY <1>1, <3>1, Counters, ZenonT(60)
    <3> QED BY <3>2, <3>3, ZenonT(60)
  <2>5. after.refs = after.readers + after.writers /\ after.refs > 0
    BY <1>1, <1>2, <1>5, <2>3
  <2> QED BY <1>1, <2>3, <2>4, <2>5 DEF Consistent, SameRing
<1> QED BY <1>3, <1>4, <1>5

\* pipe_ref_endpoint on a pipe in use.
LEMMA ReferencedPipe ==
    ASSUME NEW pipe, Consistent(pipe), pipe.used = "yes", NEW r \in Nat, NEW w \in Nat,
           NEW after, after = RefEndpoint(pipe, r, w)
    PROVE  /\ Consistent(after) /\ SameRing(after, pipe)
           /\ after.readers = pipe.readers + r /\ after.writers = pipe.writers + w
<1>1. /\ pipe \in PipeRecord /\ pipe.refs = pipe.readers + pipe.writers
      /\ pipe.refs > 0 /\ pipe.write_pos = (pipe.read_pos + pipe.count) % Capacity
  BY DEF Consistent
<1>2. after = [pipe EXCEPT !.refs = pipe.refs + r + w, !.readers = pipe.readers + r,
                           !.writers = pipe.writers + w]
  BY DEF RefEndpoint
<1>3. /\ after.refs = pipe.refs + r + w /\ after.readers = pipe.readers + r
      /\ after.writers = pipe.writers + w /\ after.used = "yes" /\ SameRing(after, pipe)
  BY <1>1, <1>2 DEF PipeRecord, SameRing
<1>4. after \in PipeRecord
  <2>1. pipe.refs + r + w \in Nat /\ pipe.readers + r \in Nat /\ pipe.writers + w \in Nat
    BY <1>1 DEF PipeRecord
  <2>2. [pipe EXCEPT !.refs = pipe.refs + r + w, !.readers = pipe.readers + r,
                     !.writers = pipe.writers + w] \in PipeRecord
    BY <1>1, <2>1, Counters, ZenonT(60)
  <2> QED BY <1>2, <2>2, ZenonT(60)
<1>5. after.refs = after.readers + after.writers /\ after.refs > 0
  BY <1>1, <1>3 DEF PipeRecord
<1> QED BY <1>1, <1>3, <1>4, <1>5 DEF Consistent, SameRing

-----------------------------------------------------------------------------
(* The ring *)

\* A position in the ring wraps around at most once.
LEMMA Wrap ==
    ASSUME NEW a \in Cells, NEW b \in 0 .. Capacity
    PROVE  /\ (a + b) % Capacity \in Cells
           /\ (a + b) % Capacity = IF a + b < Capacity THEN a + b ELSE a + b - Capacity
<1>1. Capacity \in Nat /\ Capacity > 0 /\ a \in Nat /\ a < Capacity /\ b \in Nat /\ b <= Capacity
  BY CapacityAssumption DEF Cells
<1> DEFINE m == (a + b) % Capacity
           d == (a + b) \div Capacity
<1>2. m \in 0 .. Capacity - 1 /\ d \in Int /\ a + b = Capacity * d + m
  BY <1>1
<1>3. d < 2 /\ d > -1
  BY <1>1, <1>2
<1> QED BY <1>1, <1>2, <1>3 DEF Cells

\* Wrapping half way makes no difference.
LEMMA WrapTwice ==
    ASSUME NEW a \in Cells, NEW m \in Nat, NEW n \in Nat, m + n <= Capacity
    PROVE  (((a + m) % Capacity) + n) % Capacity = (a + (m + n)) % Capacity
<1> DEFINE x == (a + m) % Capacity
           y == (x + n) % Capacity
           z == (a + (m + n)) % Capacity
<1>1. /\ Capacity \in Nat /\ Capacity > 0 /\ a \in Nat /\ a < Capacity
      /\ m \in 0 .. Capacity /\ n \in 0 .. Capacity /\ m + n \in 0 .. Capacity
  BY CapacityAssumption DEF Cells
<1>2. x \in Cells /\ x = IF a + m < Capacity THEN a + m ELSE a + m - Capacity
  BY <1>1, Wrap, ZenonT(60)
<1>3. z = IF a + (m + n) < Capacity THEN a + (m + n) ELSE a + (m + n) - Capacity
  BY <1>1, Wrap
<1> HIDE DEF x
<1>4. y = IF x + n < Capacity THEN x + n ELSE x + n - Capacity
  BY <1>1, <1>2, Wrap
<1> HIDE DEF y, z
<1>5. y = z
  BY <1>1, <1>2, <1>3, <1>4
<1> QED BY <1>5 DEF x, y, z

\* How far cell c lies from write_pos: the byte of a write that goes there.
Place(pipe, c) == ((c + Capacity - pipe.write_pos) % Capacity) + 1

\* The place of a cell behind the write position, without the modulus.
LEMMA PlaceIs ==
    ASSUME NEW pipe, pipe.write_pos \in Cells, NEW c \in Cells
    PROVE  /\ Place(pipe, c) \in Nat /\ Place(pipe, c) >= 1
           /\ Place(pipe, c) = IF c < pipe.write_pos THEN c + Capacity - pipe.write_pos + 1
                                                     ELSE c - pipe.write_pos + 1
<1> DEFINE w == pipe.write_pos
           b == Capacity - w
           m == (c + b) % Capacity
<1>1. /\ w \in Nat /\ w < Capacity /\ c \in Nat /\ c < Capacity /\ Capacity \in Nat
      /\ b \in 0 .. Capacity /\ c + Capacity - w = c + b
  BY CapacityAssumption DEF Cells
<1>2. m = (IF c + b < Capacity THEN c + b ELSE c + b - Capacity) /\ m \in Cells
  <2> HIDE DEF b
  <2> QED BY <1>1, Wrap
<1>3. Place(pipe, c) = m + 1
  BY <1>1 DEF Place
<1> HIDE DEF m
<1> QED BY <1>1, <1>2, <1>3 DEF Cells

\* pipe_read_bytes keeps a pipe consistent.
LEMMA ReadPipeRecord ==
    ASSUME NEW pipe, Consistent(pipe), pipe.used = "yes", NEW len \in Nat,
           NEW n, n = ReadCount(pipe, len), NEW after, after = AfterRead(pipe, len)
    PROVE  /\ n \in 0 .. pipe.count /\ n <= len
           /\ Consistent(after)
           /\ after.readers = pipe.readers /\ after.writers = pipe.writers
           /\ after.read_pos = (pipe.read_pos + n) % Capacity
           /\ after.count = pipe.count - n /\ after.buffer = pipe.buffer
<1>1. /\ pipe \in PipeRecord /\ pipe.refs = pipe.readers + pipe.writers
      /\ pipe.refs > 0 /\ pipe.write_pos = (pipe.read_pos + pipe.count) % Capacity
  BY DEF Consistent
<1>2. pipe.count \in 0 .. Capacity /\ pipe.read_pos \in Cells
  BY <1>1 DEF PipeRecord
<1>3. n \in 0 .. pipe.count /\ n <= len /\ n \in 0 .. Capacity /\ pipe.count - n \in 0 .. Capacity
  BY <1>2, CapacityAssumption DEF ReadCount, Least
<1> DEFINE pos == (pipe.read_pos + n) % Capacity
           a == [pipe EXCEPT !.read_pos = pos]
           b == [a EXCEPT !.count = pipe.count - n]
<1>4. pos \in Cells /\ (pos + (pipe.count - n)) % Capacity = pipe.write_pos
  <2>1. /\ n \in Nat /\ pipe.count - n \in Nat /\ pipe.count = n + (pipe.count - n)
        /\ n + (pipe.count - n) <= Capacity
    BY <1>2, <1>3, CapacityAssumption
  <2>2. (pos + (pipe.count - n)) % Capacity
            = (pipe.read_pos + (n + (pipe.count - n))) % Capacity
    BY <1>2, <2>1, WrapTwice
  <2>3. pos \in Cells
    BY <1>2, <1>3, Wrap
  <2> QED BY <1>1, <2>1, <2>2, <2>3
<1>5. after = b
  BY DEF AfterRead
<1> HIDE DEF pos
<1>6. a \in PipeRecord
  BY <1>1, <1>4 DEF PipeRecord
<1>7. b \in PipeRecord
  <2> HIDE DEF a
  <2> QED BY <1>3, <1>6 DEF PipeRecord
<1>8. /\ b.used = pipe.used /\ b.refs = pipe.refs /\ b.readers = pipe.readers
      /\ b.writers = pipe.writers /\ b.read_pos = pos /\ b.write_pos = pipe.write_pos
      /\ b.count = pipe.count - n /\ b.buffer = pipe.buffer
  BY <1>1 DEF PipeRecord
<1> HIDE DEF b, a
<1>9. Consistent(b)
  BY <1>1, <1>4, <1>7, <1>8 DEF Consistent
<1> QED BY <1>3, <1>5, <1>8, <1>9 DEF pos

\* The buffer with the first n bytes of data written from write_pos on.
Overwritten(pipe, data, n) ==
    [c \in Cells |-> IF Place(pipe, c) <= n THEN data[Place(pipe, c)] ELSE pipe.buffer[c]]

\* pipe_write_bytes keeps a pipe consistent.
LEMMA WritePipeRecord ==
    ASSUME NEW pipe, Consistent(pipe), pipe.used = "yes", NEW data \in Seq(Byte),
           NEW n, n = WriteCount(pipe, data), NEW after, after = AfterWrite(pipe, data)
    PROVE  /\ n \in Nat /\ n <= Len(data) /\ pipe.count + n \in 0 .. Capacity
           /\ Consistent(after)
           /\ after.readers = pipe.readers /\ after.writers = pipe.writers
           /\ after.read_pos = pipe.read_pos /\ after.count = pipe.count + n
           /\ after.buffer = Overwritten(pipe, data, n)
<1>1. /\ pipe \in PipeRecord /\ pipe.refs = pipe.readers + pipe.writers
      /\ pipe.refs > 0 /\ pipe.write_pos = (pipe.read_pos + pipe.count) % Capacity
  BY DEF Consistent
<1>2. /\ pipe.count \in 0 .. Capacity /\ pipe.read_pos \in Cells /\ pipe.write_pos \in Cells
      /\ pipe.buffer \in [Cells -> Byte]
  BY <1>1 DEF PipeRecord
<1>3. /\ n \in Nat /\ n <= Len(data) /\ n \in 0 .. Capacity
      /\ pipe.count + n \in 0 .. Capacity
  BY <1>2, CapacityAssumption DEF WriteCount, Least
<1> DEFINE pos == (pipe.write_pos + n) % Capacity
           buf == [c \in Cells |-> IF Place(pipe, c) <= n
                                   THEN data[Place(pipe, c)] ELSE pipe.buffer[c]]
           a == [pipe EXCEPT !.buffer = buf]
           b == [a EXCEPT !.write_pos = pos]
           d == [b EXCEPT !.count = pipe.count + n]
<1>4. buf \in [Cells -> Byte]
  <2>1. ASSUME NEW c \in Cells, Place(pipe, c) <= n PROVE data[Place(pipe, c)] \in Byte
    <3>1. Place(pipe, c) \in Nat /\ Place(pipe, c) >= 1
      BY <1>2, PlaceIs
    <3>2. Place(pipe, c) \in 1 .. Len(data)
      BY <1>3, <2>1, <3>1
    <3> QED BY <3>2
  <2> QED BY <1>2, <2>1
<1>5. pos \in Cells /\ pos = (pipe.read_pos + (pipe.count + n)) % Capacity
  <2>1. n \in Nat /\ pipe.count \in Nat /\ pipe.count + n <= Capacity
    BY <1>2, <1>3, CapacityAssumption
  <2>2. (pipe.write_pos + n) % Capacity = (pipe.read_pos + (pipe.count + n)) % Capacity
    BY <1>1, <1>2, <2>1, WrapTwice
  <2>3. pos \in Cells
    BY <1>2, <1>3, Wrap
  <2> QED BY <2>2, <2>3
<1>6. after = d
  BY DEF AfterWrite, Place
<1> HIDE DEF pos, buf
<1>7. a \in PipeRecord
  BY <1>1, <1>4 DEF PipeRecord
<1>8. b \in PipeRecord
  <2> HIDE DEF a
  <2> QED BY <1>5, <1>7 DEF PipeRecord
<1>9. d \in PipeRecord
  <2> HIDE DEF b
  <2> QED BY <1>3, <1>8 DEF PipeRecord
<1>10. /\ d.used = pipe.used /\ d.refs = pipe.refs /\ d.readers = pipe.readers
       /\ d.writers = pipe.writers /\ d.read_pos = pipe.read_pos /\ d.write_pos = pos
       /\ d.count = pipe.count + n /\ d.buffer = buf
  BY <1>1 DEF PipeRecord
<1> HIDE DEF d, b, a
<1>11. Consistent(d)
  BY <1>1, <1>5, <1>9, <1>10 DEF Consistent
<1> QED BY <1>3, <1>6, <1>10, <1>11 DEF buf, Overwritten

-----------------------------------------------------------------------------
(* Releasing and referencing *)

\* Who is on an end or on a vnode is a descriptor.
LEMMA AtSubset == \A T, q, end, v : /\ At(T, q, end) \subseteq Procs \X Fds
                                    /\ On(T, v) \subseteq Procs \X Fds
BY DEF At, On

\* Who is on an end or a vnode depends on the kind, object and end of the
\* entries alone.
LEMMA SameAt ==
    ASSUME NEW T, NEW U,
           \A x \in Procs, i \in Fds : /\ U[x][i].kind = T[x][i].kind
                                       /\ U[x][i].obj = T[x][i].obj
                                       /\ U[x][i].end = T[x][i].end
    PROVE  /\ \A q, end : At(U, q, end) = At(T, q, end)
           /\ \A v : On(U, v) = On(T, v)
BY DEF At, On

\* T is the table with the entries S of process p cleared.
IsCleared(T, p, S) ==
    /\ T \in Tables
    /\ \A x \in Procs, i \in Fds :
          T[x][i] = IF x = p /\ i \in S THEN FreeFd ELSE fds[x][i]

\* An entry that fd_clear has cleared is a free entry.
LEMMA FreeIsFree == FreeFd \in FdRecord /\ FreeFd.kind = "free"
BY FilesAssumption DEF FreeFd, FdRecord

\* Closing the entries S of p takes exactly their ends off the pipes
\* (pipe_release_endpoint), and leaves the bytes of a pipe alone that still
\* has an end.
LEMMA ReleasedPipes ==
    ASSUME Inv, NEW p \in Procs, NEW S \in SUBSET Fds, NEW T, IsCleared(T, p, S)
    PROVE  /\ PipesWithout(p, S) \in [Pipes -> PipeRecord]
           /\ PipeBooks(T, PipesWithout(p, S))
           /\ \A q \in Pipes : LET after == PipesWithout(p, S)[q]
                               IN  /\ after.readers <= pipes[q].readers
                                   /\ after.writers <= pipes[q].writers
                                   /\ after.readers + after.writers > 0
                                        => SameRing(after, pipes[q])
<1> DEFINE P == PipesWithout(p, S)
<1>1. ASSUME NEW q \in Pipes, NEW end
      PROVE  /\ EndsIn(p, S, q, end) \in 0 .. Cardinality(At(fds, q, end))
             /\ Cardinality(At(T, q, end))
                  = Cardinality(At(fds, q, end)) - EndsIn(p, S, q, end)
  <2> DEFINE A == At(fds, q, end)
             D == {i \in S : /\ fds[p][i].kind = "pipe" /\ fds[p][i].obj = q
                             /\ fds[p][i].end = end}
             B == At(T, q, end)
  <2>1. D \subseteq S /\ \A i \in S : i \in D <=> <<p, i>> \in A
    BY DEF At
  <2>2. B \subseteq A /\ \A x \in A : x \in B <=> ~ (x[1] = p /\ x[2] \in S)
    <3>1. \A x \in Procs \X Fds : /\ x[1] \in Procs /\ x[2] \in Fds
                                  /\ T[x[1]][x[2]] = IF x[1] = p /\ x[2] \in S
                                                     THEN FreeFd ELSE fds[x[1]][x[2]]
      BY DEF IsCleared
    <3> QED BY <3>1, FreeIsFree DEF At
  <2>3. EndsIn(p, S, q, end) = Cardinality(D)
    BY DEF EndsIn
  <2>4. A \subseteq Procs \X Fds
    BY AtSubset
  <2> HIDE DEF A, D, B
  <2>5. /\ Cardinality(D) \in 0 .. Cardinality(A)
        /\ Cardinality(B) = Cardinality(A) - Cardinality(D)
    <3>1. Splits(A, p, S, D, B)
      BY <2>1, <2>2, <2>4 DEF Splits
    <3> QED BY <3>1, CountCleared
  <2> QED BY <2>3, <2>5 DEF A, B
<1>2. ASSUME NEW q \in Pipes
      PROVE  /\ Consistent(P[q])
             /\ P[q].readers = Cardinality(At(T, q, "r"))
             /\ P[q].writers = Cardinality(At(T, q, "w"))
             /\ P[q].readers <= pipes[q].readers /\ P[q].writers <= pipes[q].writers
             /\ P[q].readers + P[q].writers > 0 => SameRing(P[q], pipes[q])
  <2> DEFINE r == EndsIn(p, S, q, "r")
             w == EndsIn(p, S, q, "w")
             after == P[q]
  <2>1. after = ReleaseEndpoints(pipes[q], r, w)
    BY DEF PipesWithout
  <2>2. /\ Consistent(pipes[q]) /\ pipes[q].readers = Cardinality(At(fds, q, "r"))
        /\ pipes[q].writers = Cardinality(At(fds, q, "w"))
    BY DEF Inv, PipeBooks
  <2>3. /\ r \in 0 .. pipes[q].readers /\ w \in 0 .. pipes[q].writers
        /\ Cardinality(At(T, q, "r")) = pipes[q].readers - r
        /\ Cardinality(At(T, q, "w")) = pipes[q].writers - w
    BY <1>1, <2>2
  <2>4. pipes[q].readers \in Nat /\ pipes[q].writers \in Nat
    BY <2>2 DEF Consistent, PipeRecord
  <2> HIDE DEF after, r, w
  <2>5. /\ Consistent(after)
        /\ after.readers = pipes[q].readers - r /\ after.writers = pipes[q].writers - w
        /\ after.readers + after.writers > 0 => SameRing(after, pipes[q])
    BY <2>1, <2>2, <2>3, ReleasedPipe
  <2>6. after.readers <= pipes[q].readers /\ after.writers <= pipes[q].writers
    BY <2>3, <2>4, <2>5
  <2> QED BY <2>3, <2>5, <2>6 DEF after
<1>3. P \in [Pipes -> PipeRecord]
  <2>1. P = [q \in Pipes |-> P[q]]
    BY DEF PipesWithout
  <2> HIDE DEF P
  <2> QED BY <1>2, <2>1 DEF Consistent
<1> HIDE DEF P
<1>4. PipeBooks(T, P)
  BY <1>2 DEF PipeBooks
<1> QED BY <1>2, <1>3, <1>4 DEF P

\* Closing the entries S of p takes exactly their references off the vnodes
\* (vfs_put).
LEMMA ReleasedVnodes ==
    ASSUME Inv, NEW p \in Procs, NEW S \in SUBSET Fds, NEW T, IsCleared(T, p, S)
    PROVE  /\ VnodesWithout(p, S) \in [Vnodes -> VnodeRecord]
           /\ VnodeBooks(T, VnodesWithout(p, S))
           /\ \A v \in Vnodes : VnodesWithout(p, S)[v].refs <= vnodes[v].refs
<1> DEFINE V == VnodesWithout(p, S)
<1>1. ASSUME NEW v \in Vnodes
      PROVE  /\ VnodesIn(p, S, v) \in 0 .. vnodes[v].refs
             /\ Cardinality(On(T, v)) = vnodes[v].refs - VnodesIn(p, S, v)
  <2> DEFINE A == On(fds, v)
             D == {i \in S : fds[p][i].kind = "file" /\ fds[p][i].obj = v}
             B == On(T, v)
  <2>1. D \subseteq S /\ \A i \in S : i \in D <=> <<p, i>> \in A
    BY DEF On
  <2>2. B \subseteq A /\ \A x \in A : x \in B <=> ~ (x[1] = p /\ x[2] \in S)
    <3>1. \A x \in Procs \X Fds : /\ x[1] \in Procs /\ x[2] \in Fds
                                  /\ T[x[1]][x[2]] = IF x[1] = p /\ x[2] \in S
                                                     THEN FreeFd ELSE fds[x[1]][x[2]]
      BY DEF IsCleared
    <3> QED BY <3>1, FreeIsFree DEF On
  <2>3. VnodesIn(p, S, v) = Cardinality(D)
    BY DEF VnodesIn
  <2>4. A \subseteq Procs \X Fds /\ vnodes[v].refs = Cardinality(A)
    BY AtSubset DEF Inv, VnodeBooks
  <2> HIDE DEF A, D, B
  <2>5. /\ Cardinality(D) \in 0 .. Cardinality(A)
        /\ Cardinality(B) = Cardinality(A) - Cardinality(D)
    <3>1. Splits(A, p, S, D, B)
      BY <2>1, <2>2, <2>4 DEF Splits
    <3> QED BY <3>1, CountCleared
  <2> QED BY <2>3, <2>4, <2>5 DEF B
<1>2. ASSUME NEW v \in Vnodes
      PROVE  V[v] \in VnodeRecord /\ V[v].refs = vnodes[v].refs - VnodesIn(p, S, v)
  <2> DEFINE k == VnodesIn(p, S, v)
  <2>1. V[v] = Put(vnodes[v], k)
    BY DEF VnodesWithout
  <2>2. vnodes[v] \in VnodeRecord /\ vnodes[v].refs \in Nat
    BY DEF Inv, FilesTypeOK, VnodeRecord
  <2>3. k \in Nat /\ k <= vnodes[v].refs
    BY <1>1, <2>2
  <2>4. FreeVnode \in VnodeRecord /\ FreeVnode.refs = 0
    BY FilesAssumption DEF FreeVnode, VnodeRecord
  <2> HIDE DEF k
  <2>5. CASE k = 0
    BY <2>1, <2>2, <2>5 DEF Put, k
  <2>6. CASE k # 0 /\ k < vnodes[v].refs
    <3>1. V[v] = [vnodes[v] EXCEPT !.refs = vnodes[v].refs - k]
      BY <2>1, <2>6 DEF Put
    <3>2. vnodes[v].refs - k \in Nat
      BY <2>2, <2>3, <2>6
    <3> QED BY <2>2, <3>1, <3>2 DEF VnodeRecord, k
  <2>7. CASE k # 0 /\ ~ (k < vnodes[v].refs)
    <3>1. V[v] = FreeVnode /\ vnodes[v].refs = k
      BY <2>1, <2>2, <2>3, <2>7 DEF Put
    <3> QED BY <2>2, <2>4, <3>1 DEF k
  <2> QED BY <2>5, <2>6, <2>7
<1>3. V \in [Vnodes -> VnodeRecord]
  <2>1. V = [v \in Vnodes |-> V[v]]
    BY DEF VnodesWithout
  <2> HIDE DEF V
  <2> QED BY <1>2, <2>1
<1>4. \A v \in Vnodes : V[v].refs <= vnodes[v].refs
  <2>1. \A v \in Vnodes : vnodes[v].refs \in Nat
    BY DEF Inv, FilesTypeOK, VnodeRecord
  <2> HIDE DEF V
  <2> QED BY <1>1, <1>2, <2>1
<1> HIDE DEF V
<1>5. VnodeBooks(T, V)
  BY <1>1, <1>2 DEF VnodeBooks
<1> QED BY <1>3, <1>4, <1>5 DEF V

\* U is the table T with e put into the free entry i of process p.
IsFilled(U, T, p, i, e) ==
    /\ U \in Tables
    /\ T[p][i].kind = "free"
    /\ \A x \in Procs, j \in Fds : U[x][j] = IF x = p /\ j = i THEN e ELSE T[x][j]

\* U has one entry more than T on the object of e, and as many on the others.
CountsOneMore(U, T, e) ==
    /\ \A q, end : Cardinality(At(U, q, end)) =
          IF e.kind = "pipe" /\ e.obj = q /\ e.end = end
          THEN Cardinality(At(T, q, end)) + 1 ELSE Cardinality(At(T, q, end))
    /\ \A v : Cardinality(On(U, v)) =
          IF e.kind = "file" /\ e.obj = v
          THEN Cardinality(On(T, v)) + 1 ELSE Cardinality(On(T, v))

\* Filling a free entry adds one descriptor to its end or vnode, and to no
\* other.
LEMMA FilledAt ==
    ASSUME NEW U, NEW T, NEW p \in Procs, NEW i \in Fds, NEW e, IsFilled(U, T, p, i, e)
    PROVE  CountsOneMore(U, T, e)
<1>1. /\ <<p, i>> \in Procs \X Fds
      /\ \A q, end : <<p, i>> \notin At(T, q, end)
      /\ \A v : <<p, i>> \notin On(T, v)
  BY DEF IsFilled, At, On
<1>2. \A x \in Procs \X Fds : /\ x[1] \in Procs /\ x[2] \in Fds /\ x = <<x[1], x[2]>>
                              /\ U[x[1]][x[2]] = IF x[1] = p /\ x[2] = i
                                                 THEN e ELSE T[x[1]][x[2]]
  BY DEF IsFilled
<1>3. ASSUME NEW q, NEW end
      PROVE  At(U, q, end) = IF e.kind = "pipe" /\ e.obj = q /\ e.end = end
                             THEN At(T, q, end) \cup {<<p, i>>} ELSE At(T, q, end)
  BY <1>1, <1>2 DEF At
<1>4. ASSUME NEW v
      PROVE  On(U, v) = IF e.kind = "file" /\ e.obj = v
                        THEN On(T, v) \cup {<<p, i>>} ELSE On(T, v)
  BY <1>1, <1>2 DEF On
<1>5. ASSUME NEW A, A \subseteq Procs \X Fds, <<p, i>> \notin A
      PROVE  Cardinality(A \cup {<<p, i>>}) = Cardinality(A) + 1
  BY <1>1, <1>5, CountAdded
<1>6. ASSUME NEW q, NEW end
      PROVE  Cardinality(At(U, q, end)) =
                 IF e.kind = "pipe" /\ e.obj = q /\ e.end = end
                 THEN Cardinality(At(T, q, end)) + 1 ELSE Cardinality(At(T, q, end))
  BY <1>1, <1>3, <1>5, AtSubset
<1>7. ASSUME NEW v
      PROVE  Cardinality(On(U, v)) =
                 IF e.kind = "file" /\ e.obj = v
                 THEN Cardinality(On(T, v)) + 1 ELSE Cardinality(On(T, v))
  BY <1>1, <1>4, <1>5, AtSubset
<1> QED BY <1>6, <1>7 DEF CountsOneMore

\* A further reference to an object that is referred to already.
LEMMA Referenced ==
    ASSUME NEW T, NEW P \in [Pipes -> PipeRecord], NEW V \in [Vnodes -> VnodeRecord],
           PipeBooks(T, P), VnodeBooks(T, V),
           NEW p \in Procs, NEW i \in Fds, NEW e \in FdRecord, EntryOK(e),
           e.kind = "pipe" => P[e.obj].used = "yes",
           e.kind = "file" => V[e.obj].refs > 0,
           NEW U, IsFilled(U, T, p, i, e)
    PROVE  /\ PipesWith(P, e) \in [Pipes -> PipeRecord] /\ PipeBooks(U, PipesWith(P, e))
           /\ VnodesWith(V, e) \in [Vnodes -> VnodeRecord] /\ VnodeBooks(U, VnodesWith(V, e))
           /\ \A q \in Pipes : SameRing(PipesWith(P, e)[q], P[q])
<1> DEFINE Q == PipesWith(P, e)
           W == VnodesWith(V, e)
<1>0. CountsOneMore(U, T, e)
  BY FilledAt
<1>1. ASSUME NEW q \in Pipes
      PROVE  /\ Consistent(Q[q]) /\ SameRing(Q[q], P[q])
             /\ Q[q].readers = Cardinality(At(U, q, "r"))
             /\ Q[q].writers = Cardinality(At(U, q, "w"))
  <2>1. /\ Consistent(P[q]) /\ P[q].readers = Cardinality(At(T, q, "r"))
        /\ P[q].writers = Cardinality(At(T, q, "w"))
    BY DEF PipeBooks
  <2>2. CASE e.kind # "pipe" \/ e.obj # q
    <3>1. Q[q] = P[q]
      BY <2>2 DEF PipesWith
    <3>2. /\ Cardinality(At(U, q, "r")) = Cardinality(At(T, q, "r"))
          /\ Cardinality(At(U, q, "w")) = Cardinality(At(T, q, "w"))
      BY <1>0, <2>2 DEF CountsOneMore
    <3> QED BY <2>1, <3>1, <3>2 DEF SameRing
  <2>3. CASE e.kind = "pipe" /\ e.obj = q
    <3> DEFINE r == IF e.end = "r" THEN 1 ELSE 0
               w == IF e.end = "w" THEN 1 ELSE 0
               after == Q[q]
    <3>1. after = RefEndpoint(P[q], r, w)
      BY <2>3 DEF PipesWith
    <3>2. /\ Cardinality(At(U, q, "r")) = Cardinality(At(T, q, "r")) + r
          /\ Cardinality(At(U, q, "w")) = Cardinality(At(T, q, "w")) + w
      <4>1. Cardinality(At(T, q, "r")) \in Nat /\ Cardinality(At(T, q, "w")) \in Nat
        BY Counted, AtSubset, ZenonT(60)
      <4> QED BY <1>0, <2>3, <4>1 DEF CountsOneMore
    <3>3. r \in Nat /\ w \in Nat /\ P[q].used = "yes"
      BY <2>3
    <3> HIDE DEF after, r, w
    <3>4. /\ Consistent(after) /\ SameRing(after, P[q])
          /\ after.readers = P[q].readers + r /\ after.writers = P[q].writers + w
      BY <2>1, <3>1, <3>3, ReferencedPipe
    <3> QED BY <2>1, <3>2, <3>4 DEF after
  <2> QED BY <2>2, <2>3
<1>2. Q \in [Pipes -> PipeRecord]
  <2>1. Q = [q \in Pipes |-> Q[q]]
    BY ZenonT(60) DEF PipesWith
  <2> HIDE DEF Q
  <2> QED BY <1>1, <2>1 DEF Consistent
<1>3. ASSUME NEW v \in Vnodes
      PROVE  W[v] \in VnodeRecord /\ W[v].refs = Cardinality(On(U, v))
  <2>1. V[v].refs = Cardinality(On(T, v)) /\ V[v] \in VnodeRecord
    BY DEF VnodeBooks
  <2>2. CASE e.kind # "file" \/ e.obj # v
    <3>1. W[v] = V[v]
      BY <2>2 DEF VnodesWith
    <3> QED BY <1>0, <2>1, <2>2, <3>1 DEF CountsOneMore
  <2>3. CASE e.kind = "file" /\ e.obj = v
    <3>1. W[v] = [V[v] EXCEPT !.refs = V[v].refs + 1]
      BY <2>1, <2>3 DEF VnodesWith, Get, VnodeRecord
    <3>2. W[v] \in VnodeRecord /\ W[v].refs = V[v].refs + 1
      BY <2>1, <3>1 DEF VnodeRecord
    <3> QED BY <1>0, <2>1, <2>3, <3>2 DEF CountsOneMore
  <2> QED BY <2>2, <2>3
<1>4. W \in [Vnodes -> VnodeRecord]
  <2>1. W = [v \in Vnodes |-> W[v]]
    BY ZenonT(60) DEF VnodesWith
  <2> HIDE DEF W
  <2> QED BY <1>3, <2>1
<1> HIDE DEF Q, W
<1> QED BY <1>1, <1>2, <1>3, <1>4 DEF Q, W, PipeBooks, VnodeBooks

-----------------------------------------------------------------------------
(* The steps *)

\* The parts of the invariant that say what the tables hold.
LEMMA TableTypes ==
    ASSUME Inv
    PROVE  /\ fds \in Tables /\ pipes \in [Pipes -> PipeRecord]
           /\ vnodes \in [Vnodes -> VnodeRecord]
           /\ \A p \in Procs, i \in Fds : fds[p][i] \in FdRecord /\ EntryOK(fds[p][i])
BY DEF Inv, FilesTypeOK, Tables, Entries

\* The types of the counters and of the sizes.
LEMMA CounterTypes ==
    ASSUME Inv
    PROVE  /\ next_id \in 1 .. MaxDesc + 1 /\ fsize \in [File -> Absent .. MaxOffset]
           /\ state \in [Procs -> {"none", "live", "zombie"}]
BY DEF Inv, FilesTypeOK

\* What descriptors of files that share a vnode have in common.
LEMMA Sharers ==
    ASSUME Inv, NEW x \in Procs, NEW y \in Procs, NEW k \in Fds, NEW l \in Fds,
           fds[x][k].kind = "file", fds[y][l].kind = "file"
    PROVE  /\ fds[x][k].obj = fds[y][l].obj <=> x = y /\ fds[x][k].desc = fds[y][l].desc
           /\ fds[x][k].obj = fds[y][l].obj => fds[x][k] = fds[y][l]
<1>1. DescriptionsShared
  BY DEF Inv
<1> QED BY <1>1 DEF DescriptionsShared

\* A step after which a process holds no file it did not hold before.
LEMMA SharedFrom ==
    ASSUME Inv, \A x \in Procs, k \in Fds : fds'[x][k].kind = "file" =>
                    \E m \in Fds : fds'[x][k] = fds[x][m]
    PROVE  DescriptionsShared'
<1> SUFFICES ASSUME NEW x \in Procs, NEW y \in Procs, NEW k \in Fds, NEW l \in Fds,
                    fds'[x][k].kind = "file", fds'[y][l].kind = "file"
             PROVE  /\ fds'[x][k].obj = fds'[y][l].obj
                         <=> x = y /\ fds'[x][k].desc = fds'[y][l].desc
                    /\ fds'[x][k].obj = fds'[y][l].obj => fds'[x][k] = fds'[y][l]
  BY DEF DescriptionsShared
<1>1. PICK m \in Fds : fds'[x][k] = fds[x][m]
  OBVIOUS
<1>2. PICK n \in Fds : fds'[y][l] = fds[y][n]
  OBVIOUS
<1>3. fds[x][m].kind = "file" /\ fds[y][n].kind = "file"
  BY <1>1, <1>2
<1>4. /\ fds[x][m].obj = fds[y][n].obj <=> x = y /\ fds[x][m].desc = fds[y][n].desc
      /\ fds[x][m].obj = fds[y][n].obj => fds[x][m] = fds[y][n]
  BY <1>3, Sharers
<1> QED BY <1>1, <1>2, <1>4

\* The invariant holds initially.
LEMMA InitInv == FilesInit => Inv
<1> SUFFICES ASSUME FilesInit PROVE Inv
  OBVIOUS
<1>1. \A p \in Procs, i \in Fds : fds[p][i] = FreeFd
  BY DEF FilesInit
<1>2. FreeVnode \in VnodeRecord /\ FreeVnode.refs = 0
  BY FilesAssumption DEF FreeVnode, VnodeRecord
<1>3. FilesTypeOK
  <2>1. UnusedPipe \in PipeRecord
    BY UnusedConsistent DEF Consistent
  <2>2. fsize \in [File -> Absent .. MaxOffset] /\ next_id \in 1 .. MaxDesc + 1
    BY FilesAssumption DEF FilesInit, Absent
  <2> QED BY <1>2, <2>1, <2>2, FreeIsFree DEF FilesInit, FilesTypeOK
<1>4. Entries /\ EndedHoldNothing /\ DescriptionsShared
  BY <1>1, FreeIsFree DEF Entries, EntryOK, EndedHoldNothing, DescriptionsShared
<1>5. /\ \A q, end : At(fds, q, end) = {}
      /\ \A v : On(fds, v) = {}
  BY <1>1, FreeIsFree DEF At, On
<1>6. PipeBooks(fds, pipes)
  BY <1>5, UnusedConsistent, FS_EmptySet, ZenonT(60) DEF PipeBooks, FilesInit
<1>7. VnodeBooks(fds, vnodes)
  BY <1>2, <1>5, FS_EmptySet, ZenonT(60) DEF VnodeBooks, FilesInit
<1> QED BY <1>3, <1>4, <1>6, <1>7 DEF Inv

\* Descriptors come and go, and no end that was closed opens again; a pipe that
\* still has descriptors keeps its bytes.
MovesEnds ==
    \A q \in Pipes :
        /\ pipes[q].readers = 0 => pipes'[q].readers = 0
        /\ pipes[q].writers = 0 => pipes'[q].writers = 0
        /\ pipes'[q].readers + pipes'[q].writers > 0 => SameRing(pipes'[q], pipes[q])

\* Closing descriptors: close, exit and destroy.
LEMMA ClearInv ==
    ASSUME Inv, NEW p \in Procs, NEW S \in SUBSET Fds, Clear(p, S),
           state' \in [Procs -> {"none", "live", "zombie"}],
           \A x \in Procs : state'[x] # "live" => state[x] # "live" \/ (x = p /\ S = Fds),
           fsize' = fsize, next_id' = next_id
    PROVE  Inv' /\ MovesEnds
<1>1. /\ fds' = [fds EXCEPT ![p] = [i \in Fds |-> IF i \in S THEN FreeFd ELSE fds[p][i]]]
      /\ pipes' = PipesWithout(p, S) /\ vnodes' = VnodesWithout(p, S)
  BY DEF Clear
<1>2. /\ fds' \in Tables
      /\ \A x \in Procs, i \in Fds :
            fds'[x][i] = IF x = p /\ i \in S THEN FreeFd ELSE fds[x][i]
  BY <1>1, TableTypes, FreeIsFree DEF Tables
<1>3. IsCleared(fds', p, S)
  BY <1>2 DEF IsCleared
<1>4. pipes' \in [Pipes -> PipeRecord] /\ PipeBooks(fds', pipes')
  BY <1>1, <1>3, ReleasedPipes
<1>5. vnodes' \in [Vnodes -> VnodeRecord] /\ VnodeBooks(fds', vnodes')
  BY <1>1, <1>3, ReleasedVnodes
<1>6. FilesTypeOK'
  BY <1>2, <1>4, <1>5 DEF Inv, FilesTypeOK, Tables
<1>7. Entries'
  BY <1>2, FreeIsFree DEF Inv, Entries, EntryOK
<1>8. EndedHoldNothing'
  BY <1>2, FreeIsFree DEF Inv, EndedHoldNothing
<1>9. DescriptionsShared'
  BY <1>2, FreeIsFree DEF Inv, DescriptionsShared
<1>10. MovesEnds
  <2>1. \A q \in Pipes : /\ pipes'[q].readers <= pipes[q].readers
                         /\ pipes'[q].writers <= pipes[q].writers
                         /\ pipes'[q].readers + pipes'[q].writers > 0
                              => SameRing(pipes'[q], pipes[q])
    BY <1>1, <1>3, ReleasedPipes
  <2>2. \A q \in Pipes : pipes'[q].readers \in Nat /\ pipes'[q].writers \in Nat
    BY <1>4 DEF PipeRecord
  <2> QED BY <2>1, <2>2 DEF MovesEnds
<1> QED BY <1>4, <1>5, <1>6, <1>7, <1>8, <1>9, <1>10 DEF Inv

\* A live process duplicates descriptor i, or the console, onto j.
LEMMA InstallInv ==
    ASSUME Inv, NEW p \in Procs, NEW i \in Fds, NEW j \in Fds, Running(p),
           HasSource(p, i), i # j \/ fds[p][i].kind = "free",
           InstallCopy(p, j, SourceOf(p, i)),
           state' = state, fsize' = fsize, next_id' = next_id
    PROVE  Inv' /\ MovesEnds
<1> DEFINE e == SourceOf(p, i)
           T == [fds EXCEPT ![p] = [fds[p] EXCEPT ![j] = FreeFd]]
           P == PipesWithout(p, {j})
           V == VnodesWithout(p, {j})
<1>1. /\ fds' = [fds EXCEPT ![p] = [fds[p] EXCEPT ![j] = e]]
      /\ pipes' = PipesWith(P, e) /\ vnodes' = VnodesWith(V, e)
  BY DEF InstallCopy
<1>2. /\ e \in FdRecord /\ EntryOK(e)
      /\ e.kind \in {"pipe", "file"} => e = fds[p][i] /\ i # j
  <2>1. CASE fds[p][i].kind # "free"
    <3>1. e = fds[p][i]
      BY <2>1 DEF SourceOf
    <3> QED BY <2>1, <3>1, TableTypes
  <2>2. CASE fds[p][i].kind = "free"
    <3>1. e = ConsoleFd(i)
      BY <2>2 DEF SourceOf
    <3>2. ConsoleFd(i) \in FdRecord /\ ConsoleFd(i).kind = "console"
      BY FilesAssumption DEF ConsoleFd, FdRecord, Fds
    <3> QED BY <3>1, <3>2 DEF EntryOK
  <2> QED BY <2>1, <2>2
<1> HIDE DEF e
<1>3. /\ T \in Tables /\ T[p][j].kind = "free"
      /\ \A x \in Procs, k \in Fds : T[x][k] = IF x = p /\ k \in {j} THEN FreeFd ELSE fds[x][k]
  BY TableTypes, FreeIsFree DEF Tables
<1>4. /\ fds' \in Tables
      /\ \A x \in Procs, k \in Fds : fds'[x][k] = IF x = p /\ k = j THEN e ELSE fds[x][k]
  BY <1>1, <1>2, TableTypes DEF Tables
<1> HIDE DEF T
<1>5. IsCleared(T, p, {j})
  BY <1>3 DEF IsCleared
<1>6. IsFilled(fds', T, p, j, e)
  BY <1>3, <1>4 DEF IsFilled
<1>7. /\ P \in [Pipes -> PipeRecord] /\ PipeBooks(T, P)
      /\ V \in [Vnodes -> VnodeRecord] /\ VnodeBooks(T, V)
  <2>1. {j} \in SUBSET Fds
    OBVIOUS
  <2> QED BY <1>5, <2>1, ReleasedPipes, ReleasedVnodes, ZenonT(60)
<1> HIDE DEF P, V
<1>8. e.kind = "pipe" => P[e.obj].used = "yes"
  <2> SUFFICES ASSUME e.kind = "pipe" PROVE P[e.obj].used = "yes"
    OBVIOUS
  <2>1. e.obj \in Pipes /\ e.end \in {"r", "w"} /\ <<p, i>> \in At(T, e.obj, e.end)
    BY <1>2, <1>3 DEF EntryOK, At
  <2>2. Cardinality(At(T, e.obj, e.end)) # 0
    BY <2>1, Counted, AtSubset, ZenonT(60)
  <2>3. /\ Consistent(P[e.obj]) /\ (P[e.obj].readers # 0 \/ P[e.obj].writers # 0)
    BY <1>7, <2>1, <2>2, ZenonT(60) DEF PipeBooks
  <2>4. /\ P[e.obj].readers \in Nat /\ P[e.obj].writers \in Nat
        /\ P[e.obj].refs = P[e.obj].readers + P[e.obj].writers
        /\ P[e.obj].used = "yes" <=> P[e.obj].refs > 0
    BY <2>3, ZenonT(60) DEF Consistent, PipeRecord
  <2> QED BY <2>3, <2>4
<1>9. e.kind = "file" => V[e.obj].refs > 0
  <2> SUFFICES ASSUME e.kind = "file" PROVE V[e.obj].refs > 0
    OBVIOUS
  <2>1. e.obj \in Vnodes /\ <<p, i>> \in On(T, e.obj)
    BY <1>2, <1>3 DEF EntryOK, On
  <2>2. Cardinality(On(T, e.obj)) # 0 /\ Cardinality(On(T, e.obj)) \in Nat
    BY <2>1, Counted, AtSubset, ZenonT(60)
  <2> QED BY <1>7, <2>1, <2>2 DEF VnodeBooks
<1>10. /\ pipes' \in [Pipes -> PipeRecord] /\ PipeBooks(fds', pipes')
       /\ vnodes' \in [Vnodes -> VnodeRecord] /\ VnodeBooks(fds', vnodes')
  BY <1>1, <1>2, <1>6, <1>7, <1>8, <1>9, Referenced
<1>11. FilesTypeOK'
  BY <1>4, <1>10 DEF Inv, FilesTypeOK, Tables
<1>12. Entries'
  <2>1. Entries
    BY ZenonT(60) DEF Inv
  <2> QED BY <1>2, <1>4, <2>1 DEF Entries
<1>13. EndedHoldNothing'
  <2>1. EndedHoldNothing
    BY DEF Inv
  <2> QED BY <1>4, <2>1 DEF EndedHoldNothing, Running
<1>14. DescriptionsShared'
  <2>1. \A x \in Procs, k \in Fds : fds'[x][k].kind = "file" =>
            \E m \in Fds : fds'[x][k] = fds[x][m]
    BY <1>2, <1>4
  <2> QED BY <2>1, SharedFrom
<1>15. MovesEnds
  <2> SUFFICES ASSUME NEW q \in Pipes
               PROVE  /\ pipes[q].readers = 0 => pipes'[q].readers = 0
                      /\ pipes[q].writers = 0 => pipes'[q].writers = 0
                      /\ pipes'[q].readers + pipes'[q].writers > 0
                           => SameRing(pipes'[q], pipes[q])
    BY DEF MovesEnds
  <2>1. ASSUME NEW end, Cardinality(At(fds, q, end)) = 0
        PROVE  Cardinality(At(fds', q, end)) = 0
    <3>1. At(fds, q, end) = {}
      BY <2>1, Counted, AtSubset, ZenonT(60)
    <3>2. \A x \in Procs, k \in Fds :
             ~ (fds[x][k].kind = "pipe" /\ fds[x][k].obj = q /\ fds[x][k].end = end)
      <4> SUFFICES ASSUME NEW x \in Procs, NEW k \in Fds, fds[x][k].kind = "pipe",
                          fds[x][k].obj = q, fds[x][k].end = end
                   PROVE  FALSE
        OBVIOUS
      <4>1. <<x, k>> \in At(fds, q, end)
        BY DEF At
      <4> QED BY <3>1, <4>1
    <3>3. \A x \in Procs, k \in Fds :
             ~ (fds'[x][k].kind = "pipe" /\ fds'[x][k].obj = q /\ fds'[x][k].end = end)
      BY <1>2, <1>4, <3>2
    <3>4. At(fds', q, end) = {}
      BY <3>3 DEF At
    <3> QED BY <3>4, FS_EmptySet
  <2>2. /\ pipes[q].readers = 0 => pipes'[q].readers = 0
        /\ pipes[q].writers = 0 => pipes'[q].writers = 0
    BY <1>10, <2>1, ZenonT(60) DEF Inv, PipeBooks
  <2>3. ASSUME pipes'[q].readers + pipes'[q].writers > 0
        PROVE  SameRing(pipes'[q], pipes[q])
    <3>1. SameRing(pipes'[q], P[q])
      BY <1>1, <1>2, <1>6, <1>7, <1>8, <1>9, Referenced
    <3>2. P[q].readers + P[q].writers > 0
      <4>1. CASE e.kind = "pipe" /\ e.obj = q
        BY <1>7, <1>8, <4>1 DEF PipeBooks, Consistent
      <4>2. CASE ~ (e.kind = "pipe" /\ e.obj = q)
        <5>1. pipes'[q] = P[q]
          BY <1>1, <1>7, <4>2 DEF PipesWith
        <5> QED BY <2>3, <5>1
      <4> QED BY <4>1, <4>2
    <3>3. SameRing(P[q], pipes[q])
      <4>1. {j} \in SUBSET Fds
        OBVIOUS
      <4> QED BY <1>5, <3>2, <4>1, ReleasedPipes DEF P
    <3> QED BY <3>1, <3>3 DEF SameRing
  <2> QED BY <2>2, <2>3
<1> QED BY <1>10, <1>11, <1>12, <1>13, <1>14, <1>15, ZenonT(60) DEF Inv

\* A step that leaves every descriptor on its object.
LEMMA EditedInv ==
    ASSUME Inv, fds' \in Tables, DescriptionsShared',
           \A x \in Procs, i \in Fds : /\ fds'[x][i].kind = fds[x][i].kind
                                       /\ fds'[x][i].obj = fds[x][i].obj
                                       /\ fds'[x][i].end = fds[x][i].end
                                       /\ fds'[x][i].desc = fds[x][i].desc,
           pipes' \in [Pipes -> PipeRecord],
           \A q \in Pipes : /\ Consistent(pipes'[q])
                            /\ pipes'[q].readers = pipes[q].readers
                            /\ pipes'[q].writers = pipes[q].writers,
           vnodes' \in [Vnodes -> VnodeRecord],
           \A v \in Vnodes : vnodes'[v].refs = vnodes[v].refs,
           fsize' \in [File -> Absent .. MaxOffset], next_id' = next_id, state' = state
    PROVE  Inv'
<1>1. /\ \A q, end : At(fds', q, end) = At(fds, q, end)
      /\ \A v : On(fds', v) = On(fds, v)
  BY DEF At, On
<1>2. PipeBooks(fds', pipes')
  <2>1. PipeBooks(fds, pipes)
    BY DEF Inv
  <2> QED BY <1>1, <2>1 DEF PipeBooks
<1>3. VnodeBooks(fds', vnodes')
  <2>1. VnodeBooks(fds, vnodes)
    BY ZenonT(60) DEF Inv
  <2> QED BY <1>1, <2>1, ZenonT(60) DEF VnodeBooks
<1>4. FilesTypeOK'
  BY DEF Inv, FilesTypeOK, Tables
<1>5. Entries' /\ EndedHoldNothing'
  <2>1. Entries /\ EndedHoldNothing
    BY ZenonT(60) DEF Inv
  <2>2. ASSUME NEW x \in Procs, NEW i \in Fds
        PROVE  /\ EntryOK(fds'[x][i])
               /\ fds'[x][i].kind = "file" => fds'[x][i].desc < next_id'
    <3>1. /\ fds'[x][i].kind = fds[x][i].kind /\ fds'[x][i].obj = fds[x][i].obj
          /\ fds'[x][i].end = fds[x][i].end /\ fds'[x][i].desc = fds[x][i].desc
      BY <2>2, ZenonT(60)
    <3>2. EntryOK(fds[x][i]) /\ (fds[x][i].kind = "file" => fds[x][i].desc < next_id)
      BY <2>1, <2>2, ZenonT(60) DEF Entries
    <3> QED BY <3>1, <3>2, ZenonT(60) DEF EntryOK
  <2>3. Entries'
    BY <2>2, ZenonT(60) DEF Entries
  <2>4. EndedHoldNothing'
    BY <2>1, ZenonT(60) DEF EndedHoldNothing
  <2> QED BY <2>3, <2>4
<1> QED BY <1>2, <1>3, <1>4, <1>5 DEF Inv

\* process_fd_sync_offset and process_fd_sync_flags reach every descriptor of
\* the description.
LEMMA SyncShared ==
    ASSUME Inv, NEW p \in Procs, NEW i \in Fds, fds[p][i].kind = "file",
           \/ \E offset \in 0 .. MaxOffset : SyncOffset(p, i, offset)
           \/ \E append \in {"no", "yes"} : SyncFlags(p, i, append)
    PROVE  /\ fds' \in Tables /\ DescriptionsShared'
           /\ \A x \in Procs, j \in Fds : /\ fds'[x][j].kind = fds[x][j].kind
                                          /\ fds'[x][j].obj = fds[x][j].obj
                                          /\ fds'[x][j].end = fds[x][j].end
                                          /\ fds'[x][j].desc = fds[x][j].desc
<1> DEFINE hit(x, j) == x = p /\ fds[x][j].kind = "file" /\ fds[x][j].desc = fds[p][i].desc
<1>1. \A x \in Procs, j \in Fds : fds[x][j] \in FdRecord
  BY TableTypes
<1>2. \A j \in Fds : Shares(fds[p][j], fds[p][i]) <=> hit(p, j)
  BY TableTypes DEF Shares, EntryOK
<1>3. PICK offset \in 0 .. MaxOffset, append \in {"no", "yes"} :
          \/ SyncOffset(p, i, offset)
          \/ SyncFlags(p, i, append)
  <2>1. 0 \in 0 .. MaxOffset /\ "no" \in {"no", "yes"}
    BY FilesAssumption
  <2> QED BY <2>1
<1> DEFINE new(x, j) == IF SyncOffset(p, i, offset) THEN [fds[x][j] EXCEPT !.offset = offset]
                                                  ELSE [fds[x][j] EXCEPT !.append = append]
<1>4. \A x \in Procs, j \in Fds : /\ new(x, j) \in FdRecord
                                  /\ new(x, j).kind = fds[x][j].kind
                                  /\ new(x, j).obj = fds[x][j].obj
                                  /\ new(x, j).end = fds[x][j].end
                                  /\ new(x, j).desc = fds[x][j].desc
  BY <1>1 DEF FdRecord
<1>5. \A x, y \in Procs, j, k \in Fds : fds[x][j] = fds[y][k] => new(x, j) = new(y, k)
  OBVIOUS
<1>6. /\ fds' \in [Procs -> [Fds -> FdRecord]]
      /\ \A x \in Procs, j \in Fds : fds'[x][j] = IF hit(x, j) THEN new(x, j) ELSE fds[x][j]
  <2> DEFINE row == [j \in Fds |-> IF Shares(fds[p][j], fds[p][i]) THEN new(p, j) ELSE fds[p][j]]
  <2>1. fds' = [fds EXCEPT ![p] = row]
    BY <1>3 DEF SyncOffset, SyncFlags
  <2>2. row \in [Fds -> FdRecord] /\ \A j \in Fds : row[j] = IF hit(p, j) THEN new(p, j) ELSE fds[p][j]
    BY <1>1, <1>2, <1>4
  <2> HIDE DEF row, new
  <2> QED BY <1>1, <2>1, <2>2, TableTypes DEF Tables
<1> HIDE DEF new
<1>7. \A x \in Procs, j \in Fds : /\ fds'[x][j].kind = fds[x][j].kind
                                  /\ fds'[x][j].obj = fds[x][j].obj
                                  /\ fds'[x][j].end = fds[x][j].end
                                  /\ fds'[x][j].desc = fds[x][j].desc
  BY <1>4, <1>6
<1>8. DescriptionsShared'
  <2> SUFFICES ASSUME NEW x \in Procs, NEW y \in Procs, NEW k \in Fds, NEW l \in Fds,
                      fds'[x][k].kind = "file", fds'[y][l].kind = "file"
               PROVE  /\ fds'[x][k].obj = fds'[y][l].obj
                           <=> x = y /\ fds'[x][k].desc = fds'[y][l].desc
                      /\ fds'[x][k].obj = fds'[y][l].obj => fds'[x][k] = fds'[y][l]
    BY DEF DescriptionsShared
  <2>1. fds[x][k].kind = "file" /\ fds[y][l].kind = "file"
    BY <1>7
  <2>2. /\ fds[x][k].obj = fds[y][l].obj <=> x = y /\ fds[x][k].desc = fds[y][l].desc
        /\ fds[x][k].obj = fds[y][l].obj => fds[x][k] = fds[y][l]
    BY <2>1, Sharers
  <2>3. fds[x][k].obj = fds[y][l].obj => fds'[x][k] = fds'[y][l]
    BY <1>5, <1>6, <2>2
  <2> QED BY <1>7, <2>2, <2>3
<1> QED BY <1>6, <1>7, <1>8 DEF Tables

\* sys_open: a new vnode and a new description.
LEMMA OpenInv ==
    ASSUME Inv, NEW p \in Procs, NEW f \in File, NEW acc \in {"r", "w", "rw"},
           NEW flags, Open(p, f, acc, flags)
    PROVE  Inv'
<1> DEFINE size == IF fsize[f] = Absent \/ "trunc" \in flags THEN 0 ELSE fsize[f]
           entry(v) == [kind |-> "file", end |-> "-", obj |-> v, desc |-> next_id,
                        offset |-> IF "append" \in flags THEN size ELSE 0, acc |-> acc,
                        append |-> IF "append" \in flags THEN "yes" ELSE "no"]
<1>1. size \in 0 .. MaxOffset
  BY FilesAssumption DEF Inv, FilesTypeOK, Absent
<1>2. /\ fsize' = [fsize EXCEPT ![f] = size] /\ Running(p)
      /\ state' = state /\ pipes' = pipes
  BY DEF Open
<1>3. fsize' \in [File -> Absent .. MaxOffset]
  BY <1>1, <1>2, CounterTypes DEF Absent
<1>4. PICK v \in Vnodes :
         /\ IsNewVnode(v)
         /\ \/ UNCHANGED <<fds, vnodes, next_id>>
            \/ \E i \in Fds :
                  /\ IsFirstFree(p, FirstUser, i)
                  /\ next_id <= MaxDesc
                  /\ next_id' = next_id + 1
                  /\ fds' = [fds EXCEPT ![p] = [fds[p] EXCEPT ![i] = entry(v)]]
                  /\ vnodes' = [vnodes EXCEPT ![v] = [refs |-> 1, file |-> f, size |-> size]]
  BY DEF Open
<1> HIDE DEF size
<1>5. CASE UNCHANGED <<fds, vnodes, next_id>>
  <2>1. DescriptionsShared'
    BY <1>5, SharedFrom
  <2>2. \A q \in Pipes : Consistent(pipes[q])
    BY DEF Inv, PipeBooks
  <2> QED BY <1>2, <1>3, <1>5, <2>1, <2>2, TableTypes, EditedInv
<1>6. ASSUME NEW i \in Fds,
             IsFirstFree(p, FirstUser, i),
             next_id <= MaxDesc,
             next_id' = next_id + 1,
             fds' = [fds EXCEPT ![p] = [fds[p] EXCEPT ![i] = entry(v)]],
             vnodes' = [vnodes EXCEPT ![v] = [refs |-> 1, file |-> f, size |-> size]]
      PROVE  Inv'
  <2> DEFINE e == entry(v)
             rec == [refs |-> 1, file |-> f, size |-> size]
  <2>1. next_id \in Nat /\ next_id >= 1 /\ next_id <= MaxDesc /\ next_id' \in 1 .. MaxDesc + 1
    BY <1>6, CounterTypes, FilesAssumption
  <2>2. e \in FdRecord
    <3>1. v \in Nat /\ next_id \in 0 .. MaxDesc
      BY <2>1, FilesAssumption DEF Vnodes
    <3>2. (IF "append" \in flags THEN size ELSE 0) \in 0 .. MaxOffset
      BY <1>1, FilesAssumption
    <3> QED BY <3>1, <3>2 DEF FdRecord
  <2>3. e.kind = "file" /\ e.obj = v /\ e.desc = next_id
    OBVIOUS
  <2>4. rec \in VnodeRecord /\ rec.refs = 1
    BY <1>1 DEF VnodeRecord
  <2> HIDE DEF e, rec
  <2>5. /\ fds' \in Tables
        /\ \A x \in Procs, j \in Fds : fds'[x][j] = IF x = p /\ j = i THEN e ELSE fds[x][j]
    <3>1. fds' = [fds EXCEPT ![p] = [fds[p] EXCEPT ![i] = e]]
      BY <1>6 DEF e
    <3> QED BY <2>2, <3>1, TableTypes DEF Tables
  <2>6. /\ vnodes' \in [Vnodes -> VnodeRecord] /\ vnodes'[v] = rec
        /\ \A u \in Vnodes : u # v => vnodes'[u] = vnodes[u]
    <3>1. vnodes' = [vnodes EXCEPT ![v] = rec]
      BY <1>6 DEF rec
    <3> QED BY <2>4, <3>1, TableTypes
  <2>7. On(fds, v) = {} /\ Cardinality(On(fds, v)) = 0
    <3>1. Cardinality(On(fds, v)) = 0
      BY <1>4 DEF IsNewVnode, Inv, VnodeBooks
    <3> QED BY <3>1, Counted, AtSubset, ZenonT(60)
  <2>8. IsFilled(fds', fds, p, i, e)
    BY <1>6, <2>5 DEF IsFilled, IsFirstFree
  <2>9. /\ \A q, end : Cardinality(At(fds', q, end)) = Cardinality(At(fds, q, end))
        /\ \A u : Cardinality(On(fds', u)) =
              IF u = v THEN Cardinality(On(fds, u)) + 1 ELSE Cardinality(On(fds, u))
    <3>1. CountsOneMore(fds', fds, e)
      BY <2>8, FilledAt
    <3> QED BY <2>3, <3>1 DEF CountsOneMore
  <2>10. PipeBooks(fds', pipes')
    BY <1>2, <2>9 DEF Inv, PipeBooks
  <2>11. VnodeBooks(fds', vnodes')
    <3>1. Cardinality(On(fds', v)) = 0 + 1
      BY <2>7, <2>9
    <3>2. vnodes'[v].refs = Cardinality(On(fds', v))
      BY <2>4, <2>6, <3>1
    <3>3. \A u \in Vnodes : u # v => vnodes'[u].refs = Cardinality(On(fds', u))
      BY <2>6, <2>9 DEF Inv, VnodeBooks
    <3> QED BY <3>2, <3>3 DEF VnodeBooks
  <2>12. FilesTypeOK'
    BY <1>2, <1>3, <2>1, <2>5, <2>6 DEF Inv, FilesTypeOK, Tables
  <2>13. Entries'
    <3> SUFFICES ASSUME NEW x \in Procs, NEW j \in Fds
                 PROVE  /\ EntryOK(fds'[x][j])
                        /\ fds'[x][j].kind = "file" => fds'[x][j].desc < next_id'
      BY DEF Entries
    <3>1. CASE x = p /\ j = i
      BY <1>6, <2>1, <2>3, <2>5, <3>1 DEF EntryOK
    <3>2. CASE ~ (x = p /\ j = i)
      <4>1. fds'[x][j] = fds[x][j] /\ fds[x][j].desc \in Nat
        BY <2>5, <3>2, TableTypes DEF FdRecord
      <4> QED BY <1>6, <2>1, <4>1 DEF Inv, Entries
    <3> QED BY <3>1, <3>2
  <2>14. EndedHoldNothing'
    BY <1>2, <2>5 DEF Inv, EndedHoldNothing, Running
  <2>15. DescriptionsShared'
    <3>1. \A x \in Procs, j \in Fds : fds[x][j].kind = "file" =>
                                         fds[x][j].obj # v /\ fds[x][j].desc # next_id
      <4>1. \A x \in Procs, j \in Fds : fds[x][j].kind = "file" => fds[x][j].obj # v
        <5> SUFFICES ASSUME NEW x \in Procs, NEW j \in Fds, fds[x][j].kind = "file",
                            fds[x][j].obj = v
                     PROVE  FALSE
          OBVIOUS
        <5>1. <<x, j>> \in On(fds, v)
          BY DEF On
        <5> QED BY <2>7, <5>1
      <4>2. \A x \in Procs, j \in Fds : fds[x][j].kind = "file" => fds[x][j].desc # next_id
        <5>1. \A x \in Procs, j \in Fds : fds[x][j].kind = "file" => fds[x][j].desc < next_id
          BY DEF Inv, Entries
        <5>2. \A x \in Procs, j \in Fds : fds[x][j].desc \in Nat
          BY TableTypes DEF FdRecord
        <5> QED BY <2>1, <5>1, <5>2
      <4> QED BY <4>1, <4>2
    <3> SUFFICES ASSUME NEW x \in Procs, NEW y \in Procs, NEW k \in Fds, NEW l \in Fds,
                        fds'[x][k].kind = "file", fds'[y][l].kind = "file"
                 PROVE  /\ fds'[x][k].obj = fds'[y][l].obj
                             <=> x = y /\ fds'[x][k].desc = fds'[y][l].desc
                        /\ fds'[x][k].obj = fds'[y][l].obj => fds'[x][k] = fds'[y][l]
      BY DEF DescriptionsShared
    <3>2. CASE x = p /\ k = i /\ y = p /\ l = i
      BY <3>2
    <3>3. CASE ~ (x = p /\ k = i) /\ ~ (y = p /\ l = i)
      <4>1. fds'[x][k] = fds[x][k] /\ fds'[y][l] = fds[y][l]
        BY <2>5, <3>3
      <4> QED BY <4>1, Sharers
    <3>4. CASE x = p /\ k = i /\ ~ (y = p /\ l = i)
      BY <2>3, <2>5, <3>1, <3>4
    <3>5. CASE ~ (x = p /\ k = i) /\ y = p /\ l = i
      BY <2>3, <2>5, <3>1, <3>5
    <3> QED BY <3>2, <3>3, <3>4, <3>5, ZenonT(60)
  <2> QED BY <2>10, <2>11, <2>12, <2>13, <2>14, <2>15 DEF Inv
<1> QED BY <1>4, <1>5, <1>6

\* sys_pipe: two descriptors on a pipe nobody uses.
LEMMA MakePipeInv ==
    ASSUME Inv, NEW p \in Procs, MakePipe(p)
    PROVE  /\ Inv'
           /\ \E q \in Pipes :
                /\ pipes[q].readers = 0 /\ pipes[q].writers = 0
                /\ pipes[q] = UnusedPipe /\ SameRing(pipes'[q], UnusedPipe)
                /\ pipes'[q].readers = 1 /\ pipes'[q].writers = 1
                /\ \A o \in Pipes : o # q => pipes'[o] = pipes[o]
<1>1. PICK r \in Fds, w \in Fds, q \in Pipes :
          /\ IsFirstFree(p, FirstUser, r) /\ IsFirstFree(p, r + 1, w)
          /\ IsFirstUnused(q)
          /\ pipes' = [pipes EXCEPT ![q] = RefEndpoint(NewPipe, 1, 1)]
          /\ fds' = [fds EXCEPT ![p] = [fds[p] EXCEPT ![r] = PipeFd("r", q, next_id),
                                                      ![w] = PipeFd("w", q, next_id + 1)]]
  BY ZenonT(60) DEF MakePipe
<1>2. /\ Running(p) /\ next_id < MaxDesc /\ next_id' = next_id + 2
      /\ state' = state /\ vnodes' = vnodes /\ fsize' = fsize
  BY DEF MakePipe
<1>3. next_id \in Nat /\ next_id \in 0 .. MaxDesc /\ next_id + 1 \in 0 .. MaxDesc
      /\ next_id' \in 1 .. MaxDesc + 1 /\ next_id' > next_id
  BY <1>2, FilesAssumption DEF Inv, FilesTypeOK
<1>4. r # w /\ fds[p][r].kind = "free" /\ fds[p][w].kind = "free"
  BY <1>1 DEF IsFirstFree, Fds
<1> DEFINE d == PipeFd("r", q, next_id)
           e == PipeFd("w", q, next_id + 1)
           T == [fds EXCEPT ![p] = [fds[p] EXCEPT ![r] = d]]
           new == RefEndpoint(NewPipe, 1, 1)
<1>5. /\ d \in FdRecord /\ d.kind = "pipe" /\ d.obj = q /\ d.end = "r"
      /\ e \in FdRecord /\ e.kind = "pipe" /\ e.obj = q /\ e.end = "w"
  <2>1. q \in Nat
    BY FilesAssumption DEF Pipes
  <2> QED BY <1>3, <2>1, FilesAssumption DEF PipeFd, FdRecord
<1>6. /\ pipes[q] = UnusedPipe /\ pipes[q].readers = 0 /\ pipes[q].writers = 0
      /\ Cardinality(At(fds, q, "r")) = 0 /\ Cardinality(At(fds, q, "w")) = 0
  BY <1>1, UnusedConsistent DEF IsFirstUnused, Inv, PipeBooks, Consistent
<1>7. Consistent(new) /\ new.readers = 1 /\ new.writers = 1 /\ SameRing(new, UnusedPipe)
  <2>1. /\ NewPipe \in PipeRecord /\ NewPipe.used = "yes" /\ NewPipe.refs = 0
        /\ NewPipe.readers = 0 /\ NewPipe.writers = 0 /\ SameRing(NewPipe, UnusedPipe)
    <3>1. UnusedPipe \in PipeRecord
      BY UnusedConsistent DEF Consistent
    <3>2. /\ UnusedPipe.refs = 0 /\ UnusedPipe.readers = 0 /\ UnusedPipe.writers = 0
      BY DEF UnusedPipe
    <3> QED BY <3>1, <3>2 DEF NewPipe, PipeRecord, SameRing
  <2>2. new = [NewPipe EXCEPT !.refs = 2, !.readers = 1, !.writers = 1]
    BY <2>1 DEF RefEndpoint
  <2> HIDE DEF new
  <2>3. new \in PipeRecord
    BY <2>1, <2>2, Counters, ZenonT(60)
  <2>4. /\ new.refs = 2 /\ new.readers = 1 /\ new.writers = 1 /\ new.used = "yes"
        /\ SameRing(new, NewPipe)
    BY <2>1, <2>2 DEF PipeRecord, SameRing
  <2>5. UnusedPipe.write_pos = (UnusedPipe.read_pos + UnusedPipe.count) % Capacity
    BY UnusedConsistent DEF Consistent
  <2> QED BY <2>1, <2>3, <2>4, <2>5 DEF Consistent, SameRing
<1> HIDE DEF d, e, new
<1>8. T \in Tables /\ \A x \in Procs, j \in Fds : T[x][j] = IF x = p /\ j = r THEN d ELSE fds[x][j]
  BY <1>5, TableTypes DEF Tables
<1>9. /\ fds' \in Tables
      /\ \A x \in Procs, j \in Fds : fds'[x][j] = IF x = p /\ j = w THEN e ELSE T[x][j]
  <2>1. fds' = [fds EXCEPT ![p] = [[fds[p] EXCEPT ![r] = d] EXCEPT ![w] = e]]
    BY <1>1 DEF d, e
  <2> QED BY <1>5, <2>1, TableTypes DEF Tables
<1> HIDE DEF T
<1>10. IsFilled(T, fds, p, r, d) /\ IsFilled(fds', T, p, w, e)
  BY <1>4, <1>8, <1>9 DEF IsFilled
<1>11. CountsOneMore(T, fds, d)
  BY <1>10, FilledAt
<1>12. CountsOneMore(fds', T, e)
  BY <1>10, FilledAt
<1>13. /\ Cardinality(At(fds', q, "r")) = 1 /\ Cardinality(At(fds', q, "w")) = 1
       /\ \A o, end : o # q => Cardinality(At(fds', o, end)) = Cardinality(At(fds, o, end))
       /\ \A v : Cardinality(On(fds', v)) = Cardinality(On(fds, v))
  BY <1>5, <1>6, <1>11, <1>12 DEF CountsOneMore
<1>14. /\ pipes' \in [Pipes -> PipeRecord] /\ pipes'[q] = new
       /\ \A o \in Pipes : o # q => pipes'[o] = pipes[o]
  <2>1. pipes' = [pipes EXCEPT ![q] = new]
    BY <1>1 DEF new
  <2> QED BY <1>7, <2>1, TableTypes DEF Consistent
<1>15. PipeBooks(fds', pipes')
  BY <1>7, <1>13, <1>14, ZenonT(60) DEF Inv, PipeBooks
<1>16. VnodeBooks(fds', vnodes')
  BY <1>2, <1>13 DEF Inv, VnodeBooks
<1>17. FilesTypeOK'
  BY <1>2, <1>3, <1>9, <1>14 DEF Inv, FilesTypeOK, Tables
<1>18. \A x \in Procs, j \in Fds :
          \/ fds'[x][j] = fds[x][j]
          \/ x = p /\ fds'[x][j] \in {d, e}
  BY <1>8, <1>9
<1>19. Entries'
  <2> SUFFICES ASSUME NEW x \in Procs, NEW j \in Fds
               PROVE  /\ EntryOK(fds'[x][j])
                      /\ fds'[x][j].kind = "file" => fds'[x][j].desc < next_id'
    BY DEF Entries
  <2>1. CASE fds'[x][j] = fds[x][j]
    <3>1. fds[x][j].desc \in Nat
      BY TableTypes DEF FdRecord
    <3> QED BY <1>3, <2>1, <3>1 DEF Inv, Entries
  <2>2. CASE fds'[x][j] \in {d, e}
    BY <1>5, <2>2 DEF EntryOK
  <2> QED BY <1>18, <2>1, <2>2
<1>20. EndedHoldNothing'
  BY <1>2, <1>18, ZenonT(60) DEF Inv, EndedHoldNothing, Running
<1>21. DescriptionsShared'
  <2>1. \A x \in Procs, j \in Fds : fds'[x][j].kind = "file" => fds'[x][j] = fds[x][j]
    BY <1>5, <1>18
  <2> QED BY <2>1, SharedFrom
<1>22. Inv'
  BY <1>15, <1>16, <1>17, <1>19, <1>20, <1>21 DEF Inv
<1> QED BY <1>6, <1>7, <1>14, <1>22

\* Processes begin and end.
LEMMA LivesInv == ASSUME Inv, NEW p \in Procs, Lives(p) PROVE Inv' /\ MovesEnds
<1>1. state \in [Procs -> {"none", "live", "zombie"}]
  BY DEF Inv, FilesTypeOK
<1>2. CASE Start(p)
  <2>1. /\ state[p] = "none" /\ state' = [state EXCEPT ![p] = "live"]
        /\ fds' = [fds EXCEPT ![p] = [i \in Fds |-> FreeFd]]
        /\ UNCHANGED <<pipes, vnodes, fsize, next_id>>
    BY <1>2 DEF Start
  <2>2. \A i \in Fds : fds[p][i].kind = "free"
    BY <2>1 DEF Inv, EndedHoldNothing
  <2>3. /\ fds' \in Tables
        /\ \A x \in Procs, i \in Fds : fds'[x][i] = IF x = p THEN FreeFd ELSE fds[x][i]
    BY <2>1, TableTypes, FreeIsFree DEF Tables
  <2>4. /\ \A q, end : At(fds', q, end) = At(fds, q, end)
        /\ \A v : On(fds', v) = On(fds, v)
    BY <2>2, <2>3, FreeIsFree DEF At, On
  <2>5. PipeBooks(fds', pipes') /\ VnodeBooks(fds', vnodes')
    BY <2>1, <2>4, ZenonT(60) DEF Inv, PipeBooks, VnodeBooks
  <2>6. FilesTypeOK'
    BY <1>1, <2>1, <2>3 DEF Inv, FilesTypeOK, Tables
  <2>7. Entries' /\ EndedHoldNothing'
    BY <1>1, <2>1, <2>3, FreeIsFree DEF Inv, Entries, EntryOK, EndedHoldNothing
  <2>8. DescriptionsShared'
    <3>1. \A x \in Procs, k \in Fds : fds'[x][k].kind = "file" => fds'[x][k] = fds[x][k]
      BY <2>3, FreeIsFree
    <3> QED BY <3>1, SharedFrom
  <2>9. MovesEnds
    BY <2>1 DEF MovesEnds, SameRing
  <2> QED BY <2>5, <2>6, <2>7, <2>8, <2>9 DEF Inv
<1>3. CASE Exit(p)
  <2>1. /\ state' = [state EXCEPT ![p] = "zombie"] /\ Clear(p, Fds)
        /\ fsize' = fsize /\ next_id' = next_id /\ Fds \in SUBSET Fds
    BY <1>3 DEF Exit
  <2>2. /\ state' \in [Procs -> {"none", "live", "zombie"}]
        /\ \A x \in Procs : state'[x] # "live" => state[x] # "live" \/ (x = p /\ Fds = Fds)
    BY <1>1, <2>1
  <2> QED BY <2>1, <2>2, ClearInv
<1>4. CASE Destroy(p)
  <2>1. /\ state' = [state EXCEPT ![p] = "none"] /\ Clear(p, Fds)
        /\ fsize' = fsize /\ next_id' = next_id /\ Fds \in SUBSET Fds
    BY <1>4 DEF Destroy
  <2>2. /\ state' \in [Procs -> {"none", "live", "zombie"}]
        /\ \A x \in Procs : state'[x] # "live" => state[x] # "live" \/ (x = p /\ Fds = Fds)
    BY <1>1, <2>1
  <2> QED BY <2>1, <2>2, ClearInv
<1> QED BY <1>2, <1>3, <1>4 DEF Lives

\* close, dup and dup2 keep the invariant, and put no byte into a pipe.
LEMMA DescriptorCallsInv == ASSUME Inv, NEW p \in Procs, DescriptorCalls(p) PROVE Inv' /\ MovesEnds
<1>1. ASSUME NEW i \in Fds, Close(p, i) PROVE Inv' /\ MovesEnds
  <2>1. /\ Clear(p, {i}) /\ state' = state /\ fsize' = fsize /\ next_id' = next_id
        /\ {i} \in SUBSET Fds
    BY <1>1 DEF Close
  <2>2. /\ state' \in [Procs -> {"none", "live", "zombie"}]
        /\ \A x \in Procs : state'[x] # "live" => state[x] # "live" \/ (x = p /\ {i} = Fds)
    BY <2>1 DEF Inv, FilesTypeOK
  <2> QED BY <2>1, <2>2, ClearInv
<1>2. ASSUME NEW i \in Fds, NEW min \in Fds, Dup(p, i, min) PROVE Inv' /\ MovesEnds
  <2>1. PICK j \in Fds : IsFirstFree(p, min, j) /\ InstallCopy(p, j, SourceOf(p, i))
    BY <1>2 DEF Dup
  <2>2. /\ Running(p) /\ HasSource(p, i)
        /\ state' = state /\ fsize' = fsize /\ next_id' = next_id
    BY <1>2 DEF Dup
  <2>3. i # j \/ fds[p][i].kind = "free"
    BY <2>1 DEF IsFirstFree
  <2> QED BY <2>1, <2>2, <2>3, InstallInv
<1>3. ASSUME NEW i \in Fds, NEW j \in Fds, Dup2(p, i, j) PROVE Inv' /\ MovesEnds
  BY <1>3, InstallInv DEF Dup2
<1> QED BY <1>1, <1>2, <1>3 DEF DescriptorCalls

\* A step that leaves the table of pipes alone has consistent pipes after it.
LEMMA PipesKept ==
    ASSUME Inv, pipes' = pipes
    PROVE  /\ pipes' \in [Pipes -> PipeRecord]
           /\ \A q \in Pipes : /\ Consistent(pipes'[q])
                               /\ pipes'[q].readers = pipes[q].readers
                               /\ pipes'[q].writers = pipes[q].writers
BY TableTypes, ZenonT(60) DEF Inv, PipeBooks

\* The calls on files, open and F_SETFL among them, keep the invariant.
LEMMA FileCallsInv == ASSUME Inv, NEW p \in Procs, FileCalls(p) PROVE Inv'
<1>1. ASSUME NEW f \in File, NEW mode \in Modes, Open(p, f, mode[1], mode[2]) PROVE Inv'
  <2>1. mode[1] \in {"r", "w", "rw"}
    BY FilesAssumption
  <2> QED BY <1>1, <2>1, OpenInv
<1>2. ASSUME fds' = fds, pipes' = pipes, state' = state, next_id' = next_id,
             vnodes' \in [Vnodes -> VnodeRecord],
             \A v \in Vnodes : vnodes'[v].refs = vnodes[v].refs,
             fsize' \in [File -> Absent .. MaxOffset]
      PROVE  Inv'
  <2>1. DescriptionsShared'
    BY <1>2, SharedFrom
  <2> QED BY <1>2, <2>1, PipesKept, TableTypes, EditedInv
<1>3. fsize \in [File -> Absent .. MaxOffset] /\ 0 .. MaxOffset \subseteq Absent .. MaxOffset
  BY DEF Inv, FilesTypeOK, Absent
<1>4. ASSUME NEW f \in File, NEW size \in 0 .. MaxOffset, Truncate(p, f, size) PROVE Inv'
  <2>1. fsize' \in [File -> Absent .. MaxOffset]
    BY <1>3, <1>4 DEF Truncate
  <2> QED BY <1>2, <1>4, <2>1, TableTypes DEF Truncate
<1>5. ASSUME NEW i \in Fds, fds[p][i].kind = "file",
             \/ \E offset \in 0 .. MaxOffset : SyncOffset(p, i, offset)
             \/ \E append \in {"no", "yes"} : SyncFlags(p, i, append),
             pipes' = pipes, state' = state, next_id' = next_id,
             vnodes' \in [Vnodes -> VnodeRecord],
             \A v \in Vnodes : vnodes'[v].refs = vnodes[v].refs,
             fsize' \in [File -> Absent .. MaxOffset]
      PROVE  Inv'
  <2>1. /\ fds' \in Tables /\ DescriptionsShared'
        /\ \A x \in Procs, j \in Fds : /\ fds'[x][j].kind = fds[x][j].kind
                                       /\ fds'[x][j].obj = fds[x][j].obj
                                       /\ fds'[x][j].end = fds[x][j].end
                                       /\ fds'[x][j].desc = fds[x][j].desc
    BY <1>5, SyncShared, ZenonT(60)
  <2> QED BY <1>5, <2>1, PipesKept, EditedInv, ZenonT(60)
<1>6. \A i \in Fds : fds[p][i].kind = "file" =>
         /\ fds[p][i].obj \in Vnodes /\ vnodes[fds[p][i].obj] \in VnodeRecord
         /\ vnodes[fds[p][i].obj].file \in File
         /\ vnodes[fds[p][i].obj].size \in 0 .. MaxOffset
         /\ fds[p][i].offset \in 0 .. MaxOffset
  BY TableTypes, ZenonT(60) DEF EntryOK, FdRecord, VnodeRecord
<1>7. ASSUME NEW v \in Vnodes, NEW size \in 0 .. MaxOffset,
             vnodes' = [vnodes EXCEPT ![v] = [vnodes[v] EXCEPT !.size = size]]
      PROVE  /\ vnodes' \in [Vnodes -> VnodeRecord]
             /\ \A u \in Vnodes : vnodes'[u].refs = vnodes[u].refs
  <2> DEFINE rec == [vnodes[v] EXCEPT !.size = size]
  <2>1. rec \in VnodeRecord /\ rec.refs = vnodes[v].refs
    BY TableTypes DEF VnodeRecord
  <2>2. vnodes' = [vnodes EXCEPT ![v] = rec]
    BY <1>7
  <2> HIDE DEF rec
  <2> QED BY <2>1, <2>2, TableTypes
<1>8. ASSUME NEW i \in Fds, NEW append \in {"no", "yes"}, SetFlags(p, i, append) PROVE Inv'
  BY <1>3, <1>5, <1>8, TableTypes, ZenonT(60) DEF SetFlags
<1>9. ASSUME NEW i \in Fds, NEW len \in Lengths, ReadFile(p, i, len) PROVE Inv'
  <2> DEFINE e == fds[p][i]
             size == fsize[vnodes[e.obj].file]
             n == Least(len, Less(size, e.offset))
  <2>1. /\ e.kind = "file" /\ n > 0 /\ SyncOffset(p, i, e.offset + n)
        /\ UNCHANGED <<state, pipes, vnodes, fsize, next_id>>
    BY <1>9, ZenonT(60) DEF ReadFile
  <2>2. len \in Nat /\ size \in Absent .. MaxOffset /\ e.offset \in 0 .. MaxOffset
    BY <1>3, <1>6, <2>1, FilesAssumption, ZenonT(60)
  <2>3. e.offset + n \in 0 .. MaxOffset
    <3> DEFINE left == Less(size, e.offset)
    <3> HIDE DEF e, size
    <3>1. left \in Nat /\ (left > 0 => e.offset + left <= MaxOffset)
      BY <2>2, FilesAssumption DEF Less, Absent
    <3> HIDE DEF left
    <3>2. n \in Nat /\ n <= left
      BY <2>2, <3>1 DEF Least, left
    <3> HIDE DEF n
    <3> QED BY <2>1, <2>2, <3>1, <3>2, FilesAssumption
  <2> QED BY <1>3, <1>5, <2>1, <2>3, TableTypes, ZenonT(60)
<1>10. ASSUME NEW i \in Fds, NEW len \in Lengths, WriteFile(p, i, len) PROVE Inv'
  <2> DEFINE e == fds[p][i]
             v == vnodes[e.obj]
             base == IF e.append = "yes" THEN v.size ELSE e.offset
             size == IF fsize[v.file] > base + len THEN fsize[v.file] ELSE base + len
  <2>1. /\ e.kind = "file"
        /\ UNCHANGED <<state, pipes, next_id>>
        /\ \/ /\ len > 0 /\ base + len <= MaxOffset
              /\ fsize' = [fsize EXCEPT ![v.file] = size]
              /\ vnodes' = [vnodes EXCEPT ![e.obj] = [vnodes[e.obj] EXCEPT !.size = size]]
              /\ SyncOffset(p, i, base + len)
           \/ /\ SyncOffset(p, i, base)
              /\ UNCHANGED <<vnodes, fsize>>
    BY <1>10, ZenonT(60) DEF WriteFile
  <2>2. /\ len \in Nat /\ base \in 0 .. MaxOffset /\ e.obj \in Vnodes /\ v.file \in File
        /\ fsize[v.file] \in Absent .. MaxOffset
    BY <1>3, <1>6, <2>1, FilesAssumption, ZenonT(60)
  <2>3. base + len <= MaxOffset => base + len \in 0 .. MaxOffset /\ size \in 0 .. MaxOffset
    <3> HIDE DEF v, base
    <3> QED BY <2>2, FilesAssumption DEF Absent
  <2> HIDE DEF v, base, size
  <2>4. CASE SyncOffset(p, i, base) /\ UNCHANGED <<vnodes, fsize>>
    BY <1>3, <1>5, <2>1, <2>2, <2>4, TableTypes
  <2>5. CASE /\ base + len <= MaxOffset
             /\ fsize' = [fsize EXCEPT ![v.file] = size]
             /\ vnodes' = [vnodes EXCEPT ![e.obj] = [vnodes[e.obj] EXCEPT !.size = size]]
             /\ SyncOffset(p, i, base + len)
    <3>1. fsize' \in [File -> Absent .. MaxOffset]
      BY <1>3, <2>2, <2>3, <2>5
    <3>2. /\ vnodes' \in [Vnodes -> VnodeRecord]
          /\ \A u \in Vnodes : vnodes'[u].refs = vnodes[u].refs
      BY <1>7, <2>2, <2>3, <2>5, ZenonT(60)
    <3> QED BY <1>5, <2>1, <2>3, <2>5, <3>1, <3>2
  <2> QED BY <2>1, <2>4, <2>5
<1>11. ASSUME NEW i \in Fds, NEW offset \in 0 .. MaxOffset + 1, Seek(p, i, offset) PROVE Inv'
  <2>1. offset \in 0 .. MaxOffset
    BY <1>11, FilesAssumption DEF Seek
  <2> QED BY <1>3, <1>5, <1>11, <2>1, TableTypes DEF Seek
<1>12. ASSUME NEW i \in Fds, NEW size \in 0 .. MaxOffset, Ftruncate(p, i, size) PROVE Inv'
  <2> DEFINE v == fds[p][i].obj
  <2>1. /\ fds[p][i].kind = "file" /\ UNCHANGED <<state, fds, pipes, next_id>>
        /\ fsize' = [fsize EXCEPT ![vnodes[v].file] = size]
        /\ vnodes' = [vnodes EXCEPT ![v] = [vnodes[v] EXCEPT !.size = size]]
    BY <1>12 DEF Ftruncate
  <2>2. v \in Vnodes /\ vnodes[v].file \in File
    BY <1>6, <2>1
  <2> HIDE DEF v
  <2>3. fsize' \in [File -> Absent .. MaxOffset]
    BY <1>3, <2>1, <2>2
  <2>4. /\ vnodes' \in [Vnodes -> VnodeRecord]
        /\ \A u \in Vnodes : vnodes'[u].refs = vnodes[u].refs
    BY <1>7, <2>1, <2>2, ZenonT(60)
  <2> QED BY <1>2, <2>1, <2>3, <2>4
<1> QED BY <1>1, <1>4, <1>8, <1>9, <1>10, <1>11, <1>12 DEF FileCalls

\* A transfer changes the ring of one pipe.
LEMMA TransferInv ==
    ASSUME Inv, NEW q \in Pipes, NEW after, pipes' = [pipes EXCEPT ![q] = after],
           Consistent(after), after.readers = pipes[q].readers,
           after.writers = pipes[q].writers,
           UNCHANGED <<state, fds, vnodes, fsize, next_id>>
    PROVE  Inv'
<1>1. after \in PipeRecord /\ \A o \in Pipes : Consistent(pipes[o])
  BY ZenonT(60) DEF Inv, PipeBooks, Consistent
<1>2. /\ pipes' \in [Pipes -> PipeRecord]
      /\ \A o \in Pipes : /\ Consistent(pipes'[o])
                          /\ pipes'[o].readers = pipes[o].readers
                          /\ pipes'[o].writers = pipes[o].writers
  BY <1>1, TableTypes
<1>3. DescriptionsShared' /\ fsize' \in [File -> Absent .. MaxOffset]
  BY SharedFrom, CounterTypes
<1> QED BY <1>2, <1>3, TableTypes, EditedInv

\* A descriptor of a pipe is counted in it, so the pipe is in use.
LEMMA OpenEnd ==
    ASSUME Inv, NEW p \in Procs, NEW i \in Fds, fds[p][i].kind = "pipe"
    PROVE  /\ fds[p][i].obj \in Pipes
           /\ Consistent(pipes[fds[p][i].obj]) /\ pipes[fds[p][i].obj].used = "yes"
           /\ fds[p][i].end = "r" => pipes[fds[p][i].obj].readers > 0
           /\ fds[p][i].end = "w" => pipes[fds[p][i].obj].writers > 0
<1> DEFINE q == fds[p][i].obj
           end == fds[p][i].end
<1>1. q \in Pipes /\ end \in {"r", "w"}
  BY TableTypes DEF EntryOK
<1>2. <<p, i>> \in At(fds, q, end)
  BY DEF At
<1>3. Cardinality(At(fds, q, end)) # 0
  BY <1>2, Counted, AtSubset, ZenonT(60)
<1>4. /\ Consistent(pipes[q]) /\ pipes[q].readers = Cardinality(At(fds, q, "r"))
      /\ pipes[q].writers = Cardinality(At(fds, q, "w"))
  BY <1>1, ZenonT(60) DEF Inv, PipeBooks
<1> HIDE DEF q, end
<1>5. /\ pipes[q].readers \in Nat /\ pipes[q].writers \in Nat
      /\ pipes[q].refs = pipes[q].readers + pipes[q].writers
      /\ pipes[q].used = "yes" <=> pipes[q].refs > 0
  BY <1>4 DEF Consistent, PipeRecord
<1>6. /\ end = "r" => pipes[q].readers > 0
      /\ end = "w" => pipes[q].writers > 0
  <2>1. /\ end = "r" => pipes[q].readers # 0
        /\ end = "w" => pipes[q].writers # 0
    BY <1>3, <1>4
  <2> QED BY <1>5, <2>1
<1>7. pipes[q].used = "yes"
  BY <1>1, <1>5, <1>6
<1> QED BY <1>1, <1>4, <1>6, <1>7, ZenonT(60) DEF q, end

\* The calls on pipes keep the invariant.
LEMMA PipeCallsInv == ASSUME Inv, NEW p \in Procs, PipeCalls(p) PROVE Inv'
<1>1. CASE MakePipe(p)
  BY <1>1, MakePipeInv
<1>2. ASSUME NEW i \in Fds, NEW len \in Lengths, ReadPipe(p, i, len) PROVE Inv'
  <2> DEFINE q == fds[p][i].obj
             after == AfterRead(pipes[q], len)
             n == ReadCount(pipes[q], len)
  <2>1. /\ fds[p][i].kind = "pipe" /\ pipes' = [pipes EXCEPT ![q] = after]
        /\ UNCHANGED <<state, fds, vnodes, fsize, next_id>>
    BY <1>2, ZenonT(60) DEF ReadPipe
  <2>2. q \in Pipes /\ Consistent(pipes[q]) /\ pipes[q].used = "yes" /\ len \in Nat
    BY <2>1, OpenEnd, FilesAssumption, ZenonT(60)
  <2> HIDE DEF q
  <2>3. /\ Consistent(after) /\ after.readers = pipes[q].readers
        /\ after.writers = pipes[q].writers
    <3> HIDE DEF after, n
    <3>1. after = AfterRead(pipes[q], len) /\ n = ReadCount(pipes[q], len)
      BY DEF after, n
    <3> QED BY ONLY <2>2, <3>1, ReadPipeRecord, ZenonT(60)
  <2> HIDE DEF after
  <2> QED BY <2>1, <2>2, <2>3, TransferInv, ZenonT(60)
<1>3. ASSUME NEW i \in Fds, NEW data \in Chunks, WritePipe(p, i, data) PROVE Inv'
  <2> DEFINE q == fds[p][i].obj
             after == AfterWrite(pipes[q], data)
             n == WriteCount(pipes[q], data)
  <2>1. /\ fds[p][i].kind = "pipe"
        /\ pipes' = pipes \/ pipes' = [pipes EXCEPT ![q] = after]
        /\ UNCHANGED <<state, fds, vnodes, fsize, next_id>>
    BY <1>3, ZenonT(60) DEF WritePipe
  <2>2. /\ q \in Pipes /\ Consistent(pipes[q]) /\ pipes[q].used = "yes"
        /\ data \in Seq(Byte)
    BY <2>1, OpenEnd, FilesAssumption, ZenonT(60)
  <2> HIDE DEF q
  <2>3. /\ Consistent(after) /\ after.readers = pipes[q].readers
        /\ after.writers = pipes[q].writers
    <3> HIDE DEF after, n
    <3>1. after = AfterWrite(pipes[q], data) /\ n = WriteCount(pipes[q], data)
      BY DEF after, n
    <3> QED BY ONLY <2>2, <3>1, WritePipeRecord, ZenonT(60)
  <2> HIDE DEF after
  <2>4. CASE pipes' = pipes
    <3>1. pipes' = [pipes EXCEPT ![q] = pipes[q]]
      BY <2>2, <2>4, TableTypes
    <3> QED BY <2>1, <2>2, <3>1, TransferInv, ZenonT(60)
  <2>5. CASE pipes' = [pipes EXCEPT ![q] = after]
    BY <2>1, <2>2, <2>3, <2>5, TransferInv, ZenonT(60)
  <2> QED BY <2>1, <2>4, <2>5
<1> QED BY <1>1, <1>2, <1>3 DEF PipeCalls

\* Every step keeps the invariant.
LEMMA NextInv == Inv /\ [FilesNext]_filesVars => Inv'
<1> SUFFICES ASSUME Inv, [FilesNext]_filesVars PROVE Inv'
  OBVIOUS
<1>1. CASE UNCHANGED filesVars
  <2>1. UNCHANGED <<state, fds, pipes, vnodes, fsize, next_id>>
    BY <1>1 DEF filesVars
  <2>2. DescriptionsShared' /\ FilesTypeOK' /\ Entries' /\ EndedHoldNothing'
    <3>1. DescriptionsShared'
      BY <2>1, SharedFrom
    <3>2. FilesTypeOK' /\ Entries' /\ EndedHoldNothing'
      BY <2>1 DEF Inv, FilesTypeOK, Entries, EndedHoldNothing
    <3> QED BY <3>1, <3>2
  <2>3. PipeBooks(fds', pipes') /\ VnodeBooks(fds', vnodes')
    BY <2>1 DEF Inv
  <2> QED BY <2>2, <2>3 DEF Inv
<1> QED BY <1>1, LivesInv, DescriptorCallsInv, FileCallsInv, PipeCallsInv DEF FilesNext

-----------------------------------------------------------------------------
(* The theorems *)

\* The invariant says that the counts are those of the descriptor tables.
LEMMA InvExact == Inv => DescriptorsExact
<1> SUFFICES ASSUME Inv PROVE DescriptorsExact
  OBVIOUS
<1>1. /\ \A q, end : Ends(q, end) = At(fds, q, end)
      /\ \A v : {x \in Procs \X Fds : /\ fds[x[1]][x[2]].kind = "file"
                                      /\ fds[x[1]][x[2]].obj = v} = On(fds, v)
  BY DEF Ends, At, On
<1>2. EndsExact
  BY <1>1, ZenonT(60) DEF EndsExact, Inv, PipeBooks, Consistent
<1>3. VnodesExact
  BY <1>1, ZenonT(60) DEF VnodesExact, Inv, VnodeBooks
<1>4. ExitReleases
  <2> SUFFICES ASSUME \A p \in Procs : state[p] # "live"
               PROVE  /\ \A q \in Pipes : pipes[q] = UnusedPipe
                      /\ \A v \in Vnodes : vnodes[v].refs = 0
    BY DEF ExitReleases
  <2>1. /\ \A q, end : At(fds, q, end) = {}
        /\ \A v : On(fds, v) = {}
    BY DEF Inv, EndedHoldNothing, At, On
  <2>2. ASSUME NEW q \in Pipes PROVE pipes[q] = UnusedPipe
    <3>1. Consistent(pipes[q]) /\ pipes[q].readers = 0 /\ pipes[q].writers = 0
      BY <2>1, FS_EmptySet, ZenonT(60) DEF Inv, PipeBooks
    <3>2. pipes[q].used \in {"no", "yes"}
      BY <3>1 DEF Consistent, PipeRecord
    <3> QED BY <3>1, <3>2 DEF Consistent
  <2>3. \A v \in Vnodes : vnodes[v].refs = 0
    BY <2>1, FS_EmptySet, ZenonT(60) DEF Inv, VnodeBooks
  <2> QED BY <2>2, <2>3
<1> QED BY <1>2, <1>3, <1>4 DEF Inv, DescriptorsExact

\* For every number of processes, descriptors, pipes and vnodes, the counts in
\* pipes and vnodes are those of the descriptor tables through open, pipe, dup,
\* dup2, close, exit and the second close of process_destroy, and nothing is
\* held once all processes have ended.
THEOREM DescriptorsStayExact == FilesSpec => []DescriptorsExact
<1> QED BY InitInv, NextInv, InvExact, PTL DEF FilesSpec

\* Duplicated descriptors keep one offset and one set of flags, and different
\* opens share nothing.
THEOREM DescriptionsStayShared == FilesSpec => []DescriptionsShared
<1>1. Inv => DescriptionsShared
  BY DEF Inv
<1> QED BY <1>1, InitInv, NextInv, PTL DEF FilesSpec
=============================================================================
