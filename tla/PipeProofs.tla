----------------------------- MODULE PipeProofs -----------------------------
(***************************************************************************)
(* The ring buffers and counters of pipes implement the queues of module   *)
(* PipeQueues, for every number of processes, descriptors and pipes, every *)
(* capacity and every set of bytes.  The invariant is that of FilesProofs. *)
(***************************************************************************)
EXTENDS FilesProofs, FilesRefinement, BasicLemmas

USE ZenonT(3), SMTT(30), Z3T(30), ZenonT(60)

-----------------------------------------------------------------------------
(* The bytes in the ring *)

\* The cell of the i-th waiting byte.
Cell(pipe, i) == (pipe.read_pos + i - 1) % Capacity

\* The cell of a waiting byte, without the modulus.
LEMMA CellIs ==
    ASSUME NEW pipe, pipe.read_pos \in Cells, NEW i \in 1 .. Capacity
    PROVE  /\ Cell(pipe, i) \in Cells
           /\ Cell(pipe, i) = IF pipe.read_pos + i - 1 < Capacity THEN pipe.read_pos + i - 1
                              ELSE pipe.read_pos + i - 1 - Capacity
<1> DEFINE b == i - 1
           m == (pipe.read_pos + b) % Capacity
<1>1. /\ b \in 0 .. Capacity /\ pipe.read_pos \in Nat
      /\ pipe.read_pos + i - 1 = pipe.read_pos + b
  BY CapacityAssumption DEF Cells
<1>2. /\ m \in Cells
      /\ m = IF pipe.read_pos + b < Capacity THEN pipe.read_pos + b
             ELSE pipe.read_pos + b - Capacity
  <2> HIDE DEF b
  <2> QED BY <1>1, Wrap
<1>3. Cell(pipe, i) = m
  BY <1>1 DEF Cell
<1> HIDE DEF m
<1> QED BY <1>1, <1>2, <1>3

\* The first k waiting bytes as a sequence.
LEMMA Waiting ==
    ASSUME NEW pipe, Consistent(pipe), NEW k \in 0 .. pipe.count,
           NEW s, s = [i \in 1 .. k |-> pipe.buffer[Cell(pipe, i)]]
    PROVE  /\ s \in Seq(Byte) /\ Len(s) = k
           /\ \A i \in 1 .. k : s[i] = pipe.buffer[Cell(pipe, i)]
<1>1. /\ pipe.read_pos \in Cells /\ pipe.count \in 0 .. Capacity
      /\ pipe.buffer \in [Cells -> Byte]
  BY DEF Consistent, PipeRecord
<1>2. k \in Nat /\ 1 .. k \subseteq 1 .. Capacity
  BY <1>1, CapacityAssumption
<1>3. \A i \in 1 .. k : pipe.buffer[Cell(pipe, i)] \in Byte
  BY <1>1, <1>2, CellIs
<1>4. s \in [1 .. k -> Byte]
  BY <1>3
<1>5. s \in Seq(Byte)
  BY <1>2, <1>4
<1> QED BY <1>2, <1>4, <1>5

\* The waiting bytes are those in the count cells from the read position on.
LEMMA ContentsAre ==
    ASSUME NEW pipe, Consistent(pipe)
    PROVE  /\ Contents(pipe) \in Seq(Byte) /\ Len(Contents(pipe)) = pipe.count
           /\ \A i \in 1 .. pipe.count : Contents(pipe)[i] = pipe.buffer[Cell(pipe, i)]
<1>1. pipe.count \in Nat
  BY DEF Consistent, PipeRecord
<1>2. ReadCount(pipe, pipe.count) = pipe.count
  BY <1>1 DEF ReadCount, Least
<1>3. Contents(pipe) = [i \in 1 .. pipe.count |-> pipe.buffer[Cell(pipe, i)]]
  BY <1>2 DEF Contents, BytesRead, Cell
<1>4. pipe.count \in 0 .. pipe.count
  BY <1>1
<1> QED BY <1>3, <1>4, Waiting

\* The bytes depend on the ring alone, and there are none in an unused pipe.
LEMMA SameContents ==
    ASSUME NEW a, NEW b, Consistent(a), Consistent(b), SameRing(a, b)
    PROVE  Contents(a) = Contents(b)
<1>1. \A i : Cell(a, i) = Cell(b, i)
  BY DEF SameRing, Cell
<1> QED BY <1>1, ContentsAre, SeqSame DEF SameRing

\* No byte waits in an unused pipe.
LEMMA UnusedEmpty == Contents(UnusedPipe) = << >>
<1>1. UnusedPipe.count = 0
  BY DEF UnusedPipe
<1>2. Contents(UnusedPipe) \in Seq(Byte) /\ Len(Contents(UnusedPipe)) = 0
  BY <1>1, UnusedConsistent, ContentsAre
<1> QED BY <1>2, SeqEmpty

\* pipe_read_bytes takes the oldest bytes off the front.
LEMMA ReadTakesFront ==
    ASSUME NEW pipe, Consistent(pipe), pipe.used = "yes", NEW len \in Nat,
           NEW n, n = ReadCount(pipe, len), NEW after, after = AfterRead(pipe, len)
    PROVE  /\ BytesRead(pipe, len) = SubSeq(Contents(pipe), 1, n)
           /\ Contents(after) = SubSeq(Contents(pipe), n + 1, Len(Contents(pipe)))
<1> DEFINE c == Contents(pipe)
           k == pipe.count
<1>1. /\ n \in 0 .. k /\ Consistent(after)
      /\ after.read_pos = (pipe.read_pos + n) % Capacity
      /\ after.count = k - n /\ after.buffer = pipe.buffer
  <2>1. /\ n \in 0 .. pipe.count /\ n <= len
        /\ Consistent(after)
        /\ after.readers = pipe.readers /\ after.writers = pipe.writers
        /\ after.read_pos = (pipe.read_pos + n) % Capacity
        /\ after.count = pipe.count - n /\ after.buffer = pipe.buffer
    BY ReadPipeRecord
  <2> QED BY <2>1
<1>2. /\ k \in Nat /\ k \in 0 .. Capacity /\ pipe.read_pos \in Cells
  BY CapacityAssumption DEF Consistent, PipeRecord
<1>3. c \in Seq(Byte) /\ Len(c) = k /\ \A i \in 1 .. k : c[i] = pipe.buffer[Cell(pipe, i)]
  BY ContentsAre
<1>4. \A i \in 1 .. k : c[i] \in Byte
  BY <1>3, SeqShape
<1> HIDE DEF c, k
<1>5. BytesRead(pipe, len) = SubSeq(c, 1, n)
  <2> DEFINE s == BytesRead(pipe, len)
             t == SubSeq(c, 1, n)
  <2>1. s = [i \in 1 .. n |-> pipe.buffer[Cell(pipe, i)]]
    BY DEF BytesRead, Cell
  <2>2. s \in Seq(Byte) /\ Len(s) = n /\ \A i \in 1 .. n : s[i] = pipe.buffer[Cell(pipe, i)]
    <3> HIDE DEF s
    <3> QED BY <1>1, <2>1, Waiting DEF k
  <2>3. 1 \in Int /\ n \in Int /\ n \in Nat /\ \A i \in 1 .. n : c[i] \in Byte
    BY <1>1, <1>2, <1>4
  <2>4. /\ t \in Seq(Byte) /\ Len(t) = IF 1 <= n THEN n - 1 + 1 ELSE 0
        /\ \A i \in 1 .. n - 1 + 1 : t[i] = c[1 + i - 1]
    BY <2>3, SeqPart
  <2> HIDE DEF s, t
  <2>5. Len(t) = n /\ \A i \in 1 .. n : t[i] = c[i]
    BY <2>3, <2>4
  <2>6. \A i \in 1 .. n : s[i] = t[i]
    BY <1>1, <1>2, <1>3, <2>2, <2>5
  <2>7. s = t
    BY <2>2, <2>4, <2>5, <2>6, SeqSame
  <2> QED BY <2>7 DEF s, t
<1>6. Contents(after) = SubSeq(c, n + 1, k)
  <2> DEFINE s == Contents(after)
             t == SubSeq(c, n + 1, k)
  <2>1. /\ s \in Seq(Byte) /\ Len(s) = k - n
        /\ \A i \in 1 .. k - n : s[i] = after.buffer[Cell(after, i)]
    BY <1>1, ContentsAre
  <2>2. n \in Nat /\ n + 1 \in Int /\ k \in Int /\ \A i \in n + 1 .. k : c[i] \in Byte
    BY <1>1, <1>2, <1>4
  <2>3. /\ t \in Seq(Byte) /\ Len(t) = IF n + 1 <= k THEN k - (n + 1) + 1 ELSE 0
        /\ \A i \in 1 .. k - (n + 1) + 1 : t[i] = c[(n + 1) + i - 1]
    BY <2>2, SeqPart
  <2> HIDE DEF s, t
  <2>4. Len(t) = k - n /\ \A i \in 1 .. k - n : t[i] = c[n + i]
    <3>1. /\ k - (n + 1) + 1 = k - n /\ n <= k
          /\ \A i \in 1 .. k - n : (n + 1) + i - 1 = n + i
      BY <1>1, <1>2, <2>2
    <3>2. Len(t) = k - n
      BY <1>2, <2>2, <2>3, <3>1
    <3>3. ASSUME NEW i \in 1 .. k - n PROVE t[i] = c[n + i]
      <4>1. t[i] = c[(n + 1) + i - 1] /\ (n + 1) + i - 1 = n + i
        BY <2>3, <3>1
      <4> QED BY <4>1
    <3> QED BY <3>2, <3>3
  <2>5. ASSUME NEW i \in 1 .. k - n PROVE s[i] = t[i]
    <3>1. n + i \in 1 .. k /\ n + i \in 1 .. Capacity /\ i \in 1 .. Capacity
      BY <1>1, <1>2, <2>2, CapacityAssumption
    <3>2. Cell(after, i) = Cell(pipe, n + i)
      <4>1. /\ Cell(pipe, n + i) = (pipe.read_pos + (n + (i - 1))) % Capacity
            /\ Cell(after, i) = (((pipe.read_pos + n) % Capacity) + (i - 1)) % Capacity
        <5>1. /\ pipe.read_pos + (n + i) - 1 = pipe.read_pos + (n + (i - 1))
              /\ after.read_pos + i - 1 = after.read_pos + (i - 1)
          <6>1. after.read_pos \in Nat
            BY <1>1 DEF Consistent, PipeRecord, Cells
          <6> QED BY <1>2, <2>2, <3>1, <6>1 DEF Cells
        <5> QED BY <1>1, <5>1 DEF Cell
      <4>2. i - 1 \in Nat /\ n + (i - 1) <= Capacity
        BY <2>2, <3>1, CapacityAssumption
      <4> QED BY <1>2, <2>2, <4>1, <4>2, WrapTwice
    <3> QED BY <1>1, <1>3, <2>1, <2>4, <3>1, <3>2
  <2>6. s = t
    BY <2>1, <2>3, <2>4, <2>5, SeqSame
  <2> QED BY <2>6 DEF s, t
<1> QED BY <1>3, <1>5, <1>6 DEF c

\* The i-th byte of a ring with k bytes from r on, before and behind the place w
\* where a write of n bytes begins.
InRing(r, k, n, i, w, x, y) ==
    /\ r \in Nat /\ k \in Nat /\ n \in Nat /\ i \in Nat /\ w \in Nat /\ x \in Nat /\ y \in Nat
    /\ r < Capacity /\ x < Capacity /\ k + n <= Capacity /\ 1 <= i /\ i <= k + n
    /\ x = IF r + i - 1 < Capacity THEN r + i - 1 ELSE r + i - 1 - Capacity
    /\ w = IF r + k < Capacity THEN r + k ELSE r + k - Capacity
    /\ y = IF x < w THEN x + Capacity - w + 1 ELSE x - w + 1

\* In a ring that holds k bytes and gets n more, the first k keep their cells
\* and byte i > k is the (i - k)-th written.
LEMMA PlaceOfByte ==
    ASSUME NEW r, NEW k, NEW n, NEW i, NEW w, NEW x, NEW y, InRing(r, k, n, i, w, x, y)
    PROVE  IF i <= k THEN ~ (y <= n) ELSE y = i - k
<1> USE DEF InRing
<1>1. Capacity \in Nat
  BY CapacityAssumption
<1>2. CASE r + i - 1 < Capacity /\ r + k < Capacity
  BY <1>1, <1>2
<1>3. CASE r + i - 1 < Capacity /\ ~ (r + k < Capacity)
  BY <1>1, <1>3
<1>4. CASE ~ (r + i - 1 < Capacity) /\ r + k < Capacity
  BY <1>1, <1>4
<1>5. CASE ~ (r + i - 1 < Capacity) /\ ~ (r + k < Capacity)
  BY <1>1, <1>5
<1> QED BY <1>2, <1>3, <1>4, <1>5

\* pipe_write_bytes puts what fits behind the youngest byte.
LEMMA WriteAppends ==
    ASSUME NEW pipe, Consistent(pipe), pipe.used = "yes", NEW data \in Seq(Byte),
           NEW n, n = WriteCount(pipe, data), NEW after, after = AfterWrite(pipe, data)
    PROVE  Contents(after) = Contents(pipe) \o SubSeq(data, 1, n)
<1> DEFINE c == Contents(pipe)
           k == pipe.count
           s == Contents(after)
           d == SubSeq(data, 1, n)
           t == c \o d
<1>1. /\ n \in Nat /\ n <= Len(data) /\ k + n \in 0 .. Capacity
      /\ Consistent(after)
      /\ after.read_pos = pipe.read_pos /\ after.count = k + n
      /\ after.buffer = Overwritten(pipe, data, n)
  <2>1. /\ n \in Nat /\ n <= Len(data) /\ pipe.count + n \in 0 .. Capacity
        /\ Consistent(after)
        /\ after.readers = pipe.readers /\ after.writers = pipe.writers
        /\ after.read_pos = pipe.read_pos /\ after.count = pipe.count + n
        /\ after.buffer = Overwritten(pipe, data, n)
    BY WritePipeRecord
  <2> QED BY <2>1
<1>2. /\ k \in Nat /\ k \in 0 .. Capacity /\ pipe.read_pos \in Cells /\ pipe.write_pos \in Cells
      /\ pipe.write_pos = (pipe.read_pos + k) % Capacity
  BY CapacityAssumption DEF Consistent, PipeRecord
<1>3. c \in Seq(Byte) /\ Len(c) = k /\ \A i \in 1 .. k : c[i] = pipe.buffer[Cell(pipe, i)]
  BY ContentsAre
<1>4. /\ s \in Seq(Byte) /\ Len(s) = k + n
      /\ \A i \in 1 .. k + n : s[i] = after.buffer[Cell(after, i)]
  BY <1>1, ContentsAre
<1>5. d \in Seq(Byte) /\ Len(d) = n /\ \A i \in 1 .. n : d[i] = data[i]
  <2>1. 1 \in Int /\ n \in Int /\ \A i \in 1 .. n : data[i] \in Byte
    BY <1>1, SeqShape
  <2>2. /\ d \in Seq(Byte) /\ Len(d) = IF 1 <= n THEN n - 1 + 1 ELSE 0
        /\ \A i \in 1 .. n - 1 + 1 : d[i] = data[1 + i - 1]
    BY <2>1, SeqPart
  <2> HIDE DEF d
  <2> QED BY <1>1, <2>2
<1> HIDE DEF c, d, s
<1>6. /\ t \in Seq(Byte) /\ Len(t) = k + n
      /\ \A i \in 1 .. k + n : t[i] = IF i <= k THEN c[i] ELSE d[i - k]
  <2>1. /\ t \in Seq(Byte) /\ Len(t) = Len(c) + Len(d)
        /\ \A i \in 1 .. Len(c) + Len(d) : t[i] = IF i <= Len(c) THEN c[i] ELSE d[i - Len(c)]
    BY <1>3, <1>5, SeqConcat, ZenonT(60)
  <2> HIDE DEF t
  <2> QED BY <1>3, <1>5, <2>1, ZenonT(60)
<1> HIDE DEF t, k
<1>7. ASSUME NEW i \in 1 .. k + n PROVE s[i] = t[i]
  <2> DEFINE x == Cell(pipe, i)
  <2>1. i \in 1 .. Capacity /\ i \in Nat /\ i >= 1 /\ i <= k + n
    BY <1>1, <1>2, CapacityAssumption
  <2>2. /\ x \in Cells
        /\ x = IF pipe.read_pos + i - 1 < Capacity THEN pipe.read_pos + i - 1
               ELSE pipe.read_pos + i - 1 - Capacity
    BY <1>2, <2>1, CellIs
  <2>3. s[i] = after.buffer[x]
    BY <1>1, <1>4 DEF Cell
  <2>4. s[i] = IF Place(pipe, x) <= n THEN data[Place(pipe, x)] ELSE pipe.buffer[x]
    BY <1>1, <2>2, <2>3, ZenonT(60) DEF Overwritten
  <2>5. /\ Place(pipe, x) \in Nat
        /\ Place(pipe, x) = IF x < pipe.write_pos THEN x + Capacity - pipe.write_pos + 1
                                                  ELSE x - pipe.write_pos + 1
    BY <1>2, <2>2, PlaceIs
  <2>6. pipe.write_pos = IF pipe.read_pos + k < Capacity THEN pipe.read_pos + k
                         ELSE pipe.read_pos + k - Capacity
    BY <1>2, Wrap
  <2>7. /\ Capacity \in Nat /\ pipe.read_pos \in Nat /\ pipe.read_pos < Capacity
        /\ x \in Nat /\ x < Capacity /\ k <= Capacity /\ k + n <= Capacity
        /\ pipe.write_pos \in Nat
    BY <1>1, <1>2, <2>2, CapacityAssumption DEF Cells
  <2> DEFINE y == Place(pipe, x)
  <2>8. IF i <= k THEN ~ (y <= n) ELSE y = i - k
    <3> HIDE DEF x, y
    <3>1. y \in Nat /\ y = IF x < pipe.write_pos THEN x + Capacity - pipe.write_pos + 1
                                                ELSE x - pipe.write_pos + 1
      BY <2>5 DEF y
    <3>2. InRing(pipe.read_pos, k, n, i, pipe.write_pos, x, y)
      BY <1>1, <1>2, <2>1, <2>2, <2>6, <2>7, <3>1 DEF InRing
    <3> QED BY <3>2, PlaceOfByte
  <2> HIDE DEF x, y
  <2>9. CASE i <= k
    <3>1. s[i] = pipe.buffer[x] /\ i \in 1 .. k
      BY <1>2, <2>1, <2>4, <2>8, <2>9 DEF y
    <3> QED BY <1>3, <1>6, <2>9, <3>1, ZenonT(60) DEF x
  <2>10. CASE ~ (i <= k)
    <3>1. y = i - k
      BY <2>8, <2>10
    <3>2. i - k \in 1 .. n
      BY <1>1, <1>2, <2>1, <2>10
    <3>3. s[i] = data[i - k]
      BY <1>1, <2>4, <3>1, <3>2 DEF y
    <3> QED BY <1>5, <1>6, <2>10, <3>2, <3>3
  <2> QED BY <2>9, <2>10
<1>8. s = t
  BY <1>4, <1>6, <1>7, SeqSame
<1> QED BY <1>8 DEF s, t, c, d

-----------------------------------------------------------------------------
(* The refinement *)

\* The abstract state, read off the pipes alone.
Bytes == [q \in Pipes |-> Contents(pipes[q])]
Readers == [q \in Pipes |-> pipes[q].readers]
Writers == [q \in Pipes |-> pipes[q].writers]

\* In the states of the invariant, the counters of the pipes are the end counts
\* that the refinement mapping takes from the descriptor tables.
LEMMA Mapping ==
    ASSUME Inv
    PROVE  /\ [q \in Pipes |-> Cardinality(Ends(q, "r"))] = Readers
           /\ [q \in Pipes |-> Cardinality(Ends(q, "w"))] = Writers
           /\ \A q \in Pipes : /\ Consistent(pipes[q]) /\ Bytes[q] = Contents(pipes[q])
                               /\ Readers[q] = pipes[q].readers /\ Readers[q] \in Nat
                               /\ Writers[q] = pipes[q].writers /\ Writers[q] \in Nat
<1>1. \A q, end : Ends(q, end) = At(fds, q, end)
  BY DEF Ends, At
<1>2. \A q \in Pipes : /\ Consistent(pipes[q])
                       /\ pipes[q].readers = Cardinality(Ends(q, "r"))
                       /\ pipes[q].writers = Cardinality(Ends(q, "w"))
  BY <1>1 DEF Inv, PipeBooks
<1>3. \A q \in Pipes : pipes[q].readers \in Nat /\ pipes[q].writers \in Nat
  BY <1>2 DEF Consistent, PipeRecord
<1> QED BY <1>2, <1>3 DEF Readers, Writers, Bytes

\* The mapping in the next state.
LEMMA MappingNext ==
    ASSUME Inv'
    PROVE  /\ [q \in Pipes |-> Cardinality(Ends(q, "r"))]' = Readers'
           /\ [q \in Pipes |-> Cardinality(Ends(q, "w"))]' = Writers'
           /\ \A q \in Pipes : /\ Consistent(pipes'[q]) /\ Bytes'[q] = Contents(pipes'[q])
                               /\ Readers'[q] = pipes'[q].readers /\ Readers'[q] \in Nat
                               /\ Writers'[q] = pipes'[q].writers /\ Writers'[q] \in Nat
<1>1. \A q, end : Ends(q, end)' = At(fds', q, end)
  BY DEF Ends, At
<1>2. \A q \in Pipes : /\ Consistent(pipes'[q])
                       /\ pipes'[q].readers = Cardinality(Ends(q, "r")')
                       /\ pipes'[q].writers = Cardinality(Ends(q, "w")')
  BY <1>1 DEF Inv, PipeBooks
<1>3. \A q \in Pipes : pipes'[q].readers \in Nat /\ pipes'[q].writers \in Nat
  BY <1>2 DEF Consistent, PipeRecord
<1> QED BY <1>2, <1>3 DEF Readers, Writers, Bytes

\* Initially there are no bytes and no descriptors.
LEMMA InitRefines == FilesInit => Queues!Init
<1> SUFFICES ASSUME FilesInit PROVE Queues!Init
  OBVIOUS
<1>1. Inv
  BY InitInv
<1>2. \A q \in Pipes : pipes[q] = UnusedPipe
  BY DEF FilesInit
<1>3. /\ Bytes = [q \in Pipes |-> << >>]
      /\ Readers = [q \in Pipes |-> 0] /\ Writers = [q \in Pipes |-> 0]
  BY <1>2, UnusedEmpty, UnusedConsistent DEF Bytes, Readers, Writers
<1>4. last = Queues!Transfer("none", 0, 0, << >>)
  BY DEF FilesInit, Transfer, Queues!Transfer
<1>5. /\ [q \in Pipes |-> Cardinality(Ends(q, "r"))] = Readers
      /\ [q \in Pipes |-> Cardinality(Ends(q, "w"))] = Writers
  BY <1>1, Mapping
<1> QED BY <1>3, <1>4, <1>5 DEF Queues!Init, Bytes

\* Descriptors come and go: MoveEnds.
LEMMA MovesRefine == ASSUME Inv, Inv', MovesEnds, last' = last PROVE Queues!MoveEnds
<1>1. /\ [q \in Pipes |-> Cardinality(Ends(q, "r"))] = Readers
      /\ [q \in Pipes |-> Cardinality(Ends(q, "w"))] = Writers
      /\ \A q \in Pipes : /\ Consistent(pipes[q]) /\ Bytes[q] = Contents(pipes[q])
                          /\ Readers[q] = pipes[q].readers /\ Writers[q] = pipes[q].writers
  BY Mapping, ZenonT(60)
<1>2. /\ [q \in Pipes |-> Cardinality(Ends(q, "r"))]' = Readers'
      /\ [q \in Pipes |-> Cardinality(Ends(q, "w"))]' = Writers'
      /\ \A q \in Pipes : /\ Consistent(pipes'[q]) /\ Bytes'[q] = Contents(pipes'[q])
                          /\ Readers'[q] = pipes'[q].readers /\ Readers'[q] \in Nat
                          /\ Writers'[q] = pipes'[q].writers /\ Writers'[q] \in Nat
  BY MappingNext
<1>3. Readers' \in [Pipes -> Nat] /\ Writers' \in [Pipes -> Nat]
  BY <1>2 DEF Readers, Writers
<1>4. \A q \in Pipes : /\ Readers[q] = 0 => Readers'[q] = 0
                       /\ Writers[q] = 0 => Writers'[q] = 0
  BY <1>1, <1>2, ZenonT(60) DEF MovesEnds
<1>5. ASSUME NEW q \in Pipes
      PROVE  Bytes'[q] = IF Readers'[q] + Writers'[q] = 0 THEN << >> ELSE Bytes[q]
  <2>1. CASE Readers'[q] + Writers'[q] = 0
    <3>1. pipes'[q].readers = 0 /\ pipes'[q].writers = 0
      BY <1>2, <2>1
    <3>2. pipes'[q] = UnusedPipe
      BY <1>2, <3>1 DEF Consistent, PipeRecord
    <3> QED BY <1>2, <2>1, <3>2, UnusedEmpty
  <2>2. CASE Readers'[q] + Writers'[q] # 0
    <3>1. SameRing(pipes'[q], pipes[q])
      BY <1>2, <2>2 DEF MovesEnds
    <3>2. Contents(pipes'[q]) = Contents(pipes[q])
      BY <1>1, <1>2, <3>1, SameContents, ZenonT(60)
    <3> QED BY <1>1, <1>2, <2>2, <3>2
  <2> QED BY <2>1, <2>2
<1>6. Bytes' = [q \in Pipes |-> IF Readers'[q] + Writers'[q] = 0 THEN << >> ELSE Bytes[q]]
  <2>1. Bytes' = [q \in Pipes |-> Bytes'[q]]
    BY DEF Bytes
  <2> HIDE DEF Bytes
  <2> QED BY <1>5, <2>1
<1> QED BY <1>1, <1>2, <1>3, <1>4, <1>6, ZenonT(60) DEF Queues!MoveEnds, Bytes

\* sys_pipe: Create.
LEMMA MakePipeRefines ==
    ASSUME Inv, Inv', NEW p \in Procs, MakePipe(p) PROVE \E q \in Pipes : Queues!Create(q)
<1>1. PICK q \in Pipes :
                /\ pipes[q].readers = 0 /\ pipes[q].writers = 0
                /\ pipes[q] = UnusedPipe /\ SameRing(pipes'[q], UnusedPipe)
                /\ pipes'[q].readers = 1 /\ pipes'[q].writers = 1
                /\ \A o \in Pipes : o # q => pipes'[o] = pipes[o]
  BY MakePipeInv, ZenonT(60)
<1>2. /\ [o \in Pipes |-> Cardinality(Ends(o, "r"))] = Readers
      /\ [o \in Pipes |-> Cardinality(Ends(o, "w"))] = Writers
      /\ Readers[q] = 0 /\ Writers[q] = 0
  BY <1>1, Mapping, ZenonT(60)
<1>3. /\ [o \in Pipes |-> Cardinality(Ends(o, "r"))]' = Readers'
      /\ [o \in Pipes |-> Cardinality(Ends(o, "w"))]' = Writers'
      /\ Consistent(pipes'[q])
  BY MappingNext
<1>4. Readers' = [Readers EXCEPT ![q] = 1] /\ Writers' = [Writers EXCEPT ![q] = 1]
  BY <1>1, ZenonT(60) DEF Readers, Writers
<1>5. Bytes' = Bytes
  <2>1. Contents(pipes'[q]) = Contents(pipes[q])
    BY <1>1, <1>3, SameContents, UnusedConsistent, ZenonT(60)
  <2> QED BY <1>1, <2>1 DEF Bytes
<1>6. last' = last
  BY DEF MakePipe
<1> QED BY <1>2, <1>3, <1>4, <1>5, <1>6, ZenonT(60) DEF Queues!Create, Bytes

\* A transfer on pipe q leaves the other pipes and all counts alone.
LEMMA TransferMaps ==
    ASSUME Inv, NEW q \in Pipes, NEW after, pipes' = [pipes EXCEPT ![q] = after],
           after.readers = pipes[q].readers, after.writers = pipes[q].writers
    PROVE  /\ Readers' = Readers /\ Writers' = Writers
           /\ Bytes' = [Bytes EXCEPT ![q] = Contents(after)]
<1>1. pipes'[q] = after /\ \A o \in Pipes : o # q => pipes'[o] = pipes[o]
  BY TableTypes
<1>2. Readers' = Readers
  BY <1>1 DEF Readers
<1>3. Writers' = Writers
  BY <1>1 DEF Writers
<1>4. Bytes' = [Bytes EXCEPT ![q] = Contents(after)]
  <2> DEFINE new == [o \in Pipes |-> IF o = q THEN Contents(after) ELSE Contents(pipes[o])]
  <2>1. Bytes' = [o \in Pipes |-> Contents(pipes'[o])]
    BY DEF Bytes
  <2>2. \A o \in Pipes : Contents(pipes'[o]) = IF o = q THEN Contents(after)
                                                       ELSE Contents(pipes[o])
    BY <1>1
  <2>3. Bytes' = new
    BY <2>1, <2>2
  <2>4. [Bytes EXCEPT ![q] = Contents(after)] = new
    BY ZenonT(60) DEF Bytes
  <2> QED BY <2>3, <2>4
<1> QED BY <1>2, <1>3, <1>4

\* The pipe end of sys_read: Read.
LEMMA ReadRefines ==
    ASSUME Inv, Inv', NEW p \in Procs, NEW i \in Fds, NEW len \in Lengths,
           ReadPipe(p, i, len)
    PROVE  \E q \in Pipes : Queues!Read(q, len)
<1> DEFINE q == fds[p][i].obj
           after == AfterRead(pipes[q], len)
           n == ReadCount(pipes[q], len)
           s == Bytes[q]
<1>1. /\ fds[p][i].kind = "pipe" /\ fds[p][i].end = "r"
      /\ pipes' = [pipes EXCEPT ![q] = after]
      /\ last' = Transfer("read", q, n, BytesRead(pipes[q], len))
  BY ZenonT(60) DEF ReadPipe
<1>2. /\ q \in Pipes /\ Consistent(pipes[q]) /\ pipes[q].used = "yes" /\ len \in Nat
      /\ pipes[q].readers > 0
  BY <1>1, OpenEnd, FilesAssumption, ZenonT(60)
<1> HIDE DEF q
<1>3. /\ after.readers = pipes[q].readers /\ after.writers = pipes[q].writers
      /\ BytesRead(pipes[q], len) = SubSeq(Contents(pipes[q]), 1, n)
      /\ Contents(after) = SubSeq(Contents(pipes[q]), n + 1, Len(Contents(pipes[q])))
  <2> HIDE DEF after, n
  <2>1. after = AfterRead(pipes[q], len) /\ n = ReadCount(pipes[q], len)
    BY DEF after, n
  <2>2. after.readers = pipes[q].readers /\ after.writers = pipes[q].writers
    BY ONLY <1>2, <2>1, ReadPipeRecord, ZenonT(120)
  <2>3. /\ BytesRead(pipes[q], len) = SubSeq(Contents(pipes[q]), 1, n)
        /\ Contents(after) = SubSeq(Contents(pipes[q]), n + 1, Len(Contents(pipes[q])))
    BY ONLY <1>2, <2>1, ReadTakesFront, ZenonT(120)
  <2> QED BY <2>2, <2>3, ZenonT(60)
<1>4. n = Queues!Shorter(len, Len(s)) /\ s = Contents(pipes[q]) /\ Readers[q] > 0
  <2>1. Len(Contents(pipes[q])) = pipes[q].count /\ s = Contents(pipes[q])
    BY <1>2, ContentsAre DEF Bytes
  <2> QED BY <1>2, <2>1, ZenonT(60) DEF ReadCount, Least, Queues!Shorter, Readers
<1>5. /\ [o \in Pipes |-> Cardinality(Ends(o, "r"))] = Readers
      /\ [o \in Pipes |-> Cardinality(Ends(o, "w"))] = Writers
      /\ [o \in Pipes |-> Cardinality(Ends(o, "r"))]' = Readers'
      /\ [o \in Pipes |-> Cardinality(Ends(o, "w"))]' = Writers'
  BY Mapping, MappingNext, ZenonT(60)
<1> HIDE DEF after, n
<1>6. /\ Readers' = Readers /\ Writers' = Writers
      /\ Bytes' = [Bytes EXCEPT ![q] = Contents(after)]
  BY <1>1, <1>2, <1>3, TransferMaps, ZenonT(60)
<1>7. last' = Queues!Transfer("read", q, n, SubSeq(s, 1, n))
  BY <1>1, <1>3, <1>4, ZenonT(60) DEF Transfer, Queues!Transfer
<1>8. Bytes' = [Bytes EXCEPT ![q] = SubSeq(s, n + 1, Len(s))]
  BY <1>3, <1>4, <1>6, ZenonT(60)
<1>9. Queues!Read(q, len)
  BY <1>4, <1>5, <1>6, <1>7, <1>8, ZenonT(60) DEF Queues!Read, Bytes
<1> QED BY <1>2, <1>9

\* The pipe end of sys_write: Write, or WriteFails without readers.
LEMMA WriteRefines ==
    ASSUME Inv, Inv', NEW p \in Procs, NEW i \in Fds, NEW data \in Chunks,
           WritePipe(p, i, data)
    PROVE  \E q \in Pipes : Queues!Write(q, data) \/ Queues!WriteFails(q, data)
<1> DEFINE q == fds[p][i].obj
           after == AfterWrite(pipes[q], data)
           n == WriteCount(pipes[q], data)
           s == Bytes[q]
<1>1. /\ fds[p][i].kind = "pipe" /\ fds[p][i].end = "w"
      /\ \/ /\ pipes[q].readers = 0 /\ pipes' = pipes
            /\ last' = Transfer("write", q, -1, data)
         \/ /\ pipes[q].readers > 0 /\ pipes' = [pipes EXCEPT ![q] = after]
            /\ last' = Transfer("write", q, n, data)
  BY ZenonT(60) DEF WritePipe
<1>2. /\ q \in Pipes /\ Consistent(pipes[q]) /\ pipes[q].used = "yes" /\ data \in Seq(Byte)
      /\ pipes[q].writers > 0
  BY <1>1, OpenEnd, FilesAssumption, ZenonT(60)
<1> HIDE DEF q
<1>3. /\ after.readers = pipes[q].readers /\ after.writers = pipes[q].writers
      /\ Contents(after) = Contents(pipes[q]) \o SubSeq(data, 1, n)
  <2> HIDE DEF after, n
  <2>1. after = AfterWrite(pipes[q], data) /\ n = WriteCount(pipes[q], data)
    BY DEF after, n
  <2>2. after.readers = pipes[q].readers /\ after.writers = pipes[q].writers
    BY ONLY <1>2, <2>1, WritePipeRecord, ZenonT(120)
  <2>3. Contents(after) = Contents(pipes[q]) \o SubSeq(data, 1, n)
    BY ONLY <1>2, <2>1, WriteAppends, ZenonT(120)
  <2> QED BY <2>2, <2>3, ZenonT(60)
<1>4. /\ n = Queues!Shorter(Len(data), Capacity - Len(s)) /\ s = Contents(pipes[q])
      /\ Readers[q] = pipes[q].readers /\ Writers[q] > 0
  <2>1. Len(Contents(pipes[q])) = pipes[q].count /\ s = Contents(pipes[q])
    BY <1>2, ContentsAre DEF Bytes
  <2> QED BY <1>2, <2>1 DEF WriteCount, Least, Queues!Shorter, Readers, Writers
<1>5. /\ [o \in Pipes |-> Cardinality(Ends(o, "r"))] = Readers
      /\ [o \in Pipes |-> Cardinality(Ends(o, "w"))] = Writers
      /\ [o \in Pipes |-> Cardinality(Ends(o, "r"))]' = Readers'
      /\ [o \in Pipes |-> Cardinality(Ends(o, "w"))]' = Writers'
  BY Mapping, MappingNext, ZenonT(60)
<1> HIDE DEF after, n
<1>6. CASE /\ pipes[q].readers = 0 /\ pipes' = pipes
           /\ last' = Transfer("write", q, -1, data)
  <2>1. Readers' = Readers /\ Writers' = Writers /\ Bytes' = Bytes
    BY <1>6 DEF Readers, Writers, Bytes
  <2>2. last' = Queues!Transfer("write", q, -1, data)
    BY <1>6 DEF Transfer, Queues!Transfer
  <2>3. Queues!WriteFails(q, data)
    BY <1>4, <1>5, <1>6, <2>1, <2>2, ZenonT(60) DEF Queues!WriteFails, Bytes
  <2> QED BY <1>2, <2>3
<1>7. CASE /\ pipes[q].readers > 0 /\ pipes' = [pipes EXCEPT ![q] = after]
           /\ last' = Transfer("write", q, n, data)
  <2>1. /\ Readers' = Readers /\ Writers' = Writers
        /\ Bytes' = [Bytes EXCEPT ![q] = Contents(after)]
    BY <1>2, <1>3, <1>7, TransferMaps, ZenonT(60)
  <2>2. last' = Queues!Transfer("write", q, n, data)
    BY <1>7 DEF Transfer, Queues!Transfer
  <2>3. Bytes' = [Bytes EXCEPT ![q] = s \o SubSeq(data, 1, n)]
    BY <1>3, <1>4, <2>1
  <2>4. Queues!Write(q, data)
    BY <1>4, <1>5, <1>7, <2>1, <2>2, <2>3, ZenonT(60) DEF Queues!Write, Bytes
  <2> QED BY <1>2, <2>4
<1> QED BY <1>1, <1>6, <1>7, ZenonT(60)

\* Every step of Files is a step of the queues or leaves them alone.
LEMMA NextRefines ==
    ASSUME Inv, Inv', [FilesNext]_filesVars PROVE [Queues!Next]_(Queues!vars)
<1>1. CASE UNCHANGED filesVars
  <2>1. UNCHANGED <<fds, pipes, last>>
    BY <1>1 DEF filesVars
  <2>2. /\ [q \in Pipes |-> Contents(pipes[q])]' = [q \in Pipes |-> Contents(pipes[q])]
        /\ [q \in Pipes |-> Cardinality(Ends(q, "r"))]'
             = [q \in Pipes |-> Cardinality(Ends(q, "r"))]
        /\ [q \in Pipes |-> Cardinality(Ends(q, "w"))]'
             = [q \in Pipes |-> Cardinality(Ends(q, "w"))]
    BY <2>1 DEF Ends
  <2> QED BY <2>1, <2>2 DEF Queues!vars
<1>2. ASSUME NEW p \in Procs, Lives(p) PROVE Queues!MoveEnds
  <2>1. last' = last
    BY <1>2 DEF Lives, Start, Exit, Destroy
  <2> QED BY <1>2, <2>1, LivesInv, MovesRefine
<1>3. ASSUME NEW p \in Procs, DescriptorCalls(p) PROVE Queues!MoveEnds
  <2>1. last' = last
    BY <1>3 DEF DescriptorCalls, Close, Dup, Dup2
  <2> QED BY <1>3, <2>1, DescriptorCallsInv, MovesRefine
<1>4. ASSUME NEW p \in Procs, FileCalls(p) PROVE Queues!MoveEnds
  <2>1. last' = last /\ pipes' = pipes
    BY <1>4, ZenonT(60) DEF FileCalls, Open, Truncate, SetFlags, ReadFile, WriteFile, Seek, Ftruncate
  <2>2. MovesEnds
    BY <2>1 DEF MovesEnds, SameRing
  <2> QED BY <2>1, <2>2, MovesRefine
<1>5. ASSUME NEW p \in Procs, PipeCalls(p) PROVE Queues!Next
  BY <1>5, MakePipeRefines, ReadRefines, WriteRefines DEF PipeCalls, Queues!Next
<1>6. CASE FilesNext
  BY <1>2, <1>3, <1>4, <1>5, <1>6 DEF FilesNext, Queues!Next
<1> QED BY <1>1, <1>6

\* The ring buffers implement the queues: bytes leave a pipe in the order they
\* were written, each once, a write without readers fails, and an end that has
\* lost its last descriptor stays closed until the pipe is made anew.
THEOREM PipesImplementQueues == FilesSpec => PipesAreQueues
<1>1. Inv /\ Inv' /\ [FilesNext]_filesVars => [Queues!Next]_(Queues!vars)
  BY NextRefines
<1> QED BY <1>1, InitInv, NextInv, InitRefines, PTL DEF FilesSpec, PipesAreQueues, Queues!Spec

=============================================================================
