-------------------------------- MODULE Pipe --------------------------------
(***************************************************************************)
(* The pipe object of core/syscall.c: a ring buffer of Capacity bytes with *)
(* counts of the descriptors that refer to it.  The operators map a pipe   *)
(* record to the record a call leaves behind.                              *)
(***************************************************************************)
EXTENDS Integers, Sequences

CONSTANTS
    Capacity,   \* PIPE_CAPACITY
    Byte        \* the bytes programs write

ASSUME CapacityAssumption == Capacity \in Nat \ {0}
ASSUME ByteAssumption == 0 \in Byte

Cells == 0 .. Capacity - 1

PipeRecord == [used : {"no", "yes"}, refs : Nat, readers : Nat, writers : Nat,
               read_pos : Cells, write_pos : Cells, count : 0 .. Capacity,
               buffer : [Cells -> Byte]]

\* A pipe after memset: also what pipe_release_endpoint leaves of a freed one.
UnusedPipe == [used |-> "no", refs |-> 0, readers |-> 0, writers |-> 0,
               read_pos |-> 0, write_pos |-> 0, count |-> 0,
               buffer |-> [c \in Cells |-> 0]]

NewPipe == [UnusedPipe EXCEPT !.used = "yes"]

Least(a, b) == IF a < b THEN a ELSE b

Less(a, k) == IF a > k THEN a - k ELSE 0

\* pipe_ref_endpoint for r read ends and w write ends.
RefEndpoint(pipe, r, w) ==
    IF pipe.used = "no" THEN pipe
    ELSE [pipe EXCEPT !.refs = @ + r + w, !.readers = @ + r, !.writers = @ + w]

ReleaseUncounted(pipe, r, w) ==
    IF pipe.used = "no" \/ r + w = 0 THEN pipe
    ELSE IF pipe.refs <= r + w THEN UnusedPipe
    ELSE [pipe EXCEPT !.refs = @ - (r + w), !.readers = Less(@, r)]

\* pipe_release_endpoint called for r read ends and w write ends, in any
\* order: each call stops counting at zero, and the call that takes refs to
\* zero frees the pipe, after which the others find it unused.
ReleaseEndpoints(pipe, r, w) ==
    IF pipe.used = "no" \/ r + w = 0 THEN pipe
    ELSE IF pipe.refs <= r + w THEN UnusedPipe
    ELSE [pipe EXCEPT !.refs = @ - (r + w),
                      !.readers = Less(@, r),
                      !.writers = Less(@, w)]

\* pipe_read_bytes: how many bytes, which ones, and the pipe afterwards.
ReadCount(pipe, len) == Least(len, pipe.count)

BytesRead(pipe, len) ==
    [i \in 1 .. ReadCount(pipe, len) |->
        pipe.buffer[(pipe.read_pos + i - 1) % Capacity]]

AfterRead(pipe, len) ==
    LET n == ReadCount(pipe, len)
    IN  [pipe EXCEPT !.read_pos = (@ + n) % Capacity, !.count = @ - n]

\* pipe_write_bytes: what fits is written, the rest is left to the caller.
WriteCountToCapacity(pipe, data) == Least(Len(data), Capacity)

WriteCount(pipe, data) == Least(Len(data), Capacity - pipe.count)

AfterWrite(pipe, data) ==
    LET n == WriteCount(pipe, data)
        From(c) == ((c + Capacity - pipe.write_pos) % Capacity) + 1
    IN  [pipe EXCEPT
            !.buffer = [c \in Cells |-> IF From(c) <= n THEN data[From(c)]
                                                        ELSE pipe.buffer[c]],
            !.write_pos = (@ + n) % Capacity,
            !.count = @ + n]

\* The bytes that wait in a pipe, oldest first.
Contents(pipe) == BytesRead(pipe, pipe.count)
=============================================================================
