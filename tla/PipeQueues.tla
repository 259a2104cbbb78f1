----------------------------- MODULE PipeQueues -----------------------------
(***************************************************************************)
(* What the pipes promise to programs.  A pipe is a bounded queue of bytes *)
(* and the number of descriptors open on each of its ends.  Bytes come out *)
(* in the order they went in, each once; a write without a read end fails; *)
(* an end without descriptors never gets one again; and the bytes are      *)
(* dropped with the last descriptor, not before.                           *)
(***************************************************************************)
EXTENDS Integers, Sequences

CONSTANTS Pipes, Capacity, Chunks, Lengths

VARIABLES queue, readEnds, writeEnds, last

vars == <<queue, readEnds, writeEnds, last>>

\* The last transfer: the call, the pipe, the value returned and the bytes read
\* or given to be written.
Transfer(op, q, n, data) == [op |-> op, pipe |-> q, n |-> n, data |-> data]

Shorter(a, b) == IF a < b THEN a ELSE b

Init ==
    /\ queue = [q \in Pipes |-> << >>]
    /\ readEnds = [q \in Pipes |-> 0]
    /\ writeEnds = [q \in Pipes |-> 0]
    /\ last = Transfer("none", 0, 0, << >>)

Create(q) ==
    /\ readEnds[q] = 0 /\ writeEnds[q] = 0
    /\ readEnds' = [readEnds EXCEPT ![q] = 1]
    /\ writeEnds' = [writeEnds EXCEPT ![q] = 1]
    /\ UNCHANGED <<queue, last>>

\* Descriptors are duplicated and closed, on any pipes at once.
MoveEnds ==
    /\ readEnds' \in [Pipes -> Nat]
    /\ writeEnds' \in [Pipes -> Nat]
    /\ \A q \in Pipes : /\ readEnds[q] = 0 => readEnds'[q] = 0
                        /\ writeEnds[q] = 0 => writeEnds'[q] = 0
    /\ queue' = [q \in Pipes |-> IF readEnds'[q] + writeEnds'[q] = 0
                                 THEN << >> ELSE queue[q]]
    /\ UNCHANGED last

Read(q, len) ==
    LET n == Shorter(len, Len(queue[q]))
    IN  /\ readEnds[q] > 0
        /\ last' = Transfer("read", q, n, SubSeq(queue[q], 1, n))
        /\ queue' = [queue EXCEPT ![q] = SubSeq(@, n + 1, Len(@))]
        /\ UNCHANGED <<readEnds, writeEnds>>

Write(q, data) ==
    LET n == Shorter(Len(data), Capacity - Len(queue[q]))
    IN  /\ writeEnds[q] > 0 /\ readEnds[q] > 0
        /\ last' = Transfer("write", q, n, data)
        /\ queue' = [queue EXCEPT ![q] = @ \o SubSeq(data, 1, n)]
        /\ UNCHANGED <<readEnds, writeEnds>>

WriteFails(q, data) ==
    /\ writeEnds[q] > 0 /\ readEnds[q] = 0
    /\ last' = Transfer("write", q, -1, data)
    /\ UNCHANGED <<queue, readEnds, writeEnds>>

Next ==
    \/ MoveEnds
    \/ \E q \in Pipes : Create(q)
    \/ \E q \in Pipes, len \in Lengths : Read(q, len)
    \/ \E q \in Pipes, data \in Chunks : Write(q, data) \/ WriteFails(q, data)

Spec == Init /\ [][Next]_vars
=============================================================================
