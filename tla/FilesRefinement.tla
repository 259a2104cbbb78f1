-------------------------- MODULE FilesRefinement --------------------------
(***************************************************************************)
(* What the pipes of module Files implement: the queues of bytes of module *)
(* PipeQueues.                                                             *)
(***************************************************************************)
EXTENDS Files

\* The ring buffers and their counters implement queues of bytes whose ends are
\* counted by the descriptors that are really open.
Queues == INSTANCE PipeQueues WITH
    queue <- [q \in Pipes |-> Contents(pipes[q])],
    readEnds <- [q \in Pipes |-> Cardinality(Ends(q, "r"))],
    writeEnds <- [q \in Pipes |-> Cardinality(Ends(q, "w"))]

\* Bytes leave a pipe in the order in which they were written, each once, and
\* an end that has lost its last descriptor is closed for good.
PipesAreQueues == Queues!Spec
=============================================================================
