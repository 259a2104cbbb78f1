---------------------------- MODULE MCProcesses -----------------------------
(***************************************************************************)
(* What processes rely on, for TLC: a pipe between descriptors, and the    *)
(* processor.  The two share no state, so an initial state chooses which   *)
(* of them moves.                                                          *)
(***************************************************************************)
EXTENDS FilesRefinement

CONSTANTS ProcMax, MaxPid, TimeSlice, KeyMax, Calls

VARIABLES proc, nextPid, current, runq, kbwait, keys, kernelWait, cpu, focus

Sched == INSTANCE Scheduler

schedVars == <<proc, nextPid, current, runq, kbwait, keys, kernelWait, cpu>>

\* Up to two bytes in a call; no file is opened.
MCChunks == UNION {[1 .. n -> Byte] : n \in 0 .. 2}
NoModes == {}

Init ==
  /\ focus \in {"pipe", "turns"}
  /\ FilesInit /\ fsize = [x \in File |-> Absent]
  /\ Sched!Init

Next ==
  \/ focus = "pipe" /\ FilesNext /\ UNCHANGED <<schedVars, focus>>
  \/ focus = "turns" /\ Sched!Next /\ UNCHANGED <<filesVars, focus>>

\* The timer and the kernel are asked to go on only where the processor moves.
Fairness == Sched!Fairness \/ [](focus = "pipe")

Spec == Init /\ [][Next]_<<filesVars, schedVars, focus>> /\ Fairness

-----------------------------------------------------------------------------
\* A queued process gets the processor: no program, whatever it does in
\* ring 3, keeps scheduler_timer_tick from handing the processor on.
ReadyRuns == Sched!ReadyRuns
=============================================================================
