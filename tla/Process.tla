------------------------------ MODULE Process ------------------------------
(***************************************************************************)
(* The process table of core/process.c: the fixed array g_procs[PROC_MAX], *)
(* the pid counter g_next_pid and the pointer g_current.  A slot holds the *)
(* fields of process_t on which scheduling, waiting and reaping depend;    *)
(* address space, name, working directory and descriptors are left out.   *)
(*                                                                         *)
(* Operators here take the table as a parameter, because a kernel path     *)
(* (a system call, an interrupt) changes it several times before it gives  *)
(* up the processor.                                                       *)
(***************************************************************************)
EXTENDS Integers, Sequences, FiniteSets

CONSTANTS
    ProcMax,    \* PROC_MAX, the number of slots
    MaxPid,     \* bound: no process is created once g_next_pid exceeds it
    TimeSlice   \* SCHED_DEFAULT_TIME_SLICE and PROC_DEFAULT_TIME_SLICE

ASSUME ProcMaxAssumption == ProcMax \in Nat \ {0}
ASSUME MaxPidAssumption == MaxPid \in Nat
ASSUME TimeSliceAssumption == TimeSlice \in Nat \ {0}

VARIABLES
    proc,       \* g_procs
    nextPid,    \* g_next_pid
    current     \* g_current

Slots == 1..ProcMax

NoProc == 0     \* the NULL process pointer

AnyPid == -1    \* WAIT_ANY_PID, and the pid -1 of waitpid

ProcState == {"UNUSED", "READY", "RUNNING", "BLOCKED", "ZOMBIE"}

(***************************************************************************)
(* wait     - wait_target_pid                                              *)
(* replaced - exec_replaced_by_pid                                         *)
(* resume   - resume_kind: how scheduler_switch re-enters the process      *)
(* kctx     - the system call whose frame kernel_context points into,      *)
(*            "none" once that call has returned and the frame is gone     *)
(* request  - requested_pid, the volatile local of a waitpid in progress   *)
(* pending  - stdin_pending holds bytes of an escape sequence              *)
(***************************************************************************)
ProcRecord ==
    [state : ProcState, pid : Nat, ppid : Nat, wait : Nat \cup {AnyPid},
     replaced : Nat, resume : {"USER", "KERNEL"},
     kctx : {"none", "read", "wait"}, request : Nat \cup {AnyPid},
     pending : {"none", "some"}, ticks : 0..TimeSlice]

\* memset(proc, 0, sizeof(*proc))
Cleared ==
    [state |-> "UNUSED", pid |-> 0, ppid |-> 0, wait |-> 0, replaced |-> 0,
     resume |-> "USER", kctx |-> "none", request |-> 0, pending |-> "none",
     ticks |-> 0]

\* What process_create leaves in the slot.
Fresh(pid, ppid) ==
    [Cleared EXCEPT !.state = "READY", !.pid = pid, !.ppid = ppid,
                    !.ticks = TimeSlice]

Used(pr, s) == pr[s].state # "UNUSED"

Live(pr, s) == pr[s].state \in {"READY", "RUNNING", "BLOCKED"}

\* process_by_pid(pid) is slot s: the first slot in use with that pid.
IsByPid(pr, pid, s) ==
    /\ Used(pr, s) /\ pr[s].pid = pid
    /\ \A t \in Slots : t < s => ~(Used(pr, t) /\ pr[t].pid = pid)

HasPid(pr, pid) == \E s \in Slots : Used(pr, s) /\ pr[s].pid = pid

\* process_create takes the first unused slot.
IsFreeSlot(pr, s) ==
    /\ ~Used(pr, s)
    /\ \A t \in Slots : t < s => Used(pr, t)

IsChild(pr, ppid, s) == Used(pr, s) /\ pr[s].ppid = ppid

\* Mutant of IsFirstChild: the test for a zombie comes before the one for ppid.
IsFirstChildAnyZombie(pr, ppid, s) ==
    LET zombie(t) == pr[t].state = "ZOMBIE" IN
    /\ ppid # 0
    /\ zombie(s) \/ (IsChild(pr, ppid, s) /\ \A t \in Slots : ~zombie(t))
    /\ \A t \in Slots :
          t < s /\ (zombie(t) \/ IsChild(pr, ppid, t)) => zombie(s) /\ ~zombie(t)

\* process_first_child(ppid, true) is slot s: the first zombie child, or the
\* first child when none is a zombie.
IsFirstChild(pr, ppid, s) ==
    LET zombie(t) == pr[t].state = "ZOMBIE" IN
    /\ ppid # 0
    /\ IsChild(pr, ppid, s)
    /\ zombie(s) \/ \A t \in Slots : IsChild(pr, ppid, t) => ~zombie(t)
    /\ \A t \in Slots :
          t < s /\ IsChild(pr, ppid, t) => zombie(s) /\ ~zombie(t)

\* Mutant of HasBlocked: zombies count as blocked.
HasBlockedOrZombie(pr) ==
    \E s \in Slots : pr[s].state \in {"BLOCKED", "ZOMBIE"}

HasBlocked(pr) == \E s \in Slots : pr[s].state = "BLOCKED"

\* process_destroy: the slot is free again.  No path destroys g_current.
Destroy(pr, s) == [pr EXCEPT ![s] = Cleared]

(***************************************************************************)
(* process_reap_zombies destroys exactly the slots of D.  The pass runs in *)
(* slot order, so a parent destroyed in the same pass no longer protects a *)
(* child in a later slot, but still protects one in an earlier slot.       *)
(***************************************************************************)
Reaps(pr, D) ==
    LET candidate(s) == s # current /\ pr[s].state = "ZOMBIE"
        present(s, t) == Used(pr, t) /\ ~(t \in D /\ t < s)
        protected(s) ==
            /\ pr[s].ppid # 0
            /\ \E t \in Slots : pr[t].pid = pr[s].ppid /\ present(s, t)
    IN \A s \in Slots : s \in D <=> candidate(s) /\ ~protected(s)

DestroyAll(pr, D) == [s \in Slots |-> IF s \in D THEN Cleared ELSE pr[s]]

ProcInit ==
    /\ proc = [s \in Slots |-> Cleared]
    /\ nextPid = 1
    /\ current = NoProc
=============================================================================
