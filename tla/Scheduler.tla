----------------------------- MODULE Scheduler -----------------------------
(***************************************************************************)
(* Scheduling and the process system calls on the single processor:        *)
(* core/scheduler.c, the wait queue of core/keyboard.c, and exit, yield,   *)
(* spawn, exec, waitpid and the console read of core/syscall.c.            *)
(*                                                                         *)
(* System calls run with interrupts masked, so a call is one step up to    *)
(* the point where it returns to ring 3 or calls scheduler_switch.  Calls  *)
(* that can block are loops; one turn of the loop is one step taken with   *)
(* cpu = "kernel", where no interrupt action is enabled.  The timer and    *)
(* the keyboard interrupt ring 3, the idle loop of                         *)
(* scheduler_wait_for_next, and the kernel shell.                          *)
(***************************************************************************)
EXTENDS Process

CONSTANTS
    KeyMax,     \* KEYBOARD_BUFFER_SIZE
    Calls       \* the system calls the programs of the session make

ASSUME KeyMaxAssumption == KeyMax \in Nat
ASSUME CallsAssumption ==
    Calls \subseteq {"exit", "yield", "spawn", "exec", "waitpid", "read"}

VARIABLES
    runq,       \* g_run_queue_head .. g_run_queue_tail
    kbwait,     \* g_wait_head .. g_wait_tail
    keys,       \* g_keybuf_count
    kernelWait, \* g_kernel_wait_active
    cpu         \* what the processor executes

vars == <<proc, nextPid, current, runq, kbwait, keys, kernelWait, cpu>>

(***************************************************************************)
(* "shell"  - kernel code outside a session (boot, then the kernel shell)  *)
(* "user"   - the current process in ring 3                                *)
(* "kernel" - the current process in a blocking call, interrupts masked    *)
(* "idle"   - scheduler_wait_for_next with an empty run queue              *)
(* "return" - scheduler_run just after its context was restored            *)
(***************************************************************************)
CpuMode == {"shell", "user", "kernel", "idle", "return"}

Init ==
    /\ ProcInit
    /\ runq = <<>>
    /\ kbwait = <<>>
    /\ keys = 0
    /\ kernelWait = FALSE
    /\ cpu = "shell"

-----------------------------------------------------------------------------
(* scheduler.c *)

\* The table and the queue after scheduler_add(s).  Adding an unused or a
\* zombie slot changes nothing; nothing checks that s is not queued already.
Addable(pr, s) == pr[s].state \notin {"UNUSED", "ZOMBIE"}

AddProc(pr, s) ==
    IF Addable(pr, s) THEN [pr EXCEPT ![s].state = "READY"] ELSE pr

\* Mutant of AddQueue: the process goes to the head of the queue.
AddQueueAtHead(pr, q, s) == IF Addable(pr, s) THEN <<s>> \o q ELSE q

AddQueue(pr, q, s) == IF Addable(pr, s) THEN Append(q, s) ELSE q

\* scheduler_switch finds a process queued and enters it.
Enter(pr, q) ==
    LET n == Head(q) IN
    /\ q # <<>>
    /\ proc' = [pr EXCEPT ![n] = [@ EXCEPT !.state = "RUNNING",
                                           !.ticks = TimeSlice]]
    /\ runq' = Tail(q)
    /\ current' = n
    /\ cpu' = IF pr[n].resume = "KERNEL" THEN "kernel" ELSE "user"
    /\ UNCHANGED kernelWait

\* Nobody is queued and nobody is blocked: scheduler_run gets control back.
EndSession(pr, q) ==
    /\ q = <<>> /\ kernelWait /\ ~HasBlocked(pr)
    /\ proc' = pr
    /\ runq' = q
    /\ current' = NoProc
    /\ cpu' = "return"
    /\ kernelWait' = FALSE

\* Nobody is queued: halt until an interrupt queues somebody.  g_current
\* still names the process that gave up the processor.
Idle(pr, q) ==
    /\ q = <<>> /\ ~(kernelWait /\ ~HasBlocked(pr))
    /\ proc' = pr
    /\ runq' = q
    /\ cpu' = "idle"
    /\ UNCHANGED <<current, kernelWait>>

Switch(pr, q) == Enter(pr, q) \/ EndSession(pr, q) \/ Idle(pr, q)

\* The idle loop leaves hlt with interrupts masked and looks again.
IdleWake ==
    /\ cpu = "idle"
    /\ Enter(proc, runq)
    /\ UNCHANGED <<nextPid, kbwait, keys>>

\* The timer interrupt.  It has an effect only on a process that runs in
\* ring 3 and whose resume_kind is USER.
TimerTick ==
    LET left == IF proc[current].ticks > 0 THEN proc[current].ticks - 1 ELSE 0
        ticked == [proc EXCEPT ![current].ticks = left]
        saved == [ticked EXCEPT ![current].resume = "USER"]
    IN
    /\ cpu = "user"
    /\ proc[current].state = "RUNNING" /\ proc[current].resume = "USER"
    /\ \/ /\ left # 0
          /\ proc' = ticked
          /\ UNCHANGED <<current, runq, kernelWait, cpu>>
       \/ /\ left = 0
          /\ Switch(AddProc(saved, current), AddQueue(saved, runq, current))
    /\ UNCHANGED <<nextPid, kbwait, keys>>

-----------------------------------------------------------------------------
(* keyboard.c *)

\* Mutant of KeyboardIRQ: a waiter is woken only by the first buffered key.
KeyboardIRQFirstKey ==
    /\ cpu \in {"shell", "user", "idle", "return"}
    /\ keys' = IF keys < KeyMax THEN keys + 1 ELSE keys
    /\ IF kbwait = <<>> \/ keys > 0
         THEN UNCHANGED <<proc, runq, kbwait>>
         ELSE /\ proc' = AddProc(proc, Head(kbwait))
              /\ runq' = AddQueue(proc, runq, Head(kbwait))
              /\ kbwait' = Tail(kbwait)
    /\ UNCHANGED <<nextPid, current, kernelWait, cpu>>

\* keyboard_interrupt_handler for one decoded key: buffer it, or drop it when
\* the buffer is full, and move the first waiter to the run queue.
KeyboardIRQ ==
    /\ cpu \in {"shell", "user", "idle", "return"}
    /\ keys' = IF keys < KeyMax THEN keys + 1 ELSE keys
    /\ IF kbwait = <<>>
         THEN UNCHANGED <<proc, runq, kbwait>>
         ELSE /\ proc' = AddProc(proc, Head(kbwait))
              /\ runq' = AddQueue(proc, runq, Head(kbwait))
              /\ kbwait' = Tail(kbwait)
    /\ UNCHANGED <<nextPid, current, kernelWait, cpu>>

\* The kernel shell takes a key with keyboard_getchar.
ShellKey ==
    /\ cpu = "shell" /\ keys > 0
    /\ keys' = keys - 1
    /\ UNCHANGED <<proc, nextPid, current, runq, kbwait, kernelWait, cpu>>

-----------------------------------------------------------------------------
(* Sessions: scheduler_run, called by kmain for /init and by the kernel     *)
(* shell for a program.                                                     *)

\* kxe_load with g_current NULL, then scheduler_run: the new process has no
\* parent; zombies of earlier sessions are reaped, the process is queued and
\* scheduler_switch goes looking for it.
ShellRun ==
    /\ cpu = "shell" /\ nextPid <= MaxPid
    /\ \E s \in Slots, D \in SUBSET Slots :
          LET loaded == [proc EXCEPT ![s] = Fresh(nextPid, 0)]
              reaped == DestroyAll(loaded, D)
          IN /\ IsFreeSlot(proc, s)
             /\ Reaps(loaded, D)
             /\ proc' = AddProc(reaped, s)
             /\ runq' = AddQueue(reaped, runq, s)
    /\ nextPid' = nextPid + 1
    /\ kernelWait' = TRUE
    /\ cpu' = "idle"
    /\ UNCHANGED <<current, kbwait, keys>>

\* scheduler_run resumes when the session is over, and reaps.
SessionReturn ==
    /\ cpu = "return"
    /\ \E D \in SUBSET Slots :
          /\ Reaps(proc, D)
          /\ proc' = DestroyAll(proc, D)
    /\ kernelWait' = FALSE
    /\ cpu' = "shell"
    /\ UNCHANGED <<nextPid, current, runq, kbwait, keys>>

\* kxe_load or process_create gives up after the pid was taken: the slot is
\* cleared again.  Failures before that point change nothing.
LoadFails ==
    /\ \/ cpu = "shell"
       \/ cpu = "user" /\ Calls \cap {"spawn", "exec"} # {}
    /\ nextPid <= MaxPid
    /\ \E s \in Slots : IsFreeSlot(proc, s)
    /\ nextPid' = nextPid + 1
    /\ UNCHANGED <<proc, current, runq, kbwait, keys, kernelWait, cpu>>

-----------------------------------------------------------------------------
(* System calls of the current process. *)

Calling(call) == cpu = "user" /\ call \in Calls

\* Mutant of WakesParent: the parent's state is not looked at.
WakesParentAnyState(pr, s, p) ==
    /\ IsByPid(pr, pr[s].ppid, p)
    /\ pr[p].wait \in {AnyPid, pr[s].pid}

\* The parent that process_by_pid(ppid) finds sleeps in a waitpid that the end
\* of s satisfies.
WakesParent(pr, s, p) ==
    /\ IsByPid(pr, pr[s].ppid, p)
    /\ pr[p].state = "BLOCKED"
    /\ pr[p].wait \in {AnyPid, pr[s].pid}

Exit ==
    LET zombie == [proc EXCEPT ![current].state = "ZOMBIE"] IN
    /\ Calling("exit")
    /\ \/ \E p \in Slots :
             /\ WakesParent(zombie, current, p)
             /\ Switch(AddProc(zombie, p), AddQueue(zombie, runq, p))
       \/ /\ \A p \in Slots : ~WakesParent(zombie, current, p)
          /\ Switch(zombie, runq)
    /\ UNCHANGED <<nextPid, kbwait, keys>>

\* Mutant of Yield: the context is not saved as a user context.
YieldUnsaved ==
    /\ Calling("yield")
    /\ Switch(AddProc(proc, current), AddQueue(proc, runq, current))
    /\ UNCHANGED <<nextPid, kbwait, keys>>

Yield ==
    LET saved == [proc EXCEPT ![current].resume = "USER"] IN
    /\ Calling("yield")
    /\ Switch(AddProc(saved, current), AddQueue(saved, runq, current))
    /\ UNCHANGED <<nextPid, kbwait, keys>>

\* sys_spawn and sys_spawn_argv.
Spawn ==
    /\ Calling("spawn") /\ nextPid <= MaxPid
    /\ \E s \in Slots :
          LET loaded == [proc EXCEPT ![s] = Fresh(nextPid, proc[current].pid)]
          IN /\ IsFreeSlot(proc, s)
             /\ proc' = AddProc(loaded, s)
             /\ runq' = AddQueue(loaded, runq, s)
    /\ nextPid' = nextPid + 1
    /\ UNCHANGED <<current, kbwait, keys, kernelWait, cpu>>

\* Mutant of Retarget: the waiting parent is left as it is.
RetargetNobody(pr, c, n) == pr

\* exec_replace_current moves a parent that waits for this very pid to the pid
\* of the new image.
Retarget(pr, c, n) ==
    [p \in Slots |->
        IF /\ IsByPid(pr, pr[c].ppid, p)
           /\ pr[p].state = "BLOCKED"
           /\ pr[p].wait # AnyPid
           /\ pr[p].wait = pr[c].pid
        THEN [pr[p] EXCEPT !.wait = pr[n].pid]
        ELSE pr[p]]

\* sys_exec and sys_exec_argv: a new process takes the caller's place, and the
\* caller stays behind as a zombie that names its replacement.
Exec ==
    /\ Calling("exec") /\ nextPid <= MaxPid
    /\ \E s \in Slots :
          LET loaded == [proc EXCEPT ![s] = Fresh(nextPid, proc[current].ppid),
                                     ![current].replaced = nextPid]
              moved == Retarget(loaded, current, s)
              retired == [moved EXCEPT ![current].state = "ZOMBIE"]
          IN /\ IsFreeSlot(proc, s)
             /\ Switch(AddProc(retired, s), AddQueue(retired, runq, s))
    /\ nextPid' = nextPid + 1
    /\ UNCHANGED <<kbwait, keys>>

-----------------------------------------------------------------------------
(* sys_waitpid: one action per outcome of a turn of its loop. *)

WaitCall ==
    /\ Calling("waitpid")
    /\ \E r \in 1..MaxPid \cup {AnyPid} :
          proc' = [proc EXCEPT ![current] = [@ EXCEPT !.request = r,
                                                      !.kctx = "wait"]]
    /\ cpu' = "kernel"
    /\ UNCHANGED <<nextPid, current, runq, kbwait, keys, kernelWait>>

\* wait_target_pid, once set, takes the place of the argument.
Target(c) == IF proc[c].wait # 0 THEN proc[c].wait ELSE proc[c].request

\* The child a turn of the loop looks at: process_first_child for -1, else
\* process_child_lookup.
IsWaitChild(c, s) ==
    IF Target(c) = AnyPid
      THEN IsFirstChild(proc, proc[c].pid, s)
      ELSE IsByPid(proc, Target(c), s) /\ proc[s].ppid = proc[c].pid

InCall(call) == cpu = "kernel" /\ proc[current].kctx = call

\* The frame of the call is gone; resume_kind keeps its value.
ReturnToUser(pr) ==
    /\ proc' = [pr EXCEPT ![current] = [@ EXCEPT !.kctx = "none",
                                                 !.request = 0]]
    /\ cpu' = "user"
    /\ UNCHANGED <<current, runq, kernelWait>>

\* No such child: waitpid returns -1.
WaitFails ==
    /\ InCall("wait")
    /\ \A s \in Slots : ~IsWaitChild(current, s)
    /\ ReturnToUser([proc EXCEPT ![current].wait = 0])
    /\ UNCHANGED <<nextPid, kbwait, keys>>

\* The child was replaced by exec: wait for the replacement instead.
WaitFollows ==
    /\ InCall("wait")
    /\ \E s \in Slots :
          /\ IsWaitChild(current, s)
          /\ proc[s].state = "ZOMBIE" /\ proc[s].replaced # 0
          /\ proc' = Destroy([proc EXCEPT ![current].wait = proc[s].replaced], s)
    /\ UNCHANGED <<nextPid, current, runq, kbwait, keys, kernelWait, cpu>>

\* The child is a zombie: waitpid collects it and returns its pid.
WaitReaps ==
    /\ InCall("wait")
    /\ \E s \in Slots :
          /\ IsWaitChild(current, s)
          /\ proc[s].state = "ZOMBIE" /\ proc[s].replaced = 0
          /\ ReturnToUser(Destroy([proc EXCEPT ![current].wait = 0], s))
    /\ UNCHANGED <<nextPid, kbwait, keys>>

\* The child runs on: sleep until sys_exit finds wait_target_pid.
WaitBlocks ==
    /\ InCall("wait")
    /\ \E s \in Slots : IsWaitChild(current, s) /\ proc[s].state # "ZOMBIE"
    /\ Switch([proc EXCEPT ![current] = [@ EXCEPT !.state = "BLOCKED",
                                                  !.wait = Target(current),
                                                  !.resume = "KERNEL"]], runq)
    /\ UNCHANGED <<nextPid, kbwait, keys>>

-----------------------------------------------------------------------------
(* sys_read on the console.  What the keys decode to is left out: a read    *)
(* takes some of the buffered keys and is satisfied, or takes all of them   *)
(* and sleeps.                                                              *)

ReadCall ==
    /\ Calling("read")
    /\ proc' = [proc EXCEPT ![current].kctx = "read"]
    /\ cpu' = "kernel"
    /\ UNCHANGED <<nextPid, current, runq, kbwait, keys, kernelWait>>

\* Satisfied.  Without a key that takes pending bytes of an escape sequence.
ReadReturns ==
    /\ InCall("read")
    /\ \E n \in 0..keys, left \in {"none", "some"} :
          /\ n = 0 => keys = 0 /\ proc[current].pending = "some"
          /\ keys' = keys - n
          /\ ReturnToUser([proc EXCEPT ![current].pending = left])
    /\ UNCHANGED <<nextPid, kbwait>>

\* Out of keys: join the keyboard's wait queue and sleep.
ReadBlocks ==
    /\ InCall("read")
    /\ keys' = 0
    /\ kbwait' = Append(kbwait, current)
    /\ Switch([proc EXCEPT ![current] = [@ EXCEPT !.state = "BLOCKED",
                                                  !.pending = "none",
                                                  !.resume = "KERNEL"]], runq)
    /\ UNCHANGED nextPid

-----------------------------------------------------------------------------
SystemCall == Exit \/ Yield \/ Spawn \/ Exec \/ WaitCall \/ ReadCall

\* The steps the kernel takes by itself, with nobody to wait for.
KernelStep ==
    \/ IdleWake \/ SessionReturn
    \/ WaitFails \/ WaitFollows \/ WaitReaps \/ WaitBlocks
    \/ ReadReturns \/ ReadBlocks

Next ==
    \/ ShellRun \/ LoadFails \/ ShellKey
    \/ TimerTick \/ KeyboardIRQ
    \/ SystemCall \/ KernelStep

Spec == Init /\ [][Next]_vars

\* The timer keeps ticking, and a tick that comes while interrupts are masked
\* is latched by the interrupt controller until they are not (hence SF); the
\* kernel does not stop in its own code.  Nothing is assumed of the programs,
\* the keyboard or the user at the shell.
Fairness == SF_vars(TimerTick) /\ WF_vars(KernelStep)

FairSpec == Spec /\ Fairness

-----------------------------------------------------------------------------
(* Properties *)

\* The variables keep their types; the key buffer never holds more than its
\* KEYBOARD_BUFFER_SIZE keys, whatever interrupts come before they are read.
TypeOK ==
    /\ proc \in [Slots -> ProcRecord]
    /\ nextPid \in 1..(MaxPid + 1)
    /\ current \in Slots \cup {NoProc}
    /\ runq \in Seq(Slots)
    /\ kbwait \in Seq(Slots)
    /\ keys \in 0..KeyMax
    /\ kernelWait \in BOOLEAN
    /\ cpu \in CpuMode

Queues(q, S) ==
    /\ \A i, j \in 1..Len(q) : q[i] = q[j] => i = j
    /\ \A s \in Slots : s \in S <=> \E i \in 1..Len(q) : q[i] = s

\* proc->next links either queue, and scheduler_add and keyboard_enqueue_waiter
\* overwrite it unasked.  That is harmless because the run queue holds exactly
\* the READY processes and the keyboard queue exactly the processes asleep in
\* a console read, each once: no process is ever on both queues, or twice on
\* one, or freed while it is linked.
QueuesExact ==
    /\ Queues(runq, {s \in Slots : proc[s].state = "READY"})
    /\ Queues(kbwait, {s \in Slots : /\ proc[s].state = "BLOCKED"
                                     /\ proc[s].kctx = "read"})

\* A process is RUNNING exactly while it is current and the processor executes
\* it; outside a session (scheduler_run has returned) no process is left that
\* could still run, and g_current is NULL.
OneRunning ==
    /\ \A s \in Slots :
          proc[s].state = "RUNNING"
              <=> s = current /\ cpu \in {"user", "kernel"}
    /\ cpu \in {"user", "kernel"} => current # NoProc
    /\ cpu \in {"shell", "return"} =>
          current = NoProc /\ \A s \in Slots : ~Live(proc, s)
    /\ kernelWait <=> cpu \notin {"shell", "return"}

\* Pids are never shared between slots in use, a parent's pid is smaller than
\* its children's, and a stub left by exec names a younger process.  This is
\* what makes process_by_pid unambiguous and the waiting relation acyclic.
PidsOrdered ==
    \A s \in Slots : Used(proc, s) =>
        /\ proc[s].pid \in 1..(nextPid - 1)
        /\ proc[s].ppid < proc[s].pid
        /\ proc[s].replaced # 0 =>
              /\ proc[s].state = "ZOMBIE"
              /\ proc[s].replaced \in (proc[s].pid + 1)..(nextPid - 1)
        /\ \A t \in Slots :
              Used(proc, t) /\ proc[t].pid = proc[s].pid => s = t

\* The process table, the queues and the processor agree, and process_by_pid is
\* unambiguous, after any mix of system calls and interrupts.
TableExact == TypeOK /\ QueuesExact /\ OneRunning /\ PidsOrdered

\* scheduler_restore_kernel_asm never re-enters a kernel frame that is gone:
\* whenever a process is queued or asleep with resume_kind KERNEL, the system
\* call whose frame kernel_context points into has not returned; and
\* wait_target_pid is set only inside waitpid.
ResumesLiveFrame ==
    \A s \in Slots :
        /\ proc[s].state = "BLOCKED" =>
              proc[s].resume = "KERNEL" /\ proc[s].kctx # "none"
        /\ proc[s].state = "READY" =>
              (proc[s].resume = "KERNEL" <=> proc[s].kctx # "none")
        /\ proc[s].state = "RUNNING" =>
              (cpu = "kernel" <=> proc[s].kctx # "none")
        /\ proc[s].state = "BLOCKED" /\ proc[s].kctx = "wait" =>
              proc[s].wait # 0
        /\ Live(proc, s) /\ proc[s].wait # 0 => proc[s].kctx = "wait"
        /\ proc[s].kctx = "wait" => proc[s].request # 0

\* No wakeup of waitpid is lost: a process asleep in waitpid has a live child
\* whose exit will wake it, also when the child it waited for has been
\* replaced by exec, or has died and been collected in the meantime.
WaiterHasLiveChild ==
    \A p \in Slots :
        proc[p].state = "BLOCKED" /\ proc[p].kctx = "wait" =>
            \E c \in Slots :
                /\ Live(proc, c)
                /\ proc[c].ppid = proc[p].pid
                /\ proc[p].wait \in {AnyPid, proc[c].pid}

ReadersAwake ==
    {s \in Slots : /\ proc[s].state \in {"READY", "RUNNING"}
                   /\ proc[s].kctx = "read"}

\* No wakeup of a console read is lost: while readers sleep, every buffered
\* key is matched by a reader that was woken and has still to look.
KeysHaveReaders ==
    kbwait # <<>> => keys <= Cardinality(ReadersAwake)

\* The processes never all wait for each other: when the scheduler idles with
\* an empty run queue, somebody sleeps in a console read, so a key restarts
\* the session.
IdleAwaitsKey == cpu = "idle" /\ runq = <<>> => kbwait # <<>>

\* The exit status of a process is not thrown away while its parent is in the
\* table: a zombie that exec did not leave behind goes only when its parent
\* collects it, or together with its last chance of being collected.
StatusKept ==
    [][\A s \in Slots :
          /\ proc[s].state = "ZOMBIE" /\ proc[s].replaced = 0
          /\ proc'[s].state # "ZOMBIE"
          => \/ cpu = "kernel" /\ proc[s].ppid = proc[current].pid
             \/ ~HasPid(proc', proc[s].ppid)]_vars

\* Wait-any fails only for a caller that has no child in the table.
WaitAnyFindsChild ==
    [][WaitFails /\ proc[current].request = AnyPid =>
          \A s \in Slots : ~IsChild(proc, proc[current].pid, s)]_vars

\* A queued process gets the processor: no program, whatever it does in
\* ring 3, keeps scheduler_timer_tick from handing the processor on.
ReadyRuns ==
    \A s \in Slots : proc[s].state = "READY" ~> proc[s].state = "RUNNING"

=============================================================================
