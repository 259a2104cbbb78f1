------------------------ MODULE SchedulerWakeProofs ------------------------
(***************************************************************************)
(* Proofs of the Scheduler's properties that count or order processes: the *)
(* session never deadlocks (IdleAwaitsKey), no key is left behind by a     *)
(* sleeping reader (KeysHaveReaders) and no exit status is thrown away     *)
(* (StatusKept).  They rest on the inductive invariant Inv of              *)
(* SchedulerProofs, for the same arbitrary constants.                      *)
(***************************************************************************)
EXTENDS SchedulerProofs, BasicLemmas, FiniteSetTheorems

USE ZenonT(3), SMTT(30), Z3T(30), ZenonT(60)

-----------------------------------------------------------------------------
(* What a step leaves alone *)

AwakeReader(pr, s) == pr[s].state \in {"READY", "RUNNING"} /\ pr[s].kctx = "read"

\* On the way from the table proc to the table pr no zombie disappears.
ZombiesKept(pr) ==
    \A s \in Slots : proc[s].state = "ZOMBIE" => pr[s].state = "ZOMBIE"

\* No reader that is awake leaves its call or falls asleep.
ReadersKept(pr) == \A s \in Slots : AwakeReader(proc, s) => AwakeReader(pr, s)

SomeLive(pr) == \E s \in Slots : Live(pr, s)

\* What the steps that neither collect a zombie nor end a turn of a console
\* read have in common.
Quiet ==
    /\ ZombiesKept(proc') /\ ReadersKept(proc')
    /\ cpu' = "idle" => SomeLive(proc')

\* scheduler_switch at most turns a READY process into the RUNNING one, and it
\* idles only while a process is blocked.
LEMMA SwitchKeeps ==
    ASSUME NEW pr \in [Slots -> ProcRecord], NEW q \in Seq(Slots),
           \A i \in 1..Len(q) : pr[q[i]].state = "READY",
           Switch(pr, q), kernelWait = TRUE
    PROVE  /\ ZombiesKept(pr) => ZombiesKept(proc')
           /\ ReadersKept(pr) => ReadersKept(proc')
           /\ cpu' = "idle" => SomeLive(proc')
<1>1. CASE Enter(pr, q)
  <2> DEFINE n == Head(q)
             rec == [pr[n] EXCEPT !.state = "RUNNING", !.ticks = TimeSlice]
  <2>1. n \in Slots /\ pr[n].state = "READY" /\ pr[n] \in ProcRecord
    <3>1. q # <<>>
      BY <1>1 DEF Enter
    <3>2. n = q[1] /\ n \in Slots /\ 1 \in 1..Len(q)
      BY <3>1
    <3> QED BY <3>2
  <2>2. rec.state = "RUNNING" /\ rec.kctx = pr[n].kctx
    BY <2>1 DEF ProcRecord
  <2>3. proc' = [pr EXCEPT ![n] = rec] /\ cpu' # "idle"
    BY <1>1, <2>1 DEF Enter
  <2> HIDE DEF n, rec
  <2>4. proc'[n] = rec /\ \A s \in Slots : s # n => proc'[s] = pr[s]
    BY <2>1, <2>3
  <2> QED BY <2>1, <2>2, <2>3, <2>4 DEF ZombiesKept, ReadersKept, AwakeReader
<1>2. CASE EndSession(pr, q)
  BY <1>2 DEF EndSession
<1>3. CASE Idle(pr, q)
  BY <1>3 DEF Idle, HasBlocked, SomeLive, Live
<1> QED BY <1>1, <1>2, <1>3 DEF Switch

\* Entries of the run queue are READY.
LEMMA QueuedReady ==
    ASSUME Inv
    PROVE  /\ runq \in Seq(Slots) /\ proc \in [Slots -> ProcRecord]
           /\ \A i \in 1..Len(runq) : /\ runq[i] \in Slots
                                      /\ proc[runq[i]].state = "READY"
<1>1. runq \in Seq(Slots) /\ proc \in [Slots -> ProcRecord]
  BY DEF Inv, TypeOK
<1>2. \A i \in 1..Len(runq) : runq[i] \in Slots
  BY <1>1
<1>3. \A i \in 1..Len(runq) : runq[i] \in {s \in Slots : proc[s].state = "READY"}
  BY <1>2 DEF Inv, QueuesExact, Queues
<1> QED BY <1>1, <1>2, <1>3

\* Only the record of the current process is rewritten before scheduler_switch
\* is called: the zombies stay, and so do the readers but for the current one.
LEMMA CurrentSwitchKeeps ==
    ASSUME Inv, cpu \in {"user", "kernel"}, NEW rec \in ProcRecord,
           Switch([proc EXCEPT ![current] = rec], runq)
    PROVE  /\ ZombiesKept(proc')
           /\ proc[current].kctx # "read" => ReadersKept(proc')
           /\ cpu' = "idle" => SomeLive(proc')
<1> DEFINE pr == [proc EXCEPT ![current] = rec]
<1>1. /\ current \in Slots /\ proc[current].state = "RUNNING" /\ kernelWait = TRUE
  BY CurrentRuns, ZenonT(60)
<1>2. /\ runq \in Seq(Slots) /\ proc \in [Slots -> ProcRecord]
      /\ \A i \in 1..Len(runq) : /\ runq[i] \in Slots
                                 /\ proc[runq[i]].state = "READY"
  BY QueuedReady
<1>3. pr \in [Slots -> ProcRecord] /\ pr[current] = rec
      /\ \A s \in Slots : s # current => pr[s] = proc[s]
  BY <1>1, <1>2
<1> HIDE DEF pr
<1>4. \A i \in 1..Len(runq) : pr[runq[i]].state = "READY"
  BY <1>1, <1>2, <1>3
<1>5. ZombiesKept(pr) /\ (proc[current].kctx # "read" => ReadersKept(pr))
  BY <1>1, <1>3 DEF ZombiesKept, ReadersKept, AwakeReader
<1>6. Switch(pr, runq)
  BY DEF pr
<1> QED BY <1>1, <1>2, <1>3, <1>4, <1>5, <1>6, SwitchKeeps

\* The same when scheduler_add(s) comes first, for a process s that is live.
LEMMA AddSwitchKeeps ==
    ASSUME Inv, NEW pr \in [Slots -> ProcRecord], NEW s \in Slots,
           kernelWait = TRUE, ZombiesKept(pr), ReadersKept(pr),
           \A i \in 1..Len(runq) : pr[runq[i]].state = "READY",
           Addable(pr, s), Switch(AddProc(pr, s), AddQueue(pr, runq, s))
    PROVE  Quiet
<1> DEFINE ar == AddProc(pr, s)
           q == AddQueue(pr, runq, s)
           rec == [pr[s] EXCEPT !.state = "READY"]
<1>1. ar = [pr EXCEPT ![s] = rec] /\ q = Append(runq, s)
  BY DEF AddProc, AddQueue
<1>2. pr[s] \in ProcRecord
  OBVIOUS
<1>3. rec \in ProcRecord /\ rec.state = "READY" /\ rec.kctx = pr[s].kctx
  BY <1>2 DEF ProcRecord, ProcState
<1> HIDE DEF rec
<1>4. ar \in [Slots -> ProcRecord] /\ ar[s] = rec
      /\ \A t \in Slots : t # s => ar[t] = pr[t]
  BY <1>1, <1>3
<1>5. /\ runq \in Seq(Slots)
      /\ \A i \in 1..Len(runq) : runq[i] \in Slots
  BY QueuedReady
<1>6. /\ q \in Seq(Slots) /\ Len(q) = Len(runq) + 1 /\ q[Len(runq) + 1] = s
      /\ \A i \in 1..Len(runq) : q[i] = runq[i]
      /\ Len(runq) \in Nat
  BY <1>1, <1>5
<1>7. Switch(ar, q)
  OBVIOUS
<1> HIDE DEF ar, q
<1>8. ASSUME NEW i \in 1..Len(q) PROVE ar[q[i]].state = "READY"
  <2>1. CASE i = Len(runq) + 1
    BY <1>3, <1>4, <1>6, <2>1
  <2>2. CASE i \in 1..Len(runq)
    <3>1. q[i] \in Slots /\ pr[q[i]].state = "READY"
      BY <1>5, <1>6, <2>2
    <3> QED BY <1>3, <1>4, <3>1
  <2> QED BY <1>6, <2>1, <2>2
<1>9. ZombiesKept(ar) /\ ReadersKept(ar)
  BY <1>3, <1>4 DEF ZombiesKept, ReadersKept, AwakeReader, Addable
<1> QED BY <1>4, <1>6, <1>7, <1>8, <1>9, SwitchKeeps DEF Quiet

-----------------------------------------------------------------------------
(* The quiet steps *)

\* sys_exit: the caller is in no console read, and the parent it wakes sleeps.
LEMMA ExitQuiet == Inv /\ Exit => Quiet
<1> SUFFICES ASSUME Inv, Exit PROVE Quiet
  OBVIOUS
<1> DEFINE rec == [proc[current] EXCEPT !.state = "ZOMBIE"]
           z == [proc EXCEPT ![current] = rec]
<1>1. /\ cpu = "user" /\ current \in Slots /\ proc[current].state = "RUNNING"
      /\ kernelWait = TRUE
  BY CurrentRuns DEF Exit, Calling
<1>2. proc[current] \in ProcRecord /\ proc[current].kctx = "none"
  BY <1>1, CurrentRecord
<1>3. rec \in ProcRecord /\ rec.state = "ZOMBIE"
  BY <1>2 DEF ProcRecord, ProcState
<1>4. \/ \E p \in Slots : /\ WakesParent(z, current, p)
                          /\ Switch(AddProc(z, p), AddQueue(z, runq, p))
      \/ Switch(z, runq)
  BY ZenonT(60) DEF Exit
<1> HIDE DEF rec
<1>5. /\ runq \in Seq(Slots) /\ proc \in [Slots -> ProcRecord]
      /\ \A i \in 1..Len(runq) : /\ runq[i] \in Slots
                                 /\ proc[runq[i]].state = "READY"
  BY QueuedReady
<1>6. CASE Switch(z, runq)
  BY <1>1, <1>2, <1>3, <1>6, CurrentSwitchKeeps DEF Quiet
<1>7. ASSUME NEW p \in Slots, WakesParent(z, current, p),
             Switch(AddProc(z, p), AddQueue(z, runq, p))
      PROVE  Quiet
  <2>1. z \in [Slots -> ProcRecord] /\ z[current] = rec
        /\ \A s \in Slots : s # current => z[s] = proc[s]
    BY <1>1, <1>3, <1>5
  <2> HIDE DEF z
  <2>2. \A i \in 1..Len(runq) : z[runq[i]].state = "READY"
    BY <1>1, <1>5, <2>1
  <2>3. ZombiesKept(z) /\ ReadersKept(z)
    BY <1>1, <1>2, <1>3, <2>1 DEF ZombiesKept, ReadersKept, AwakeReader
  <2>4. Addable(z, p)
    BY <1>7 DEF WakesParent, Addable
  <2> QED BY <1>1, <1>7, <2>1, <2>2, <2>3, <2>4, AddSwitchKeeps
<1> QED BY <1>4, <1>6, <1>7, ZenonT(60)

\* The current process goes to the end of the run queue with a new record, in
\* yield or at the end of its time slice.
LEMMA RequeueQuiet ==
    ASSUME Inv, cpu = "user", NEW rec \in ProcRecord, rec.state = "RUNNING",
           Switch(AddProc([proc EXCEPT ![current] = rec], current),
                  AddQueue([proc EXCEPT ![current] = rec], runq, current))
    PROVE  Quiet
<1> DEFINE z == [proc EXCEPT ![current] = rec]
<1>1. /\ current \in Slots /\ proc[current].state = "RUNNING" /\ kernelWait = TRUE
      /\ proc[current].kctx = "none"
  BY CurrentRuns, CurrentRecord
<1>2. /\ runq \in Seq(Slots) /\ proc \in [Slots -> ProcRecord]
      /\ \A i \in 1..Len(runq) : /\ runq[i] \in Slots
                                 /\ proc[runq[i]].state = "READY"
  BY QueuedReady
<1>3. z \in [Slots -> ProcRecord] /\ z[current] = rec
      /\ \A s \in Slots : s # current => z[s] = proc[s]
  BY <1>1, <1>2
<1>4. Switch(AddProc(z, current), AddQueue(z, runq, current))
  OBVIOUS
<1> HIDE DEF z
<1>5. \A i \in 1..Len(runq) : z[runq[i]].state = "READY"
  BY <1>1, <1>2, <1>3
<1>6. ZombiesKept(z) /\ ReadersKept(z) /\ Addable(z, current)
  BY <1>1, <1>3 DEF ZombiesKept, ReadersKept, AwakeReader, Addable
<1> QED BY <1>1, <1>3, <1>4, <1>5, <1>6, AddSwitchKeeps

\* sys_yield.
LEMMA YieldQuiet == Inv /\ Yield => Quiet
<1> SUFFICES ASSUME Inv, Yield PROVE Quiet
  OBVIOUS
<1> DEFINE rec == [proc[current] EXCEPT !.resume = "USER"]
<1>1. cpu = "user" /\ proc[current] \in ProcRecord /\ proc[current].state = "RUNNING"
  BY CurrentRecord, CurrentRuns DEF Yield, Calling
<1>2. rec \in ProcRecord /\ rec.state = "RUNNING"
  BY <1>1 DEF ProcRecord
<1>3. Switch(AddProc([proc EXCEPT ![current] = rec], current),
             AddQueue([proc EXCEPT ![current] = rec], runq, current))
  BY DEF Yield
<1> HIDE DEF rec
<1> QED BY <1>1, <1>2, <1>3, RequeueQuiet

\* scheduler_timer_tick, with and without the end of the slice.
LEMMA TimerTickQuiet == Inv /\ TimerTick => Quiet
<1> SUFFICES ASSUME Inv, TimerTick PROVE Quiet
  OBVIOUS
<1> DEFINE c == current
           left == IF proc[c].ticks > 0 THEN proc[c].ticks - 1 ELSE 0
           ticked == [proc[c] EXCEPT !.ticks = left]
           saved == [proc[c] EXCEPT !.ticks = left, !.resume = "USER"]
<1>1. /\ cpu = "user" /\ c \in Slots /\ proc[c] \in ProcRecord
      /\ proc[c].state = "RUNNING" /\ proc[c].kctx = "none"
      /\ proc \in [Slots -> ProcRecord]
  BY CurrentRecord, CurrentRuns, ZenonT(60) DEF TimerTick, Inv, TypeOK
<1>2. left \in 0..TimeSlice
  BY <1>1, TimeSliceAssumption DEF ProcRecord
<1>3. \/ left # 0 /\ proc' = [proc EXCEPT ![c].ticks = left] /\ cpu' = cpu
      \/ LET sv == [[proc EXCEPT ![c].ticks = left] EXCEPT ![c].resume = "USER"]
         IN Switch(AddProc(sv, c), AddQueue(sv, runq, c))
  BY DEF TimerTick
<1> HIDE DEF left
<1>4. ticked.state = "RUNNING" /\ saved.state = "RUNNING" /\ saved \in ProcRecord
  BY <1>1, <1>2, ZenonT(60) DEF ProcRecord
<1>5. CASE left # 0 /\ proc' = [proc EXCEPT ![c].ticks = left] /\ cpu' = cpu
  <2>1. proc'[c] = ticked /\ \A s \in Slots : s # c => proc'[s] = proc[s]
    BY <1>1, <1>5
  <2> QED BY <1>1, <1>4, <1>5, <2>1
          DEF Quiet, ZombiesKept, ReadersKept, AwakeReader
<1>6. CASE LET sv == [[proc EXCEPT ![c].ticks = left] EXCEPT ![c].resume = "USER"]
           IN Switch(AddProc(sv, c), AddQueue(sv, runq, c))
  <2>1. [[proc EXCEPT ![c].ticks = left] EXCEPT ![c].resume = "USER"]
          = [proc EXCEPT ![c] = saved]
    BY <1>1, ZenonT(60)
  <2> HIDE DEF saved
  <2>2. Switch(AddProc([proc EXCEPT ![c] = saved], c),
               AddQueue([proc EXCEPT ![c] = saved], runq, c))
    BY <1>6, <2>1
  <2> QED BY <1>1, <1>4, <2>2, RequeueQuiet, ZenonT(60)
<1> QED BY <1>3, <1>5, <1>6

\* A step that rewrites the record of the current process and leaves it running.
LEMMA CurrentQuiet ==
    ASSUME Inv, cpu \in {"user", "kernel"}, NEW rec, rec.state = "RUNNING",
           proc[current].kctx # "read", proc' = [proc EXCEPT ![current] = rec],
           cpu' # "idle"
    PROVE  Quiet
<1>1. current \in Slots /\ proc[current].state = "RUNNING"
      /\ proc \in [Slots -> ProcRecord]
  BY CurrentRuns, ZenonT(60) DEF Inv, TypeOK
<1>2. proc'[current] = rec /\ \A s \in Slots : s # current => proc'[s] = proc[s]
  BY <1>1
<1> QED BY <1>1, <1>2 DEF Quiet, ZombiesKept, ReadersKept, AwakeReader

\* The entry and the failing return of waitpid, and the entry of read.
LEMMA CallQuiet == Inv /\ (WaitCall \/ WaitFails \/ ReadCall) => Quiet
<1> SUFFICES ASSUME Inv, WaitCall \/ WaitFails \/ ReadCall PROVE Quiet
  OBVIOUS
<1>1. cpu \in {"user", "kernel"} /\ cpu' # "idle"
  BY ZenonT(60) DEF WaitCall, WaitFails, ReadCall, Calling, InCall, ReturnToUser
<1>2. /\ current \in Slots /\ proc[current] \in ProcRecord
      /\ proc[current].state = "RUNNING" /\ proc \in [Slots -> ProcRecord]
      /\ cpu = "user" => proc[current].kctx = "none"
  BY <1>1, CurrentRuns, CurrentRecord, ZenonT(60) DEF Inv, TypeOK
<1>3. CASE WaitCall
  <2>1. PICK r \in 1..MaxPid \cup {AnyPid} :
           proc' = [proc EXCEPT ![current] = [@ EXCEPT !.request = r, !.kctx = "wait"]]
    BY <1>3, ZenonT(60) DEF WaitCall
  <2> DEFINE rec == [proc[current] EXCEPT !.request = r, !.kctx = "wait"]
  <2>2. rec.state = "RUNNING"
    BY <1>2 DEF ProcRecord
  <2>3. proc' = [proc EXCEPT ![current] = rec] /\ proc[current].kctx # "read"
    BY <1>2, <1>3, <2>1, ZenonT(60) DEF WaitCall, Calling
  <2> HIDE DEF rec
  <2> QED BY <1>1, <2>2, <2>3, CurrentQuiet, ZenonT(60)
<1>4. CASE WaitFails
  <2> DEFINE rec == [proc[current] EXCEPT !.wait = 0, !.kctx = "none", !.request = 0]
  <2>1. rec.state = "RUNNING"
    BY <1>2 DEF ProcRecord
  <2>2. proc' = [proc EXCEPT ![current] = rec] /\ proc[current].kctx # "read"
    BY <1>2, <1>4, ZenonT(60) DEF WaitFails, ReturnToUser, InCall
  <2> HIDE DEF rec
  <2> QED BY <1>1, <2>1, <2>2, CurrentQuiet, ZenonT(60)
<1>5. CASE ReadCall
  <2> DEFINE rec == [proc[current] EXCEPT !.kctx = "read"]
  <2>1. rec.state = "RUNNING"
    BY <1>2 DEF ProcRecord
  <2>2. proc' = [proc EXCEPT ![current] = rec] /\ proc[current].kctx # "read"
    BY <1>2, <1>5 DEF ReadCall, Calling
  <2> HIDE DEF rec
  <2> QED BY <1>1, <2>1, <2>2, CurrentQuiet, ZenonT(60)
<1> QED BY <1>3, <1>4, <1>5

\* waitpid goes to sleep: the caller is in no console read.
LEMMA WaitBlocksQuiet == Inv /\ WaitBlocks => Quiet
<1> SUFFICES ASSUME Inv, WaitBlocks PROVE Quiet
  OBVIOUS
<1> DEFINE rec == [proc[current] EXCEPT !.state = "BLOCKED",
                                        !.wait = Target(current),
                                        !.resume = "KERNEL"]
<1>1. cpu = "kernel" /\ proc[current].kctx = "wait" /\ proc[current] \in ProcRecord
  BY CurrentRecord DEF WaitBlocks, InCall
<1>2. Target(current) \in Nat \cup {AnyPid}
  BY <1>1 DEF Target, ProcRecord
<1>3. rec \in ProcRecord
  BY <1>1, <1>2, ZenonT(60) DEF ProcRecord, ProcState
<1>4. Switch([proc EXCEPT ![current] = rec], runq)
  BY DEF WaitBlocks
<1> HIDE DEF rec
<1> QED BY <1>1, <1>3, <1>4, CurrentSwitchKeeps DEF Quiet

\* The idle loop enters the process at the head of the run queue.
LEMMA IdleWakeQuiet == Inv /\ IdleWake => Quiet
<1> SUFFICES ASSUME Inv, IdleWake PROVE Quiet
  OBVIOUS
<1>1. Switch(proc, runq) /\ kernelWait = TRUE
  BY DEF IdleWake, Switch, Inv, OneRunning, TypeOK
<1>2. /\ runq \in Seq(Slots) /\ proc \in [Slots -> ProcRecord]
      /\ \A i \in 1..Len(runq) : proc[runq[i]].state = "READY"
  BY QueuedReady
<1>3. ZombiesKept(proc) /\ ReadersKept(proc)
  BY DEF ZombiesKept, ReadersKept
<1> QED BY <1>1, <1>2, <1>3, SwitchKeeps DEF Quiet

\* sys_spawn: the child takes a slot that was unused.
LEMMA SpawnQuiet == Inv /\ Spawn => Quiet
<1> SUFFICES ASSUME Inv, Spawn PROVE Quiet
  OBVIOUS
<1>1. PICK s \in Slots :
        LET loaded == [proc EXCEPT ![s] = Fresh(nextPid, proc[current].pid)]
        IN IsFreeSlot(proc, s) /\ proc' = AddProc(loaded, s)
  BY DEF Spawn
<1> DEFINE rec == Fresh(nextPid, proc[current].pid)
           loaded == [proc EXCEPT ![s] = rec]
<1>2. proc \in [Slots -> ProcRecord] /\ cpu' # "idle"
  BY DEF Spawn, Calling, Inv, TypeOK
<1> HIDE DEF rec
<1>3. \A t \in Slots : t # s => loaded[t] = proc[t]
  BY <1>2
<1>4. proc' = AddProc(loaded, s) /\ proc[s].state = "UNUSED"
  BY <1>1 DEF rec, IsFreeSlot, Used
<1>5. DOMAIN loaded = Slots
  BY <1>2
<1> HIDE DEF loaded
<1>6. \A t \in Slots : t # s => proc'[t] = proc[t]
  BY <1>3, <1>4, <1>5 DEF AddProc
<1> QED BY <1>2, <1>4, <1>6 DEF Quiet, ZombiesKept, ReadersKept, AwakeReader

\* exec_replace_current: the caller becomes a zombie, the new image takes a
\* slot that was unused, and at most the wait_target_pid of a third changes.
LEMMA ExecQuiet == Inv /\ Exec => Quiet
<1> SUFFICES ASSUME Inv, Exec PROVE Quiet
  OBVIOUS
<1> DEFINE c == current
           n == nextPid
<1>1. /\ c \in Slots /\ proc[c].state = "RUNNING" /\ kernelWait = TRUE
      /\ proc[c] \in ProcRecord /\ proc[c].kctx = "none"
  BY CurrentRuns, CurrentRecord DEF Exec, Calling
<1>2. /\ runq \in Seq(Slots) /\ proc \in [Slots -> ProcRecord]
      /\ \A i \in 1..Len(runq) : /\ runq[i] \in Slots
                                 /\ proc[runq[i]].state = "READY"
  BY QueuedReady
<1>3. n \in Nat
  BY DEF Inv, TypeOK
<1>4. PICK s \in Slots :
        LET loaded == [proc EXCEPT ![s] = Fresh(n, proc[c].ppid), ![c].replaced = n]
            moved == Retarget(loaded, c, s)
            retired == [moved EXCEPT ![c].state = "ZOMBIE"]
        IN /\ IsFreeSlot(proc, s)
           /\ Switch(AddProc(retired, s), AddQueue(retired, runq, s))
  BY ZenonT(60) DEF Exec
<1>5. proc[s].state = "UNUSED" /\ s # c
  BY <1>1, <1>4 DEF IsFreeSlot, Used
<1> DEFINE f == Fresh(n, proc[c].ppid)
           loaded == [proc EXCEPT ![s] = f, ![c].replaced = n]
           moved == Retarget(loaded, c, s)
           z == [moved EXCEPT ![c].state = "ZOMBIE"]
<1>6. f \in ProcRecord /\ f.state = "READY" /\ f.pid = n
  <2>1. TimeSlice \in 0..TimeSlice /\ proc[c].ppid \in Nat
    BY <1>1, TimeSliceAssumption DEF ProcRecord
  <2> QED BY <1>3, <2>1, ZenonT(60) DEF Fresh, Cleared, ProcRecord, ProcState
<1>7. Switch(AddProc(z, s), AddQueue(z, runq, s))
  BY <1>4
<1> HIDE DEF f
<1>8. /\ loaded \in [Slots -> ProcRecord] /\ loaded[s] = f
      /\ \A t \in Slots : t # s /\ t # c => loaded[t] = proc[t]
  <2>1. [proc[c] EXCEPT !.replaced = n] \in ProcRecord
    BY <1>1, <1>3, ZenonT(60) DEF ProcRecord
  <2> QED BY <1>1, <1>2, <1>5, <1>6, <2>1
<1> HIDE DEF loaded
<1>9. /\ moved \in [Slots -> ProcRecord]
      /\ \A p \in Slots : /\ moved[p].state = loaded[p].state
                          /\ moved[p].kctx = loaded[p].kctx
  <2> DEFINE wrec(p) == [loaded[p] EXCEPT !.wait = n]
  <2>1. \A p \in Slots : /\ wrec(p) \in ProcRecord
                         /\ wrec(p).state = loaded[p].state
                         /\ wrec(p).kctx = loaded[p].kctx
    <3> SUFFICES ASSUME NEW p \in Slots
                 PROVE  /\ wrec(p) \in ProcRecord
                        /\ wrec(p).state = loaded[p].state
                        /\ wrec(p).kctx = loaded[p].kctx
      OBVIOUS
    <3>1. loaded[p] \in ProcRecord
      BY <1>8
    <3> QED BY <3>1, <1>3 DEF ProcRecord
  <2>2. loaded[s].pid = n
    BY <1>6, <1>8
  <2>3. /\ DOMAIN moved = Slots
        /\ \A p \in Slots : moved[p] \in {wrec(p), loaded[p]}
        /\ moved = [p \in Slots |-> moved[p]]
    BY <2>2 DEF Retarget
  <2> HIDE DEF moved, wrec
  <2>4. \A p \in Slots : /\ moved[p] \in ProcRecord
                         /\ moved[p].state = loaded[p].state
                         /\ moved[p].kctx = loaded[p].kctx
    BY <1>8, <2>1, <2>3
  <2>5. moved \in [Slots -> ProcRecord]
    BY <2>3, <2>4
  <2> QED BY <2>4, <2>5
<1> HIDE DEF moved
<1> DEFINE zrec == [moved[c] EXCEPT !.state = "ZOMBIE"]
<1>10. /\ z \in [Slots -> ProcRecord] /\ z[c].state = "ZOMBIE"
       /\ \A t \in Slots : t # c => z[t] = moved[t]
  <2>1. moved[c] \in ProcRecord
    BY <1>1, <1>9
  <2>2. zrec \in ProcRecord /\ zrec.state = "ZOMBIE"
    BY <2>1 DEF ProcRecord, ProcState
  <2>3. z = [moved EXCEPT ![c] = zrec]
    OBVIOUS
  <2> HIDE DEF z, zrec
  <2> QED BY <1>1, <1>9, <2>2, <2>3
<1> HIDE DEF z
<1>11. \A i \in 1..Len(runq) : z[runq[i]].state = "READY"
  BY <1>1, <1>2, <1>5, <1>8, <1>9, <1>10
<1>12. ZombiesKept(z) /\ ReadersKept(z)
  BY <1>1, <1>5, <1>8, <1>9, <1>10 DEF ZombiesKept, ReadersKept, AwakeReader
<1>13. Addable(z, s)
  BY <1>5, <1>6, <1>8, <1>9, <1>10 DEF Addable
<1> QED BY <1>1, <1>7, <1>10, <1>11, <1>12, <1>13, AddSwitchKeeps

\* A key at most wakes a reader.  In the idle loop somebody stays live.
LEMMA KeyboardIRQQuiet ==
    ASSUME Inv, cpu = "idle" => SomeLive(proc), KeyboardIRQ
    PROVE  Quiet
<1>1. proc \in [Slots -> ProcRecord] /\ kbwait \in Seq(Slots) /\ cpu' = cpu
  BY DEF KeyboardIRQ, Inv, TypeOK
<1>2. CASE kbwait = <<>>
  BY <1>1, <1>2 DEF KeyboardIRQ, Quiet, ZombiesKept, ReadersKept
<1>3. CASE kbwait # <<>>
  <2> DEFINE h == Head(kbwait)
             rec == [proc[h] EXCEPT !.state = "READY"]
  <2>1. h \in Slots /\ proc[h].state = "BLOCKED" /\ proc[h].kctx = "read"
    <3> DEFINE S == {s \in Slots : proc[s].state = "BLOCKED" /\ proc[s].kctx = "read"}
    <3>1. Queues(kbwait, S)
      BY DEF Inv, QueuesExact
    <3> HIDE DEF S
    <3>2. h \in S
      BY <1>1, <1>3, <3>1, QueueTail
    <3> QED BY <3>2 DEF S
  <2>2. proc' = AddProc(proc, h)
    BY <1>3 DEF KeyboardIRQ
  <2> HIDE DEF h
  <2>3. proc[h] \in ProcRecord
    BY <1>1, <2>1
  <2>4. rec.state = "READY"
    BY <2>3 DEF ProcRecord
  <2>5. proc' = [proc EXCEPT ![h] = rec]
    BY <2>1, <2>2 DEF AddProc, Addable
  <2> HIDE DEF rec
  <2>6. proc'[h] = rec /\ \A t \in Slots : t # h => proc'[t] = proc[t]
    BY <1>1, <2>1, <2>5
  <2>7. ZombiesKept(proc') /\ ReadersKept(proc')
    BY <2>1, <2>4, <2>6 DEF ZombiesKept, ReadersKept, AwakeReader
  <2>8. SomeLive(proc')
    BY <2>1, <2>4, <2>6 DEF SomeLive, Live
  <2> QED BY <2>7, <2>8 DEF Quiet
<1> QED BY <1>2, <1>3

\* A key taken by the kernel shell, a load that fails, a stuttering step.
LEMMA SameTableQuiet ==
    ASSUME Inv, ShellKey \/ LoadFails \/ UNCHANGED vars,
           cpu = "idle" => SomeLive(proc)
    PROVE  Quiet
<1>1. proc' = proc /\ cpu' = cpu
  BY DEF ShellKey, LoadFails, vars
<1> QED BY <1>1 DEF Quiet, ZombiesKept, ReadersKept, SomeLive

\* waitpid collects a zombie child: only that slot and the record of the caller,
\* which is in no console read, change.
LEMMA CollectStep ==
    ASSUME Inv, WaitFollows \/ WaitReaps
    PROVE  /\ ReadersKept(proc') /\ cpu = "kernel" /\ cpu' # "idle"
           /\ \A t \in Slots :
                 proc[t].state = "ZOMBIE" /\ proc'[t].state # "ZOMBIE" =>
                    proc[t].ppid = proc[current].pid
<1>1. cpu = "kernel" /\ proc[current].kctx = "wait" /\ cpu' # "idle"
  BY ZenonT(60) DEF WaitFollows, WaitReaps, InCall, ReturnToUser
<1>2. /\ current \in Slots /\ proc[current] \in ProcRecord
      /\ proc[current].state = "RUNNING" /\ proc \in [Slots -> ProcRecord]
  BY <1>1, CurrentRuns, CurrentRecord, ZenonT(60) DEF Inv, TypeOK
<1>3. PICK s \in Slots :
        /\ IsWaitChild(current, s) /\ proc[s].state = "ZOMBIE"
        /\ \A t \in Slots : t # s /\ t # current => proc'[t] = proc[t]
  <2>1. CASE WaitFollows
    <3>1. PICK s \in Slots :
            /\ IsWaitChild(current, s) /\ proc[s].state = "ZOMBIE"
            /\ proc' = Destroy([proc EXCEPT ![current].wait = proc[s].replaced], s)
      BY <2>1, ZenonT(60) DEF WaitFollows
    <3>2. \A t \in Slots : t # s /\ t # current => proc'[t] = proc[t]
      BY <1>2, <3>1 DEF Destroy
    <3> QED BY <3>1, <3>2, ZenonT(60)
  <2>2. CASE WaitReaps
    <3>1. PICK s \in Slots :
            /\ IsWaitChild(current, s) /\ proc[s].state = "ZOMBIE"
            /\ ReturnToUser(Destroy([proc EXCEPT ![current].wait = 0], s))
      BY <2>2 DEF WaitReaps
    <3>2. \A t \in Slots : t # s /\ t # current => proc'[t] = proc[t]
      BY <1>2, <3>1 DEF Destroy, ReturnToUser
    <3> QED BY <3>1, <3>2
  <2> QED BY <2>1, <2>2
<1>4. ReadersKept(proc')
  BY <1>1, <1>2, <1>3 DEF ReadersKept, AwakeReader
<1>5. proc[s].ppid = proc[current].pid
  BY <1>3 DEF IsWaitChild, IsFirstChild, IsChild
<1>6. \A t \in Slots : proc[t].state = "ZOMBIE" /\ proc'[t].state # "ZOMBIE" =>
         proc[t].ppid = proc[current].pid
  BY <1>2, <1>3, <1>5
<1> QED BY <1>1, <1>4, <1>6

\* A console read is satisfied: only the caller's record changes.
LEMMA ReadReturnsStep ==
    ASSUME Inv, ReadReturns
    PROVE  /\ ZombiesKept(proc') /\ cpu' = "user"
           /\ current \in Slots /\ AwakeReader(proc, current)
           /\ \A t \in Slots : t # current => proc'[t] = proc[t]
<1>1. PICK n \in 0..keys, left \in {"none", "some"} :
         ReturnToUser([proc EXCEPT ![current].pending = left])
  BY ZenonT(60) DEF ReadReturns
<1>2. /\ current \in Slots /\ proc[current].state = "RUNNING"
      /\ proc[current].kctx = "read" /\ proc \in [Slots -> ProcRecord]
  BY CurrentRuns, ZenonT(60) DEF ReadReturns, InCall, Inv, TypeOK
<1>3. cpu' = "user" /\ \A t \in Slots : t # current => proc'[t] = proc[t]
  BY <1>1, <1>2 DEF ReturnToUser
<1> QED BY <1>2, <1>3 DEF ZombiesKept, AwakeReader

\* A console read goes to sleep.
LEMMA ReadBlocksStep ==
    ASSUME Inv, ReadBlocks
    PROVE  ZombiesKept(proc') /\ (cpu' = "idle" => SomeLive(proc')) /\ keys' = 0
<1> DEFINE rec == [proc[current] EXCEPT !.state = "BLOCKED", !.pending = "none",
                                        !.resume = "KERNEL"]
<1>1. cpu = "kernel" /\ proc[current] \in ProcRecord /\ keys' = 0
  BY CurrentRecord DEF ReadBlocks, InCall
<1>2. rec \in ProcRecord
  BY <1>1, ZenonT(60) DEF ProcRecord, ProcState
<1>3. Switch([proc EXCEPT ![current] = rec], runq)
  BY DEF ReadBlocks
<1> HIDE DEF rec
<1> QED BY <1>1, <1>2, <1>3, CurrentSwitchKeeps

\* process_reap_zombies of a table in which pids are positive: a zombie that
\* goes has no parent left in the table afterwards.
LEMMA ReapedOrphans ==
    ASSUME NEW pr \in [Slots -> ProcRecord], NEW D, Reaps(pr, D),
           \A t \in Slots : Used(pr, t) => pr[t].pid # 0
    PROVE  /\ \A t \in Slots : t \in D => pr[t].state = "ZOMBIE"
           /\ \A s \in Slots : s \in D => ~HasPid(DestroyAll(pr, D), pr[s].ppid)
<1>1. \A t \in Slots : t \in D => pr[t].state = "ZOMBIE"
  BY DEF Reaps
<1>2. ASSUME NEW s \in Slots, s \in D, NEW t \in Slots,
             Used(DestroyAll(pr, D), t), DestroyAll(pr, D)[t].pid = pr[s].ppid
      PROVE  FALSE
  <2>1. t \notin D /\ Used(pr, t) /\ pr[t].pid = pr[s].ppid
    BY <1>2 DEF DestroyAll, Used, Cleared
  <2>2. pr[s].ppid # 0
    BY <2>1
  <2> QED BY <1>2, <2>1, <2>2 DEF Reaps
<1> QED BY <1>1, <1>2 DEF HasPid

\* scheduler_run returns and reaps.
LEMMA SessionReturnStep ==
    ASSUME Inv, SessionReturn
    PROVE  /\ cpu' = "shell"
           /\ \A s \in Slots : proc[s].state = "ZOMBIE" /\ proc'[s].state # "ZOMBIE"
                 => ~HasPid(proc', proc[s].ppid)
<1>1. PICK D \in SUBSET Slots : Reaps(proc, D) /\ proc' = DestroyAll(proc, D)
  BY DEF SessionReturn
<1>2. proc \in [Slots -> ProcRecord] /\ \A t \in Slots : Used(proc, t) => proc[t].pid # 0
  BY DEF Inv, TypeOK, PidsOrdered
<1>3. \A s \in Slots : s \in D => ~HasPid(proc', proc[s].ppid)
  BY <1>1, <1>2, ReapedOrphans
<1>4. \A s \in Slots : s \notin D => proc'[s] = proc[s]
  BY <1>1 DEF DestroyAll
<1> QED BY <1>3, <1>4 DEF SessionReturn

\* scheduler_run starts a session: it reaps, and queues the new process.
LEMMA ShellRunStep ==
    ASSUME Inv, ShellRun
    PROVE  /\ SomeLive(proc')
           /\ \A s \in Slots : proc[s].state = "ZOMBIE" /\ proc'[s].state # "ZOMBIE"
                 => ~HasPid(proc', proc[s].ppid)
<1> DEFINE f == Fresh(nextPid, 0)
<1>1. PICK s \in Slots, D \in SUBSET Slots :
          LET loaded == [proc EXCEPT ![s] = f]
              reaped == DestroyAll(loaded, D)
          IN /\ IsFreeSlot(proc, s)
             /\ Reaps(loaded, D)
             /\ proc' = AddProc(reaped, s)
  BY DEF ShellRun
<1> DEFINE loaded == [proc EXCEPT ![s] = f]
           reaped == DestroyAll(loaded, D)
<1>2. /\ proc \in [Slots -> ProcRecord] /\ nextPid \in Nat \ {0}
      /\ \A t \in Slots : Used(proc, t) => proc[t].pid # 0
  BY DEF Inv, TypeOK, PidsOrdered
<1>3. f \in ProcRecord /\ f.state = "READY" /\ f.pid = nextPid /\ f.ppid = 0
  <2>1. TimeSlice \in 0..TimeSlice
    BY TimeSliceAssumption
  <2> QED BY <1>2, <2>1, ZenonT(60) DEF Fresh, Cleared, ProcRecord, ProcState
<1>4. Reaps(loaded, D) /\ proc' = AddProc(reaped, s) /\ proc[s].state = "UNUSED"
  BY <1>1 DEF IsFreeSlot, Used
<1> HIDE DEF f
<1>5. loaded \in [Slots -> ProcRecord] /\ loaded[s] = f
      /\ \A t \in Slots : t # s => loaded[t] = proc[t]
  BY <1>2, <1>3
<1> HIDE DEF loaded
<1>6. \A t \in Slots : Used(loaded, t) => loaded[t].pid # 0
  BY <1>2, <1>3, <1>5 DEF Used
<1>7. /\ s \notin D
      /\ \A t \in Slots : t \in D => ~HasPid(reaped, loaded[t].ppid)
  BY <1>3, <1>4, <1>5, <1>6, ReapedOrphans
<1>8. reaped[s] = f /\ DOMAIN reaped = Slots
      /\ \A t \in Slots : t \notin D => reaped[t] = loaded[t]
  BY <1>5, <1>7 DEF DestroyAll
<1>9. reaped[s].state = "READY" /\ proc' = [reaped EXCEPT ![s].state = "READY"]
  BY <1>3, <1>4, <1>8 DEF AddProc, Addable
<1> HIDE DEF reaped
<1>10. proc' = reaped
  <2>1. f = [f EXCEPT !.state = "READY"]
    BY <1>3, ZenonT(60) DEF f, Fresh, Cleared
  <2>2. reaped[s] = [reaped[s] EXCEPT !.state = "READY"]
    BY <1>8, <2>1
  <2>3. proc' = [reaped EXCEPT ![s] = reaped[s]]
    BY <1>9, <2>2, ZenonT(60)
  <2>4. reaped = [t \in Slots |-> reaped[t]]
    BY DEF reaped, DestroyAll
  <2> QED BY <1>8, <2>3, <2>4
<1>11. SomeLive(proc')
  BY <1>9, <1>10 DEF SomeLive, Live
<1>12. ASSUME NEW t \in Slots, proc[t].state = "ZOMBIE", proc'[t].state # "ZOMBIE"
       PROVE  ~HasPid(proc', proc[t].ppid)
  <2>1. t # s /\ t \in D
    BY <1>4, <1>5, <1>8, <1>10, <1>12
  <2> QED BY <1>5, <1>7, <1>10, <2>1
<1> QED BY <1>11, <1>12

-----------------------------------------------------------------------------
(* The three properties *)

\* The steps that are quiet, together.
LEMMA QuietSteps ==
    ASSUME Inv, cpu = "idle" => SomeLive(proc),
           \/ LoadFails \/ ShellKey \/ TimerTick \/ KeyboardIRQ \/ SystemCall
           \/ IdleWake \/ WaitFails \/ WaitBlocks \/ UNCHANGED vars
    PROVE  Quiet
BY ExitQuiet, YieldQuiet, TimerTickQuiet, CallQuiet, WaitBlocksQuiet, IdleWakeQuiet,
   SpawnQuiet, ExecQuiet, KeyboardIRQQuiet, SameTableQuiet DEF SystemCall

\* scheduler_wait_for_next idles only while some process of the session is
\* live; with Inv this is the inductive invariant for IdleAwaitsKey.
IdleLive == cpu = "idle" => SomeLive(proc)

\* Every step keeps IdleLive.
LEMMA IdleLiveNext == Inv /\ IdleLive /\ [Next]_vars => IdleLive'
<1> SUFFICES ASSUME Inv, IdleLive, [Next]_vars PROVE IdleLive'
  OBVIOUS
<1>1. CASE ShellRun
  BY <1>1, ShellRunStep DEF IdleLive, SomeLive, Live
<1>2. CASE SessionReturn
  BY <1>2, SessionReturnStep DEF IdleLive
<1>3. CASE WaitFollows \/ WaitReaps
  BY <1>3, CollectStep DEF IdleLive
<1>4. CASE ReadReturns
  BY <1>4, ReadReturnsStep DEF IdleLive
<1>5. CASE ReadBlocks
  BY <1>5, ReadBlocksStep DEF IdleLive, SomeLive, Live
<1>6. CASE \/ LoadFails \/ ShellKey \/ TimerTick \/ KeyboardIRQ \/ SystemCall
           \/ IdleWake \/ WaitFails \/ WaitBlocks \/ UNCHANGED vars
  BY <1>6, QuietSteps DEF Quiet, IdleLive, SomeLive, Live
<1> QED BY <1>1, <1>2, <1>3, <1>4, <1>5, <1>6 DEF Next, KernelStep

\* Among the live processes one has the largest pid.
LEMMA YoungestLive ==
    ASSUME Inv, SomeLive(proc)
    PROVE  \E s \in Slots : /\ Live(proc, s)
                            /\ \A t \in Slots : Live(proc, t) => proc[t].pid <= proc[s].pid
<1> DEFINE T == {n \in Nat : \E s \in Slots : Live(proc, s) /\ proc[s].pid = nextPid - n}
<1>1. nextPid \in Nat /\ \A s \in Slots : Live(proc, s) => proc[s].pid \in 1..(nextPid - 1)
  BY DEF Inv, TypeOK, PidsOrdered, Used, Live
<1>2. T # {}
  <2>1. PICK s \in Slots : Live(proc, s)
    BY DEF SomeLive
  <2>2. nextPid - proc[s].pid \in Nat /\ proc[s].pid = nextPid - (nextPid - proc[s].pid)
    BY <1>1, <2>1
  <2>3. nextPid - proc[s].pid \in T
    BY <2>1, <2>2
  <2> QED BY <2>3
<1>3. PICK n \in T : \A m \in T : n <= m
  <2> HIDE DEF T
  <2>1. T \subseteq Nat
    BY DEF T
  <2> QED BY <1>2, <2>1, LeastNatural, ZenonT(60)
<1>4. PICK s \in Slots : Live(proc, s) /\ proc[s].pid = nextPid - n
  OBVIOUS
<1>5. ASSUME NEW t \in Slots, Live(proc, t) PROVE proc[t].pid <= proc[s].pid
  <2>1. nextPid - proc[t].pid \in Nat /\ proc[t].pid = nextPid - (nextPid - proc[t].pid)
    BY <1>1, <1>5
  <2>2. nextPid - proc[t].pid \in T
    BY <1>5, <2>1
  <2>3. n <= nextPid - proc[t].pid
    BY <1>3, <2>2
  <2> QED BY <1>1, <1>4, <1>5, <2>3
<1> QED BY <1>4, <1>5

\* The processes of a session never all wait for each other.  The youngest live
\* process does not sleep in waitpid, because a child it waits for would be
\* younger; so it is queued or it sleeps in a console read.
THEOREM NoDeadlock == Spec => []IdleAwaitsKey
<1>1. Init => IdleLive
  BY DEF Init, IdleLive
<1>2. Spec => []IdleLive
  BY <1>1, Invariance, IdleLiveNext, PTL DEF Spec
<1>3. Inv /\ IdleLive => IdleAwaitsKey
  <2> SUFFICES ASSUME Inv, IdleLive, cpu = "idle", runq = <<>>, kbwait = <<>>
               PROVE  FALSE
    BY DEF IdleAwaitsKey
  <2>1. PICK s \in Slots :
          /\ Live(proc, s)
          /\ \A t \in Slots : Live(proc, t) => proc[t].pid <= proc[s].pid
    BY YoungestLive DEF IdleLive
  <2>2. proc[s].state # "READY" /\ ~(proc[s].state = "BLOCKED" /\ proc[s].kctx = "read")
    BY DEF Inv, QueuesExact, Queues
  <2>3. proc[s].state # "RUNNING"
    BY DEF Inv, OneRunning
  <2>4. proc \in [Slots -> ProcRecord]
    BY DEF Inv, TypeOK
  <2>5. proc[s].state = "BLOCKED" /\ proc[s].kctx = "wait"
    BY <2>1, <2>2, <2>3, <2>4 DEF Live, Inv, ResumesLiveFrame, ProcRecord
  <2>6. PICK c \in Slots : Live(proc, c) /\ proc[c].ppid = proc[s].pid
    BY <2>5 DEF Inv, WaiterHasLiveChild
  <2>7. proc[c].ppid < proc[c].pid /\ proc[c].pid \in Nat /\ proc[s].pid \in Nat
    BY <2>1, <2>6 DEF Inv, PidsOrdered, Used, Live
  <2> QED BY <2>1, <2>6, <2>7
<1> QED BY <1>2, <1>3, Invariance, PTL

\* An exit status is thrown away only once the parent is gone from the table.
THEOREM StatusIsKept == Spec => StatusKept
<1> DEFINE Kept == \A s \in Slots :
                      /\ proc[s].state = "ZOMBIE" /\ proc[s].replaced = 0
                      /\ proc'[s].state # "ZOMBIE"
                      => \/ cpu = "kernel" /\ proc[s].ppid = proc[current].pid
                         \/ ~HasPid(proc', proc[s].ppid)
<1>1. Init => IdleLive
  BY DEF Init, IdleLive
<1>2. ASSUME Inv, IdleLive, Next PROVE Kept
  <2>1. CASE ShellRun
    BY <1>2, <2>1, ShellRunStep
  <2>2. CASE SessionReturn
    BY <1>2, <2>2, SessionReturnStep
  <2>3. CASE WaitFollows \/ WaitReaps
    BY <1>2, <2>3, CollectStep
  <2>4. CASE ReadReturns
    BY <1>2, <2>4, ReadReturnsStep DEF ZombiesKept
  <2>5. CASE ReadBlocks
    BY <1>2, <2>5, ReadBlocksStep DEF ZombiesKept
  <2>6. CASE \/ LoadFails \/ ShellKey \/ TimerTick \/ KeyboardIRQ \/ SystemCall
             \/ IdleWake \/ WaitFails \/ WaitBlocks \/ UNCHANGED vars
    BY <1>2, <2>6, QuietSteps DEF Quiet, IdleLive, ZombiesKept
  <2> QED BY <1>2, <2>1, <2>2, <2>3, <2>4, <2>5, <2>6 DEF Next, KernelStep
<1>3. Inv /\ IdleLive /\ [Next]_vars => [Kept]_vars
  BY <1>2
<1> QED BY <1>1, <1>3, Invariance, IdleLiveNext, PTL DEF Spec, StatusKept

\* The readers that are awake are finitely many.
LEMMA ReadersFinite ==
    /\ IsFiniteSet(ReadersAwake) /\ Cardinality(ReadersAwake) \in Nat
    /\ IsFiniteSet(ReadersAwake') /\ Cardinality(ReadersAwake') \in Nat
<1>1. IsFiniteSet(Slots)
  BY ProcMaxAssumption, FS_Interval DEF Slots
<1>2. ReadersAwake \in SUBSET Slots /\ ReadersAwake' \in SUBSET Slots
  BY DEF ReadersAwake
<1> HIDE DEF ReadersAwake, Slots
<1>3. IsFiniteSet(ReadersAwake) /\ IsFiniteSet(ReadersAwake')
  BY <1>1, <1>2, FS_Subset
<1> QED BY <1>3, FS_CardinalityType

\* A step that leaves keys and waiters alone and loses no awake reader.
LEMMA ReadersGrow ==
    ASSUME KeysHaveReaders, Inv, ReadersKept(proc'), keys' = keys, kbwait' = kbwait
    PROVE  KeysHaveReaders'
<1>1. ReadersAwake \in SUBSET ReadersAwake'
  BY DEF ReadersAwake, ReadersKept, AwakeReader
<1>2. Cardinality(ReadersAwake) <= Cardinality(ReadersAwake')
  <2> HIDE DEF ReadersAwake
  <2> QED BY <1>1, ReadersFinite, FS_Subset
<1>3. keys \in Nat
  BY DEF Inv, TypeOK
<1> QED BY <1>2, <1>3, ReadersFinite DEF KeysHaveReaders

\* Outside a session nobody sleeps in a console read.
LEMMA NoReaderOutside ==
    ASSUME Inv, cpu \in {"shell", "return"}
    PROVE  kbwait = <<>>
<1>1. \A t \in Slots : proc[t].state \in {"UNUSED", "ZOMBIE"}
  BY NoneLive, ZenonT(60)
<1>2. \A t \in Slots : t \notin {s \in Slots : proc[s].state = "BLOCKED" /\ proc[s].kctx = "read"}
  BY <1>1
<1>3. kbwait \in Seq(Slots)
  BY DEF Inv, TypeOK
<1>4. \A i \in 1..Len(kbwait) : FALSE
  <2> SUFFICES ASSUME NEW i \in 1..Len(kbwait) PROVE FALSE
    OBVIOUS
  <2>1. kbwait[i] \in Slots
    BY <1>3
  <2> QED BY <1>2, <2>1 DEF Inv, QueuesExact, Queues
<1> QED BY <1>3, <1>4

\* A key that wakes a reader is matched by that reader.
LEMMA KeyWakesReader ==
    ASSUME Inv, KeysHaveReaders, KeyboardIRQ, ReadersKept(proc')
    PROVE  KeysHaveReaders'
<1>1. /\ proc \in [Slots -> ProcRecord] /\ kbwait \in Seq(Slots) /\ keys \in Nat
      /\ KeyMax \in Nat
  BY KeyMaxAssumption DEF Inv, TypeOK
<1>2. CASE kbwait = <<>>
  BY <1>2 DEF KeyboardIRQ, KeysHaveReaders
<1>3. CASE kbwait # <<>>
  <2> DEFINE h == Head(kbwait)
             rec == [proc[h] EXCEPT !.state = "READY"]
  <2>1. h \in Slots /\ proc[h].state = "BLOCKED" /\ proc[h].kctx = "read"
    <3> DEFINE S == {s \in Slots : proc[s].state = "BLOCKED" /\ proc[s].kctx = "read"}
    <3>1. Queues(kbwait, S)
      BY DEF Inv, QueuesExact
    <3> HIDE DEF S
    <3>2. h \in S
      BY <1>1, <1>3, <3>1, QueueTail, ZenonT(60)
    <3> QED BY <3>2 DEF S
  <2>2. proc' = AddProc(proc, h) /\ keys' <= keys + 1 /\ keys' \in Nat
    BY <1>1, <1>3 DEF KeyboardIRQ
  <2> HIDE DEF h
  <2>3. proc[h] \in ProcRecord
    BY <1>1, <2>1
  <2>4. rec.state = "READY" /\ rec.kctx = "read"
    BY <2>1, <2>3 DEF ProcRecord
  <2>5. proc' = [proc EXCEPT ![h] = rec]
    BY <2>1, <2>2 DEF AddProc, Addable
  <2> HIDE DEF rec
  <2>6. proc'[h] = rec
    BY <1>1, <2>1, <2>5
  <2>7. h \notin ReadersAwake /\ h \in ReadersAwake'
    BY <2>1, <2>4, <2>6 DEF ReadersAwake
  <2>8. ReadersAwake \cup {h} \in SUBSET ReadersAwake'
    BY <2>7 DEF ReadersAwake, ReadersKept, AwakeReader
  <2>9. Cardinality(ReadersAwake) + 1 <= Cardinality(ReadersAwake')
    <3> HIDE DEF ReadersAwake
    <3>1. Cardinality(ReadersAwake \cup {h}) = Cardinality(ReadersAwake) + 1
      BY <2>7, ReadersFinite, FS_AddElement, ZenonT(60)
    <3>2. Cardinality(ReadersAwake \cup {h}) <= Cardinality(ReadersAwake')
      BY <2>8, ReadersFinite, FS_Subset
    <3> QED BY <3>1, <3>2
  <2> QED BY <1>1, <1>3, <2>2, <2>9, ReadersFinite DEF KeysHaveReaders
<1> QED BY <1>2, <1>3

\* A read that is satisfied takes a key with it, or there was none.
LEMMA ReturnTakesKey ==
    ASSUME Inv, KeysHaveReaders, ReadReturns
    PROVE  KeysHaveReaders'
<1>1. /\ current \in Slots /\ AwakeReader(proc, current)
      /\ \A t \in Slots : t # current => proc'[t] = proc[t]
  BY ReadReturnsStep
<1>2. PICK n \in 0..keys : (n = 0 => keys = 0) /\ keys' = keys - n
  BY DEF ReadReturns
<1>3. keys \in Nat /\ kbwait' = kbwait
  BY DEF Inv, TypeOK, ReadReturns
<1>4. keys' = 0 \/ keys' <= keys - 1
  BY <1>2, <1>3
<1>5. current \in ReadersAwake /\ ReadersAwake \ {current} \in SUBSET ReadersAwake'
  BY <1>1 DEF ReadersAwake, AwakeReader
<1>6. Cardinality(ReadersAwake) - 1 <= Cardinality(ReadersAwake')
  <2> HIDE DEF ReadersAwake
  <2>1. Cardinality(ReadersAwake \ {current}) = Cardinality(ReadersAwake) - 1
    BY <1>5, ReadersFinite, FS_RemoveElement
  <2>2. Cardinality(ReadersAwake \ {current}) <= Cardinality(ReadersAwake')
    BY <1>5, ReadersFinite, FS_Subset
  <2> QED BY <2>1, <2>2
<1>7. keys' \in Nat
  BY <1>2, <1>3
<1> QED BY <1>3, <1>4, <1>6, <1>7, ReadersFinite DEF KeysHaveReaders

\* Every step keeps a reader for every key.
LEMMA KeysNext ==
    ASSUME Inv, Inv', IdleLive, KeysHaveReaders, [Next]_vars
    PROVE  KeysHaveReaders'
<1>1. CASE ShellRun \/ SessionReturn \/ ShellKey
  <2>1. kbwait' = <<>>
    BY <1>1, NoReaderOutside DEF ShellRun, SessionReturn, ShellKey
  <2> QED BY <2>1 DEF KeysHaveReaders
<1>2. CASE WaitFollows \/ WaitReaps
  BY <1>2, CollectStep, ReadersGrow, ZenonT(60) DEF WaitFollows, WaitReaps
<1>3. CASE ReadReturns
  BY <1>3, ReturnTakesKey
<1>4. CASE ReadBlocks
  BY <1>4, ReadBlocksStep, ReadersFinite DEF KeysHaveReaders
<1>5. CASE KeyboardIRQ
  BY <1>5, KeyWakesReader, QuietSteps DEF Quiet, IdleLive
<1>6. CASE \/ LoadFails \/ TimerTick \/ SystemCall
           \/ IdleWake \/ WaitFails \/ WaitBlocks \/ UNCHANGED vars
  <2>1. keys' = keys /\ kbwait' = kbwait
    BY <1>6, ZenonT(60) DEF LoadFails, TimerTick, SystemCall, Exit, Yield, Spawn, Exec, WaitCall,
                ReadCall, IdleWake, WaitFails, WaitBlocks, vars
  <2>2. ReadersKept(proc')
    BY <1>6, QuietSteps DEF Quiet, IdleLive
  <2> QED BY <2>1, <2>2, ReadersGrow
<1> QED BY <1>1, <1>2, <1>3, <1>4, <1>5, <1>6 DEF Next, KernelStep

\* No wakeup of a console read is lost: while readers sleep, every buffered key
\* has a reader that is awake and has still to look at the buffer.
THEOREM NoLostKey == Spec => []KeysHaveReaders
<1>1. Init => IdleLive /\ KeysHaveReaders
  BY DEF Init, IdleLive, KeysHaveReaders
<1> QED BY <1>1, Invariance, IdleLiveNext, KeysNext, PTL DEF Spec

=============================================================================
