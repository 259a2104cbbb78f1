-------------------------- MODULE SchedulerProofs --------------------------
(***************************************************************************)
(* Proofs about module Scheduler, for every number of slots, every pid     *)
(* bound, every time slice, every size of the key buffer and every set of  *)
(* system calls.                                                           *)
(***************************************************************************)
EXTENDS Scheduler, TLAPS

USE ZenonT(3), SMTT(30), Z3T(30), ZenonT(60)

\* The inductive invariant.  WaiterHasLiveChild, the property it is for, needs
\* every other conjunct: sys_exit finds the sleeping parent by pid
\* (PidsOrdered), looks at its state (QueuesExact, OneRunning) and at its
\* wait_target_pid (ResumesLiveFrame).
Inv ==
    /\ TypeOK
    /\ QueuesExact
    /\ OneRunning
    /\ PidsOrdered
    /\ ResumesLiveFrame
    /\ WaiterHasLiveChild

-----------------------------------------------------------------------------
(* The parts of the invariant as predicates of a table and its queues, to   *)
(* speak of the table a system call hands to scheduler_switch.              *)

QueuesOf(pr, q, kb) ==
    /\ Queues(q, {s \in Slots : pr[s].state = "READY"})
    /\ Queues(kb, {s \in Slots : pr[s].state = "BLOCKED" /\ pr[s].kctx = "read"})

PidsOf(pr, n) ==
    \A s \in Slots : Used(pr, s) =>
        /\ pr[s].pid \in 1..(n - 1)
        /\ pr[s].ppid < pr[s].pid
        /\ pr[s].replaced # 0 =>
              /\ pr[s].state = "ZOMBIE"
              /\ pr[s].replaced \in (pr[s].pid + 1)..(n - 1)
        /\ \A t \in Slots : Used(pr, t) /\ pr[t].pid = pr[s].pid => s = t

FramesOf(pr) ==
    \A s \in Slots :
        /\ pr[s].state = "BLOCKED" =>
              pr[s].resume = "KERNEL" /\ pr[s].kctx # "none"
        /\ pr[s].state = "READY" =>
              (pr[s].resume = "KERNEL" <=> pr[s].kctx # "none")
        /\ pr[s].state = "BLOCKED" /\ pr[s].kctx = "wait" => pr[s].wait # 0
        /\ Live(pr, s) /\ pr[s].wait # 0 => pr[s].kctx = "wait"
        /\ pr[s].kctx = "wait" => pr[s].request # 0

WaitersOf(pr) ==
    \A p \in Slots :
        pr[p].state = "BLOCKED" /\ pr[p].kctx = "wait" =>
            \E c \in Slots :
                /\ Live(pr, c)
                /\ pr[c].ppid = pr[p].pid
                /\ pr[p].wait \in {AnyPid, pr[c].pid}

\* What holds of the table pr, the run queue q, the keyboard queue kb and the
\* pid counter n when scheduler_switch is called.
PreSwitch(pr, q, kb, n) ==
    /\ pr \in [Slots -> ProcRecord]
    /\ q \in Seq(Slots)
    /\ kb \in Seq(Slots)
    /\ n \in 1..(MaxPid + 1)
    /\ \A s \in Slots : pr[s].state # "RUNNING"
    /\ QueuesOf(pr, q, kb)
    /\ PidsOf(pr, n)
    /\ FramesOf(pr)
    /\ WaitersOf(pr)

\* A change of the table that wakes waiters and ends nobody leaves every
\* remaining waiter its child.
LEMMA WaitersCarry ==
    ASSUME NEW a, NEW b, WaitersOf(a),
           \A s \in Slots : /\ b[s].pid = a[s].pid /\ b[s].ppid = a[s].ppid
                            /\ b[s].wait = a[s].wait /\ b[s].kctx = a[s].kctx
                            /\ b[s].state = "BLOCKED" => a[s].state = "BLOCKED",
           \A s \in Slots : Live(a, s) => Live(b, s)
    PROVE  WaitersOf(b)
<1> SUFFICES ASSUME NEW p \in Slots, b[p].state = "BLOCKED", b[p].kctx = "wait"
             PROVE  \E c \in Slots : /\ Live(b, c) /\ b[c].ppid = b[p].pid
                                     /\ b[p].wait \in {AnyPid, b[c].pid}
  BY DEF WaitersOf
<1>1. a[p].state = "BLOCKED" /\ a[p].kctx = "wait"
  OBVIOUS
<1>2. PICK c \in Slots : /\ Live(a, c) /\ a[c].ppid = a[p].pid
                         /\ a[p].wait \in {AnyPid, a[c].pid}
  BY <1>1 DEF WaitersOf
<1>3. Live(b, c) /\ b[c].ppid = b[p].pid /\ b[p].wait \in {AnyPid, b[c].pid}
  BY <1>2
<1> QED BY <1>3

-----------------------------------------------------------------------------
(* Queues *)

\* Appending a process that is not queued, as scheduler_add and
\* keyboard_enqueue_waiter do, keeps every entry unique.
LEMMA QueueAppend ==
    ASSUME NEW q \in Seq(Slots), NEW S, NEW s \in Slots, Queues(q, S), s \notin S
    PROVE  Append(q, s) \in Seq(Slots) /\ Queues(Append(q, s), S \cup {s})
<1> DEFINE r == Append(q, s)
<1>1. /\ r \in Seq(Slots) /\ Len(r) = Len(q) + 1
      /\ \A i \in 1..Len(q) : r[i] = q[i]
      /\ r[Len(q) + 1] = s
  OBVIOUS
<1>2. Len(q) \in Nat
  OBVIOUS
<1>3. \A i \in 1..Len(q) : q[i] \in Slots /\ q[i] # s
  BY DEF Queues
<1>4. ASSUME NEW i \in 1..Len(r), NEW j \in 1..Len(r), r[i] = r[j] PROVE i = j
  BY <1>1, <1>2, <1>3, <1>4 DEF Queues
<1>5. ASSUME NEW t \in Slots
      PROVE  t \in S \cup {s} <=> \E i \in 1..Len(r) : r[i] = t
  <2>1. CASE t \in S
    BY <1>1, <1>2, <2>1 DEF Queues
  <2>2. CASE t = s
    BY <1>1, <1>2, <2>2
  <2>3. CASE t \notin S \cup {s}
    BY <1>1, <1>2, <2>3 DEF Queues
  <2> QED BY <2>1, <2>2, <2>3
<1> HIDE DEF r
<1> QED BY <1>1, <1>4, <1>5 DEF Queues, r

\* Taking the head, as scheduler_take_next and keyboard_wait_pop do, removes
\* that process and no other.
LEMMA QueueTail ==
    ASSUME NEW q \in Seq(Slots), NEW S, Queues(q, S), q # <<>>
    PROVE  /\ Head(q) \in Slots /\ Head(q) \in S
           /\ Tail(q) \in Seq(Slots)
           /\ Queues(Tail(q), S \ {Head(q)})
<1> DEFINE r == Tail(q)
           h == Head(q)
<1>1. /\ r \in Seq(Slots) /\ Len(r) = Len(q) - 1 /\ Len(q) \in Nat \ {0}
      /\ \A i \in 1..Len(r) : r[i] = q[i + 1]
      /\ h = q[1] /\ h \in Slots
  OBVIOUS
<1> HIDE DEF r, h
<1>2. h \in S
  BY <1>1 DEF Queues
<1>3. ASSUME NEW i \in 1..Len(r), NEW j \in 1..Len(r), r[i] = r[j] PROVE i = j
  <2>1. i + 1 \in 1..Len(q) /\ j + 1 \in 1..Len(q) /\ q[i + 1] = q[j + 1]
    BY <1>1, <1>3
  <2> QED BY <2>1, <1>1 DEF Queues
<1>4. ASSUME NEW t \in Slots
      PROVE  t \in S \ {h} <=> \E i \in 1..Len(r) : r[i] = t
  <2>1. ASSUME t \in S, t # h PROVE \E i \in 1..Len(r) : r[i] = t
    <3>1. PICK k \in 1..Len(q) : q[k] = t
      BY <2>1 DEF Queues
    <3>2. k # 1 /\ k - 1 \in 1..Len(r) /\ (k - 1) + 1 = k
      BY <1>1, <2>1, <3>1
    <3>3. r[k - 1] = t
      BY <1>1, <3>1, <3>2
    <3> QED BY <3>2, <3>3
  <2>2. ASSUME NEW i \in 1..Len(r), r[i] = t PROVE t \in S /\ t # h
    <3>1. i + 1 \in 1..Len(q) /\ q[i + 1] = t /\ 1 \in 1..Len(q) /\ i + 1 # 1
      BY <1>1, <2>2
    <3> QED BY <3>1, <1>1 DEF Queues
  <2> QED BY <2>1, <2>2
<1>5. Queues(r, S \ {h})
  BY <1>1, <1>3, <1>4 DEF Queues
<1> QED BY <1>1, <1>2, <1>5 DEF r, h

-----------------------------------------------------------------------------
(* scheduler_switch *)

\* Whatever scheduler_switch does (enter a process, idle, end the session), it
\* establishes the invariant from a table in which nobody is RUNNING.
LEMMA SwitchInv ==
    ASSUME NEW pr, NEW q,
           PreSwitch(pr, q, kbwait', nextPid'),
           Switch(pr, q),
           kernelWait = TRUE, current \in Slots \cup {NoProc}, keys' \in 0..KeyMax
    PROVE  Inv'
<1> USE DEF PreSwitch
<1>1. CASE Enter(pr, q)
  <2> DEFINE n == Head(q)
             R == {s \in Slots : pr[s].state = "READY"}
  <2>1. /\ n \in Slots /\ pr[n].state = "READY" /\ Tail(q) \in Seq(Slots)
        /\ Queues(Tail(q), R \ {n})
    <3>1. Queues(q, R) /\ q # <<>> /\ q \in Seq(Slots)
      BY <1>1 DEF Enter, QueuesOf
    <3> HIDE DEF R
    <3>2. n \in Slots /\ n \in R /\ Tail(q) \in Seq(Slots)
          /\ Queues(Tail(q), R \ {n})
      BY <3>1, QueueTail
    <3> QED BY <3>2 DEF R
  <2> HIDE DEF n
  <2>2. /\ proc' = [pr EXCEPT ![n] = [@ EXCEPT !.state = "RUNNING",
                                              !.ticks = TimeSlice]]
        /\ runq' = Tail(q) /\ current' = n /\ kernelWait' = TRUE
        /\ cpu' = IF pr[n].resume = "KERNEL" THEN "kernel" ELSE "user"
    BY <1>1 DEF Enter, n
  <2>3. /\ proc' \in [Slots -> ProcRecord]
        /\ proc'[n] = [pr[n] EXCEPT !.state = "RUNNING", !.ticks = TimeSlice]
        /\ \A s \in Slots : s # n => proc'[s] = pr[s]
    <3> DEFINE rec == [pr[n] EXCEPT !.state = "RUNNING", !.ticks = TimeSlice]
    <3>1. pr[n] \in ProcRecord
      BY <2>1
    <3>2. rec \in ProcRecord
      <4>1. TimeSlice \in 0..TimeSlice
        BY TimeSliceAssumption
      <4> QED BY <3>1, <4>1, ZenonT(60) DEF ProcRecord, ProcState
    <3>3. proc' = [pr EXCEPT ![n] = rec]
      BY <2>1, <2>2
    <3> HIDE DEF rec
    <3>4. proc'[n] = rec /\ \A s \in Slots : s # n => proc'[s] = pr[s]
      BY <2>1, <3>3
    <3> QED BY <2>1, <3>2, <3>3, <3>4 DEF rec
  <2>4. /\ proc'[n].state = "RUNNING"
        /\ \A s \in Slots :
              /\ s # n => proc'[s].state = pr[s].state
              /\ proc'[s].pid = pr[s].pid /\ proc'[s].ppid = pr[s].ppid
              /\ proc'[s].wait = pr[s].wait /\ proc'[s].replaced = pr[s].replaced
              /\ proc'[s].resume = pr[s].resume /\ proc'[s].kctx = pr[s].kctx
              /\ proc'[s].request = pr[s].request
    <3> DEFINE rec == [pr[n] EXCEPT !.state = "RUNNING", !.ticks = TimeSlice]
    <3>1. pr[n] \in ProcRecord
      BY <2>1
    <3>2. /\ rec.state = "RUNNING"
          /\ rec.pid = pr[n].pid /\ rec.ppid = pr[n].ppid
          /\ rec.wait = pr[n].wait /\ rec.replaced = pr[n].replaced
          /\ rec.resume = pr[n].resume /\ rec.kctx = pr[n].kctx
          /\ rec.request = pr[n].request
      BY <3>1 DEF ProcRecord
    <3>3. proc'[n] = rec
      BY <2>3
    <3> HIDE DEF rec
    <3> QED BY <2>3, <3>2, <3>3
  <2>5. TypeOK'
    BY <2>1, <2>2, <2>3 DEF TypeOK, CpuMode
  <2>6. QueuesExact'
    <3>1. {s \in Slots : proc'[s].state = "READY"} = R \ {n}
      BY <2>1, <2>4
    <3>2. {s \in Slots : proc'[s].state = "BLOCKED" /\ proc'[s].kctx = "read"}
            = {s \in Slots : pr[s].state = "BLOCKED" /\ pr[s].kctx = "read"}
      BY <2>1, <2>4
    <3> QED BY <3>1, <3>2, <2>1, <2>2, ZenonT(60) DEF QueuesExact, QueuesOf
  <2>7. OneRunning'
    BY <2>1, <2>2, <2>4 DEF OneRunning, Slots, NoProc
  <2>8. PidsOrdered'
    <3>1. \A s \in Slots : Used(proc', s) = Used(pr, s)
      BY <2>1, <2>4 DEF Used
    <3>2. PidsOf(pr, nextPid')
      OBVIOUS
    <3> QED BY ONLY <2>1, <2>4, <3>1, <3>2 DEF PidsOrdered, PidsOf
  <2>9. ResumesLiveFrame'
    BY <2>1, <2>2, <2>4 DEF ResumesLiveFrame, FramesOf, Live
  <2>10. WaiterHasLiveChild'
    <3>1. \A s \in Slots :
            /\ proc'[s].pid = pr[s].pid /\ proc'[s].ppid = pr[s].ppid
            /\ proc'[s].wait = pr[s].wait /\ proc'[s].kctx = pr[s].kctx
            /\ proc'[s].state = "BLOCKED" => pr[s].state = "BLOCKED"
      BY <2>1, <2>4
    <3>2. \A s \in Slots : Live(pr, s) => Live(proc', s)
      BY <2>1, <2>4 DEF Live
    <3>3. WaitersOf(pr)
      OBVIOUS
    <3>4. WaitersOf(proc')
      BY <3>1, <3>2, <3>3, WaitersCarry
    <3> QED BY <3>4 DEF WaiterHasLiveChild, WaitersOf
  <2> QED BY <2>5, <2>6, <2>7, <2>8, <2>9, <2>10 DEF Inv
<1>2. CASE EndSession(pr, q)
  <2>1. proc' = pr /\ runq' = q /\ current' = NoProc /\ cpu' = "return"
        /\ kernelWait' = FALSE /\ q = <<>> /\ ~HasBlocked(pr)
    BY <1>2 DEF EndSession
  <2>2. \A s \in Slots : ~Live(pr, s)
    <3>1. \A s \in Slots : pr[s].state # "READY"
      BY <2>1 DEF QueuesOf, Queues
    <3> QED BY <2>1, <3>1 DEF Live, HasBlocked
  <2>3. TypeOK'
    BY <2>1, ZenonT(60) DEF TypeOK, CpuMode
  <2>4. QueuesExact'
    BY <2>1 DEF QueuesExact, QueuesOf
  <2>5. OneRunning'
    BY <2>1, <2>2 DEF OneRunning
  <2>6. PidsOrdered' /\ ResumesLiveFrame' /\ WaiterHasLiveChild'
    BY <2>1 DEF PidsOrdered, PidsOf, ResumesLiveFrame, FramesOf,
                WaiterHasLiveChild, WaitersOf
  <2> QED BY <2>3, <2>4, <2>5, <2>6 DEF Inv
<1>3. CASE Idle(pr, q)
  <2>1. proc' = pr /\ runq' = q /\ current' = current /\ cpu' = "idle"
        /\ kernelWait' = TRUE
    BY <1>3 DEF Idle
  <2>2. TypeOK'
    BY <2>1 DEF TypeOK, CpuMode
  <2>3. QueuesExact'
    BY <2>1 DEF QueuesExact, QueuesOf
  <2>4. OneRunning'
    BY <2>1 DEF OneRunning
  <2>5. PidsOrdered' /\ ResumesLiveFrame' /\ WaiterHasLiveChild'
    BY <2>1 DEF PidsOrdered, PidsOf, ResumesLiveFrame, FramesOf,
                WaiterHasLiveChild, WaitersOf
  <2> QED BY <2>2, <2>3, <2>4, <2>5 DEF Inv
<1> QED BY <1>1, <1>2, <1>3 DEF Switch

-----------------------------------------------------------------------------
(* Facts used for several actions *)

\* The process in ring 3 or in a blocking call is the only RUNNING one.
LEMMA CurrentRuns ==
    ASSUME Inv, cpu \in {"user", "kernel"}
    PROVE  /\ current \in Slots /\ proc[current].state = "RUNNING"
           /\ kernelWait = TRUE /\ keys \in 0..KeyMax
           /\ \A s \in Slots : s # current => proc[s].state # "RUNNING"
           /\ proc[current].replaced = 0 /\ proc[current].pid \in 1..(nextPid - 1)
<1>1. current \in Slots /\ proc[current].state = "RUNNING" /\ kernelWait = TRUE
      /\ \A s \in Slots : s # current => proc[s].state # "RUNNING"
  BY DEF Inv, OneRunning, TypeOK
<1>2. proc[current].replaced = 0 /\ proc[current].pid \in 1..(nextPid - 1)
  BY <1>1 DEF Inv, PidsOrdered, Used
<1> QED BY <1>1, <1>2 DEF Inv, TypeOK

\* What scheduler_add(s) makes of the table pr and the run queue q when s is on
\* no queue: the run queue grows by s, and only the state of s changes.
Added(pr, q, kb, s) ==
    LET ar == AddProc(pr, s)
    IN /\ ar \in [Slots -> ProcRecord]
       /\ AddQueue(pr, q, s) \in Seq(Slots)
       /\ QueuesOf(ar, AddQueue(pr, q, s), kb)
       /\ ar[s].state = "READY"
       /\ \A t \in Slots :
             /\ t # s => ar[t].state = pr[t].state
             /\ ar[t].pid = pr[t].pid /\ ar[t].ppid = pr[t].ppid
             /\ ar[t].wait = pr[t].wait /\ ar[t].replaced = pr[t].replaced
             /\ ar[t].resume = pr[t].resume /\ ar[t].kctx = pr[t].kctx
             /\ ar[t].request = pr[t].request

\* scheduler_add of a process that neither queue holds: the run queue grows by
\* that process, and only its state changes.
LEMMA AddUnqueued ==
    ASSUME NEW pr \in [Slots -> ProcRecord], NEW q \in Seq(Slots),
           NEW kb \in Seq(Slots), NEW s \in Slots, Addable(pr, s),
           Queues(q, {t \in Slots : t # s /\ pr[t].state = "READY"}),
           Queues(kb, {t \in Slots : /\ t # s /\ pr[t].state = "BLOCKED"
                                     /\ pr[t].kctx = "read"})
    PROVE  Added(pr, q, kb, s)
<1> DEFINE ar == AddProc(pr, s)
           rec == [pr[s] EXCEPT !.state = "READY"]
           R == {t \in Slots : t # s /\ pr[t].state = "READY"}
           K == {t \in Slots : t # s /\ pr[t].state = "BLOCKED" /\ pr[t].kctx = "read"}
<1>1. ar = [pr EXCEPT ![s].state = "READY"] /\ AddQueue(pr, q, s) = Append(q, s)
  BY DEF AddProc, AddQueue, Addable
<1>2. pr[s] \in ProcRecord
  OBVIOUS
<1>3. rec \in ProcRecord
  BY <1>2, ZenonT(60) DEF ProcRecord, ProcState
<1>4. /\ rec.state = "READY"
      /\ rec.pid = pr[s].pid /\ rec.ppid = pr[s].ppid
      /\ rec.wait = pr[s].wait /\ rec.replaced = pr[s].replaced
      /\ rec.resume = pr[s].resume /\ rec.kctx = pr[s].kctx
      /\ rec.request = pr[s].request
  BY <1>2 DEF ProcRecord
<1>5. ar = [pr EXCEPT ![s] = rec]
  BY <1>1
<1> HIDE DEF ar, rec
<1>6. ar \in [Slots -> ProcRecord] /\ ar[s] = rec
      /\ \A t \in Slots : t # s => ar[t] = pr[t]
  BY <1>3, <1>5
<1>7. {t \in Slots : ar[t].state = "READY"} = R \cup {s}
  BY <1>4, <1>6
<1>8. {t \in Slots : ar[t].state = "BLOCKED" /\ ar[t].kctx = "read"} = K
  BY <1>4, <1>6
<1>9. Queues(q, R) /\ Queues(kb, K) /\ s \notin R
  BY DEF QueuesOf
<1> HIDE DEF R, K
<1>10. Append(q, s) \in Seq(Slots) /\ Queues(Append(q, s), R \cup {s})
  BY <1>9, QueueAppend
<1>11. QueuesOf(ar, AddQueue(pr, q, s), kb)
  BY <1>1, <1>7, <1>8, <1>9, <1>10, ZenonT(60) DEF QueuesOf
<1> QED BY <1>1, <1>4, <1>6, <1>10, <1>11 DEF ar, Added

\* The same for a process that is RUNNING, or BLOCKED elsewhere than in a
\* console read, when the queues are exact.
LEMMA AddQueued ==
    ASSUME NEW pr \in [Slots -> ProcRecord], NEW q \in Seq(Slots),
           NEW kb \in Seq(Slots), NEW s \in Slots,
           QueuesOf(pr, q, kb), pr[s].state \in {"RUNNING", "BLOCKED"},
           ~(pr[s].state = "BLOCKED" /\ pr[s].kctx = "read")
    PROVE  Added(pr, q, kb, s)
<1>1. Addable(pr, s)
  BY DEF Addable
<1>2. {t \in Slots : t # s /\ pr[t].state = "READY"}
        = {t \in Slots : pr[t].state = "READY"}
  OBVIOUS
<1>3. {t \in Slots : t # s /\ pr[t].state = "BLOCKED" /\ pr[t].kctx = "read"}
        = {t \in Slots : pr[t].state = "BLOCKED" /\ pr[t].kctx = "read"}
  OBVIOUS
<1>4. /\ Queues(q, {t \in Slots : t # s /\ pr[t].state = "READY"})
      /\ Queues(kb, {t \in Slots : /\ t # s /\ pr[t].state = "BLOCKED"
                                   /\ pr[t].kctx = "read"})
  BY <1>2, <1>3, ZenonT(60) DEF QueuesOf
<1> QED BY <1>1, <1>4, AddUnqueued

-----------------------------------------------------------------------------
(* System calls that give up the processor *)

\* sys_exit.  A parent whose last live child this was, and which sleeps for
\* it, is the process that process_by_pid finds, so it is woken.
LEMMA ExitInv == Inv /\ Exit => Inv'
<1> SUFFICES ASSUME Inv, Exit PROVE Inv'
  OBVIOUS
<1> DEFINE c == current
           z == [proc EXCEPT ![current].state = "ZOMBIE"]
           rec == [proc[c] EXCEPT !.state = "ZOMBIE"]
<1>1. /\ c \in Slots /\ proc[c].state = "RUNNING" /\ kernelWait = TRUE
      /\ keys \in 0..KeyMax /\ proc[c].replaced = 0
      /\ \A s \in Slots : s # c => proc[s].state # "RUNNING"
  BY CurrentRuns DEF Exit, Calling
<1>2. /\ proc \in [Slots -> ProcRecord] /\ proc[c] \in ProcRecord
      /\ runq \in Seq(Slots) /\ kbwait \in Seq(Slots) /\ nextPid \in 1..(MaxPid + 1)
      /\ c \in Slots \cup {NoProc}
  BY <1>1 DEF Inv, TypeOK
<1>3. /\ rec \in ProcRecord /\ rec.state = "ZOMBIE"
      /\ rec.pid = proc[c].pid /\ rec.ppid = proc[c].ppid
      /\ rec.wait = proc[c].wait /\ rec.replaced = proc[c].replaced
      /\ rec.resume = proc[c].resume /\ rec.kctx = proc[c].kctx
      /\ rec.request = proc[c].request
  BY <1>2, ZenonT(60) DEF ProcRecord, ProcState
<1>4. z = [proc EXCEPT ![c] = rec]
  OBVIOUS
<1> HIDE DEF rec
<1>5. /\ z \in [Slots -> ProcRecord] /\ z[c].state = "ZOMBIE"
      /\ \A t \in Slots :
            /\ t # c => z[t].state = proc[t].state
            /\ z[t].pid = proc[t].pid /\ z[t].ppid = proc[t].ppid
            /\ z[t].wait = proc[t].wait /\ z[t].replaced = proc[t].replaced
            /\ z[t].resume = proc[t].resume /\ z[t].kctx = proc[t].kctx
            /\ z[t].request = proc[t].request
  BY <1>1, <1>2, <1>3, <1>4
<1>6. /\ kbwait' = kbwait /\ nextPid' = nextPid /\ keys' = keys
      /\ \/ \E p \in Slots :
               /\ WakesParent(z, c, p)
               /\ Switch(AddProc(z, p), AddQueue(z, runq, p))
         \/ /\ \A p \in Slots : ~WakesParent(z, c, p)
            /\ Switch(z, runq)
  BY ZenonT(60) DEF Exit
<1> HIDE DEF z
<1>7. \A s \in Slots : z[s].state # "RUNNING"
  BY <1>1, <1>5
<1>8. QueuesOf(z, runq, kbwait)
  <2>1. {t \in Slots : z[t].state = "READY"} = {t \in Slots : proc[t].state = "READY"}
    BY <1>1, <1>5
  <2>2. {t \in Slots : z[t].state = "BLOCKED" /\ z[t].kctx = "read"}
          = {t \in Slots : proc[t].state = "BLOCKED" /\ proc[t].kctx = "read"}
    BY <1>1, <1>5
  <2> QED BY <2>1, <2>2, ZenonT(60) DEF Inv, QueuesExact, QueuesOf
<1>9. PidsOf(z, nextPid)
  <2>1. \A s \in Slots : Used(z, s) = Used(proc, s)
    BY <1>1, <1>5 DEF Used
  <2> QED BY <1>1, <1>5, <2>1 DEF Inv, PidsOrdered, PidsOf
<1>10. FramesOf(z)
  BY <1>1, <1>5 DEF Inv, ResumesLiveFrame, FramesOf, Live
<1>11. ASSUME NEW w \in Slots, z[w].state = "BLOCKED", z[w].kctx = "wait"
       PROVE  \/ WakesParent(z, c, w)
              \/ \E x \in Slots : /\ x # c /\ Live(z, x) /\ z[x].ppid = z[w].pid
                                  /\ z[w].wait \in {AnyPid, z[x].pid}
  <2>1. PICK x \in Slots : /\ Live(proc, x) /\ proc[x].ppid = proc[w].pid
                           /\ proc[w].wait \in {AnyPid, proc[x].pid}
    BY <1>1, <1>5, <1>11 DEF Inv, WaiterHasLiveChild
  <2>2. CASE x = c
    <3>1. Used(z, w) /\ z[w].pid = z[c].ppid
      BY <1>5, <1>11, <2>1, <2>2 DEF Used
    <3>2. IsByPid(z, z[c].ppid, w)
      BY <3>1, <1>9 DEF PidsOf, IsByPid, Slots
    <3> QED BY <3>2, <1>5, <1>11, <2>1, <2>2 DEF WakesParent
  <2>3. CASE x # c
    BY <1>5, <2>1, <2>3 DEF Live
  <2> QED BY <2>2, <2>3
<1>12. CASE \E p \in Slots : /\ WakesParent(z, c, p)
                             /\ Switch(AddProc(z, p), AddQueue(z, runq, p))
  <2>1. PICK p \in Slots : /\ WakesParent(z, c, p)
                           /\ Switch(AddProc(z, p), AddQueue(z, runq, p))
    BY <1>12
  <2>2. /\ z[p].state = "BLOCKED" /\ z[p].pid = z[c].ppid /\ p # c
        /\ z[p].wait \in {AnyPid, z[c].pid}
    BY <2>1, <1>5 DEF WakesParent, IsByPid
  <2>3. z[p].kctx = "wait"
    <3>1. z[p].wait # 0
      BY <2>2, <1>1, <1>5 DEF AnyPid, Inv, PidsOrdered, Used
    <3> QED BY <3>1, <2>2, <1>10 DEF FramesOf, Live
  <2> DEFINE ar == AddProc(z, p)
  <2>4. /\ ar \in [Slots -> ProcRecord] /\ AddQueue(z, runq, p) \in Seq(Slots)
        /\ QueuesOf(ar, AddQueue(z, runq, p), kbwait) /\ ar[p].state = "READY"
        /\ \A t \in Slots :
              /\ t # p => ar[t].state = z[t].state
              /\ ar[t].pid = z[t].pid /\ ar[t].ppid = z[t].ppid
              /\ ar[t].wait = z[t].wait /\ ar[t].replaced = z[t].replaced
              /\ ar[t].resume = z[t].resume /\ ar[t].kctx = z[t].kctx
              /\ ar[t].request = z[t].request
    <3>1. Added(z, runq, kbwait, p)
      BY <1>2, <1>5, <1>8, <2>2, <2>3, AddQueued
    <3> QED BY <3>1 DEF Added
  <2> HIDE DEF ar
  <2>5. PidsOf(ar, nextPid)
    <3>1. \A s \in Slots : Used(ar, s) = Used(z, s)
      BY <2>2, <2>4 DEF Used
    <3> QED BY <1>9, <2>2, <2>4, <3>1 DEF PidsOf
  <2>6. FramesOf(ar)
    BY <1>10, <2>2, <2>3, <2>4 DEF FramesOf, Live
  <2>7. WaitersOf(ar)
    <3> SUFFICES ASSUME NEW w \in Slots, ar[w].state = "BLOCKED", ar[w].kctx = "wait"
                 PROVE  \E x \in Slots : /\ Live(ar, x) /\ ar[x].ppid = ar[w].pid
                                         /\ ar[w].wait \in {AnyPid, ar[x].pid}
      BY DEF WaitersOf
    <3>1. w # p /\ z[w].state = "BLOCKED" /\ z[w].kctx = "wait"
      BY <2>4
    <3>2. ~WakesParent(z, c, w)
      BY <3>1, <2>1, <1>9 DEF WakesParent, IsByPid, PidsOf
    <3>3. PICK x \in Slots : /\ x # c /\ Live(z, x) /\ z[x].ppid = z[w].pid
                             /\ z[w].wait \in {AnyPid, z[x].pid}
      BY <3>1, <3>2, <1>11
    <3> QED BY <3>3, <2>2, <2>4 DEF Live
  <2>8. \A s \in Slots : ar[s].state # "RUNNING"
    BY <1>7, <2>4
  <2>9. PreSwitch(ar, AddQueue(z, runq, p), kbwait', nextPid')
    BY <1>2, <1>6, <2>4, <2>5, <2>6, <2>7, <2>8 DEF PreSwitch
  <2> QED BY <1>1, <1>2, <1>6, <2>1, <2>9, SwitchInv DEF ar
<1>13. CASE (\A p \in Slots : ~WakesParent(z, c, p)) /\ Switch(z, runq)
  <2>1. WaitersOf(z)
    BY <1>11, <1>13 DEF WaitersOf
  <2>2. PreSwitch(z, runq, kbwait', nextPid')
    BY <1>2, <1>5, <1>6, <1>7, <1>8, <1>9, <1>10, <2>1 DEF PreSwitch
  <2> QED BY <1>1, <1>2, <1>6, <1>13, <2>2, SwitchInv
<1> QED BY <1>6, <1>12, <1>13

\* The tables agree on every field the invariant speaks of.
SameFields(pr, ar) ==
    \A t \in Slots :
        /\ ar[t].state = pr[t].state /\ ar[t].resume = pr[t].resume
        /\ ar[t].pid = pr[t].pid /\ ar[t].ppid = pr[t].ppid
        /\ ar[t].wait = pr[t].wait /\ ar[t].replaced = pr[t].replaced
        /\ ar[t].kctx = pr[t].kctx /\ ar[t].request = pr[t].request

\* A step that changes none of those fields, no queue and not the processor
\* keeps the invariant; the pid counter may grow and keys may come and go.
LEMMA SameTable ==
    ASSUME Inv, proc' \in [Slots -> ProcRecord], SameFields(proc, proc'),
           UNCHANGED <<current, runq, kbwait, kernelWait, cpu>>,
           keys' \in 0..KeyMax, nextPid' \in 1..(MaxPid + 1), nextPid' >= nextPid
    PROVE  Inv'
<1> USE DEF SameFields
<1>1. TypeOK'
  BY DEF Inv, TypeOK
<1>2. QueuesExact'
  <2>1. {t \in Slots : proc'[t].state = "READY"}
          = {t \in Slots : proc[t].state = "READY"}
    OBVIOUS
  <2>2. {t \in Slots : proc'[t].state = "BLOCKED" /\ proc'[t].kctx = "read"}
          = {t \in Slots : proc[t].state = "BLOCKED" /\ proc[t].kctx = "read"}
    OBVIOUS
  <2> QED BY <2>1, <2>2, ZenonT(60) DEF Inv, QueuesExact
<1>3. OneRunning'
  BY DEF Inv, OneRunning, Live
<1>4. PidsOrdered'
  <2>1. \A s \in Slots : Used(proc', s) = Used(proc, s)
    BY DEF Used
  <2>2. nextPid \in Int /\ nextPid' \in Int
    BY DEF Inv, TypeOK
  <2>3. \A s \in Slots : proc[s].pid \in Nat /\ proc[s].replaced \in Nat
    BY DEF Inv, TypeOK, ProcRecord
  <2> QED BY <2>1, <2>2, <2>3 DEF Inv, PidsOrdered
<1>5. ResumesLiveFrame'
  BY DEF Inv, ResumesLiveFrame, Live
<1>6. WaiterHasLiveChild'
  BY DEF Inv, WaiterHasLiveChild, Live
<1> QED BY <1>1, <1>2, <1>3, <1>4, <1>5, <1>6 DEF Inv

\* The current process, its context saved as a user context, goes to the end
\* of the run queue: sys_yield, and the end of a time slice.
LEMMA RequeueInv ==
    ASSUME Inv, cpu = "user", NEW rec \in ProcRecord,
           rec.state = "RUNNING", rec.resume = "USER",
           rec.pid = proc[current].pid, rec.ppid = proc[current].ppid,
           rec.wait = proc[current].wait, rec.replaced = proc[current].replaced,
           rec.kctx = proc[current].kctx, rec.request = proc[current].request,
           LET z == [proc EXCEPT ![current] = rec]
           IN  Switch(AddProc(z, current), AddQueue(z, runq, current)),
           UNCHANGED <<nextPid, kbwait, keys>>
    PROVE  Inv'
<1> DEFINE c == current
           z == [proc EXCEPT ![current] = rec]
           ar == AddProc(z, c)
           aq == AddQueue(z, runq, c)
<1>1. /\ c \in Slots /\ proc[c].state = "RUNNING" /\ kernelWait = TRUE
      /\ keys \in 0..KeyMax /\ proc[c].replaced = 0
      /\ \A s \in Slots : s # c => proc[s].state # "RUNNING"
  BY CurrentRuns
<1>2. /\ proc \in [Slots -> ProcRecord] /\ c \in Slots \cup {NoProc}
      /\ runq \in Seq(Slots) /\ kbwait \in Seq(Slots) /\ nextPid \in 1..(MaxPid + 1)
  BY <1>1 DEF Inv, TypeOK
<1>3. rec.kctx = "none"
  BY <1>1 DEF Inv, ResumesLiveFrame
<1>4. /\ z \in [Slots -> ProcRecord]
      /\ \A t \in Slots :
            /\ z[t].state = proc[t].state
            /\ z[t].pid = proc[t].pid /\ z[t].ppid = proc[t].ppid
            /\ z[t].wait = proc[t].wait /\ z[t].replaced = proc[t].replaced
            /\ z[t].kctx = proc[t].kctx /\ z[t].request = proc[t].request
            /\ t # c => z[t].resume = proc[t].resume
      /\ z[c].resume = "USER"
  BY <1>1, <1>2
<1>5. Switch(ar, aq) /\ kbwait' = kbwait /\ nextPid' = nextPid /\ keys' = keys
  OBVIOUS
<1> HIDE DEF z
<1>6. QueuesOf(z, runq, kbwait)
  <2>1. {t \in Slots : z[t].state = "READY"} = {t \in Slots : proc[t].state = "READY"}
    BY <1>4
  <2>2. {t \in Slots : z[t].state = "BLOCKED" /\ z[t].kctx = "read"}
          = {t \in Slots : proc[t].state = "BLOCKED" /\ proc[t].kctx = "read"}
    BY <1>4
  <2> QED BY <2>1, <2>2, ZenonT(60) DEF Inv, QueuesExact, QueuesOf
<1>7. /\ ar \in [Slots -> ProcRecord] /\ aq \in Seq(Slots)
      /\ QueuesOf(ar, aq, kbwait) /\ ar[c].state = "READY"
      /\ \A t \in Slots :
            /\ t # c => ar[t].state = z[t].state
            /\ ar[t].pid = z[t].pid /\ ar[t].ppid = z[t].ppid
            /\ ar[t].wait = z[t].wait /\ ar[t].replaced = z[t].replaced
            /\ ar[t].resume = z[t].resume /\ ar[t].kctx = z[t].kctx
            /\ ar[t].request = z[t].request
  <2>1. Added(z, runq, kbwait, c)
    BY <1>1, <1>2, <1>4, <1>6, AddQueued
  <2> QED BY <2>1 DEF Added
<1> HIDE DEF ar, aq
<1>8. PidsOf(ar, nextPid)
  <2>1. \A s \in Slots : Used(ar, s) = Used(proc, s)
    BY <1>1, <1>4, <1>7 DEF Used
  <2> QED BY <1>1, <1>4, <1>7, <2>1 DEF Inv, PidsOrdered, PidsOf
<1>9. FramesOf(ar)
  BY <1>1, <1>3, <1>4, <1>7 DEF Inv, ResumesLiveFrame, FramesOf, Live
<1>10. WaitersOf(ar)
  <2>1. \A s \in Slots :
          /\ ar[s].pid = proc[s].pid /\ ar[s].ppid = proc[s].ppid
          /\ ar[s].wait = proc[s].wait /\ ar[s].kctx = proc[s].kctx
          /\ ar[s].state = "BLOCKED" => proc[s].state = "BLOCKED"
    BY <1>4, <1>7
  <2>2. \A s \in Slots : Live(proc, s) => Live(ar, s)
    BY <1>4, <1>7 DEF Live
  <2>3. WaitersOf(proc)
    BY DEF Inv, WaiterHasLiveChild, WaitersOf
  <2> QED BY <2>1, <2>2, <2>3, WaitersCarry
<1>11. \A s \in Slots : ar[s].state # "RUNNING"
  BY <1>1, <1>4, <1>7
<1>12. PreSwitch(ar, aq, kbwait', nextPid')
  BY <1>2, <1>5, <1>7, <1>8, <1>9, <1>10, <1>11 DEF PreSwitch
<1> QED BY <1>1, <1>2, <1>5, <1>12, SwitchInv

\* sys_yield.
LEMMA YieldInv == Inv /\ Yield => Inv'
<1> SUFFICES ASSUME Inv, Yield PROVE Inv'
  OBVIOUS
<1> DEFINE rec == [proc[current] EXCEPT !.resume = "USER"]
<1>1. current \in Slots /\ proc[current].state = "RUNNING" /\ cpu = "user"
  BY CurrentRuns DEF Yield, Calling
<1>2. proc[current] \in ProcRecord
  BY <1>1 DEF Inv, TypeOK
<1>3. /\ rec \in ProcRecord /\ rec.state = "RUNNING" /\ rec.resume = "USER"
      /\ rec.pid = proc[current].pid /\ rec.ppid = proc[current].ppid
      /\ rec.wait = proc[current].wait /\ rec.replaced = proc[current].replaced
      /\ rec.kctx = proc[current].kctx /\ rec.request = proc[current].request
  BY <1>1, <1>2 DEF ProcRecord
<1>4. LET z == [proc EXCEPT ![current] = rec]
      IN  Switch(AddProc(z, current), AddQueue(z, runq, current))
  BY DEF Yield
<1>5. UNCHANGED <<nextPid, kbwait, keys>>
  BY DEF Yield
<1> HIDE DEF rec
<1> QED BY <1>1, <1>3, <1>4, <1>5, RequeueInv

\* scheduler_timer_tick, within a time slice and at its end.
LEMMA TimerTickInv == Inv /\ TimerTick => Inv'
<1> SUFFICES ASSUME Inv, TimerTick PROVE Inv'
  OBVIOUS
<1> DEFINE c == current
           left == IF proc[c].ticks > 0 THEN proc[c].ticks - 1 ELSE 0
           tick == [proc[c] EXCEPT !.ticks = left]
           rec == [tick EXCEPT !.resume = "USER"]
<1>1. /\ c \in Slots /\ cpu = "user" /\ kernelWait = TRUE
      /\ proc[c].state = "RUNNING" /\ proc[c].resume = "USER"
  BY CurrentRuns DEF TimerTick
<1>2. proc \in [Slots -> ProcRecord] /\ proc[c] \in ProcRecord
  BY <1>1 DEF Inv, TypeOK
<1>3. left \in 0..TimeSlice
  <2>1. proc[c].ticks \in 0..TimeSlice
    BY <1>2 DEF ProcRecord
  <2> QED BY <2>1, TimeSliceAssumption
<1> HIDE DEF left
<1>4. /\ tick \in ProcRecord
      /\ tick.state = proc[c].state /\ tick.resume = proc[c].resume
      /\ tick.pid = proc[c].pid /\ tick.ppid = proc[c].ppid
      /\ tick.wait = proc[c].wait /\ tick.replaced = proc[c].replaced
      /\ tick.kctx = proc[c].kctx /\ tick.request = proc[c].request
  BY <1>2, <1>3 DEF ProcRecord
<1>5. /\ rec \in ProcRecord
      /\ rec.state = proc[c].state /\ rec.resume = "USER"
      /\ rec.pid = proc[c].pid /\ rec.ppid = proc[c].ppid
      /\ rec.wait = proc[c].wait /\ rec.replaced = proc[c].replaced
      /\ rec.kctx = proc[c].kctx /\ rec.request = proc[c].request
  BY <1>2, <1>3, ZenonT(60) DEF ProcRecord
<1>6. /\ [proc EXCEPT ![c].ticks = left] = [proc EXCEPT ![c] = tick]
      /\ [[proc EXCEPT ![c].ticks = left] EXCEPT ![c].resume = "USER"]
           = [proc EXCEPT ![c] = rec]
  BY <1>1, <1>2, ZenonT(60)
<1> HIDE DEF tick, rec
<1>7. CASE /\ proc' = [proc EXCEPT ![c].ticks = left]
           /\ UNCHANGED <<nextPid, current, runq, kbwait, keys, kernelWait, cpu>>
  <2>1. /\ proc' \in [Slots -> ProcRecord]
        /\ SameFields(proc, proc')
    BY <1>1, <1>2, <1>4, <1>6, <1>7 DEF SameFields
  <2> QED BY <1>7, <2>1, SameTable DEF Inv, TypeOK
<1>8. CASE /\ LET z == [[proc EXCEPT ![c].ticks = left] EXCEPT ![c].resume = "USER"]
              IN  Switch(AddProc(z, c), AddQueue(z, runq, c))
           /\ UNCHANGED <<nextPid, kbwait, keys>>
  <2>1. LET z == [proc EXCEPT ![c] = rec]
        IN  Switch(AddProc(z, c), AddQueue(z, runq, c))
    BY <1>6, <1>8
  <2> QED BY <1>1, <1>5, <1>8, <2>1, RequeueInv
<1> QED BY <1>7, <1>8 DEF TimerTick, left

\* The turn of the waitpid loop that sleeps: the child it found is alive, and
\* is the child the sleeper is recorded to wait for.
LEMMA WaitBlocksInv == Inv /\ WaitBlocks => Inv'
<1> SUFFICES ASSUME Inv, WaitBlocks PROVE Inv'
  OBVIOUS
<1> DEFINE c == current
           rec == [proc[c] EXCEPT !.state = "BLOCKED", !.wait = Target(c),
                                  !.resume = "KERNEL"]
           z == [proc EXCEPT ![c] = rec]
<1>1. /\ c \in Slots /\ proc[c].state = "RUNNING" /\ kernelWait = TRUE
      /\ keys \in 0..KeyMax /\ proc[c].replaced = 0 /\ proc[c].kctx = "wait"
      /\ \A s \in Slots : s # c => proc[s].state # "RUNNING"
  BY CurrentRuns DEF WaitBlocks, InCall
<1>2. /\ proc \in [Slots -> ProcRecord] /\ proc[c] \in ProcRecord
      /\ runq \in Seq(Slots) /\ kbwait \in Seq(Slots) /\ nextPid \in 1..(MaxPid + 1)
      /\ c \in Slots \cup {NoProc}
  BY <1>1 DEF Inv, TypeOK
<1>3. Target(c) \in Nat \cup {AnyPid} /\ Target(c) # 0
  <2>1. /\ proc[c].wait \in Nat \cup {AnyPid} /\ proc[c].request \in Nat \cup {AnyPid}
        /\ proc[c].request # 0
    BY <1>1, <1>2, ZenonT(60) DEF ProcRecord, Inv, ResumesLiveFrame
  <2> QED BY <2>1 DEF Target
<1>4. /\ rec \in ProcRecord /\ rec.state = "BLOCKED" /\ rec.resume = "KERNEL"
      /\ rec.wait = Target(c)
      /\ rec.pid = proc[c].pid /\ rec.ppid = proc[c].ppid
      /\ rec.replaced = proc[c].replaced /\ rec.kctx = proc[c].kctx
      /\ rec.request = proc[c].request
  BY <1>2, <1>3, ZenonT(60) DEF ProcRecord, ProcState
<1>5. Switch(z, runq) /\ kbwait' = kbwait /\ nextPid' = nextPid /\ keys' = keys
  BY DEF WaitBlocks
<1> HIDE DEF rec
<1>6. /\ z \in [Slots -> ProcRecord]
      /\ z[c].state = "BLOCKED" /\ z[c].resume = "KERNEL" /\ z[c].wait = Target(c)
      /\ \A t \in Slots :
            /\ t # c => z[t].state = proc[t].state /\ z[t].resume = proc[t].resume
                        /\ z[t].wait = proc[t].wait
            /\ z[t].pid = proc[t].pid /\ z[t].ppid = proc[t].ppid
            /\ z[t].replaced = proc[t].replaced /\ z[t].kctx = proc[t].kctx
            /\ z[t].request = proc[t].request
  BY <1>1, <1>2, <1>4
<1> HIDE DEF z
<1>7. QueuesOf(z, runq, kbwait)
  <2>1. {t \in Slots : z[t].state = "READY"} = {t \in Slots : proc[t].state = "READY"}
    BY <1>1, <1>6
  <2>2. {t \in Slots : z[t].state = "BLOCKED" /\ z[t].kctx = "read"}
          = {t \in Slots : proc[t].state = "BLOCKED" /\ proc[t].kctx = "read"}
    BY <1>1, <1>6
  <2> QED BY <2>1, <2>2, ZenonT(60) DEF Inv, QueuesExact, QueuesOf
<1>8. PidsOf(z, nextPid)
  <2>1. \A s \in Slots : Used(z, s) = Used(proc, s)
    BY <1>1, <1>6 DEF Used
  <2> QED BY <1>1, <1>6, <2>1 DEF Inv, PidsOrdered, PidsOf
<1>9. FramesOf(z)
  BY <1>1, <1>3, <1>6 DEF Inv, ResumesLiveFrame, FramesOf, Live
<1>10. WaitersOf(z)
  <2>1. PICK x \in Slots : IsWaitChild(c, x) /\ proc[x].state # "ZOMBIE"
    BY DEF WaitBlocks
  <2>2. /\ Used(proc, x) /\ proc[x].ppid = proc[c].pid
        /\ Target(c) \in {AnyPid, proc[x].pid}
    BY <2>1 DEF IsWaitChild, IsFirstChild, IsChild, IsByPid
  <2>3. x # c
    <3>1. proc[x].ppid < proc[x].pid /\ proc[x].pid \in Nat
      BY <2>2, <1>2 DEF Inv, PidsOrdered, ProcRecord
    <3> QED BY <2>2, <3>1
  <2>4. proc[x].state \in ProcState
    BY <1>2 DEF ProcRecord
  <2>5. Live(z, x) /\ z[x].ppid = z[c].pid /\ z[c].wait \in {AnyPid, z[x].pid}
    BY <2>1, <2>2, <2>3, <2>4, <1>1, <1>6 DEF Live, Used, ProcState
  <2>6. ASSUME NEW w \in Slots, w # c, z[w].state = "BLOCKED", z[w].kctx = "wait"
        PROVE  \E y \in Slots : /\ Live(z, y) /\ z[y].ppid = z[w].pid
                                /\ z[w].wait \in {AnyPid, z[y].pid}
    BY <1>1, <1>6, <2>6 DEF Inv, WaiterHasLiveChild, Live
  <2> QED BY <2>5, <2>6 DEF WaitersOf
<1>11. \A s \in Slots : z[s].state # "RUNNING"
  BY <1>1, <1>6
<1>12. PreSwitch(z, runq, kbwait', nextPid')
  BY <1>2, <1>5, <1>6, <1>7, <1>8, <1>9, <1>10, <1>11 DEF PreSwitch
<1> QED BY <1>1, <1>2, <1>5, <1>12, SwitchInv

\* The turn of the read loop that sleeps.
LEMMA ReadBlocksInv == Inv /\ ReadBlocks => Inv'
<1> SUFFICES ASSUME Inv, ReadBlocks PROVE Inv'
  OBVIOUS
<1> DEFINE c == current
           rec == [proc[c] EXCEPT !.state = "BLOCKED", !.pending = "none",
                                  !.resume = "KERNEL"]
           z == [proc EXCEPT ![c] = rec]
           K == {t \in Slots : proc[t].state = "BLOCKED" /\ proc[t].kctx = "read"}
<1>1. /\ c \in Slots /\ proc[c].state = "RUNNING" /\ kernelWait = TRUE
      /\ proc[c].replaced = 0 /\ proc[c].kctx = "read"
      /\ \A s \in Slots : s # c => proc[s].state # "RUNNING"
  BY CurrentRuns DEF ReadBlocks, InCall
<1>2. /\ proc \in [Slots -> ProcRecord] /\ proc[c] \in ProcRecord
      /\ runq \in Seq(Slots) /\ kbwait \in Seq(Slots) /\ nextPid \in 1..(MaxPid + 1)
      /\ c \in Slots \cup {NoProc}
  BY <1>1 DEF Inv, TypeOK
<1>3. /\ rec \in ProcRecord /\ rec.state = "BLOCKED" /\ rec.resume = "KERNEL"
      /\ rec.wait = proc[c].wait
      /\ rec.pid = proc[c].pid /\ rec.ppid = proc[c].ppid
      /\ rec.replaced = proc[c].replaced /\ rec.kctx = proc[c].kctx
      /\ rec.request = proc[c].request
  BY <1>2, ZenonT(60) DEF ProcRecord, ProcState
<1>4. /\ Switch(z, runq) /\ kbwait' = Append(kbwait, c) /\ nextPid' = nextPid
      /\ keys' = 0
  BY DEF ReadBlocks
<1>5. keys' \in 0..KeyMax
  BY <1>4, KeyMaxAssumption
<1> HIDE DEF rec
<1>6. /\ z \in [Slots -> ProcRecord]
      /\ z[c].state = "BLOCKED" /\ z[c].resume = "KERNEL"
      /\ \A t \in Slots :
            /\ t # c => z[t].state = proc[t].state /\ z[t].resume = proc[t].resume
            /\ z[t].pid = proc[t].pid /\ z[t].ppid = proc[t].ppid
            /\ z[t].wait = proc[t].wait
            /\ z[t].replaced = proc[t].replaced /\ z[t].kctx = proc[t].kctx
            /\ z[t].request = proc[t].request
  BY <1>1, <1>2, <1>3
<1> HIDE DEF z
<1>7. kbwait' \in Seq(Slots) /\ QueuesOf(z, runq, kbwait')
  <2>1. {t \in Slots : z[t].state = "READY"} = {t \in Slots : proc[t].state = "READY"}
    BY <1>1, <1>6
  <2>2. {t \in Slots : z[t].state = "BLOCKED" /\ z[t].kctx = "read"} = K \cup {c}
    BY <1>1, <1>6
  <2>3. Queues(kbwait, K) /\ c \notin K
    BY <1>1 DEF Inv, QueuesExact
  <2> HIDE DEF K
  <2>4. kbwait' \in Seq(Slots) /\ Queues(kbwait', K \cup {c})
    BY <1>1, <1>2, <1>4, <2>3, QueueAppend
  <2> QED BY <2>1, <2>2, <2>4, ZenonT(60) DEF Inv, QueuesExact, QueuesOf
<1>8. PidsOf(z, nextPid)
  <2>1. \A s \in Slots : Used(z, s) = Used(proc, s)
    BY <1>1, <1>6 DEF Used
  <2> QED BY <1>1, <1>6, <2>1 DEF Inv, PidsOrdered, PidsOf
<1>9. FramesOf(z)
  BY <1>1, <1>6 DEF Inv, ResumesLiveFrame, FramesOf, Live
<1>10. WaitersOf(z)
  <2> SUFFICES ASSUME NEW w \in Slots, z[w].state = "BLOCKED", z[w].kctx = "wait"
               PROVE  \E y \in Slots : /\ Live(z, y) /\ z[y].ppid = z[w].pid
                                       /\ z[w].wait \in {AnyPid, z[y].pid}
    BY DEF WaitersOf
  <2>1. w # c
    BY <1>1, <1>6
  <2> QED BY <1>1, <1>6, <2>1 DEF Inv, WaiterHasLiveChild, Live
<1>11. \A s \in Slots : z[s].state # "RUNNING"
  BY <1>1, <1>6
<1>12. PreSwitch(z, runq, kbwait', nextPid')
  BY <1>2, <1>4, <1>6, <1>7, <1>8, <1>9, <1>10, <1>11 DEF PreSwitch
<1> QED BY <1>1, <1>2, <1>4, <1>5, <1>12, SwitchInv

\* The idle loop finds a process that an interrupt queued.
LEMMA IdleWakeInv == Inv /\ IdleWake => Inv'
<1> SUFFICES ASSUME Inv, IdleWake PROVE Inv'
  OBVIOUS
<1>1. /\ cpu = "idle" /\ Switch(proc, runq)
      /\ kbwait' = kbwait /\ nextPid' = nextPid /\ keys' = keys
  BY DEF IdleWake, Switch
<1>2. kernelWait = TRUE /\ \A s \in Slots : proc[s].state # "RUNNING"
  BY <1>1 DEF Inv, OneRunning, TypeOK
<1>3. PreSwitch(proc, runq, kbwait', nextPid')
  <2>1. QueuesOf(proc, runq, kbwait) /\ WaitersOf(proc)
    BY DEF Inv, QueuesExact, QueuesOf, WaiterHasLiveChild, WaitersOf
  <2>2. PidsOf(proc, nextPid)
    BY DEF Inv, PidsOrdered, PidsOf
  <2>3. FramesOf(proc)
    BY DEF Inv, ResumesLiveFrame, FramesOf
  <2> QED BY <1>1, <1>2, <2>1, <2>2, <2>3 DEF Inv, TypeOK, PreSwitch
<1>4. current \in Slots \cup {NoProc} /\ keys' \in 0..KeyMax
  BY <1>1 DEF Inv, TypeOK
<1> QED BY <1>1, <1>2, <1>3, <1>4, SwitchInv

\* sys_exec.  A parent that sleeps for the caller's pid now sleeps for the new
\* process, one that sleeps for any child has the new process as its child.
LEMMA ExecInv == Inv /\ Exec => Inv'
<1> SUFFICES ASSUME Inv, Exec PROVE Inv'
  OBVIOUS
<1> DEFINE c == current
           n == nextPid
<1>1. /\ c \in Slots /\ proc[c].state = "RUNNING" /\ kernelWait = TRUE
      /\ keys \in 0..KeyMax /\ proc[c].replaced = 0 /\ proc[c].pid \in 1..(n - 1)
      /\ \A s \in Slots : s # c => proc[s].state # "RUNNING"
  BY CurrentRuns DEF Exec, Calling
<1>2. /\ proc \in [Slots -> ProcRecord] /\ proc[c] \in ProcRecord
      /\ runq \in Seq(Slots) /\ kbwait \in Seq(Slots) /\ n \in 1..(MaxPid + 1)
      /\ c \in Slots \cup {NoProc} /\ n \in Nat /\ n # 0
  BY <1>1 DEF Inv, TypeOK
<1>3. PICK s \in Slots :
        LET loaded == [proc EXCEPT ![s] = Fresh(n, proc[c].ppid), ![c].replaced = n]
            moved == Retarget(loaded, c, s)
            retired == [moved EXCEPT ![c].state = "ZOMBIE"]
        IN /\ IsFreeSlot(proc, s)
           /\ Switch(AddProc(retired, s), AddQueue(retired, runq, s))
  BY ZenonT(60) DEF Exec
<1>4. n <= MaxPid /\ nextPid' = n + 1 /\ kbwait' = kbwait /\ keys' = keys
  BY DEF Exec
<1>5. proc[s].state = "UNUSED" /\ s # c
  BY <1>1, <1>3 DEF IsFreeSlot, Used
<1> DEFINE f == Fresh(n, proc[c].ppid)
           loaded == [proc EXCEPT ![s] = f, ![c].replaced = n]
           moved == Retarget(loaded, c, s)
           z == [moved EXCEPT ![c].state = "ZOMBIE"]
           ar == AddProc(z, s)
           aq == AddQueue(z, runq, s)
           asleep(p) == proc[p].state = "BLOCKED" /\ proc[p].wait = proc[c].pid
                        /\ proc[p].pid = proc[c].ppid
<1>6. /\ f \in ProcRecord /\ f.state = "READY" /\ f.pid = n
      /\ f.ppid = proc[c].ppid /\ f.wait = 0 /\ f.replaced = 0
      /\ f.resume = "USER" /\ f.kctx = "none" /\ f.request = 0
  <2>1. TimeSlice \in 0..TimeSlice /\ proc[c].ppid \in Nat
    BY <1>2, TimeSliceAssumption DEF ProcRecord
  <2> QED BY <1>2, <2>1, ZenonT(60) DEF Fresh, Cleared, ProcRecord, ProcState
<1> HIDE DEF f
<1>7. /\ loaded \in [Slots -> ProcRecord] /\ loaded[s] = f
      /\ loaded[c] = [proc[c] EXCEPT !.replaced = n]
      /\ \A t \in Slots : t # s /\ t # c => loaded[t] = proc[t]
  <2>1. [proc[c] EXCEPT !.replaced = n] \in ProcRecord
    BY <1>2, ZenonT(60) DEF ProcRecord
  <2> QED BY <1>1, <1>2, <1>5, <1>6, <2>1
<1> HIDE DEF loaded
<1>8. /\ loaded[c].replaced = n /\ loaded[c].state = "RUNNING"
      /\ loaded[c].pid = proc[c].pid /\ loaded[c].ppid = proc[c].ppid
      /\ loaded[c].wait = proc[c].wait /\ loaded[c].resume = proc[c].resume
      /\ loaded[c].kctx = proc[c].kctx /\ loaded[c].request = proc[c].request
  BY <1>1, <1>2, <1>7 DEF ProcRecord
<1>10. \A p \in Slots :
          (/\ IsByPid(loaded, loaded[c].ppid, p)
           /\ loaded[p].state = "BLOCKED"
           /\ loaded[p].wait # AnyPid
           /\ loaded[p].wait = loaded[c].pid)
          <=> asleep(p)
  <2> SUFFICES ASSUME NEW p \in Slots
               PROVE  (/\ IsByPid(loaded, loaded[c].ppid, p)
                       /\ loaded[p].state = "BLOCKED"
                       /\ loaded[p].wait # AnyPid
                       /\ loaded[p].wait = loaded[c].pid) <=> asleep(p)
    OBVIOUS
  <2>1. CASE p = s
    BY <2>1, <1>5, <1>6, <1>7
  <2>2. CASE p = c
    BY <2>2, <1>1, <1>8
  <2>3. CASE p # s /\ p # c
    <3>1. loaded[p] = proc[p]
      BY <2>3, <1>7
    <3>2. ASSUME asleep(p) PROVE IsByPid(loaded, loaded[c].ppid, p)
      <4>1. Used(loaded, p) /\ loaded[p].pid = loaded[c].ppid /\ Used(proc, p)
        BY <3>1, <3>2, <1>8 DEF Used
      <4>2. ASSUME NEW t \in Slots, t # p, Used(loaded, t)
            PROVE  loaded[t].pid # loaded[c].ppid
        <5>1. CASE t = s
          <6>1. proc[c].ppid < proc[c].pid /\ proc[c].ppid \in Nat
            BY <1>1, <1>2, ZenonT(60) DEF Inv, PidsOrdered, Used, ProcRecord
          <6> QED BY <5>1, <6>1, <1>1, <1>2, <1>6, <1>7, <1>8
        <5>2. CASE t # s
          <6>1. Used(proc, t) /\ loaded[t].pid = proc[t].pid
            BY <4>2, <5>2, <1>1, <1>7, <1>8, ZenonT(60) DEF Used
          <6> QED BY <6>1, <4>1, <4>2, <3>1 DEF Inv, PidsOrdered
        <5> QED BY <5>1, <5>2
      <4> QED BY <4>1, <4>2 DEF IsByPid, Slots
    <3>3. proc[c].pid # AnyPid
      BY <1>1, <1>2 DEF AnyPid
    <3> QED BY <3>1, <3>2, <3>3, <1>8 DEF IsByPid
  <2> QED BY <2>1, <2>2, <2>3
<1>11. /\ moved \in [Slots -> ProcRecord]
       /\ \A p \in Slots :
            /\ ~asleep(p) => moved[p] = loaded[p]
            /\ asleep(p) => moved[p] = [loaded[p] EXCEPT !.wait = n]
  <2>1. loaded[s].pid = n
    BY <1>6, <1>7
  <2>2. \A p \in Slots : [loaded[p] EXCEPT !.wait = n] \in ProcRecord
    <3> SUFFICES ASSUME NEW p \in Slots
                 PROVE  [loaded[p] EXCEPT !.wait = n] \in ProcRecord
      OBVIOUS
    <3>1. loaded[p] \in ProcRecord
      BY <1>7
    <3> QED BY <3>1, <1>2, ZenonT(60) DEF ProcRecord
  <2>3. moved = [p \in Slots |-> IF asleep(p) THEN [loaded[p] EXCEPT !.wait = n]
                                              ELSE loaded[p]]
    BY <2>1, <1>10 DEF Retarget
  <2> QED BY <2>2, <2>3, <1>7
<1> HIDE DEF moved
<1>12. /\ moved[c] = loaded[c] /\ moved[s] = f
       /\ \A p \in Slots :
             /\ moved[p].state = loaded[p].state /\ moved[p].pid = loaded[p].pid
             /\ moved[p].ppid = loaded[p].ppid
             /\ moved[p].replaced = loaded[p].replaced
             /\ moved[p].resume = loaded[p].resume /\ moved[p].kctx = loaded[p].kctx
             /\ moved[p].request = loaded[p].request
             /\ moved[p].wait = IF asleep(p) THEN n ELSE loaded[p].wait
  <2>1. ~asleep(c) /\ ~asleep(s)
    BY <1>1, <1>5
  <2>2. ASSUME NEW p \in Slots
        PROVE  /\ moved[p].state = loaded[p].state /\ moved[p].pid = loaded[p].pid
               /\ moved[p].ppid = loaded[p].ppid
               /\ moved[p].replaced = loaded[p].replaced
               /\ moved[p].resume = loaded[p].resume
               /\ moved[p].kctx = loaded[p].kctx
               /\ moved[p].request = loaded[p].request
               /\ moved[p].wait = IF asleep(p) THEN n ELSE loaded[p].wait
    <3>1. loaded[p] \in ProcRecord
      BY <1>7
    <3>2. CASE asleep(p)
      <4>1. moved[p] = [loaded[p] EXCEPT !.wait = n]
        BY <3>2, <1>11
      <4> QED BY <3>1, <3>2, <4>1 DEF ProcRecord
    <3>3. CASE ~asleep(p)
      BY <3>3, <1>11
    <3> QED BY <3>2, <3>3
  <2> QED BY <2>1, <2>2, <1>1, <1>7, <1>11

<1>13. /\ z \in [Slots -> ProcRecord] /\ z[c].state = "ZOMBIE" /\ z[s] = f
       /\ z[c].replaced = n /\ z[c].pid = proc[c].pid /\ z[c].ppid = proc[c].ppid
       /\ z[c].kctx = proc[c].kctx /\ z[c].request = proc[c].request
       /\ \A p \in Slots : p # c /\ p # s =>
             /\ z[p].state = proc[p].state /\ z[p].pid = proc[p].pid
             /\ z[p].ppid = proc[p].ppid /\ z[p].replaced = proc[p].replaced
             /\ z[p].resume = proc[p].resume /\ z[p].kctx = proc[p].kctx
             /\ z[p].request = proc[p].request
             /\ z[p].wait = IF asleep(p) THEN n ELSE proc[p].wait
  <2> DEFINE rec == [moved[c] EXCEPT !.state = "ZOMBIE"]
  <2>1. moved[c] \in ProcRecord
    BY <1>1, <1>11
  <2>2. /\ rec \in ProcRecord /\ rec.state = "ZOMBIE"
        /\ rec.replaced = moved[c].replaced /\ rec.pid = moved[c].pid
        /\ rec.ppid = moved[c].ppid /\ rec.kctx = moved[c].kctx
        /\ rec.request = moved[c].request
    BY <2>1 DEF ProcRecord, ProcState
  <2>3. z = [moved EXCEPT ![c] = rec]
    OBVIOUS
  <2> HIDE DEF rec
  <2>4. z \in [Slots -> ProcRecord] /\ z[c] = rec
        /\ \A p \in Slots : p # c => z[p] = moved[p]
    BY <1>1, <1>11, <2>2, <2>3
  <2> HIDE DEF z
  <2> QED BY <1>1, <1>5, <1>7, <1>8, <1>12, <2>2, <2>4
<1>14. Switch(ar, aq)
  BY <1>3 DEF z, moved, loaded, f
<1> HIDE DEF z, asleep
<1>15. /\ ar \in [Slots -> ProcRecord] /\ aq \in Seq(Slots)
       /\ QueuesOf(ar, aq, kbwait) /\ ar[s].state = "READY"
       /\ \A t \in Slots :
             /\ t # s => ar[t].state = z[t].state
             /\ ar[t].pid = z[t].pid /\ ar[t].ppid = z[t].ppid
             /\ ar[t].wait = z[t].wait /\ ar[t].replaced = z[t].replaced
             /\ ar[t].resume = z[t].resume /\ ar[t].kctx = z[t].kctx
             /\ ar[t].request = z[t].request
  <2>1. {t \in Slots : t # s /\ z[t].state = "READY"}
          = {t \in Slots : proc[t].state = "READY"}
    BY <1>1, <1>5, <1>13
  <2>2. {t \in Slots : t # s /\ z[t].state = "BLOCKED" /\ z[t].kctx = "read"}
          = {t \in Slots : proc[t].state = "BLOCKED" /\ proc[t].kctx = "read"}
    BY <1>1, <1>5, <1>13
  <2>3. Addable(z, s)
    BY <1>6, <1>13 DEF Addable
  <2>4. /\ Queues(runq, {t \in Slots : t # s /\ z[t].state = "READY"})
        /\ Queues(kbwait, {t \in Slots : /\ t # s /\ z[t].state = "BLOCKED"
                                         /\ z[t].kctx = "read"})
    BY <2>1, <2>2, ZenonT(60) DEF Inv, QueuesExact
  <2>5. Added(z, runq, kbwait, s)
    BY <1>2, <1>13, <2>3, <2>4, AddUnqueued
  <2> QED BY <2>5 DEF Added
<1> HIDE DEF ar, aq
<1>16. PidsOf(ar, n + 1)
  <2>1. \A t \in Slots : t # s => Used(ar, t) = Used(proc, t)
    BY <1>1, <1>13, <1>15 DEF Used
  <2>2. \A t \in Slots : t # s => ar[t].pid = proc[t].pid /\ ar[t].ppid = proc[t].ppid
    BY <1>13, <1>15
  <2>3. ar[s].pid = n /\ ar[s].ppid = proc[c].ppid /\ ar[s].replaced = 0
    BY <1>6, <1>13, <1>15
  <2>4. \A t \in Slots : t # s /\ t # c =>
           ar[t].replaced = proc[t].replaced /\ ar[t].state = proc[t].state
    BY <1>13, <1>15
  <2>5. ar[c].replaced = n /\ ar[c].state = "ZOMBIE"
    BY <1>1, <1>5, <1>13, <1>15
  <2>6. \A t \in Slots : Used(proc, t) =>
           /\ proc[t].pid \in 1..(n - 1) /\ proc[t].ppid < proc[t].pid
           /\ proc[t].replaced # 0 =>
                 proc[t].state = "ZOMBIE" /\ proc[t].replaced \in (proc[t].pid + 1)..(n - 1)
    BY DEF Inv, PidsOrdered
  <2>7. \A t, u \in Slots :
           Used(proc, t) /\ Used(proc, u) /\ proc[t].pid = proc[u].pid => t = u
    BY DEF Inv, PidsOrdered
  <2>8. Used(proc, c) /\ proc[c].ppid \in Nat
    BY <1>1, <1>2 DEF Used, ProcRecord
  <2> SUFFICES ASSUME NEW t \in Slots, Used(ar, t)
               PROVE  /\ ar[t].pid \in 1..((n + 1) - 1)
                      /\ ar[t].ppid < ar[t].pid
                      /\ ar[t].replaced # 0 =>
                            /\ ar[t].state = "ZOMBIE"
                            /\ ar[t].replaced \in (ar[t].pid + 1)..((n + 1) - 1)
                      /\ \A u \in Slots :
                            Used(ar, u) /\ ar[u].pid = ar[t].pid => t = u
    BY DEF PidsOf
  <2>9. CASE t = s
    BY <2>1, <2>2, <2>3, <2>6, <2>8, <2>9, <1>1, <1>2
  <2>10. CASE t = c
    BY <2>1, <2>2, <2>3, <2>5, <2>6, <2>7, <2>8, <2>10, <1>1, <1>2, <1>5
  <2>11. CASE t # s /\ t # c
    BY <2>1, <2>2, <2>3, <2>4, <2>6, <2>7, <2>11, <1>1, <1>2
  <2> QED BY <2>9, <2>10, <2>11
<1>17. ASSUME NEW p \in Slots, p # c, p # s, asleep(p)
       PROVE  proc[p].kctx = "wait"
  BY <1>1, <1>2, <1>17 DEF asleep, Inv, ResumesLiveFrame, Live
<1>18. FramesOf(ar)
  BY <1>1, <1>2, <1>5, <1>6, <1>13, <1>15, <1>17
     DEF Inv, ResumesLiveFrame, FramesOf, Live
<1>19. WaitersOf(ar)
  <2> SUFFICES ASSUME NEW w \in Slots, ar[w].state = "BLOCKED", ar[w].kctx = "wait"
               PROVE  \E y \in Slots : /\ Live(ar, y) /\ ar[y].ppid = ar[w].pid
                                       /\ ar[w].wait \in {AnyPid, ar[y].pid}
    BY DEF WaitersOf
  <2>1. /\ w # c /\ w # s /\ proc[w].state = "BLOCKED" /\ proc[w].kctx = "wait"
        /\ ar[w].pid = proc[w].pid
        /\ ar[w].wait = IF asleep(w) THEN n ELSE proc[w].wait
    BY <1>13, <1>15
  <2>2. ar[s].pid = n /\ ar[s].ppid = proc[c].ppid /\ Live(ar, s)
    BY <1>6, <1>13, <1>15 DEF Live
  <2>3. CASE asleep(w)
    BY <2>1, <2>2, <2>3 DEF asleep
  <2>4. CASE ~asleep(w)
    <3>1. PICK x \in Slots : /\ Live(proc, x) /\ proc[x].ppid = proc[w].pid
                             /\ proc[w].wait \in {AnyPid, proc[x].pid}
      BY <2>1 DEF Inv, WaiterHasLiveChild
    <3>2. CASE x = c
      <4>1. proc[w].wait = AnyPid
        BY <2>1, <2>4, <3>1, <3>2 DEF asleep
      <4> QED BY <2>1, <2>2, <2>4, <3>1, <3>2, <4>1
    <3>3. CASE x # c
      <4>1. x # s
        BY <1>5, <3>1 DEF Live
      <4>2. Live(ar, x) /\ ar[x].ppid = proc[x].ppid /\ ar[x].pid = proc[x].pid
        BY <1>13, <1>15, <3>1, <3>3, <4>1 DEF Live
      <4> QED BY <2>1, <2>4, <3>1, <4>2
    <3> QED BY <3>2, <3>3
  <2> QED BY <2>3, <2>4
<1>20. \A t \in Slots : ar[t].state # "RUNNING"
  BY <1>1, <1>13, <1>15
<1>21. PreSwitch(ar, aq, kbwait', nextPid')
  <2>1. n + 1 \in 1..(MaxPid + 1)
    BY <1>2, <1>4, MaxPidAssumption
  <2> QED BY <1>2, <1>4, <1>15, <1>16, <1>18, <1>19, <1>20, <2>1 DEF PreSwitch
<1> QED BY <1>1, <1>2, <1>4, <1>14, <1>21, SwitchInv

-----------------------------------------------------------------------------
(* Steps that keep the processor *)

\* The invariant after a step, put together from its parts.
LEMMA InvParts ==
    ASSUME TypeOK', OneRunning', QueuesOf(proc', runq', kbwait'),
           PidsOf(proc', nextPid'), FramesOf(proc'), WaitersOf(proc'),
           cpu' \in {"user", "kernel"} =>
               (cpu' = "kernel" <=> proc'[current'].kctx # "none")
    PROVE  Inv'
<1>1. QueuesExact'
  BY DEF QueuesExact, QueuesOf
<1>2. PidsOrdered'
  BY DEF PidsOrdered, PidsOf, Used
<1>3. ResumesLiveFrame'
  BY DEF ResumesLiveFrame, FramesOf, OneRunning, Live
<1>4. WaiterHasLiveChild'
  BY DEF WaiterHasLiveChild, WaitersOf, Live
<1> QED BY <1>1, <1>2, <1>3, <1>4 DEF Inv

\* The parts of the invariant before a step.
LEMMA PartsOfInv ==
    ASSUME Inv
    PROVE  /\ QueuesOf(proc, runq, kbwait) /\ PidsOf(proc, nextPid)
           /\ FramesOf(proc) /\ WaitersOf(proc)
<1>1. QueuesOf(proc, runq, kbwait)
  BY DEF Inv, QueuesExact, QueuesOf
<1>2. PidsOf(proc, nextPid)
  BY DEF Inv, PidsOrdered, PidsOf
<1>3. FramesOf(proc)
  BY DEF Inv, ResumesLiveFrame, FramesOf
<1>4. WaitersOf(proc)
  BY DEF Inv, WaiterHasLiveChild, WaitersOf
<1> QED BY <1>1, <1>2, <1>3, <1>4

\* The current process changes its own record and goes on running.
LEMMA CurrentParts ==
    ASSUME Inv, cpu \in {"user", "kernel"}, NEW rec \in ProcRecord,
           rec.state = "RUNNING", rec.pid = proc[current].pid,
           rec.ppid = proc[current].ppid, rec.replaced = proc[current].replaced,
           rec.wait # 0 => rec.kctx = "wait", rec.kctx = "wait" => rec.request # 0
    PROVE  LET z == [proc EXCEPT ![current] = rec]
           IN /\ z \in [Slots -> ProcRecord] /\ z[current] = rec
              /\ \A t \in Slots : t # current => z[t] = proc[t]
              /\ QueuesOf(z, runq, kbwait) /\ PidsOf(z, nextPid)
              /\ FramesOf(z) /\ WaitersOf(z)
<1> DEFINE c == current
           z == [proc EXCEPT ![current] = rec]
<1>1. /\ c \in Slots /\ proc[c].state = "RUNNING" /\ proc \in [Slots -> ProcRecord]
      /\ \A s \in Slots : s # c => proc[s].state # "RUNNING"
  BY CurrentRuns, ZenonT(60) DEF Inv, TypeOK
<1>2. /\ z \in [Slots -> ProcRecord] /\ z[c] = rec
      /\ \A t \in Slots : t # c => z[t] = proc[t]
  BY <1>1
<1> HIDE DEF z
<1>3. \A t \in Slots :
         /\ z[t].state = proc[t].state /\ z[t].pid = proc[t].pid
         /\ z[t].ppid = proc[t].ppid /\ z[t].replaced = proc[t].replaced
  BY <1>1, <1>2
<1>4. QueuesOf(z, runq, kbwait)
  <2>1. {t \in Slots : z[t].state = "READY"} = {t \in Slots : proc[t].state = "READY"}
    BY <1>3
  <2>2. {t \in Slots : z[t].state = "BLOCKED" /\ z[t].kctx = "read"}
          = {t \in Slots : proc[t].state = "BLOCKED" /\ proc[t].kctx = "read"}
    BY <1>1, <1>2, <1>3
  <2> QED BY <2>1, <2>2, ZenonT(60) DEF Inv, QueuesExact, QueuesOf
<1>5. PidsOf(z, nextPid)
  <2>1. \A s \in Slots : Used(z, s) = Used(proc, s)
    BY <1>3 DEF Used
  <2> QED BY <1>3, <2>1 DEF Inv, PidsOrdered, PidsOf
<1>6. FramesOf(z)
  BY <1>1, <1>2 DEF Inv, ResumesLiveFrame, FramesOf, Live
<1>7. WaitersOf(z)
  <2> SUFFICES ASSUME NEW w \in Slots, z[w].state = "BLOCKED", z[w].kctx = "wait"
               PROVE  \E y \in Slots : /\ Live(z, y) /\ z[y].ppid = z[w].pid
                                       /\ z[w].wait \in {AnyPid, z[y].pid}
    BY DEF WaitersOf
  <2>1. w # c /\ z[w] = proc[w]
    BY <1>1, <1>2, <1>3
  <2>2. PICK y \in Slots : /\ Live(proc, y) /\ proc[y].ppid = proc[w].pid
                           /\ proc[w].wait \in {AnyPid, proc[y].pid}
    BY <2>1 DEF Inv, WaiterHasLiveChild
  <2> QED BY <1>3, <2>1, <2>2 DEF Live
<1> QED BY <1>2, <1>4, <1>5, <1>6, <1>7 DEF z

\* Destroying zombies touches neither queue, no sleeper and no sleeper's child.
LEMMA DestroyParts ==
    ASSUME NEW pr \in [Slots -> ProcRecord], NEW q, NEW kb, NEW n, NEW D,
           \A d \in Slots : d \in D => pr[d].state = "ZOMBIE",
           QueuesOf(pr, q, kb), PidsOf(pr, n), FramesOf(pr), WaitersOf(pr)
    PROVE  LET ar == DestroyAll(pr, D)
           IN /\ ar \in [Slots -> ProcRecord]
              /\ \A t \in Slots : ar[t] = IF t \in D THEN Cleared ELSE pr[t]
              /\ QueuesOf(ar, q, kb) /\ PidsOf(ar, n)
              /\ FramesOf(ar) /\ WaitersOf(ar)
<1> DEFINE ar == DestroyAll(pr, D)
<1>1. /\ Cleared \in ProcRecord /\ Cleared.state = "UNUSED" /\ Cleared.kctx = "none"
  <2>1. 0 \in 0..TimeSlice
    BY TimeSliceAssumption
  <2> QED BY <2>1 DEF Cleared, ProcRecord, ProcState
<1>2. /\ ar \in [Slots -> ProcRecord]
      /\ \A t \in Slots : ar[t] = IF t \in D THEN Cleared ELSE pr[t]
  BY <1>1 DEF DestroyAll
<1> HIDE DEF ar
<1>3. QueuesOf(ar, q, kb)
  <2>1. {t \in Slots : ar[t].state = "READY"} = {t \in Slots : pr[t].state = "READY"}
    BY <1>1, <1>2
  <2>2. {t \in Slots : ar[t].state = "BLOCKED" /\ ar[t].kctx = "read"}
          = {t \in Slots : pr[t].state = "BLOCKED" /\ pr[t].kctx = "read"}
    BY <1>1, <1>2
  <2> QED BY <2>1, <2>2, ZenonT(60) DEF QueuesOf
<1>4. PidsOf(ar, n)
  <2>1. \A s \in Slots : Used(ar, s) => Used(pr, s) /\ ar[s] = pr[s]
    BY <1>1, <1>2 DEF Used
  <2> QED BY <2>1 DEF PidsOf
<1>5. FramesOf(ar)
  BY <1>1, <1>2 DEF FramesOf, Live
<1>6. WaitersOf(ar)
  BY <1>1, <1>2 DEF WaitersOf, Live
<1> QED BY <1>2, <1>3, <1>4, <1>5, <1>6 DEF ar

\* A step in which the current process changes its own record, destroys
\* zombies (those of D) and keeps the processor.
LEMMA CurrentStepInv ==
    ASSUME Inv, cpu \in {"user", "kernel"}, NEW rec \in ProcRecord, NEW D,
           rec.state = "RUNNING", rec.pid = proc[current].pid,
           rec.ppid = proc[current].ppid, rec.replaced = proc[current].replaced,
           rec.wait # 0 => rec.kctx = "wait", rec.kctx = "wait" => rec.request # 0,
           \A d \in Slots : d \in D => proc[d].state = "ZOMBIE",
           proc' = DestroyAll([proc EXCEPT ![current] = rec], D),
           cpu' = IF rec.kctx = "none" THEN "user" ELSE "kernel",
           UNCHANGED <<nextPid, current, runq, kbwait, kernelWait>>,
           keys' \in 0..KeyMax
    PROVE  Inv'
<1> DEFINE c == current
           z == [proc EXCEPT ![current] = rec]
<1>1. /\ c \in Slots /\ proc[c].state = "RUNNING" /\ kernelWait = TRUE
      /\ \A s \in Slots : s # c => proc[s].state # "RUNNING"
  BY CurrentRuns, ZenonT(60)
<1>2. /\ z \in [Slots -> ProcRecord] /\ z[c] = rec
      /\ \A t \in Slots : t # c => z[t] = proc[t]
      /\ QueuesOf(z, runq, kbwait) /\ PidsOf(z, nextPid)
      /\ FramesOf(z) /\ WaitersOf(z)
  BY CurrentParts
<1>3. proc' = DestroyAll(z, D)
  OBVIOUS
<1> HIDE DEF z
<1>3a. \A d \in Slots : d \in D => z[d].state = "ZOMBIE"
  BY <1>1, <1>2
<1>4. c \notin D
  BY <1>1
<1>5. /\ proc' \in [Slots -> ProcRecord]
      /\ \A t \in Slots : proc'[t] = IF t \in D THEN Cleared ELSE z[t]
      /\ QueuesOf(proc', runq, kbwait) /\ PidsOf(proc', nextPid)
      /\ FramesOf(proc') /\ WaitersOf(proc')
  <2> DEFINE ar == DestroyAll(z, D)
  <2>1. /\ ar \in [Slots -> ProcRecord]
        /\ \A t \in Slots : ar[t] = IF t \in D THEN Cleared ELSE z[t]
        /\ QueuesOf(ar, runq, kbwait) /\ PidsOf(ar, nextPid)
        /\ FramesOf(ar) /\ WaitersOf(ar)
    BY <1>2, <1>3a, DestroyParts, ZenonT(60)
  <2>2. proc' = ar
    BY <1>3
  <2> HIDE DEF ar
  <2> QED BY <2>1, <2>2, ZenonT(60)
<1>6. TypeOK'
  BY <1>5, ZenonT(60) DEF Inv, TypeOK, CpuMode
<1>7. OneRunning'
  <2>0. Cleared.state = "UNUSED"
    BY DEF Cleared
  <2>1. \A t \in Slots : proc'[t].state = "RUNNING" <=> t = c
    BY <1>1, <1>2, <1>4, <1>5, <2>0, ZenonT(60)
  <2>2. c # NoProc
    BY <1>1 DEF Slots, NoProc
  <2> QED BY <1>1, <2>1, <2>2, ZenonT(60) DEF OneRunning
<1>8. cpu' = "kernel" <=> proc'[c].kctx # "none"
  BY <1>1, <1>2, <1>4, <1>5, ZenonT(60)
<1>9. /\ QueuesOf(proc', runq', kbwait') /\ PidsOf(proc', nextPid')
      /\ FramesOf(proc') /\ WaitersOf(proc')
  BY <1>5
<1> HIDE DEF c
<1>10. current' = c
  BY DEF c
<1> QED BY <1>6, <1>7, <1>8, <1>9, <1>10, InvParts, ZenonT(60)

\* CurrentStepInv for a step that destroys nothing.
LEMMA CurrentKeepsInv ==
    ASSUME Inv, cpu \in {"user", "kernel"}, NEW rec \in ProcRecord,
           rec.state = "RUNNING", rec.pid = proc[current].pid,
           rec.ppid = proc[current].ppid, rec.replaced = proc[current].replaced,
           rec.wait # 0 => rec.kctx = "wait", rec.kctx = "wait" => rec.request # 0,
           proc' = [proc EXCEPT ![current] = rec],
           cpu' = IF rec.kctx = "none" THEN "user" ELSE "kernel",
           UNCHANGED <<nextPid, current, runq, kbwait, kernelWait>>,
           keys' \in 0..KeyMax
    PROVE  Inv'
<1> DEFINE z == [proc EXCEPT ![current] = rec]
           D == {}
<1>1. proc \in [Slots -> ProcRecord]
  BY DEF Inv, TypeOK
<1>2. z = DestroyAll(z, D)
  BY <1>1, ZenonT(60) DEF DestroyAll
<1>3. proc' = DestroyAll([proc EXCEPT ![current] = rec], D)
  BY <1>2
<1>4. \A d \in Slots : d \in D => proc[d].state = "ZOMBIE"
  OBVIOUS
<1> HIDE DEF D
<1> QED BY <1>3, <1>4, CurrentStepInv, ZenonT(60)

\* CurrentStepInv for a step that destroys the one zombie s.
LEMMA CurrentCollectsInv ==
    ASSUME Inv, cpu \in {"user", "kernel"}, NEW rec \in ProcRecord,
           NEW s \in Slots, proc[s].state = "ZOMBIE",
           rec.state = "RUNNING", rec.pid = proc[current].pid,
           rec.ppid = proc[current].ppid, rec.replaced = proc[current].replaced,
           rec.wait # 0 => rec.kctx = "wait", rec.kctx = "wait" => rec.request # 0,
           proc' = [proc EXCEPT ![current] = rec, ![s] = Cleared],
           cpu' = IF rec.kctx = "none" THEN "user" ELSE "kernel",
           UNCHANGED <<nextPid, current, runq, kbwait, kernelWait>>,
           keys' \in 0..KeyMax
    PROVE  Inv'
<1> DEFINE z == [proc EXCEPT ![current] = rec]
<1>1. proc \in [Slots -> ProcRecord]
  BY DEF Inv, TypeOK
<1>2. [z EXCEPT ![s] = Cleared] = DestroyAll(z, {s})
  BY <1>1, ZenonT(60) DEF DestroyAll
<1>3. proc' = DestroyAll([proc EXCEPT ![current] = rec], {s})
  BY <1>2
<1>4. \A d \in Slots : d \in {s} => proc[d].state = "ZOMBIE"
  OBVIOUS
<1> QED BY <1>3, <1>4, CurrentStepInv, ZenonT(60)

\* What the current process's record looks like inside its system call.
LEMMA CurrentRecord ==
    ASSUME Inv, cpu \in {"user", "kernel"}
    PROVE  /\ proc[current] \in ProcRecord
           /\ cpu = "user" => proc[current].kctx = "none" /\ proc[current].wait = 0
           /\ proc[current].kctx = "wait" => proc[current].request # 0
           /\ proc[current].wait # 0 => proc[current].kctx = "wait"
<1>1. current \in Slots /\ proc[current].state = "RUNNING"
  BY CurrentRuns, ZenonT(60)
<1> QED BY <1>1 DEF Inv, TypeOK, ResumesLiveFrame, Live

\* waitpid enters the kernel.
LEMMA WaitCallInv == Inv /\ WaitCall => Inv'
<1> SUFFICES ASSUME Inv, WaitCall PROVE Inv'
  OBVIOUS
<1>1. PICK r \in 1..MaxPid \cup {AnyPid} :
         proc' = [proc EXCEPT ![current] = [@ EXCEPT !.request = r, !.kctx = "wait"]]
  BY ZenonT(60) DEF WaitCall
<1> DEFINE rec == [proc[current] EXCEPT !.request = r, !.kctx = "wait"]
<1>2. cpu = "user"
  BY DEF WaitCall, Calling
<1>3. /\ current \in Slots /\ proc[current].state = "RUNNING"
      /\ keys \in 0..KeyMax /\ proc[current] \in ProcRecord
  BY <1>2, CurrentRuns, CurrentRecord
<1>4. r \in Nat \cup {AnyPid} /\ r # 0
  BY MaxPidAssumption DEF AnyPid
<1>5. /\ rec \in ProcRecord /\ rec.state = "RUNNING" /\ rec.kctx = "wait"
      /\ rec.pid = proc[current].pid /\ rec.ppid = proc[current].ppid
      /\ rec.replaced = proc[current].replaced /\ rec.request # 0
  BY <1>3, <1>4, ZenonT(60) DEF ProcRecord
<1>6. proc' = [proc EXCEPT ![current] = rec]
  BY <1>1
<1>7. /\ cpu' = "kernel" /\ keys' = keys
      /\ UNCHANGED <<nextPid, current, runq, kbwait, kernelWait>>
  BY DEF WaitCall
<1> HIDE DEF rec
<1> QED BY <1>2, <1>3, <1>5, <1>6, <1>7, CurrentKeepsInv, ZenonT(60)

\* A console read enters the kernel.
LEMMA ReadCallInv == Inv /\ ReadCall => Inv'
<1> SUFFICES ASSUME Inv, ReadCall PROVE Inv'
  OBVIOUS
<1> DEFINE rec == [proc[current] EXCEPT !.kctx = "read"]
<1>2. cpu = "user"
  BY DEF ReadCall, Calling
<1>3. /\ current \in Slots /\ proc[current].state = "RUNNING"
      /\ keys \in 0..KeyMax /\ proc[current] \in ProcRecord
      /\ proc[current].wait = 0
  BY <1>2, CurrentRuns, CurrentRecord
<1>5. /\ rec \in ProcRecord /\ rec.state = "RUNNING" /\ rec.kctx = "read"
      /\ rec.pid = proc[current].pid /\ rec.ppid = proc[current].ppid
      /\ rec.replaced = proc[current].replaced /\ rec.wait = 0
  BY <1>3 DEF ProcRecord
<1>6. proc' = [proc EXCEPT ![current] = rec]
  BY DEF ReadCall
<1>7. /\ cpu' = "kernel" /\ keys' = keys
      /\ UNCHANGED <<nextPid, current, runq, kbwait, kernelWait>>
  BY DEF ReadCall
<1> HIDE DEF rec
<1> QED BY <1>2, <1>3, <1>5, <1>6, <1>7, CurrentKeepsInv, ZenonT(60)

\* waitpid finds no child and returns.
LEMMA WaitFailsInv == Inv /\ WaitFails => Inv'
<1> SUFFICES ASSUME Inv, WaitFails PROVE Inv'
  OBVIOUS
<1> DEFINE rec == [proc[current] EXCEPT !.wait = 0, !.kctx = "none", !.request = 0]
<1>2. cpu = "kernel"
  BY DEF WaitFails, InCall
<1>3. /\ current \in Slots /\ proc[current].state = "RUNNING"
      /\ keys \in 0..KeyMax /\ proc[current] \in ProcRecord
      /\ proc \in [Slots -> ProcRecord]
  BY <1>2, CurrentRuns, CurrentRecord, ZenonT(60) DEF Inv, TypeOK
<1>5. /\ rec \in ProcRecord /\ rec.state = "RUNNING" /\ rec.kctx = "none"
      /\ rec.pid = proc[current].pid /\ rec.ppid = proc[current].ppid
      /\ rec.replaced = proc[current].replaced /\ rec.wait = 0
  BY <1>3, ZenonT(60) DEF ProcRecord
<1>6. proc' = [proc EXCEPT ![current] = rec]
  BY <1>3, ZenonT(60) DEF WaitFails, ReturnToUser
<1>7. /\ cpu' = "user" /\ keys' = keys
      /\ UNCHANGED <<nextPid, current, runq, kbwait, kernelWait>>
  BY DEF WaitFails, ReturnToUser
<1> HIDE DEF rec
<1> QED BY <1>2, <1>3, <1>5, <1>6, <1>7, CurrentKeepsInv, ZenonT(60)

\* waitpid meets the stub of an exec and goes on to the replacement.
LEMMA WaitFollowsInv == Inv /\ WaitFollows => Inv'
<1> SUFFICES ASSUME Inv, WaitFollows PROVE Inv'
  OBVIOUS
<1>1. PICK s \in Slots :
         /\ proc[s].state = "ZOMBIE"
         /\ proc' = Destroy([proc EXCEPT ![current].wait = proc[s].replaced], s)
  BY ZenonT(60) DEF WaitFollows
<1> DEFINE rec == [proc[current] EXCEPT !.wait = proc[s].replaced]
<1>2. cpu = "kernel" /\ proc[current].kctx = "wait"
  BY DEF WaitFollows, InCall
<1>3. /\ current \in Slots /\ proc[current].state = "RUNNING"
      /\ keys \in 0..KeyMax /\ proc[current] \in ProcRecord
      /\ proc[current].request # 0
  BY <1>2, CurrentRuns, CurrentRecord
<1>4. proc[s].replaced \in Nat
  BY DEF Inv, TypeOK, ProcRecord
<1>5. /\ rec \in ProcRecord /\ rec.state = "RUNNING" /\ rec.kctx = "wait"
      /\ rec.pid = proc[current].pid /\ rec.ppid = proc[current].ppid
      /\ rec.replaced = proc[current].replaced /\ rec.request # 0
  BY <1>2, <1>3, <1>4 DEF ProcRecord
<1>6. proc' = [proc EXCEPT ![current] = rec, ![s] = Cleared]
  BY <1>1 DEF Destroy
<1>7. /\ cpu' = "kernel" /\ keys' = keys
      /\ UNCHANGED <<nextPid, current, runq, kbwait, kernelWait>>
  BY <1>2 DEF WaitFollows
<1> HIDE DEF rec
<1> QED BY <1>1, <1>2, <1>3, <1>5, <1>6, <1>7, CurrentCollectsInv, ZenonT(60)

\* waitpid collects a zombie and returns.
LEMMA WaitReapsInv == Inv /\ WaitReaps => Inv'
<1> SUFFICES ASSUME Inv, WaitReaps PROVE Inv'
  OBVIOUS
<1>1. PICK s \in Slots :
         /\ proc[s].state = "ZOMBIE"
         /\ ReturnToUser(Destroy([proc EXCEPT ![current].wait = 0], s))
  BY DEF WaitReaps
<1> DEFINE rec == [proc[current] EXCEPT !.wait = 0, !.kctx = "none", !.request = 0]
<1>2. cpu = "kernel"
  BY DEF WaitReaps, InCall
<1>3. /\ current \in Slots /\ proc[current].state = "RUNNING"
      /\ keys \in 0..KeyMax /\ proc[current] \in ProcRecord
      /\ proc \in [Slots -> ProcRecord] /\ s # current
  BY <1>1, <1>2, CurrentRuns, CurrentRecord, ZenonT(60) DEF Inv, TypeOK
<1>5. /\ rec \in ProcRecord /\ rec.state = "RUNNING" /\ rec.kctx = "none"
      /\ rec.pid = proc[current].pid /\ rec.ppid = proc[current].ppid
      /\ rec.replaced = proc[current].replaced /\ rec.wait = 0
  BY <1>3, ZenonT(60) DEF ProcRecord
<1>6. proc' = [proc EXCEPT ![current] = rec, ![s] = Cleared]
  <2> DEFINE w == [[proc EXCEPT ![current].wait = 0] EXCEPT ![s] = Cleared]
  <2>1. proc' = [w EXCEPT ![current] = [@ EXCEPT !.kctx = "none", !.request = 0]]
    BY <1>1 DEF ReturnToUser, Destroy
  <2>2. w[current] = [proc[current] EXCEPT !.wait = 0]
    BY <1>3
  <2>3. proc' = [w EXCEPT ![current] = rec]
    BY <2>1, <2>2, ZenonT(60)
  <2> HIDE DEF rec
  <2> QED BY <1>3, <2>3, ZenonT(60)
<1>7. /\ cpu' = "user" /\ keys' = keys
      /\ UNCHANGED <<nextPid, current, runq, kbwait, kernelWait>>
  BY <1>1 DEF WaitReaps, ReturnToUser
<1> HIDE DEF rec
<1> QED BY <1>1, <1>2, <1>3, <1>5, <1>6, <1>7, CurrentCollectsInv, ZenonT(60)

\* A console read is satisfied.
LEMMA ReadReturnsInv == Inv /\ ReadReturns => Inv'
<1> SUFFICES ASSUME Inv, ReadReturns PROVE Inv'
  OBVIOUS
<1>1. PICK n \in 0..keys, left \in {"none", "some"} :
         /\ keys' = keys - n
         /\ ReturnToUser([proc EXCEPT ![current].pending = left])
  BY ZenonT(60) DEF ReadReturns
<1> DEFINE rec == [proc[current] EXCEPT !.pending = left, !.kctx = "none", !.request = 0]
<1>2. cpu = "kernel" /\ proc[current].kctx = "read"
  BY DEF ReadReturns, InCall
<1>3. /\ current \in Slots /\ proc[current].state = "RUNNING"
      /\ keys \in 0..KeyMax /\ proc[current] \in ProcRecord
      /\ proc \in [Slots -> ProcRecord] /\ proc[current].wait = 0
  BY <1>2, CurrentRuns, CurrentRecord, ZenonT(60) DEF Inv, TypeOK
<1>5. /\ rec \in ProcRecord /\ rec.state = "RUNNING" /\ rec.kctx = "none"
      /\ rec.pid = proc[current].pid /\ rec.ppid = proc[current].ppid
      /\ rec.replaced = proc[current].replaced /\ rec.wait = 0
  BY <1>3, ZenonT(60) DEF ProcRecord
<1>6. proc' = [proc EXCEPT ![current] = rec]
  BY <1>1, <1>3, ZenonT(60) DEF ReturnToUser
<1>7. /\ cpu' = "user" /\ keys' \in 0..KeyMax
      /\ UNCHANGED <<nextPid, current, runq, kbwait, kernelWait>>
  BY <1>1, <1>3, KeyMaxAssumption DEF ReadReturns, ReturnToUser
<1> HIDE DEF rec
<1> QED BY <1>2, <1>3, <1>5, <1>6, <1>7, CurrentKeepsInv, ZenonT(60)

-----------------------------------------------------------------------------
(* Interrupts and sessions *)

\* The kernel shell takes a key.
LEMMA ShellKeyInv == Inv /\ ShellKey => Inv'
<1> SUFFICES ASSUME Inv, ShellKey PROVE Inv'
  OBVIOUS
<1>1. keys' \in 0..KeyMax
  BY KeyMaxAssumption DEF ShellKey, Inv, TypeOK
<1>2. /\ proc' = proc /\ nextPid' = nextPid
      /\ UNCHANGED <<current, runq, kbwait, kernelWait, cpu>>
  BY DEF ShellKey
<1>3. proc' \in [Slots -> ProcRecord] /\ nextPid' \in 1..(MaxPid + 1)
  BY <1>2 DEF Inv, TypeOK
<1>4. SameFields(proc, proc') /\ nextPid' >= nextPid
  BY <1>2, <1>3 DEF SameFields
<1> QED BY <1>1, <1>2, <1>3, <1>4, SameTable

\* A load that fails uses up a pid and leaves the table as it is.
LEMMA LoadFailsInv == Inv /\ LoadFails => Inv'
<1> SUFFICES ASSUME Inv, LoadFails PROVE Inv'
  OBVIOUS
<1>1. nextPid' \in 1..(MaxPid + 1) /\ nextPid' >= nextPid /\ keys' \in 0..KeyMax
  BY MaxPidAssumption DEF LoadFails, Inv, TypeOK
<1>2. proc' = proc /\ UNCHANGED <<current, runq, kbwait, kernelWait, cpu>>
  BY DEF LoadFails
<1>3. proc' \in [Slots -> ProcRecord] /\ SameFields(proc, proc')
  BY <1>2 DEF Inv, TypeOK, SameFields
<1> QED BY <1>1, <1>2, <1>3, SameTable

\* What process_create and scheduler_add make of the table pr and the run queue
\* q when they put process n in slot s.
Loaded(pr, q, kb, n, s, ppid) ==
    LET ld == [pr EXCEPT ![s] = Fresh(n, ppid)]
        ar == AddProc(ld, s)
        aq == AddQueue(ld, q, s)
    IN /\ ar \in [Slots -> ProcRecord] /\ aq \in Seq(Slots)
       /\ QueuesOf(ar, aq, kb) /\ PidsOf(ar, n + 1)
       /\ FramesOf(ar) /\ WaitersOf(ar)
       /\ ar[s].state = "READY"
       /\ \A t \in Slots : t # s => /\ ar[t].state = pr[t].state
                                    /\ ar[t].kctx = pr[t].kctx

\* A new process, in a slot that was unused: it is on no queue, nobody's
\* wakeup depends on it, and its pid is above every pid in the table.
LEMMA LoadParts ==
    ASSUME NEW pr \in [Slots -> ProcRecord], NEW q \in Seq(Slots),
           NEW kb \in Seq(Slots), NEW n \in Nat \ {0}, NEW s \in Slots,
           NEW ppid \in 0..(n - 1), ~Used(pr, s),
           QueuesOf(pr, q, kb), PidsOf(pr, n), FramesOf(pr), WaitersOf(pr)
    PROVE  Loaded(pr, q, kb, n, s, ppid)
<1> DEFINE ld == [pr EXCEPT ![s] = Fresh(n, ppid)]
           ar == AddProc(ld, s)
           aq == AddQueue(ld, q, s)
           fr == Fresh(n, ppid)
<1>1. /\ fr \in ProcRecord /\ fr.state = "READY" /\ fr.pid = n /\ fr.ppid = ppid
      /\ fr.wait = 0 /\ fr.replaced = 0 /\ fr.resume = "USER"
      /\ fr.kctx = "none" /\ fr.request = 0
  <2>1. TimeSlice \in 0..TimeSlice /\ n \in Nat /\ ppid \in Nat
    BY TimeSliceAssumption
  <2> QED BY <2>1, ZenonT(60) DEF Fresh, Cleared, ProcRecord, ProcState
<1> HIDE DEF fr
<1>2a. ld \in [Slots -> ProcRecord]
  BY <1>1 DEF fr
<1>2. ld[s] = fr /\ \A t \in Slots : t # s => ld[t] = pr[t]
  BY <1>1 DEF fr
<1> HIDE DEF ld
<1>3. Addable(ld, s)
  BY <1>1, <1>2 DEF Addable
<1>4. /\ Queues(q, {t \in Slots : t # s /\ ld[t].state = "READY"})
      /\ Queues(kb, {t \in Slots : /\ t # s /\ ld[t].state = "BLOCKED"
                                   /\ ld[t].kctx = "read"})
  <2>1. {t \in Slots : t # s /\ ld[t].state = "READY"}
          = {t \in Slots : pr[t].state = "READY"}
    BY <1>2 DEF Used
  <2>2. {t \in Slots : t # s /\ ld[t].state = "BLOCKED" /\ ld[t].kctx = "read"}
          = {t \in Slots : pr[t].state = "BLOCKED" /\ pr[t].kctx = "read"}
    BY <1>2 DEF Used
  <2> QED BY <2>1, <2>2, ZenonT(60) DEF QueuesOf
<1>5a. Added(ld, q, kb, s)
  BY <1>2a, <1>3, <1>4, AddUnqueued
<1>5. /\ ar \in [Slots -> ProcRecord] /\ aq \in Seq(Slots)
      /\ QueuesOf(ar, aq, kb) /\ ar[s].state = "READY"
  BY <1>5a, ZenonT(60) DEF Added
<1>5b. \A t \in Slots :
            /\ t # s => ar[t].state = ld[t].state
            /\ ar[t].pid = ld[t].pid /\ ar[t].ppid = ld[t].ppid
            /\ ar[t].wait = ld[t].wait /\ ar[t].replaced = ld[t].replaced
            /\ ar[t].resume = ld[t].resume /\ ar[t].kctx = ld[t].kctx
            /\ ar[t].request = ld[t].request
  BY <1>5a, ZenonT(60) DEF Added
<1> HIDE DEF ar, aq
<1>6. /\ ar[s].pid = n /\ ar[s].ppid = ppid /\ ar[s].wait = 0
      /\ ar[s].replaced = 0 /\ ar[s].resume = "USER" /\ ar[s].kctx = "none"
  BY <1>1, <1>2, <1>5b
<1>6b. \A t \in Slots : t # s =>
            /\ ar[t].state = pr[t].state
            /\ ar[t].pid = pr[t].pid /\ ar[t].ppid = pr[t].ppid
            /\ ar[t].wait = pr[t].wait /\ ar[t].replaced = pr[t].replaced
            /\ ar[t].resume = pr[t].resume /\ ar[t].kctx = pr[t].kctx
            /\ ar[t].request = pr[t].request
  <2> TAKE t \in Slots
  <2> HAVE t # s
  <2>1. ld[t] = pr[t]
    BY <1>2
  <2>2. /\ ar[t].state = ld[t].state
        /\ ar[t].pid = ld[t].pid /\ ar[t].ppid = ld[t].ppid
        /\ ar[t].wait = ld[t].wait /\ ar[t].replaced = ld[t].replaced
        /\ ar[t].resume = ld[t].resume /\ ar[t].kctx = ld[t].kctx
        /\ ar[t].request = ld[t].request
    BY <1>5b
  <2> QED BY <2>1, <2>2
<1>7. PidsOf(ar, n + 1)
  <2> SUFFICES ASSUME NEW t \in Slots, Used(ar, t)
               PROVE  /\ ar[t].pid \in 1..n
                      /\ ar[t].ppid < ar[t].pid
                      /\ ar[t].replaced # 0 =>
                            /\ ar[t].state = "ZOMBIE"
                            /\ ar[t].replaced \in (ar[t].pid + 1)..n
                      /\ \A u \in Slots :
                            Used(ar, u) /\ ar[u].pid = ar[t].pid => t = u
    BY DEF PidsOf
  <2>1. \A u \in Slots : u # s => (Used(ar, u) <=> Used(pr, u))
    BY <1>6b DEF Used
  <2>2. \A u \in Slots : Used(pr, u) => pr[u].pid \in 1..(n - 1)
    BY DEF PidsOf
  <2>3. CASE t = s
    <3>1. \A u \in Slots : u # s /\ Used(ar, u) => ar[u].pid # n
      BY <1>6b, <2>1, <2>2
    <3> QED BY <1>6, <2>3, <3>1
  <2>4. CASE t # s
    <3>1. /\ pr[t].pid \in 1..(n - 1) /\ pr[t].ppid < pr[t].pid
          /\ pr[t].replaced # 0 =>
                /\ pr[t].state = "ZOMBIE"
                /\ pr[t].replaced \in (pr[t].pid + 1)..(n - 1)
          /\ \A u \in Slots : Used(pr, u) /\ pr[u].pid = pr[t].pid => t = u
      BY <2>1, <2>4 DEF PidsOf
    <3>2. \A u \in Slots : Used(ar, u) /\ ar[u].pid = ar[t].pid => t = u
      <4> SUFFICES ASSUME NEW u \in Slots, Used(ar, u), ar[u].pid = ar[t].pid
                   PROVE  t = u
        OBVIOUS
      <4>1. ar[t].pid = pr[t].pid /\ ar[t].pid # n
        BY <1>6b, <2>4, <3>1
      <4>2. u # s
        BY <1>6, <4>1
      <4> QED BY <1>6b, <2>1, <3>1, <4>1, <4>2
    <3> QED BY <1>6b, <2>4, <3>1, <3>2
  <2> QED BY <2>3, <2>4
<1>8. FramesOf(ar)
  <2> SUFFICES ASSUME NEW t \in Slots
               PROVE  /\ ar[t].state = "BLOCKED" =>
                            ar[t].resume = "KERNEL" /\ ar[t].kctx # "none"
                      /\ ar[t].state = "READY" =>
                            (ar[t].resume = "KERNEL" <=> ar[t].kctx # "none")
                      /\ ar[t].state = "BLOCKED" /\ ar[t].kctx = "wait" =>
                            ar[t].wait # 0
                      /\ Live(ar, t) /\ ar[t].wait # 0 => ar[t].kctx = "wait"
                      /\ ar[t].kctx = "wait" => ar[t].request # 0
    BY DEF FramesOf
  <2>1. CASE t = s
    BY <1>5, <1>6, <2>1
  <2>2. CASE t # s
    <3>1. /\ ar[t].state = pr[t].state /\ ar[t].resume = pr[t].resume
          /\ ar[t].kctx = pr[t].kctx /\ ar[t].wait = pr[t].wait
          /\ ar[t].request = pr[t].request
      BY <1>6b, <2>2
    <3> QED BY <3>1, ZenonT(60) DEF FramesOf, Live
  <2> QED BY <2>1, <2>2, ZenonT(60)
<1>9. WaitersOf(ar)
  <2> SUFFICES ASSUME NEW w \in Slots, ar[w].state = "BLOCKED", ar[w].kctx = "wait"
               PROVE  \E y \in Slots : /\ Live(ar, y) /\ ar[y].ppid = ar[w].pid
                                       /\ ar[w].wait \in {AnyPid, ar[y].pid}
    BY DEF WaitersOf
  <2>1. w # s
    BY <1>5
  <2>1a. /\ pr[w].state = "BLOCKED" /\ pr[w].kctx = "wait"
         /\ ar[w].pid = pr[w].pid /\ ar[w].wait = pr[w].wait
    BY <1>6b, <2>1
  <2>2. PICK y \in Slots : /\ Live(pr, y) /\ pr[y].ppid = pr[w].pid
                           /\ pr[w].wait \in {AnyPid, pr[y].pid}
    BY <2>1a DEF WaitersOf
  <2>3. y # s
    BY <2>2 DEF Live, Used
  <2>4. /\ ar[y].state = pr[y].state /\ ar[y].ppid = pr[y].ppid
        /\ ar[y].pid = pr[y].pid
    BY <1>6b, <2>3, ZenonT(60)
  <2> QED BY <2>1a, <2>2, <2>4 DEF Live
<1> QED BY <1>5, <1>6b, <1>7, <1>8, <1>9, ZenonT(60) DEF ar, aq, ld, Loaded

\* sys_spawn.
LEMMA SpawnInv == Inv /\ Spawn => Inv'
<1> SUFFICES ASSUME Inv, Spawn PROVE Inv'
  OBVIOUS
<1>1. cpu = "user" /\ nextPid <= MaxPid
  BY DEF Spawn, Calling
<1>2. PICK s \in Slots :
         LET loaded == [proc EXCEPT ![s] = Fresh(nextPid, proc[current].pid)]
         IN /\ IsFreeSlot(proc, s)
            /\ proc' = AddProc(loaded, s)
            /\ runq' = AddQueue(loaded, runq, s)
  BY DEF Spawn
<1>3. /\ current \in Slots /\ proc[current].state = "RUNNING" /\ kernelWait = TRUE
      /\ keys \in 0..KeyMax /\ proc[current].pid \in 1..(nextPid - 1)
      /\ \A t \in Slots : t # current => proc[t].state # "RUNNING"
  BY <1>1, CurrentRuns
<1>4. /\ proc \in [Slots -> ProcRecord] /\ runq \in Seq(Slots)
      /\ kbwait \in Seq(Slots) /\ nextPid \in Nat \ {0}
      /\ proc[current].pid \in 0..(nextPid - 1) /\ ~Used(proc, s)
      /\ QueuesOf(proc, runq, kbwait) /\ PidsOf(proc, nextPid)
      /\ FramesOf(proc) /\ WaitersOf(proc)
  BY <1>2, <1>3, PartsOfInv DEF Inv, TypeOK, IsFreeSlot
<1>5. /\ proc' \in [Slots -> ProcRecord] /\ runq' \in Seq(Slots)
      /\ QueuesOf(proc', runq', kbwait) /\ PidsOf(proc', nextPid + 1)
      /\ FramesOf(proc') /\ WaitersOf(proc')
      /\ proc'[s].state = "READY"
      /\ \A t \in Slots : t # s => /\ proc'[t].state = proc[t].state
                                   /\ proc'[t].kctx = proc[t].kctx
  <2> DEFINE ld == [proc EXCEPT ![s] = Fresh(nextPid, proc[current].pid)]
             ar == AddProc(ld, s)
             aq == AddQueue(ld, runq, s)
  <2>1. /\ ar \in [Slots -> ProcRecord] /\ aq \in Seq(Slots)
        /\ QueuesOf(ar, aq, kbwait) /\ PidsOf(ar, nextPid + 1)
        /\ FramesOf(ar) /\ WaitersOf(ar)
        /\ ar[s].state = "READY"
        /\ \A t \in Slots : t # s => /\ ar[t].state = proc[t].state
                                     /\ ar[t].kctx = proc[t].kctx
    <3>1. Loaded(proc, runq, kbwait, nextPid, s, proc[current].pid)
      BY <1>4, LoadParts
    <3> QED BY <3>1, ZenonT(60) DEF Loaded
  <2>2. proc' = ar /\ runq' = aq
    BY <1>2
  <2> HIDE DEF ar, aq
  <2> QED BY <2>1, <2>2
<1>6. /\ nextPid' = nextPid + 1
      /\ UNCHANGED <<current, kbwait, keys, kernelWait, cpu>>
  BY DEF Spawn
<1>7. s # current
  BY <1>3, <1>4 DEF Used
<1>8. TypeOK'
  <2>1. nextPid' \in 1..(MaxPid + 1)
    BY <1>1, <1>4, <1>6, MaxPidAssumption
  <2> QED BY <1>4, <1>5, <1>6, <2>1 DEF Inv, TypeOK
<1>9. OneRunning'
  <2>1. \A t \in Slots : proc'[t].state = "RUNNING" <=> t = current
    BY <1>3, <1>5, <1>7
  <2>2. current # NoProc
    BY <1>3 DEF Slots, NoProc
  <2> QED BY <1>1, <1>3, <1>6, <2>1, <2>2 DEF OneRunning
<1>10. cpu' # "kernel" /\ proc'[current'].kctx = "none"
  BY <1>1, <1>3, <1>5, <1>6, <1>7, CurrentRecord
<1>11. QueuesOf(proc', runq', kbwait') /\ PidsOf(proc', nextPid')
  BY <1>5, <1>6
<1> QED BY <1>5, <1>8, <1>9, <1>10, <1>11, InvParts

\* Between sessions there is no live process, so every slot is unused or a zombie.
LEMMA NoneLive ==
    ASSUME Inv, cpu \in {"shell", "return"}
    PROVE  /\ current = NoProc /\ kernelWait = FALSE
           /\ \A t \in Slots : proc[t].state \in {"UNUSED", "ZOMBIE"}
<1>1. \A t \in Slots : proc[t].state \in ProcState
  BY DEF Inv, TypeOK, ProcRecord
<1> QED BY <1>1 DEF Inv, OneRunning, TypeOK, Live, ProcState

\* scheduler_run reaps after a session.
LEMMA SessionReturnInv == Inv /\ SessionReturn => Inv'
<1> SUFFICES ASSUME Inv, SessionReturn PROVE Inv'
  OBVIOUS
<1>1. PICK D \in SUBSET Slots : Reaps(proc, D) /\ proc' = DestroyAll(proc, D)
  BY DEF SessionReturn
<1>2. \A d \in Slots : d \in D => proc[d].state = "ZOMBIE"
  BY <1>1 DEF Reaps
<1>3. /\ proc \in [Slots -> ProcRecord]
      /\ QueuesOf(proc, runq, kbwait) /\ PidsOf(proc, nextPid)
      /\ FramesOf(proc) /\ WaitersOf(proc)
  BY PartsOfInv DEF Inv, TypeOK
<1>4. /\ proc' \in [Slots -> ProcRecord]
      /\ \A t \in Slots : proc'[t] = IF t \in D THEN Cleared ELSE proc[t]
      /\ QueuesOf(proc', runq, kbwait) /\ PidsOf(proc', nextPid)
      /\ FramesOf(proc') /\ WaitersOf(proc')
  <2> DEFINE ar == DestroyAll(proc, D)
  <2>1. /\ ar \in [Slots -> ProcRecord]
        /\ \A t \in Slots : ar[t] = IF t \in D THEN Cleared ELSE proc[t]
        /\ QueuesOf(ar, runq, kbwait) /\ PidsOf(ar, nextPid)
        /\ FramesOf(ar) /\ WaitersOf(ar)
    BY <1>2, <1>3, DestroyParts, ZenonT(60)
  <2>2. proc' = ar
    BY <1>1
  <2> HIDE DEF ar
  <2> QED BY <2>1, <2>2
<1>5. /\ cpu = "return" /\ kernelWait' = FALSE /\ cpu' = "shell"
      /\ UNCHANGED <<nextPid, current, runq, kbwait, keys>>
  BY DEF SessionReturn
<1>6. \A t \in Slots : proc'[t].state \in {"UNUSED", "ZOMBIE"}
  BY <1>4, <1>5, NoneLive DEF Cleared
<1>7. TypeOK'
  BY <1>4, <1>5, ZenonT(60) DEF Inv, TypeOK, CpuMode
<1>8. OneRunning'
  BY <1>5, <1>6, NoneLive DEF OneRunning, Live
<1>9. QueuesOf(proc', runq', kbwait') /\ PidsOf(proc', nextPid')
  BY <1>4, <1>5
<1> QED BY <1>4, <1>5, <1>7, <1>8, <1>9, InvParts

\* The interrupt handler moves a sleeping reader from the keyboard queue to the
\* run queue; the reader is on no queue in between.
LEMMA WakeReaderInv ==
    ASSUME Inv, KeyboardIRQ, kbwait # <<>>
    PROVE  Inv'
<1> DEFINE h == Head(kbwait)
           K == {t \in Slots : proc[t].state = "BLOCKED" /\ proc[t].kctx = "read"}
           R == {t \in Slots : proc[t].state = "READY"}
<1>1. /\ proc \in [Slots -> ProcRecord] /\ runq \in Seq(Slots)
      /\ kbwait \in Seq(Slots) /\ keys \in 0..KeyMax
      /\ Queues(kbwait, K) /\ Queues(runq, R)
      /\ PidsOf(proc, nextPid) /\ FramesOf(proc) /\ WaitersOf(proc)
  BY PartsOfInv DEF Inv, TypeOK, QueuesOf
<1>2. /\ keys' \in 0..KeyMax /\ cpu # "kernel"
      /\ proc' = AddProc(proc, h) /\ runq' = AddQueue(proc, runq, h)
      /\ kbwait' = Tail(kbwait)
      /\ UNCHANGED <<nextPid, current, kernelWait, cpu>>
  BY <1>1, KeyMaxAssumption DEF KeyboardIRQ
<1> HIDE DEF K
<1>3. h \in Slots /\ h \in K /\ Tail(kbwait) \in Seq(Slots)
      /\ Queues(Tail(kbwait), K \ {h})
  BY <1>1, QueueTail
<1> HIDE DEF h
<1>4. proc[h].state = "BLOCKED" /\ proc[h].kctx = "read"
  BY <1>3 DEF K
<1>5. /\ K \ {h} = {t \in Slots : /\ t # h /\ proc[t].state = "BLOCKED"
                                  /\ proc[t].kctx = "read"}
      /\ R = {t \in Slots : t # h /\ proc[t].state = "READY"}
  BY <1>4 DEF K
<1>6. Added(proc, runq, Tail(kbwait), h)
  <2>1. Addable(proc, h)
    BY <1>4 DEF Addable
  <2>2. /\ Queues(runq, {t \in Slots : t # h /\ proc[t].state = "READY"})
        /\ Queues(Tail(kbwait), {t \in Slots : /\ t # h /\ proc[t].state = "BLOCKED"
                                               /\ proc[t].kctx = "read"})
    BY <1>1, <1>3, <1>5, ZenonT(60)
  <2> QED BY <1>1, <1>3, <2>1, <2>2, AddUnqueued, ZenonT(60)
<1>7. /\ proc' \in [Slots -> ProcRecord] /\ runq' \in Seq(Slots)
      /\ QueuesOf(proc', runq', kbwait') /\ proc'[h].state = "READY"
      /\ \A t \in Slots :
            /\ t # h => proc'[t].state = proc[t].state
            /\ proc'[t].pid = proc[t].pid /\ proc'[t].ppid = proc[t].ppid
            /\ proc'[t].wait = proc[t].wait /\ proc'[t].replaced = proc[t].replaced
            /\ proc'[t].resume = proc[t].resume /\ proc'[t].kctx = proc[t].kctx
            /\ proc'[t].request = proc[t].request
  <2> DEFINE ar == AddProc(proc, h)
             aq == AddQueue(proc, runq, h)
  <2>1. /\ ar \in [Slots -> ProcRecord] /\ aq \in Seq(Slots)
        /\ QueuesOf(ar, aq, Tail(kbwait)) /\ ar[h].state = "READY"
        /\ \A t \in Slots :
              /\ t # h => ar[t].state = proc[t].state
              /\ ar[t].pid = proc[t].pid /\ ar[t].ppid = proc[t].ppid
              /\ ar[t].wait = proc[t].wait /\ ar[t].replaced = proc[t].replaced
              /\ ar[t].resume = proc[t].resume /\ ar[t].kctx = proc[t].kctx
              /\ ar[t].request = proc[t].request
    BY <1>6, ZenonT(60) DEF Added
  <2>2. proc' = ar /\ runq' = aq /\ kbwait' = Tail(kbwait)
    BY <1>2
  <2> HIDE DEF ar, aq
  <2> QED BY <2>1, <2>2
<1>8. PidsOf(proc', nextPid)
  <2>1. \A t \in Slots : Used(proc', t) <=> Used(proc, t)
    BY <1>4, <1>7 DEF Used
  <2>2. proc[h].replaced = 0
    BY <1>1, <1>3, <1>4 DEF PidsOf, Used
  <2> QED BY <1>1, <1>7, <2>1, <2>2 DEF PidsOf
<1>9. FramesOf(proc')
  <2> SUFFICES ASSUME NEW t \in Slots
               PROVE  /\ proc'[t].state = "BLOCKED" =>
                            proc'[t].resume = "KERNEL" /\ proc'[t].kctx # "none"
                      /\ proc'[t].state = "READY" =>
                            (proc'[t].resume = "KERNEL" <=> proc'[t].kctx # "none")
                      /\ proc'[t].state = "BLOCKED" /\ proc'[t].kctx = "wait" =>
                            proc'[t].wait # 0
                      /\ Live(proc', t) /\ proc'[t].wait # 0 => proc'[t].kctx = "wait"
                      /\ proc'[t].kctx = "wait" => proc'[t].request # 0
    BY DEF FramesOf
  <2>1. CASE t = h
    <3>1. proc[h].resume = "KERNEL" /\ proc[h].wait = 0
      BY <1>1, <1>3, <1>4 DEF FramesOf, Live
    <3> QED BY <1>3, <1>4, <1>7, <2>1, <3>1, ZenonT(60)
  <2>2. CASE t # h
    BY <1>1, <1>7, <2>2 DEF FramesOf, Live
  <2> QED BY <2>1, <2>2
<1>10. WaitersOf(proc')
  <2> SUFFICES ASSUME NEW w \in Slots, proc'[w].state = "BLOCKED",
                      proc'[w].kctx = "wait"
               PROVE  \E y \in Slots : /\ Live(proc', y) /\ proc'[y].ppid = proc'[w].pid
                                       /\ proc'[w].wait \in {AnyPid, proc'[y].pid}
    BY DEF WaitersOf
  <2>1. proc[w].state = "BLOCKED" /\ proc[w].kctx = "wait"
    BY <1>7
  <2>2. PICK y \in Slots : /\ Live(proc, y) /\ proc[y].ppid = proc[w].pid
                           /\ proc[w].wait \in {AnyPid, proc[y].pid}
    BY <1>1, <2>1 DEF WaitersOf
  <2>3. Live(proc', y)
    BY <1>7, <2>2 DEF Live
  <2> QED BY <1>7, <2>2, <2>3
<1>11. TypeOK'
  BY <1>2, <1>3, <1>7 DEF Inv, TypeOK
<1>12. OneRunning'
  <2>1. \A t \in Slots : proc'[t].state = "RUNNING" <=> proc[t].state = "RUNNING"
    BY <1>4, <1>7
  <2>2. cpu \notin {"shell", "return"}
    BY <1>3, <1>4 DEF Inv, OneRunning, Live
  <2> QED BY <1>2, <2>1, <2>2 DEF Inv, OneRunning
<1>13. cpu' \in {"user", "kernel"} => cpu' # "kernel" /\ proc'[current'].kctx = "none"
  <2> SUFFICES ASSUME cpu = "user"
               PROVE  proc'[current].kctx = "none"
    BY <1>2
  <2>1. current \in Slots /\ proc[current].kctx = "none"
    BY CurrentRuns, CurrentRecord
  <2> QED BY <1>7, <2>1
<1>14. QueuesOf(proc', runq', kbwait') /\ PidsOf(proc', nextPid')
  BY <1>2, <1>7, <1>8, ZenonT(60)
<1> QED BY <1>9, <1>10, <1>11, <1>12, <1>13, <1>14, InvParts

\* The keyboard interrupt, with and without a sleeping reader.
LEMMA KeyboardIRQInv == Inv /\ KeyboardIRQ => Inv'
<1> SUFFICES ASSUME Inv, KeyboardIRQ PROVE Inv'
  OBVIOUS
<1>1. CASE kbwait # <<>>
  BY <1>1, WakeReaderInv
<1>2. CASE kbwait = <<>>
  <2>1. keys' \in 0..KeyMax
    BY KeyMaxAssumption DEF KeyboardIRQ, Inv, TypeOK
  <2>2. /\ proc' = proc /\ nextPid' = nextPid
        /\ UNCHANGED <<current, runq, kbwait, kernelWait, cpu>>
    BY <1>2 DEF KeyboardIRQ
  <2>3. proc' \in [Slots -> ProcRecord] /\ nextPid' \in 1..(MaxPid + 1)
    BY <2>2 DEF Inv, TypeOK
  <2>4. SameFields(proc, proc') /\ nextPid' >= nextPid
    BY <2>2, <2>3 DEF SameFields
  <2> QED BY <2>1, <2>2, <2>3, <2>4, SameTable
<1> QED BY <1>1, <1>2

\* kxe_load and scheduler_run start a session.
LEMMA ShellRunInv == Inv /\ ShellRun => Inv'
<1> SUFFICES ASSUME Inv, ShellRun PROVE Inv'
  OBVIOUS
<1>1. PICK s \in Slots, D \in SUBSET Slots :
         LET loaded == [proc EXCEPT ![s] = Fresh(nextPid, 0)]
             reaped == DestroyAll(loaded, D)
         IN /\ IsFreeSlot(proc, s)
            /\ Reaps(loaded, D)
            /\ proc' = AddProc(reaped, s)
            /\ runq' = AddQueue(reaped, runq, s)
  BY DEF ShellRun
<1> DEFINE ld == [proc EXCEPT ![s] = Fresh(nextPid, 0)]
           gone == DestroyAll(proc, D)
           ar == AddProc([gone EXCEPT ![s] = Fresh(nextPid, 0)], s)
           aq == AddQueue([gone EXCEPT ![s] = Fresh(nextPid, 0)], runq, s)
<1>2. /\ cpu = "shell" /\ nextPid <= MaxPid /\ nextPid' = nextPid + 1
      /\ kernelWait' = TRUE /\ cpu' = "idle" /\ UNCHANGED <<current, kbwait, keys>>
  BY DEF ShellRun
<1>3. /\ proc \in [Slots -> ProcRecord] /\ runq \in Seq(Slots)
      /\ kbwait \in Seq(Slots) /\ nextPid \in Nat \ {0} /\ ~Used(proc, s)
      /\ QueuesOf(proc, runq, kbwait) /\ PidsOf(proc, nextPid)
      /\ FramesOf(proc) /\ WaitersOf(proc)
  BY <1>1, PartsOfInv DEF Inv, TypeOK, IsFreeSlot
<1>4. \A d \in Slots : d \in D => proc[d].state = "ZOMBIE" /\ d # s
  <2>1. \A d \in Slots : d \in D => ld[d].state = "ZOMBIE"
    BY <1>1 DEF Reaps
  <2>2. ld[s].state = "READY" /\ \A d \in Slots : d # s => ld[d] = proc[d]
    BY <1>3 DEF Fresh, Cleared
  <2> HIDE DEF ld
  <2> QED BY <2>1, <2>2
<1>5. DestroyAll(ld, D) = [gone EXCEPT ![s] = Fresh(nextPid, 0)]
  BY <1>3, <1>4, ZenonT(60) DEF DestroyAll
<1>6. proc' = ar /\ runq' = aq
  BY <1>1, <1>5
<1>7. \A d \in Slots : d \in D => proc[d].state = "ZOMBIE"
  BY <1>4
<1>8. /\ gone \in [Slots -> ProcRecord]
      /\ \A t \in Slots : gone[t] = IF t \in D THEN Cleared ELSE proc[t]
      /\ QueuesOf(gone, runq, kbwait) /\ PidsOf(gone, nextPid)
      /\ FramesOf(gone) /\ WaitersOf(gone)
  BY <1>3, <1>7, DestroyParts, ZenonT(60)
<1> HIDE DEF gone
<1>9. \A t \in Slots : gone[t].state \in {"UNUSED", "ZOMBIE"}
  BY <1>2, <1>8, NoneLive DEF Cleared
<1>10. Loaded(gone, runq, kbwait, nextPid, s, 0)
  <2>1. ~Used(gone, s) /\ 0 \in 0..(nextPid - 1)
    BY <1>3, <1>4, <1>8 DEF Used
  <2> QED BY <1>3, <1>8, <2>1, LoadParts
<1>11. /\ ar \in [Slots -> ProcRecord] /\ aq \in Seq(Slots)
       /\ QueuesOf(ar, aq, kbwait) /\ PidsOf(ar, nextPid + 1)
       /\ FramesOf(ar) /\ WaitersOf(ar) /\ ar[s].state = "READY"
       /\ \A t \in Slots : t # s => ar[t].state = gone[t].state
  BY <1>10, ZenonT(60) DEF Loaded
<1> HIDE DEF ar, aq
<1>12. TypeOK'
  <2>1. nextPid' \in 1..(MaxPid + 1)
    BY <1>2, <1>3, MaxPidAssumption
  <2> QED BY <1>2, <1>6, <1>11, <2>1, ZenonT(60) DEF Inv, TypeOK, CpuMode
<1>13. OneRunning'
  BY <1>2, <1>6, <1>9, <1>11, ZenonT(60) DEF OneRunning
<1>14. /\ QueuesOf(proc', runq', kbwait') /\ PidsOf(proc', nextPid')
       /\ FramesOf(proc') /\ WaitersOf(proc')
  BY <1>2, <1>6, <1>11
<1> QED BY <1>2, <1>12, <1>13, <1>14, InvParts

-----------------------------------------------------------------------------
(* The invariant holds *)

\* The table, the queues and the processor at boot.
LEMMA InitInv == Init => Inv
<1> SUFFICES ASSUME Init PROVE Inv
  OBVIOUS
<1>1. /\ proc = [s \in Slots |-> Cleared] /\ nextPid = 1 /\ current = NoProc
      /\ runq = <<>> /\ kbwait = <<>> /\ keys = 0 /\ kernelWait = FALSE
      /\ cpu = "shell"
  BY DEF Init, ProcInit
<1>2. /\ Cleared \in ProcRecord /\ Cleared.state = "UNUSED"
      /\ Cleared.kctx = "none"
  <2>1. 0 \in 0..TimeSlice
    BY TimeSliceAssumption
  <2> QED BY <2>1 DEF Cleared, ProcRecord, ProcState
<1>3. proc \in [Slots -> ProcRecord] /\ \A s \in Slots : proc[s] = Cleared
  BY <1>1, <1>2
<1>4. TypeOK
  <2>1. <<>> \in Seq(Slots)
    OBVIOUS
  <2>2. nextPid \in 1..(MaxPid + 1) /\ keys \in 0..KeyMax
    BY <1>1, KeyMaxAssumption, MaxPidAssumption
  <2> QED BY <1>1, <1>3, <2>1, <2>2, ZenonT(60) DEF TypeOK, CpuMode
<1>5. QueuesExact
  BY <1>1, <1>2, <1>3 DEF QueuesExact, Queues
<1>6. OneRunning
  BY <1>1, <1>2, <1>3 DEF OneRunning, Live
<1>7. PidsOrdered /\ WaiterHasLiveChild
  BY <1>2, <1>3 DEF PidsOrdered, WaiterHasLiveChild, Used
<1>8. ResumesLiveFrame
  BY <1>2, <1>3 DEF ResumesLiveFrame, Live
<1> QED BY <1>4, <1>5, <1>6, <1>7, <1>8 DEF Inv

\* A step that changes nothing keeps the invariant.
LEMMA StutterInv == Inv /\ UNCHANGED vars => Inv'
<1> SUFFICES ASSUME Inv, UNCHANGED vars PROVE Inv'
  OBVIOUS
<1>1. /\ proc' = proc /\ nextPid' = nextPid /\ keys' = keys
      /\ UNCHANGED <<current, runq, kbwait, kernelWait, cpu>>
  BY DEF vars
<1>2. /\ proc' \in [Slots -> ProcRecord] /\ nextPid' \in 1..(MaxPid + 1)
      /\ keys' \in 0..KeyMax
  BY <1>1 DEF Inv, TypeOK
<1>3. SameFields(proc, proc') /\ nextPid' >= nextPid
  BY <1>1, <1>2 DEF SameFields
<1> QED BY <1>1, <1>2, <1>3, SameTable

\* Every step of the system keeps the invariant.
LEMMA NextInv == Inv /\ [Next]_vars => Inv'
<1> SUFFICES ASSUME Inv, [Next]_vars PROVE Inv'
  OBVIOUS
<1>1. CASE ShellRun \/ LoadFails \/ ShellKey
  BY <1>1, ShellRunInv, LoadFailsInv, ShellKeyInv
<1>2. CASE TimerTick \/ KeyboardIRQ
  BY <1>2, TimerTickInv, KeyboardIRQInv
<1>3. CASE SystemCall
  BY <1>3, ExitInv, YieldInv, SpawnInv, ExecInv, WaitCallInv, ReadCallInv
     DEF SystemCall
<1>4. CASE KernelStep
  BY <1>4, IdleWakeInv, SessionReturnInv, WaitFailsInv, WaitFollowsInv,
     WaitReapsInv, WaitBlocksInv, ReadReturnsInv, ReadBlocksInv DEF KernelStep
<1>5. CASE UNCHANGED vars
  BY <1>5, StutterInv
<1> QED BY <1>1, <1>2, <1>3, <1>4, <1>5 DEF Next

\* The inductive invariant holds in every reachable state.
THEOREM Invariance == Spec => []Inv
<1> QED BY InitInv, NextInv, PTL DEF Spec

\* The process table, the two queues and the processor agree, for every size of
\* the table and of the key buffer: the queues threaded through proc->next never
\* share a process, hold one twice or hold one that was freed; at most one
\* process runs and none outlives its session; pids are unique among the used
\* slots and increase along parent and exec links.
THEOREM TableStaysExact == Spec => []TableExact
<1>1. Inv => TableExact
  BY DEF Inv, TableExact
<1> QED BY <1>1, Invariance, PTL

\* scheduler_switch never restores a kernel context whose frame is gone.
THEOREM FramesStayLive == Spec => []ResumesLiveFrame
<1>1. Inv => ResumesLiveFrame
  BY DEF Inv
<1> QED BY <1>1, Invariance, PTL

\* No wakeup of waitpid is lost, however many processes there are and however
\* exits, execs and waits interleave.
THEOREM NoLostChild == Spec => []WaiterHasLiveChild
<1>1. Inv => WaiterHasLiveChild
  BY DEF Inv
<1> QED BY <1>1, Invariance, PTL

=============================================================================
