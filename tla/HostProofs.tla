----------------------------- MODULE HostProofs -----------------------------
(***************************************************************************)
(* Proofs about the host controllers: the rings of xHCI stay queues, the   *)
(* tables of USB controllers hold only controllers that are set up, and an *)
(* AHCI command moves what was asked for, or reports that it did not.      *)
(***************************************************************************)
EXTENDS UsbHosts, XhciRings, Ahci, BasicLemmas, FiniteSetTheorems

USE ZenonT(3), SMTT(30), Z3T(30), ZenonT(60)

-----------------------------------------------------------------------------
(* XhciRings.                                                              *)

\* The entry d positions before i in a ring of n, and the cycle bit of the lap
\* it was filled on if c is that of i.
Back(i, d, n) == IF i >= d THEN i - d ELSE i - d + n
BackCycle(i, d, c) == IF i >= d THEN c ELSE Flip(c)

Trb == [c : 0..1, id : Nat]
EventTrb == [c : 0..1, id : Nat, at : Nat]

RingTypes ==
  /\ trbs \in [0..Link -> Trb] /\ enqueue \in 0..(Link - 1) /\ cycle \in 0..1
  /\ eventRing \in [0..(EventTrbs - 1) -> EventTrb]
  /\ eventDequeue \in 0..(EventTrbs - 1) /\ eventCycle \in 0..1
  /\ xhc \in [dequeue : 0..Link, cycle : 0..1, eventEnqueue : 0..(EventTrbs - 1),
              eventCycle : 0..1, erdp : 0..(EventTrbs - 1)]
  /\ waitFor \in [id : Nat, at : Nat]
  /\ queued \in Seq(Nat) /\ posted \in Seq(Nat)
  /\ count \in 0..RingCommands
  /\ taken \in [asked : Nat, got : Nat]

\* Commands complete in order: the completions not seen are those of the last
\* ones issued, fewer than the ring has entries.
Outstanding ==
  /\ Len(queued) + Len(posted) <= RingBacklog + 1
  /\ Len(queued) + Len(posted) <= count
  /\ \A k \in 1..Len(queued) : queued[k] = count - Len(queued) + k
  /\ \A k \in 1..Len(posted) : posted[k] = count - Len(queued) - Len(posted) + k

\* The command ring: the entries before the enqueue index are of this lap; the
\* controller is as many entries behind as commands are queued.
CommandRing ==
  /\ \A i \in 0..(Link - 1) : trbs[i].c = IF i < enqueue THEN cycle ELSE Flip(cycle)
  /\ \A d \in 1..Len(queued) : trbs[Back(enqueue, d, Link)].id = count - d + 1
  /\ XhcFollow.at = Back(enqueue, Len(queued), Link)
  /\ XhcFollow.c = BackCycle(enqueue, Len(queued), cycle)
  /\ xhc.dequeue = Link => trbs[Link].c = xhc.cycle
  /\ Len(queued) > enqueue => trbs[Link].c = Flip(cycle)

\* The event ring, which the controller fills, in the same way.
EventRing ==
  /\ xhc.erdp = eventDequeue
  /\ Len(posted) < EventTrbs
  /\ \A j \in 0..(EventTrbs - 1) :
       eventRing[j].c = IF j < xhc.eventEnqueue THEN xhc.eventCycle ELSE Flip(xhc.eventCycle)
  /\ eventDequeue = Back(xhc.eventEnqueue, Len(posted), EventTrbs)
  /\ eventCycle = BackCycle(xhc.eventEnqueue, Len(posted), xhc.eventCycle)
  /\ \A d \in 1..Len(posted) :
       /\ eventRing[Back(xhc.eventEnqueue, d, EventTrbs)].id = count - Len(queued) - d + 1
       /\ eventRing[Back(xhc.eventEnqueue, d, EventTrbs)].at
            = Back(enqueue, Len(queued) + d, Link)

\* The driver waits for the last command it issued.
Waiting ==
  waitFor.id # 0 => waitFor.id = count /\ waitFor.at = Back(enqueue, 1, Link)

RingsInv == RingTypes /\ Outstanding /\ CommandRing /\ EventRing /\ Waiting /\ AnswerIsOwn

-----------------------------------------------------------------------------
\* What the proofs use of the constants.
LEMMA RingSizes ==
  /\ Link \in Nat /\ Link >= 3 /\ EventTrbs \in Nat /\ EventTrbs >= 2
  /\ RingBacklog \in Nat /\ RingBacklog + 1 < Link
BY RingsAssumption DEF Link

\* The modulus of the event ring.
LEMMA NextEntry ==
  ASSUME NEW j \in 0..(EventTrbs - 1)
  PROVE  (j + 1) % EventTrbs = IF j + 1 = EventTrbs THEN 0 ELSE j + 1
<1> DEFINE m == (j + 1) % EventTrbs
           d == (j + 1) \div EventTrbs
<1>1. EventTrbs \in Nat /\ EventTrbs > 0 /\ j \in Nat /\ j < EventTrbs
  BY RingSizes
<1>2. m \in 0..(EventTrbs - 1) /\ d \in Int /\ j + 1 = EventTrbs * d + m
  BY <1>1
<1>3. d < 2 /\ d > -1
  BY <1>1, <1>2
<1>4. d = 0 \/ d = 1
  BY <1>2, <1>3
<1> QED BY <1>1, <1>2, <1>4

\* The rings are empty at first.
LEMMA RingsInitInv == RingsInit => RingsInv
<1> SUFFICES ASSUME RingsInit PROVE RingsInv
  OBVIOUS
<1> USE RingSizes DEF RingsInit
<1>1. RingTypes
  BY RingsAssumption DEF RingTypes, Trb, EventTrb
<1>2. Outstanding
  BY RingsAssumption DEF Outstanding
<1>3. CommandRing
  <2>1. Len(queued) = 0 /\ xhc.dequeue # Link
    OBVIOUS
  <2>2. XhcFollow.at = 0 /\ XhcFollow.c = 1
    BY <2>1 DEF XhcFollow
  <2>3. /\ \A i \in 0..(Link - 1) : trbs[i].c = IF i < enqueue THEN cycle ELSE Flip(cycle)
        /\ Back(enqueue, 0, Link) = 0 /\ BackCycle(enqueue, 0, cycle) = 1
    BY DEF Back, BackCycle, Flip
  <2>4. enqueue = 0 /\ ~(Len(queued) > enqueue) /\ \A d \in 1..Len(queued) : FALSE
    BY <2>1
  <2> HIDE DEF RingsInit
  <2> QED BY <2>1, <2>2, <2>3, <2>4 DEF CommandRing
<1>4. EventRing
  BY DEF EventRing, Back, BackCycle, Flip
<1> QED BY <1>1, <1>2, <1>3, <1>4 DEF RingsInv, Waiting, AnswerIsOwn


\* The entry after i in a ring of n, and the cycle bit there.
After(i, n) == IF i + 1 = n THEN 0 ELSE i + 1
AfterCycle(i, n, c) == IF i + 1 = n THEN Flip(c) ELSE c

\* Flipping twice.
LEMMA FlipFlip == ASSUME NEW c \in 0..1 PROVE Flip(c) \in 0..1 /\ Flip(Flip(c)) = c
BY DEF Flip

\* The side that empties a ring catches up by one entry.
LEMMA CatchUp ==
  ASSUME NEW n \in Nat, NEW i \in 0..(n - 1), NEW d \in 1..(n - 1), NEW c \in 0..1
  PROVE  /\ Back(i, d, n) \in 0..(n - 1) /\ Back(i, d, n) # i
         /\ Back(i, d - 1, n) = After(Back(i, d, n), n)
         /\ BackCycle(i, d - 1, c) = AfterCycle(Back(i, d, n), n, BackCycle(i, d, c))
<1>1. CASE i >= d
  <2>1. Back(i, d, n) = i - d /\ Back(i, d - 1, n) = i - d + 1
    BY <1>1 DEF Back
  <2>2. BackCycle(i, d - 1, c) = c /\ BackCycle(i, d, c) = c
    BY <1>1 DEF BackCycle
  <2> QED BY <1>1, <2>1, <2>2 DEF After, AfterCycle
<1>2. CASE i = d - 1
  <2>1. Back(i, d, n) = n - 1 /\ Back(i, d - 1, n) = 0
    BY <1>2 DEF Back
  <2>2. BackCycle(i, d - 1, c) = c /\ BackCycle(i, d, c) = Flip(c)
    BY <1>2 DEF BackCycle
  <2> QED BY <1>2, <2>1, <2>2, FlipFlip DEF After, AfterCycle
<1>3. CASE i < d - 1
  <2>1. Back(i, d, n) = i - d + n /\ Back(i, d - 1, n) = i - d + n + 1
    BY <1>3 DEF Back
  <2>2. BackCycle(i, d - 1, c) = Flip(c) /\ BackCycle(i, d, c) = Flip(c)
    BY <1>3 DEF BackCycle
  <2> QED BY <1>3, <2>1, <2>2 DEF After, AfterCycle
<1> QED BY <1>1, <1>2, <1>3

\* The side that fills a ring moves on by one entry.
LEMMA MoveOn ==
  ASSUME NEW n \in Nat, NEW i \in 0..(n - 1), NEW d \in 0..(n - 1), NEW c \in 0..1
  PROVE  /\ After(i, n) \in 0..(n - 1) /\ AfterCycle(i, n, c) \in 0..1
         /\ Back(After(i, n), d + 1, n) = Back(i, d, n)
         /\ BackCycle(After(i, n), d + 1, AfterCycle(i, n, c)) = BackCycle(i, d, c)
<1>1. CASE i + 1 = n
  <2>1. After(i, n) = 0 /\ AfterCycle(i, n, c) = Flip(c) /\ i >= d
    BY <1>1 DEF After, AfterCycle
  <2>2. Back(0, d + 1, n) = i - d /\ Back(i, d, n) = i - d
    BY <1>1 DEF Back
  <2>3. BackCycle(0, d + 1, Flip(c)) = c /\ BackCycle(i, d, c) = c
    BY <1>1, FlipFlip DEF BackCycle
  <2> QED BY <2>1, <2>2, <2>3, FlipFlip
<1>2. CASE i + 1 # n
  <2>1. After(i, n) = i + 1 /\ AfterCycle(i, n, c) = c
    BY <1>2 DEF After, AfterCycle
  <2> QED BY <1>2, <2>1 DEF Back, BackCycle
<1> QED BY <1>1, <1>2

\* What appending to and taking from a queue does.
LEMMA QueueSteps ==
  ASSUME NEW q \in Seq(Nat), NEW x \in Nat
  PROVE  /\ Len(q) \in Nat
         /\ Append(q, x) \in Seq(Nat) /\ Len(Append(q, x)) = Len(q) + 1
         /\ \A k \in 1..Len(q) : Append(q, x)[k] = q[k]
         /\ Append(q, x)[Len(q) + 1] = x
         /\ q # <<>> <=> Len(q) > 0
         /\ q # <<>> => /\ Tail(q) \in Seq(Nat) /\ Len(Tail(q)) = Len(q) - 1
                        /\ \A k \in 1..(Len(q) - 1) : Tail(q)[k] = q[k + 1]
BY SeqAppend, SeqTail, SeqShape, SeqEmpty

\* xhci_command on a ring with room.
LEMMA CommandInv == ASSUME RingsInv, RingCommand PROVE RingsInv'
<1> DEFINE q == Len(queued)
           p == Len(posted)
           t == [trbs EXCEPT ![enqueue] = [c |-> cycle, id |-> count + 1]]
<1> USE RingSizes
<1>1. /\ RingTypes /\ q \in Nat /\ p \in Nat /\ q + p <= RingBacklog /\ count + 1 \in 1..RingCommands
      /\ count \in Nat /\ enqueue \in Nat /\ enqueue < Link /\ cycle \in 0..1
  BY SeqShape, RingsAssumption DEF RingsInv, RingTypes, RingCommand
<1>2. /\ queued' \in Seq(Nat) /\ Len(queued') = q + 1
      /\ \A k \in 1..q : queued'[k] = queued[k]
      /\ queued'[q + 1] = count + 1
      /\ posted' = posted
  BY <1>1, QueueSteps DEF RingTypes, RingCommand
<1>3. /\ t \in [0..Link -> Trb] /\ t[enqueue] = [c |-> cycle, id |-> count + 1]
      /\ \A i \in 0..Link : i # enqueue => t[i] = trbs[i]
  <2>1. [c |-> cycle, id |-> count + 1] \in Trb /\ enqueue \in 0..Link
    BY <1>1 DEF Trb
  <2> QED BY <1>1, <2>1 DEF RingTypes
<1>4. /\ trbs' = Advance(t).trbs /\ enqueue' = Advance(t).enqueue /\ cycle' = Advance(t).cycle
      /\ count' = count + 1 /\ waitFor' = [id |-> count + 1, at |-> enqueue]
      /\ eventRing' = eventRing /\ eventDequeue' = eventDequeue /\ eventCycle' = eventCycle
      /\ xhc' = xhc /\ taken' = taken
  BY DEF RingCommand
<1>a. /\ count' \in 0..RingCommands /\ waitFor' \in [id : Nat, at : Nat]
      /\ eventRing' \in [0..(EventTrbs - 1) -> EventTrb]
      /\ eventDequeue' \in 0..(EventTrbs - 1) /\ eventCycle' \in 0..1
      /\ xhc' \in [dequeue : 0..Link, cycle : 0..1, eventEnqueue : 0..(EventTrbs - 1),
                   eventCycle : 0..1, erdp : 0..(EventTrbs - 1)]
      /\ posted' \in Seq(Nat) /\ taken' \in [asked : Nat, got : Nat]
  BY <1>1, <1>2, <1>4, RingsAssumption DEF RingTypes
<1>b. Outstanding'
  <2>1. \A k \in 1..(q + 1) : queued'[k] = (count + 1) - (q + 1) + k
    <3> TAKE k \in 1..(q + 1)
    <3>1. CASE k \in 1..q
      BY <1>1, <1>2, <3>1 DEF RingsInv, Outstanding
    <3>2. CASE k = q + 1
      BY <1>1, <1>2, <3>2
    <3> QED BY <1>1, <3>1, <3>2
  <2>2. \A k \in 1..p : posted[k] = (count + 1) - (q + 1) - p + k
    BY <1>1 DEF RingsInv, Outstanding
  <2>3. (q + 1) + p <= RingBacklog + 1 /\ (q + 1) + p <= count + 1
    BY <1>1 DEF RingsInv, Outstanding
  <2> QED BY <1>2, <1>4, <2>1, <2>2, <2>3 DEF Outstanding
<1>5. CASE enqueue + 1 # Link
  <2>1. trbs' = t /\ enqueue' = enqueue + 1 /\ cycle' = cycle
    BY <1>4, <1>5 DEF Advance
  <2>2. RingTypes'
    <3>1. enqueue + 1 \in 0..(Link - 1)
      BY <1>1, <1>5
    <3> QED BY <1>1, <1>2, <1>3, <1>a, <2>1, <3>1, ZenonT(60) DEF RingTypes
  <2>4. XhcFollow' = XhcFollow
    BY <1>1, <1>3, <1>4, <2>1 DEF XhcFollow
  <2>5. CommandRing'
    <3>1. \A i \in 0..(Link - 1) : t[i].c = IF i < enqueue + 1 THEN cycle ELSE Flip(cycle)
      BY <1>1, <1>3 DEF RingsInv, CommandRing
    <3>2. \A d \in 1..(q + 1) : t[Back(enqueue + 1, d, Link)].id = (count + 1) - d + 1
      <4> TAKE d \in 1..(q + 1)
      <4>1. CASE d = 1
        BY <1>1, <1>3, <4>1 DEF Back
      <4>2. CASE d # 1
        <5>1. /\ d - 1 \in 1..q /\ Back(enqueue + 1, d, Link) = Back(enqueue, d - 1, Link)
              /\ Back(enqueue, d - 1, Link) \in 0..Link /\ Back(enqueue, d - 1, Link) # enqueue
          BY <1>1, <4>2 DEF Back
        <5>2. trbs[Back(enqueue, d - 1, Link)].id = count - (d - 1) + 1
          BY <5>1 DEF RingsInv, CommandRing
        <5> QED BY <1>1, <1>3, <5>1, <5>2
      <4> QED BY <4>1, <4>2
    <3>3. /\ XhcFollow.at = Back(enqueue + 1, q + 1, Link)
          /\ XhcFollow.c = BackCycle(enqueue + 1, q + 1, cycle)
      BY <1>1 DEF RingsInv, CommandRing, Back, BackCycle
    <3>4. t[Link] = trbs[Link]
      BY <1>1, <1>3
    <3>5. /\ xhc.dequeue = Link => t[Link].c = xhc.cycle
          /\ q + 1 > enqueue + 1 => t[Link].c = Flip(cycle)
      BY <1>1, <3>4 DEF RingsInv, CommandRing
    <3> QED BY <1>2, <1>4, <2>1, <2>4, <3>1, <3>2, <3>3, <3>5, ZenonT(60) DEF CommandRing
  <2>6. EventRing'
    <3>1. \A d \in 1..p : Back(enqueue + 1, (q + 1) + d, Link) = Back(enqueue, q + d, Link)
      BY <1>1 DEF Back
    <3>2. \A d \in 1..p : (count + 1) - (q + 1) - d + 1 = count - q - d + 1
      BY <1>1
    <3> QED BY <1>2, <1>4, <2>1, <3>1, <3>2 DEF RingsInv, EventRing
  <2>7. Waiting'
    BY <1>1, <1>4, <2>1 DEF Waiting, Back
  <2> QED BY <1>4, <1>b, <2>2, <2>5, <2>6, <2>7 DEF RingsInv, AnswerIsOwn
<1>6. CASE enqueue + 1 = Link
  <2> DEFINE u == [t EXCEPT ![Link].c = cycle]
  <2>1. trbs' = u /\ enqueue' = 0 /\ cycle' = Flip(cycle)
    BY <1>4, <1>6 DEF Advance
  <2>2. /\ u \in [0..Link -> Trb] /\ u[Link].c = cycle
        /\ \A i \in 0..Link : i # Link => u[i] = t[i]
    BY <1>1, <1>3 DEF Trb
  <2> HIDE DEF u
  <2>3. RingTypes'
    <3>1. Flip(cycle) \in 0..1 /\ 0 \in 0..(Link - 1)
      BY <1>1 DEF Flip
    <3> QED BY <1>2, <1>a, <2>1, <2>2, <3>1 DEF RingTypes
  <2>5. xhc.dequeue # Link
    BY <1>1, <1>6 DEF RingsInv, CommandRing, XhcFollow, Back
  <2>6. XhcFollow' = XhcFollow
    BY <1>4, <2>5 DEF XhcFollow
  <2>7. CommandRing'
    <3>1. \A i \in 0..(Link - 1) : u[i].c = IF i < 0 THEN Flip(cycle) ELSE Flip(Flip(cycle))
      BY <1>1, <1>3, <1>6, <2>2 DEF RingsInv, CommandRing, Flip
    <3>2. \A d \in 1..(q + 1) : u[Back(0, d, Link)].id = (count + 1) - d + 1
      <4> TAKE d \in 1..(q + 1)
      <4>1. CASE d = 1
        BY <1>1, <1>3, <1>6, <2>2, <4>1 DEF Back
      <4>2. CASE d # 1
        <5>1. /\ d - 1 \in 1..q /\ Back(0, d, Link) = Back(enqueue, d - 1, Link)
              /\ Back(enqueue, d - 1, Link) \in 0..(Link - 1)
              /\ Back(enqueue, d - 1, Link) # enqueue
          BY <1>1, <1>6, <4>2 DEF Back
        <5>2. trbs[Back(enqueue, d - 1, Link)].id = count - (d - 1) + 1
          BY <5>1 DEF RingsInv, CommandRing
        <5> QED BY <1>1, <1>3, <2>2, <5>1, <5>2
      <4> QED BY <4>1, <4>2
    <3>3. /\ XhcFollow.at = Back(0, q + 1, Link)
          /\ XhcFollow.c = BackCycle(0, q + 1, Flip(cycle))
      <4>1. enqueue >= q /\ ~(0 >= q + 1)
        BY <1>1, <1>6
      <4>2. XhcFollow.at = enqueue - q /\ XhcFollow.c = cycle
        BY <1>1, <4>1 DEF RingsInv, CommandRing, Back, BackCycle
      <4>3. Flip(Flip(cycle)) = cycle
        BY <1>1 DEF Flip
      <4> QED BY <1>1, <1>6, <4>1, <4>2, <4>3 DEF Back, BackCycle
    <3>4. u[Link].c = Flip(Flip(cycle))
      BY <1>1, <2>2 DEF Flip
    <3> QED BY <1>2, <1>4, <2>1, <2>5, <2>6, <3>1, <3>2, <3>3, <3>4, ZenonT(60) DEF CommandRing
  <2>8. EventRing'
    <3>1. \A d \in 1..p : Back(0, (q + 1) + d, Link) = Back(enqueue, q + d, Link)
      BY <1>1, <1>6 DEF Back
    <3>2. \A d \in 1..p : (count + 1) - (q + 1) - d + 1 = count - q - d + 1
      BY <1>1
    <3> QED BY <1>2, <1>4, <2>1, <3>1, <3>2 DEF RingsInv, EventRing
  <2>9. Waiting'
    BY <1>1, <1>4, <1>6, <2>1 DEF Waiting, Back
  <2> QED BY <1>4, <1>b, <2>3, <2>7, <2>8, <2>9 DEF RingsInv, AnswerIsOwn
<1> QED BY <1>5, <1>6


\* The controller sees a command exactly when one is queued.
LEMMA SeesQueued ==
  ASSUME RingsInv
  PROVE  /\ XhcSees <=> queued # <<>>
         /\ queued # <<>> => trbs[XhcFollow.at].id = queued[1]
<1> DEFINE q == Len(queued)
           at == Back(enqueue, q, Link)
<1> USE RingSizes
<1>1. /\ q \in 0..(Link - 1) /\ enqueue \in 0..(Link - 1) /\ cycle \in 0..1 /\ count \in Nat
      /\ queued # <<>> <=> q > 0
  BY SeqShape, SeqEmpty, RingsAssumption DEF RingsInv, RingTypes, Outstanding
<1>2. at \in 0..(Link - 1) /\ at # Link
  BY <1>1 DEF Back
<1>3. trbs[at].c = IF at < enqueue THEN cycle ELSE Flip(cycle)
  BY <1>2 DEF RingsInv, CommandRing
<1>4. XhcFollow.at = at /\ XhcFollow.c = BackCycle(enqueue, q, cycle)
  BY DEF RingsInv, CommandRing
<1>5. trbs[at].c = BackCycle(enqueue, q, cycle) <=> q > 0
  BY <1>1, <1>3 DEF Back, BackCycle, Flip
<1>6. XhcSees <=> q > 0
  BY <1>2, <1>4, <1>5 DEF XhcSees
<1>7. q > 0 => trbs[at].id = count - q + 1 /\ queued[1] = count - q + 1
  BY <1>1 DEF RingsInv, CommandRing, Outstanding
<1> QED BY <1>1, <1>4, <1>6, <1>7

\* The driver sees an event exactly when one was posted and not taken.
LEMMA ReadyPosted ==
  ASSUME RingsInv
  PROVE  /\ EventReady <=> posted # <<>>
         /\ posted # <<>> => eventRing[eventDequeue].id = posted[1]
<1> DEFINE p == Len(posted)
           e == xhc.eventEnqueue
           at == Back(e, p, EventTrbs)
<1> USE RingSizes
<1>1. /\ p \in 0..(EventTrbs - 1) /\ e \in 0..(EventTrbs - 1) /\ xhc.eventCycle \in 0..1
      /\ count \in Nat /\ Len(queued) \in Nat
      /\ posted # <<>> <=> p > 0
  BY SeqShape, SeqEmpty, RingsAssumption DEF RingsInv, RingTypes, EventRing
<1>2. at \in 0..(EventTrbs - 1)
  BY <1>1 DEF Back
<1>3. eventRing[at].c = IF at < e THEN xhc.eventCycle ELSE Flip(xhc.eventCycle)
  BY <1>2 DEF RingsInv, EventRing
<1>4. eventDequeue = at /\ eventCycle = BackCycle(e, p, xhc.eventCycle)
  BY DEF RingsInv, EventRing
<1>5. eventRing[at].c = BackCycle(e, p, xhc.eventCycle) <=> p > 0
  BY <1>1, <1>3 DEF Back, BackCycle, Flip
<1>6. ASSUME p > 0
      PROVE  /\ eventRing[at].id = count - Len(queued) - p + 1
             /\ posted[1] = count - Len(queued) - p + 1
  <2>1. p \in 1..p /\ 1 \in 1..p
    BY <1>1, <1>6
  <2> QED BY <1>1, <2>1, ZenonT(60) DEF RingsInv, EventRing, Outstanding
<1> QED BY <1>1, <1>4, <1>5, <1>6 DEF EventReady

\* A poll of xhci_wait_command that finds an event.
LEMMA PollInv == ASSUME RingsInv, RingPoll PROVE RingsInv'
<1> DEFINE q == Len(queued)
           p == Len(posted)
           e == xhc.eventEnqueue
           ev == eventRing[eventDequeue]
<1> USE RingSizes
<1>1. /\ posted # <<>> /\ p \in 1..(EventTrbs - 1) /\ e \in 0..(EventTrbs - 1)
      /\ xhc.eventCycle \in 0..1 /\ count \in Nat /\ q \in Nat
      /\ q + p <= RingBacklog + 1 /\ enqueue \in 0..(Link - 1)
  <2>1. posted # <<>>
    BY ReadyPosted DEF RingPoll
  <2>2. p \in Nat /\ q \in Nat /\ p > 0
    BY <2>1, SeqShape, SeqEmpty DEF RingsInv, RingTypes
  <2>3. p < EventTrbs /\ e \in 0..(EventTrbs - 1) /\ xhc.eventCycle \in 0..1
    BY DEF RingsInv, EventRing, RingTypes
  <2>4. count \in Nat /\ q + p <= RingBacklog + 1 /\ enqueue \in 0..(Link - 1)
    BY RingsAssumption DEF RingsInv, RingTypes, Outstanding
  <2> QED BY <2>1, <2>2, <2>3, <2>4
<1>2. /\ posted' = Tail(posted) /\ posted' \in Seq(Nat) /\ Len(posted') = p - 1
      /\ \A k \in 1..(p - 1) : posted'[k] = posted[k + 1]
  BY <1>1, QueueSteps DEF RingPoll, RingsInv, RingTypes
<1>3. /\ trbs' = trbs /\ enqueue' = enqueue /\ cycle' = cycle /\ eventRing' = eventRing
      /\ queued' = queued /\ count' = count
      /\ eventDequeue' = NextDequeue.at /\ eventCycle' = NextDequeue.c
      /\ xhc' = [xhc EXCEPT !.erdp = NextDequeue.at]
  BY <1>1 DEF RingPoll
<1>4. /\ NextDequeue.at = Back(e, p - 1, EventTrbs)
      /\ NextDequeue.c = BackCycle(e, p - 1, xhc.eventCycle)
  <2>1. /\ eventDequeue = Back(e, p, EventTrbs) /\ eventDequeue \in 0..(EventTrbs - 1)
        /\ eventCycle = BackCycle(e, p, xhc.eventCycle)
    BY DEF RingsInv, EventRing, RingTypes
  <2>2. (eventDequeue + 1) % EventTrbs
          = IF eventDequeue + 1 = EventTrbs THEN 0 ELSE eventDequeue + 1
    BY <2>1, NextEntry
  <2>3. /\ NextDequeue.at = IF eventDequeue + 1 = EventTrbs THEN 0 ELSE eventDequeue + 1
        /\ NextDequeue.c = IF eventDequeue + 1 = EventTrbs THEN Flip(eventCycle) ELSE eventCycle
    BY <2>2 DEF NextDequeue
  <2>4. /\ Back(e, p - 1, EventTrbs) = After(eventDequeue, EventTrbs)
        /\ BackCycle(e, p - 1, xhc.eventCycle) = AfterCycle(eventDequeue, EventTrbs, eventCycle)
    BY <1>1, <2>1, CatchUp, ZenonT(60)
  <2> QED BY <2>3, <2>4 DEF After, AfterCycle
<1>5. /\ NextDequeue.at \in 0..(EventTrbs - 1) /\ NextDequeue.c \in 0..1
  BY <1>1, <1>4 DEF Back, BackCycle, Flip
<1>6. /\ xhc' \in [dequeue : 0..Link, cycle : 0..1, eventEnqueue : 0..(EventTrbs - 1),
                   eventCycle : 0..1, erdp : 0..(EventTrbs - 1)]
      /\ xhc'.dequeue = xhc.dequeue /\ xhc'.cycle = xhc.cycle /\ xhc'.eventEnqueue = e
      /\ xhc'.eventCycle = xhc.eventCycle /\ xhc'.erdp = eventDequeue'
  BY <1>3, <1>5, ZenonT(60) DEF RingsInv, RingTypes
<1>7. ev.id = count - q - p + 1 /\ ev.at = Back(enqueue, q + p, Link) /\ ev.id \in Nat
  <2>1. p \in 1..p /\ eventDequeue = Back(e, p, EventTrbs)
    BY <1>1 DEF RingsInv, EventRing
  <2>2. ev \in EventTrb
    BY DEF RingsInv, RingTypes
  <2> QED BY <2>1, <2>2 DEF RingsInv, EventRing, EventTrb
<1>8. IsAnswer(ev) => waitFor.id = ev.id
  <2>1. waitFor.id = count /\ waitFor.at = Back(enqueue, 1, Link)
    BY DEF RingsInv, Waiting, RingPoll
  <2>2. Back(enqueue, q + p, Link) = Back(enqueue, 1, Link) => q + p = 1
    BY <1>1 DEF Back
  <2> QED BY <1>1, <1>7, <2>1, <2>2 DEF IsAnswer
<1>9. /\ taken' \in [asked : Nat, got : Nat] /\ taken'.asked = taken'.got
      /\ waitFor' \in [id : Nat, at : Nat]
      /\ waitFor' = waitFor \/ waitFor'.id = 0
  <2>1. CASE IsAnswer(ev)
    <3>1. /\ taken' = [asked |-> waitFor.id, got |-> ev.id]
          /\ waitFor' = [id |-> 0, at |-> 0]
      BY <2>1 DEF RingPoll
    <3>2. waitFor.id \in Nat
      BY DEF RingsInv, RingTypes
    <3> QED BY <1>7, <1>8, <2>1, <3>1, <3>2
  <2>2. CASE ~IsAnswer(ev)
    BY <2>2 DEF RingPoll, RingsInv, RingTypes, AnswerIsOwn
  <2> QED BY <2>1, <2>2
<1>10. RingTypes'
  BY <1>2, <1>3, <1>5, <1>6, <1>9, ZenonT(60) DEF RingsInv, RingTypes
<1>11. Outstanding'
  <2>1. \A k \in 1..(p - 1) : posted'[k] = count - q - (p - 1) + k
    BY <1>1, <1>2 DEF RingsInv, Outstanding
  <2>2. q + (p - 1) <= RingBacklog + 1 /\ q + (p - 1) <= count
    BY <1>1 DEF RingsInv, Outstanding
  <2> QED BY <1>2, <1>3, <2>1, <2>2 DEF RingsInv, Outstanding
<1>12. CommandRing'
  <2>1. XhcFollow' = XhcFollow
    BY <1>3, <1>6 DEF XhcFollow
  <2> QED BY <1>3, <1>6, <2>1 DEF RingsInv, CommandRing
<1>13. EventRing'
  <2>1. p - 1 < EventTrbs /\ \A d \in 1..(p - 1) : d \in 1..p
    BY <1>1
  <2>2. \A d \in 1..(p - 1) :
          /\ eventRing[Back(e, d, EventTrbs)].id = count - q - d + 1
          /\ eventRing[Back(e, d, EventTrbs)].at = Back(enqueue, q + d, Link)
    BY <2>1 DEF RingsInv, EventRing
  <2>3. \A j \in 0..(EventTrbs - 1) :
          eventRing[j].c = IF j < e THEN xhc.eventCycle ELSE Flip(xhc.eventCycle)
    BY DEF RingsInv, EventRing
  <2> QED BY <1>2, <1>3, <1>4, <1>6, <2>1, <2>2, <2>3 DEF EventRing
<1>14. Waiting'
  BY <1>3, <1>9 DEF RingsInv, Waiting
<1> QED BY <1>9, <1>10, <1>11, <1>12, <1>13, <1>14 DEF RingsInv, AnswerIsOwn

\* xhci_wait_command gives up.
LEMMA TimeoutInv == ASSUME RingsInv, RingTimeout PROVE RingsInv'
<1>1. /\ waitFor' = [id |-> 0, at |-> 0]
      /\ UNCHANGED <<trbs, enqueue, cycle, eventRing, eventDequeue, eventCycle, xhc, queued,
                     posted, count, taken>>
  BY DEF RingTimeout
<1>2. RingTypes' /\ Waiting'
  BY <1>1 DEF RingsInv, RingTypes, Waiting
<1>3. XhcFollow' = XhcFollow
  BY <1>1 DEF XhcFollow
<1>4. Outstanding' /\ CommandRing' /\ EventRing' /\ AnswerIsOwn'
  BY <1>1, <1>3 DEF RingsInv, Outstanding, CommandRing, EventRing, AnswerIsOwn
<1> QED BY <1>2, <1>4 DEF RingsInv


\* The controller executes a command and posts its completion.
LEMMA ExecuteInv == ASSUME RingsInv, XhcExecute PROVE RingsInv'
<1> DEFINE q == Len(queued)
           p == Len(posted)
           at == Back(enqueue, q, Link)
           c == BackCycle(enqueue, q, cycle)
           e == xhc.eventEnqueue
           e1 == After(e, EventTrbs)
           c1 == AfterCycle(e, EventTrbs, xhc.eventCycle)
           entry == [c |-> xhc.eventCycle, id |-> count - q + 1, at |-> at]
<1> USE RingSizes
<1>1. /\ queued # <<>> /\ q \in 1..(Link - 1) /\ p \in Nat /\ p < EventTrbs
      /\ q + p <= RingBacklog + 1 /\ q + p <= count
      /\ count \in Nat /\ enqueue \in 0..(Link - 1) /\ cycle \in 0..1
      /\ e \in 0..(EventTrbs - 1) /\ xhc.eventCycle \in 0..1
  <2>1. queued # <<>>
    BY SeesQueued DEF XhcExecute
  <2>2. p \in Nat /\ q \in Nat /\ q > 0
    BY <2>1, SeqShape, SeqEmpty DEF RingsInv, RingTypes
  <2>3. p < EventTrbs /\ e \in 0..(EventTrbs - 1) /\ xhc.eventCycle \in 0..1
    BY DEF RingsInv, EventRing, RingTypes
  <2>4. /\ count \in Nat /\ enqueue \in 0..(Link - 1) /\ cycle \in 0..1
        /\ q + p <= RingBacklog + 1 /\ q + p <= count
    BY RingsAssumption DEF RingsInv, RingTypes, Outstanding
  <2> QED BY <2>1, <2>2, <2>3, <2>4
<1>2. /\ XhcFollow.at = at /\ XhcFollow.c = c /\ at \in 0..(Link - 1) /\ c \in 0..1
      /\ trbs[at].id = count - q + 1
  <2>1. XhcFollow.at = at /\ XhcFollow.c = c /\ q \in 1..q
    BY <1>1 DEF RingsInv, CommandRing
  <2>2. at \in 0..(Link - 1) /\ c \in 0..1
    BY <1>1 DEF Back, BackCycle, Flip
  <2> QED BY <2>1, <2>2 DEF RingsInv, CommandRing
<1>3. /\ queued' = Tail(queued) /\ queued' \in Seq(Nat) /\ Len(queued') = q - 1
      /\ \A k \in 1..(q - 1) : queued'[k] = queued[k + 1]
  BY <1>1, QueueSteps DEF XhcExecute, RingsInv, RingTypes
<1>4. /\ posted' \in Seq(Nat) /\ Len(posted') = p + 1
      /\ \A k \in 1..p : posted'[k] = posted[k]
      /\ posted'[p + 1] = count - q + 1
  <2>1. posted' = Append(posted, count - q + 1)
    BY <1>2 DEF XhcExecute
  <2>2. count - q + 1 \in Nat
    BY <1>1
  <2> QED BY <2>1, <2>2, QueueSteps DEF RingsInv, RingTypes
<1>5. /\ trbs' = trbs /\ enqueue' = enqueue /\ cycle' = cycle /\ count' = count
      /\ eventDequeue' = eventDequeue /\ eventCycle' = eventCycle
      /\ waitFor' = waitFor /\ taken' = taken
      /\ eventRing' = [eventRing EXCEPT ![e] = entry]
      /\ xhc' = [xhc EXCEPT !.dequeue = at + 1, !.cycle = c,
                            !.eventEnqueue = e1, !.eventCycle = c1]
      /\ (e + 1) % EventTrbs # xhc.erdp
  BY <1>2 DEF XhcExecute, After, AfterCycle
<1>6. at + 1 \in 0..Link /\ e1 \in 0..(EventTrbs - 1) /\ c1 \in 0..1
  <2>1. EventTrbs \in Nat /\ 0 \in 0..(EventTrbs - 1)
    OBVIOUS
  <2>2. e1 \in 0..(EventTrbs - 1) /\ c1 \in 0..1
    BY <1>1, <2>1, MoveOn, ZenonT(60)
  <2> QED BY <1>2, <2>2
<1>7. /\ xhc' \in [dequeue : 0..Link, cycle : 0..1, eventEnqueue : 0..(EventTrbs - 1),
                   eventCycle : 0..1, erdp : 0..(EventTrbs - 1)]
      /\ xhc'.dequeue = at + 1 /\ xhc'.cycle = c /\ xhc'.eventEnqueue = e1
      /\ xhc'.eventCycle = c1 /\ xhc'.erdp = xhc.erdp
  <2> DEFINE x1 == [xhc EXCEPT !.dequeue = at + 1]
             x2 == [x1 EXCEPT !.cycle = c]
             x3 == [x2 EXCEPT !.eventEnqueue = e1]
             x4 == [x3 EXCEPT !.eventCycle = c1]
             Xhc == [dequeue : 0..Link, cycle : 0..1, eventEnqueue : 0..(EventTrbs - 1),
                     eventCycle : 0..1, erdp : 0..(EventTrbs - 1)]
  <2>1. xhc \in Xhc
    BY DEF RingsInv, RingTypes
  <2> HIDE DEF at, c, e1, c1
  <2>2. x1 \in Xhc /\ x1.dequeue = at + 1 /\ x1.erdp = xhc.erdp
    BY <1>6, <2>1
  <2> HIDE DEF x1
  <2>3. x2 \in Xhc /\ x2.dequeue = at + 1 /\ x2.cycle = c /\ x2.erdp = xhc.erdp
    BY <1>2, <2>2
  <2> HIDE DEF x2
  <2>4. /\ x3 \in Xhc /\ x3.dequeue = at + 1 /\ x3.cycle = c /\ x3.eventEnqueue = e1
        /\ x3.erdp = xhc.erdp
    BY <1>6, <2>3
  <2> HIDE DEF x3
  <2>5. /\ x4 \in Xhc /\ x4.dequeue = at + 1 /\ x4.cycle = c /\ x4.eventEnqueue = e1
        /\ x4.eventCycle = c1 /\ x4.erdp = xhc.erdp
    BY <1>6, <2>4
  <2>6. xhc' = x4
    BY <1>5 DEF x1, x2, x3
  <2> QED BY <2>5, <2>6
<1>8. /\ eventRing' \in [0..(EventTrbs - 1) -> EventTrb] /\ eventRing'[e] = entry
      /\ \A j \in 0..(EventTrbs - 1) : j # e => eventRing'[j] = eventRing[j]
  <2>1. entry \in EventTrb
    BY <1>1, <1>2 DEF EventTrb
  <2> QED BY <1>1, <1>5, <2>1 DEF RingsInv, RingTypes
<1> HIDE DEF entry
<1>9. RingTypes'
  BY <1>3, <1>4, <1>5, <1>7, <1>8, ZenonT(60) DEF RingsInv, RingTypes
<1>10. Outstanding'
  <2>1. \A k \in 1..(q - 1) : queued'[k] = count - (q - 1) + k
    BY <1>1, <1>3 DEF RingsInv, Outstanding
  <2>2. \A k \in 1..(p + 1) : posted'[k] = count - (q - 1) - (p + 1) + k
    <3> TAKE k \in 1..(p + 1)
    <3>1. CASE k \in 1..p
      BY <1>1, <1>4, <3>1 DEF RingsInv, Outstanding
    <3>2. CASE k = p + 1
      BY <1>1, <1>4, <3>2
    <3> QED BY <1>1, <3>1, <3>2
  <2>3. (q - 1) + (p + 1) <= RingBacklog + 1 /\ (q - 1) + (p + 1) <= count
    BY <1>1
  <2> QED BY <1>3, <1>4, <1>5, <2>1, <2>2, <2>3 DEF Outstanding
<1>11. CommandRing'
  <2>1. /\ \A i \in 0..(Link - 1) : trbs[i].c = IF i < enqueue THEN cycle ELSE Flip(cycle)
        /\ \A d \in 1..(q - 1) : trbs[Back(enqueue, d, Link)].id = count - d + 1
        /\ q > enqueue => trbs[Link].c = Flip(cycle)
    <3>1. \A d \in 1..(q - 1) : d \in 1..q
      BY <1>1
    <3> QED BY <3>1 DEF RingsInv, CommandRing
  <2>2. at + 1 = Link => q > enqueue /\ c = Flip(cycle)
    BY <1>1 DEF Back, BackCycle
  <2>3. /\ XhcFollow'.at = Back(enqueue, q - 1, Link)
        /\ XhcFollow'.c = BackCycle(enqueue, q - 1, cycle)
    <3>1. CASE at + 1 = Link
      <4>1. XhcFollow' = [at |-> 0, c |-> Flip(c)]
        BY <1>5, <1>7, <2>1, <2>2, <3>1 DEF XhcFollow
      <4>2. Flip(Flip(cycle)) = cycle
        BY <1>1 DEF Flip
      <4>3. enqueue = q - 1
        BY <1>1, <3>1 DEF Back
      <4> QED BY <1>1, <2>2, <3>1, <4>1, <4>2, <4>3 DEF Back, BackCycle
    <3>2. CASE at + 1 # Link
      <4>1. XhcFollow' = [at |-> at + 1, c |-> c]
        BY <1>5, <1>7, <3>2 DEF XhcFollow
      <4>2. /\ Back(enqueue, q - 1, Link) = After(at, Link)
            /\ BackCycle(enqueue, q - 1, cycle) = AfterCycle(at, Link, c)
        <5>1. Link \in Nat
          OBVIOUS
        <5> QED BY <1>1, <5>1, CatchUp, ZenonT(60)
      <4> QED BY <3>2, <4>1, <4>2 DEF After, AfterCycle
    <3> QED BY <3>1, <3>2
  <2>4. /\ at + 1 = Link => trbs[Link].c = c
        /\ q - 1 > enqueue => trbs[Link].c = Flip(cycle)
    BY <1>1, <2>1, <2>2
  <2> QED BY <1>3, <1>5, <1>7, <2>1, <2>3, <2>4 DEF CommandRing
<1>12. EventRing'
  <2>1. p + 1 < EventTrbs
    <3>1. (e + 1) % EventTrbs = After(e, EventTrbs)
      BY <1>1, NextEntry DEF After
    <3>2. xhc.erdp = Back(e, p, EventTrbs)
      BY DEF RingsInv, EventRing
    <3>3. p = EventTrbs - 1 => Back(e, p, EventTrbs) = After(e, EventTrbs)
      BY <1>1 DEF Back, After
    <3> QED BY <1>1, <1>5, <3>1, <3>2, <3>3
  <2>2. \A j \in 0..(EventTrbs - 1) : eventRing'[j].c = IF j < e1 THEN c1 ELSE Flip(c1)
    <3> TAKE j \in 0..(EventTrbs - 1)
    <3>1. eventRing[j].c = IF j < e THEN xhc.eventCycle ELSE Flip(xhc.eventCycle)
      BY DEF RingsInv, EventRing
    <3>2. Flip(Flip(xhc.eventCycle)) = xhc.eventCycle
      BY <1>1 DEF Flip
    <3>3. CASE j = e
      BY <1>1, <1>8, <3>2, <3>3 DEF entry, After, AfterCycle
    <3>4. CASE j # e
      <4>1. eventRing'[j] = eventRing[j]
        BY <1>8, <3>4
      <4>2. CASE e + 1 = EventTrbs
        <5>1. e1 = 0 /\ c1 = Flip(xhc.eventCycle) /\ j < e /\ ~(j < 0)
          BY <1>1, <3>4, <4>2 DEF After, AfterCycle
        <5> QED BY <3>1, <3>2, <4>1, <5>1
      <4>3. CASE e + 1 # EventTrbs
        <5>1. e1 = e + 1 /\ c1 = xhc.eventCycle /\ (j < e <=> j < e + 1)
          BY <1>1, <3>4, <4>3 DEF After, AfterCycle
        <5> QED BY <3>1, <4>1, <5>1
      <4> QED BY <4>2, <4>3
    <3> QED BY <3>3, <3>4
  <2>3. /\ Back(e1, p + 1, EventTrbs) = Back(e, p, EventTrbs)
        /\ BackCycle(e1, p + 1, c1) = BackCycle(e, p, xhc.eventCycle)
    <3>1. EventTrbs \in Nat /\ p \in 0..(EventTrbs - 1)
      BY <1>1
    <3> QED BY <1>1, <3>1, MoveOn, ZenonT(60)
  <2>4. ASSUME NEW d \in 1..(p + 1)
        PROVE  /\ eventRing'[Back(e1, d, EventTrbs)].id = count - (q - 1) - d + 1
               /\ eventRing'[Back(e1, d, EventTrbs)].at = Back(enqueue, (q - 1) + d, Link)
    <3>1. CASE d = 1
      <4>1. Back(e1, 1, EventTrbs) = e /\ (q - 1) + 1 = q /\ count - (q - 1) - 1 + 1 = count - q + 1
        BY <1>1 DEF Back, After
      <4> QED BY <1>8, <3>1, <4>1 DEF entry
    <3>2. CASE d # 1
      <4>1. /\ d - 1 \in 1..p /\ Back(e1, d, EventTrbs) = Back(e, d - 1, EventTrbs)
            /\ Back(e, d - 1, EventTrbs) \in 0..(EventTrbs - 1)
            /\ Back(e, d - 1, EventTrbs) # e
        <5>1. d - 1 \in 1..p /\ d - 1 \in 1..(EventTrbs - 1) /\ d - 1 \in 0..(EventTrbs - 1)
              /\ (d - 1) + 1 = d
          BY <1>1, <2>1, <3>2
        <5>2. Back(e1, (d - 1) + 1, EventTrbs) = Back(e, d - 1, EventTrbs)
          BY <1>1, <5>1, MoveOn, ZenonT(60)
        <5>3. /\ Back(e, d - 1, EventTrbs) \in 0..(EventTrbs - 1)
              /\ Back(e, d - 1, EventTrbs) # e
          BY <1>1, <5>1, CatchUp, ZenonT(60)
        <5> QED BY <5>1, <5>2, <5>3
      <4>2. /\ eventRing[Back(e, d - 1, EventTrbs)].id = count - q - (d - 1) + 1
            /\ eventRing[Back(e, d - 1, EventTrbs)].at = Back(enqueue, q + (d - 1), Link)
        BY <4>1 DEF RingsInv, EventRing
      <4>3. q + (d - 1) = (q - 1) + d /\ count - q - (d - 1) + 1 = count - (q - 1) - d + 1
        BY <1>1
      <4> QED BY <1>8, <4>1, <4>2, <4>3
    <3> QED BY <3>1, <3>2
  <2>5. /\ xhc.erdp = eventDequeue /\ eventDequeue = Back(e, p, EventTrbs)
        /\ eventCycle = BackCycle(e, p, xhc.eventCycle)
    BY DEF RingsInv, EventRing
  <2> QED BY <1>3, <1>4, <1>5, <1>7, <2>1, <2>2, <2>3, <2>4, <2>5 DEF EventRing
<1>13. Waiting' /\ AnswerIsOwn'
  BY <1>5 DEF RingsInv, Waiting, AnswerIsOwn
<1> QED BY <1>9, <1>10, <1>11, <1>12, <1>13 DEF RingsInv

\* Every step keeps the invariant.
LEMMA RingsNextInv == RingsInv /\ [RingsNext]_ringVars => RingsInv'
<1> SUFFICES ASSUME RingsInv, [RingsNext]_ringVars PROVE RingsInv'
  OBVIOUS
<1>1. CASE RingCommand
  BY <1>1, CommandInv
<1>2. CASE RingPoll
  BY <1>2, PollInv
<1>3. CASE RingTimeout
  BY <1>3, TimeoutInv
<1>4. CASE XhcExecute
  BY <1>4, ExecuteInv
<1>5. CASE UNCHANGED ringVars
  BY <1>5, ZenonT(60) DEF ringVars, RingsInv, RingTypes, Outstanding, CommandRing, EventRing, Waiting,
              AnswerIsOwn, XhcFollow
<1> QED BY <1>1, <1>2, <1>3, <1>4, <1>5 DEF RingsNext

\* The invariant implies the property.
LEMMA RingsInvSound == RingsInv => RingsSound
<1> SUFFICES ASSUME RingsInv PROVE RingsSound
  OBVIOUS
<1>1. RingsTypeOK
  <2>1. /\ enqueue \in 0..(Link - 1) /\ cycle \in 0..1
        /\ eventDequeue \in 0..(EventTrbs - 1) /\ eventCycle \in 0..1
        /\ xhc.dequeue \in 0..Link /\ count \in 0..RingCommands /\ waitFor.id \in Nat
        /\ waitFor.id # 0 => waitFor.id = count
    BY DEF RingsInv, RingTypes, Waiting
  <2> QED BY <2>1, RingsAssumption DEF RingsTypeOK
<1> QED BY <1>1, SeesQueued, ReadyPosted
        DEF RingsInv, RingsSound, RingIsQueue, EventsAreQueue

\* The command ring and the event ring of xhci.c are queues on every lap
\* (xhci_ring_advance, xhci_next_event), and xhci_wait_command never takes the
\* completion of a command that an earlier call gave up for that of its own.
THEOREM RingsStaySound == RingsSpec => []RingsSound
<1>1. RingsInit => RingsInv
  BY RingsInitInv
<1>2. RingsInv /\ [RingsNext]_ringVars => RingsInv'
  BY RingsNextInv
<1>3. RingsInv => RingsSound
  BY RingsInvSound
<1> QED BY <1>1, <1>2, <1>3, PTL DEF RingsSpec

-----------------------------------------------------------------------------
(* UsbHosts.                                                               *)

ChipState == [running : BOOLEAN, resetting : BOOLEAN, programmed : BOOLEAN]

\* A probe works on a controller that is not in the table and has room there.
\* From "alloc" on an xHCI controller is out of reset, and at "run" it has its
\* rings.
ProbeUnderWay ==
  probing # NoProbe =>
    /\ probing \in [host : Hosts, at : Nat]
    /\ ~InTable(probing.host)
    /\ Cardinality(SameKind(probing.host)) < HostLimit
    /\ HostKind[probing.host] = "xhci" =>
         /\ probing.at >= 6 => ~chip[probing.host].resetting
         /\ probing.at >= 8 => chip[probing.host].programmed

HostsInv ==
  /\ hosts \in Seq(Hosts)
  /\ windows \subseteq Hosts /\ IsFiniteSet(windows)
  /\ chip \in [Hosts -> ChipState]
  /\ ProbeUnderWay
  /\ HostsSound

\* No probe has begun.
LEMMA HostsInitInv == HostsInit => HostsInv
<1> SUFFICES ASSUME HostsInit PROVE HostsInv
  OBVIOUS
<1> USE DEF HostsInit
<1>1. hosts \in Seq(Hosts) /\ Len(hosts) = 0 /\ IsFiniteSet(windows) /\ windows \subseteq Hosts
  BY FS_EmptySet
<1>2. chip \in [Hosts -> ChipState]
  <2>1. ASSUME NEW r \in BOOLEAN
        PROVE  [running |-> r, resetting |-> FALSE, programmed |-> FALSE] \in ChipState
    BY DEF ChipState
  <2> QED BY <2>1
<1>3. HostsSound
  <2>1. \A h \in Hosts : WindowsOf(h) = {} /\ SameKind(h) = {}
    BY <1>1 DEF WindowsOf, SameKind
  <2>2. Cardinality({}) = 0
    BY FS_EmptySet
  <2>3. 0 <= HostWindows /\ 0 <= HostLimit /\ probing = NoProbe
    BY HostsAssumption
  <2>5. HostsTypeOK
    BY <2>1, <2>2, <2>3, ZenonT(60) DEF HostsTypeOK
  <2>4. \A i \in 1..Len(hosts) : FALSE
    BY <1>1
  <2> QED BY <2>4, <2>5 DEF HostsSound, PresentIsReady, HostsOnce
<1> QED BY <1>1, <1>2, <1>3 DEF HostsInv, ProbeUnderWay

\* What the step at which a probe is says about how far it is.
LEMMA StepPlaces ==
  ASSUME HostsInv, probing # NoProbe
  PROVE  LET k == HostKind[probing.host]
             n == probing.at
         IN /\ probing.host \in Hosts
            /\ n \in 1..Len(Steps[k])
            /\ k \in {"uhci", "ehci", "xhci"}
            /\ Len(Steps.uhci) = 5 /\ Len(Steps.ehci) = 6 /\ Len(Steps.xhci) = 8
            /\ k = "xhci" => /\ n = 1 <=> StepAt = "map"
                             /\ n = 2 <=> StepAt = "own"
                             /\ n = 3 <=> StepAt = "halt"
                             /\ n = 4 <=> StepAt = "reset"
                             /\ n = 5 <=> StepAt = "ready"
                             /\ n = 6 <=> StepAt = "alloc"
                             /\ n = 7 <=> StepAt = "program"
                             /\ n = 8 <=> StepAt = "run"
            /\ n = Len(Steps[k]) <=> StepAt = "run"
            /\ k = "xhci" => StepAt # "stop"
<1> DEFINE k == HostKind[probing.host]
           n == probing.at
<1>1. probing.host \in Hosts /\ n \in 1..Len(Steps[k]) /\ k \in {"uhci", "ehci", "xhci"}
  BY HostsAssumption DEF HostsInv, ProbeUnderWay, HostsSound, HostsTypeOK
<1>2. Len(Steps.uhci) = 5 /\ Len(Steps.ehci) = 6 /\ Len(Steps.xhci) = 8
  BY DEF Steps
<1>3. CASE k = "uhci"
  <2>1. n \in 1..5 /\ StepAt = Steps.uhci[n] /\ Len(Steps[k]) = 5
    BY <1>1, <1>2, <1>3, ZenonT(60) DEF StepAt
  <2> QED BY <1>1, <1>2, <1>3, <2>1 DEF Steps
<1>4. CASE k = "ehci"
  <2>1. n \in 1..6 /\ StepAt = Steps.ehci[n] /\ Len(Steps[k]) = 6
    BY <1>1, <1>2, <1>4, ZenonT(60) DEF StepAt
  <2> QED BY <1>1, <1>2, <1>4, <2>1 DEF Steps
<1>5. CASE k = "xhci"
  <2>1. n \in 1..8 /\ StepAt = Steps.xhci[n] /\ Len(Steps[k]) = 8
    BY <1>1, <1>2, <1>5, ZenonT(60) DEF StepAt
  <2> QED BY <1>1, <1>2, <1>5, <2>1 DEF Steps
<1> QED BY <1>1, <1>3, <1>4, <1>5

\* The probe goes on or fails, and nothing but the chip's registers changes:
\* what is left to show is about the chip.
LEMMA ProbeStep ==
  ASSUME HostsInv, probing # NoProbe, UNCHANGED <<hosts, windows>>, StepAt # "run",
         chip' \in [Hosts -> ChipState],
         \A h \in Hosts \ {probing.host} : chip'[h] = chip[h],
         \/ Fail
         \/ /\ GoOn
            /\ HostKind[probing.host] = "xhci" =>
                 /\ probing.at >= 5 => ~chip'[probing.host].resetting
                 /\ probing.at >= 7 => chip'[probing.host].programmed
  PROVE  HostsInv'
<1> DEFINE h0 == probing.host
<1>1. h0 \in Hosts /\ probing.at \in 1..Len(Steps[HostKind[h0]]) /\ probing.at # Len(Steps[HostKind[h0]])
      /\ Len(Steps[HostKind[h0]]) \in Nat
  BY StepPlaces
<1>2. PresentIsReady' /\ HostsOnce'
  <2>1. \A i \in 1..Len(hosts) : hosts[i] \in Hosts \ {h0}
    BY DEF HostsInv, ProbeUnderWay, InTable
  <2> QED BY <2>1, ZenonT(60) DEF HostsInv, HostsSound, PresentIsReady, HostsOnce
<1>3. \A h : WindowsOf(h)' = WindowsOf(h) /\ SameKind(h)' = SameKind(h) /\ InTable(h)' = InTable(h)
  BY DEF WindowsOf, SameKind, InTable
<1>4. CASE Fail
  BY <1>2, <1>3, <1>4, ZenonT(60)
  DEF Fail, HostsInv, ProbeUnderWay, HostsSound, HostsTypeOK
<1>5. CASE ~Fail
  <2>1. /\ GoOn
        /\ HostKind[h0] = "xhci" =>
             /\ probing.at >= 5 => ~chip'[h0].resetting
             /\ probing.at >= 7 => chip'[h0].programmed
    BY <1>5, ZenonT(60)
  <2>2. probing \in [host : Hosts, at : Nat]
    BY DEF HostsInv, ProbeUnderWay
  <2>3. probing' \in [host : Hosts, at : Nat] /\ probing'.host = h0 /\ probing'.at = probing.at + 1
    BY <2>1, <2>2 DEF GoOn
  <2>4. ProbeUnderWay'
    BY <1>1, <1>3, <2>1, <2>3 DEF HostsInv, ProbeUnderWay
  <2>5. probing'.at \in 1..Len(Steps[HostKind[probing'.host]])
    BY <1>1, <2>3
  <2> QED BY <1>2, <1>3, <2>4, <2>5, ZenonT(60) DEF HostsInv, HostsSound, HostsTypeOK
<1> QED BY <1>4, <1>5

\* The chip's registers stay a record of three bits.
LEMMA ChipTypes ==
  ASSUME NEW c \in ChipState, NEW b \in BOOLEAN
  PROVE  /\ [c EXCEPT !.running = b] \in ChipState
         /\ [c EXCEPT !.resetting = b] \in ChipState
         /\ [c EXCEPT !.programmed = b] \in ChipState
         /\ [c EXCEPT !.running = b].resetting = c.resetting
         /\ [c EXCEPT !.running = b].programmed = c.programmed
         /\ [c EXCEPT !.running = b].running = b
         /\ [c EXCEPT !.resetting = b].running = c.running
         /\ [c EXCEPT !.resetting = b].programmed = c.programmed
         /\ [c EXCEPT !.resetting = b].resetting = b
         /\ [c EXCEPT !.programmed = b].running = c.running
         /\ [c EXCEPT !.programmed = b].resetting = c.resetting
         /\ [c EXCEPT !.programmed = b].programmed = b
BY DEF ChipState

\* The checks of a probe.
LEMMA ProbeInv == ASSUME HostsInv, NEW h \in Hosts, ProbeHost(h) PROVE HostsInv'
<1>1. \A g : WindowsOf(g)' = WindowsOf(g) /\ SameKind(g)' = SameKind(g) /\ InTable(g)' = InTable(g)
  BY DEF ProbeHost, WindowsOf, SameKind, InTable
<1>2. probing' \in [host : Hosts, at : Nat] /\ probing'.host = h /\ probing'.at = 1
  BY DEF ProbeHost
<1>3. 1 \in 1..Len(Steps[HostKind[h]])
  <2>1. Len(Steps.uhci) = 5 /\ Len(Steps.ehci) = 6 /\ Len(Steps.xhci) = 8
    BY DEF Steps
  <2>2. HostKind[h] = "uhci" \/ HostKind[h] = "ehci" \/ HostKind[h] = "xhci"
    BY HostsAssumption
  <2>3. CASE HostKind[h] = "uhci"
    <3>1. Len(Steps[HostKind[h]]) = 5
      BY <2>1, <2>3
    <3> QED BY <3>1
  <2>4. CASE HostKind[h] = "ehci"
    <3>1. Len(Steps[HostKind[h]]) = 6
      BY <2>1, <2>4
    <3> QED BY <3>1
  <2>5. CASE HostKind[h] = "xhci"
    <3>1. Len(Steps[HostKind[h]]) = 8
      BY <2>1, <2>5
    <3> QED BY <3>1
  <2> QED BY <2>2, <2>3, <2>4, <2>5
<1>4. ProbeUnderWay'
  BY <1>1, <1>2 DEF ProbeHost, ProbeUnderWay
<1>5. PresentIsReady' /\ HostsOnce'
  BY DEF ProbeHost, HostsInv, HostsSound, PresentIsReady, HostsOnce
<1> QED BY <1>1, <1>2, <1>3, <1>4, <1>5 DEF ProbeHost, HostsInv, HostsSound, HostsTypeOK

\* Mapping the registers: a window more, of the controller's kind, if there is room.
LEMMA MapInv == ASSUME HostsInv, probing # NoProbe, StepMap PROVE HostsInv'
<1> DEFINE h0 == probing.host
<1>1. h0 \in Hosts /\ StepAt # "run" /\ (HostKind[h0] = "xhci" => probing.at = 1)
  BY StepPlaces DEF StepMap
<1>2. CASE Fail /\ UNCHANGED windows
  BY <1>1, <1>2, ProbeStep DEF StepMap, HostsInv
<1>3. CASE /\ h0 \in windows \/ Cardinality(WindowsOf(h0)) < HostWindows
           /\ windows' = windows \cup {h0}
           /\ GoOn
  <2>1. windows' \subseteq Hosts /\ IsFiniteSet(windows')
    BY <1>1, <1>3, FS_AddElement DEF HostsInv
  <2>2. ASSUME NEW h \in Hosts PROVE Cardinality(WindowsOf(h)') <= HostWindows
    <3>1. Cardinality(WindowsOf(h)) <= HostWindows /\ IsFiniteSet(WindowsOf(h))
      BY FS_Subset DEF HostsInv, HostsSound, HostsTypeOK, WindowsOf
    <3>2. CASE HostKind[h] # HostKind[h0] \/ h0 \in windows
      <4>1. WindowsOf(h)' = WindowsOf(h)
        BY <1>3, <3>2 DEF WindowsOf
      <4> QED BY <3>1, <4>1
    <3>3. CASE HostKind[h] = HostKind[h0] /\ h0 \notin windows
      <4>1. WindowsOf(h)' = WindowsOf(h) \cup {h0} /\ h0 \notin WindowsOf(h)
            /\ WindowsOf(h) = WindowsOf(h0)
        BY <1>3, <3>3 DEF WindowsOf
      <4>2. Cardinality(WindowsOf(h)') = Cardinality(WindowsOf(h)) + 1
        BY <3>1, <4>1, FS_AddElement
      <4>3. Cardinality(WindowsOf(h)) \in Nat /\ Cardinality(WindowsOf(h)) < HostWindows
        BY <1>3, <3>1, <3>3, <4>1, FS_CardinalityType
      <4> QED BY <4>2, <4>3, HostsAssumption
    <3> QED BY <3>2, <3>3
  <2>3. \A g : SameKind(g)' = SameKind(g) /\ InTable(g)' = InTable(g)
    BY DEF SameKind, InTable, StepMap
  <2>4. probing \in [host : Hosts, at : Nat] /\ probing.at \in 1..Len(Steps[HostKind[h0]])
        /\ probing.at # Len(Steps[HostKind[h0]]) /\ Len(Steps[HostKind[h0]]) \in Nat
    BY <1>1, StepPlaces DEF HostsInv, ProbeUnderWay
  <2>5. probing' \in [host : Hosts, at : Nat] /\ probing'.host = h0 /\ probing'.at = probing.at + 1
    BY <1>3, <2>4 DEF GoOn
  <2>6. ProbeUnderWay'
    BY <1>1, <2>3, <2>5 DEF HostsInv, ProbeUnderWay, StepMap
  <2>7. probing'.at \in 1..Len(Steps[HostKind[probing'.host]])
    BY <2>4, <2>5
  <2>8. PresentIsReady' /\ HostsOnce'
    BY ZenonT(60) DEF StepMap, HostsInv, HostsSound, PresentIsReady, HostsOnce
  <2>9. HostsTypeOK'
    BY <2>2, <2>3, <2>7 DEF HostsInv, HostsSound, HostsTypeOK
  <2> QED BY <2>1, <2>6, <2>8, <2>9 DEF HostsInv, HostsSound, StepMap
<1> QED BY <1>2, <1>3 DEF StepMap

\* The steps that change the chip's registers or nothing at all.
LEMMA ChipStepInv ==
  ASSUME HostsInv, probing # NoProbe,
         StepOwn \/ StepHalt \/ StepReset \/ StepReady \/ StepAlloc \/ StepProgram
  PROVE  HostsInv'
<1> DEFINE h0 == probing.host
           c0 == chip[h0]
<1>1. h0 \in Hosts /\ chip \in [Hosts -> ChipState] /\ c0 \in ChipState
  BY StepPlaces, ZenonT(60) DEF HostsInv
<1>2. /\ HostKind[h0] = "xhci" => /\ probing.at >= 6 => ~c0.resetting
                                  /\ probing.at >= 8 => c0.programmed
      /\ probing.at \in Nat
  BY DEF HostsInv, ProbeUnderWay
<1>3. CASE StepOwn
  <2>1. StepAt # "run" /\ (HostKind[h0] = "xhci" => probing.at = 2)
    BY <1>3, StepPlaces DEF StepOwn
  <2> QED BY <1>1, <1>3, <2>1, ProbeStep DEF StepOwn
<1>4. CASE StepHalt
  <2>1. StepAt # "run" /\ (HostKind[h0] = "xhci" => probing.at = 3)
    BY <1>4, StepPlaces DEF StepHalt
  <2>2. CASE Fail /\ UNCHANGED chip
    BY <1>1, <1>4, <2>1, <2>2, ProbeStep DEF StepHalt
  <2>3. CASE chip' = [chip EXCEPT ![h0].running = FALSE] /\ GoOn
    <3>1. chip' \in [Hosts -> ChipState] /\ \A h \in Hosts \ {h0} : chip'[h] = chip[h]
      BY <1>1, <2>3, ChipTypes, ZenonT(60)
    <3> QED BY <1>4, <2>1, <2>3, <3>1, ProbeStep DEF StepHalt
  <2> QED BY <1>4, <2>2, <2>3 DEF StepHalt
<1>5. CASE StepReset
  <2>1. StepAt # "run" /\ (HostKind[h0] = "xhci" => probing.at = 4)
    BY <1>5, StepPlaces DEF StepReset
  <2>2. PICK over \in BOOLEAN :
          chip' = [chip EXCEPT ![h0] = [running |-> FALSE, resetting |-> ~over, programmed |-> FALSE]]
    BY <1>5, ZenonT(60) DEF StepReset
  <2>3. [running |-> FALSE, resetting |-> ~over, programmed |-> FALSE] \in ChipState
    BY DEF ChipState
  <2>4. chip' \in [Hosts -> ChipState] /\ \A h \in Hosts \ {h0} : chip'[h] = chip[h]
    BY <1>1, <2>2, <2>3
  <2> QED BY <1>5, <2>1, <2>4, ProbeStep DEF StepReset
<1>6. CASE StepReady
  <2>1. StepAt # "run" /\ (HostKind[h0] = "xhci" => probing.at = 5)
    BY <1>6, StepPlaces DEF StepReady
  <2>2. Fail \/ (GoOn /\ ~c0.resetting)
    BY <1>6 DEF StepReady
  <2> QED BY <1>1, <1>6, <2>1, <2>2, ProbeStep DEF StepReady
<1>7. CASE StepAlloc
  <2>1. StepAt # "run" /\ (HostKind[h0] = "xhci" => probing.at = 6)
    BY <1>7, StepPlaces DEF StepAlloc
  <2> QED BY <1>1, <1>2, <1>7, <2>1, ProbeStep DEF StepAlloc
<1>8. CASE StepProgram
  <2>1. StepAt # "run" /\ (HostKind[h0] = "xhci" => probing.at = 7)
    BY <1>8, StepPlaces DEF StepProgram
  <2>2. chip' = [chip EXCEPT ![h0].programmed = ~c0.resetting]
    BY <1>8 DEF StepProgram
  <2> DEFINE b == ~c0.resetting
  <2>3. b \in BOOLEAN /\ chip' = [chip EXCEPT ![h0].programmed = b]
    BY <2>2
  <2> HIDE DEF b
  <2> DEFINE c1 == [c0 EXCEPT !.programmed = b]
  <2>4. c1 \in ChipState /\ c1.resetting = c0.resetting /\ c1.programmed = b
    <3>1. ASSUME NEW c \in ChipState, NEW v \in BOOLEAN
          PROVE  LET d == [c EXCEPT !.programmed = v]
                 IN d \in ChipState /\ d.resetting = c.resetting /\ d.programmed = v
      BY DEF ChipState
    <3> QED BY <1>1, <2>3, <3>1
  <2>5. chip' = [chip EXCEPT ![h0] = c1]
    BY <2>3
  <2> HIDE DEF c1
  <2>6. chip' \in [Hosts -> ChipState] /\ (\A h \in Hosts \ {h0} : chip'[h] = chip[h]) /\ chip'[h0] = c1
    BY <1>1, <2>4, <2>5
  <2>7. HostKind[h0] = "xhci" => ~c0.resetting
    BY <1>2, <2>1
  <2>8. HostKind[h0] = "xhci" => ~chip'[h0].resetting /\ chip'[h0].programmed
    BY <2>4, <2>6, <2>7, ZenonT(60) DEF b
  <2> QED BY <1>8, <2>1, <2>6, <2>8, ProbeStep DEF StepProgram
<1> QED BY <1>3, <1>4, <1>5, <1>6, <1>7, <1>8

\* The last step enters a controller that runs into the table.
LEMMA RunInv == ASSUME HostsInv, probing # NoProbe, StepRun PROVE HostsInv'
<1> DEFINE h0 == probing.host
           c0 == chip[h0]
           n == Len(hosts)
<1>1. /\ h0 \in Hosts /\ chip \in [Hosts -> ChipState] /\ c0 \in ChipState
      /\ hosts \in Seq(Hosts) /\ n \in Nat
      /\ HostKind[h0] = "xhci" => probing.at = 8
  BY StepPlaces, SeqShape DEF HostsInv, StepRun
<1>2. /\ ~InTable(h0) /\ Cardinality(SameKind(h0)) < HostLimit
      /\ HostKind[h0] = "xhci" => ~c0.resetting /\ c0.programmed
  BY <1>1 DEF HostsInv, ProbeUnderWay
<1>3. ProbeUnderWay' /\ windows' = windows /\ \A h \in Hosts : WindowsOf(h)' = WindowsOf(h)
  BY DEF StepRun, ProbeUnderWay, WindowsOf
<1>4. CASE UNCHANGED <<chip, hosts>>
  <2>1. \A h \in Hosts : SameKind(h)' = SameKind(h)
    BY <1>4 DEF SameKind
  <2> QED BY <1>3, <1>4, <2>1
          DEF HostsInv, HostsSound, HostsTypeOK, PresentIsReady, HostsOnce, StepRun
<1>5. CASE /\ chip' = [chip EXCEPT ![h0].running = ~c0.resetting]
           /\ hosts' = Append(hosts, h0)
  <2>1. /\ hosts' \in Seq(Hosts) /\ Len(hosts') = n + 1 /\ hosts'[n + 1] = h0
        /\ \A i \in 1..n : hosts'[i] = hosts[i] /\ hosts[i] \in Hosts /\ hosts[i] # h0
    BY <1>1, <1>2, <1>5, SeqAppend DEF InTable
  <2> DEFINE b == ~c0.resetting
  <2>2. b \in BOOLEAN /\ chip' = [chip EXCEPT ![h0].running = b]
    BY <1>5
  <2> HIDE DEF b
  <2>3. /\ chip' \in [Hosts -> ChipState] /\ \A h \in Hosts \ {h0} : chip'[h] = chip[h]
        /\ chip'[h0].resetting = c0.resetting /\ chip'[h0].programmed = c0.programmed
        /\ chip'[h0].running = b
    <3> DEFINE c1 == [c0 EXCEPT !.running = b]
    <3>1. /\ c1 \in ChipState /\ c1.resetting = c0.resetting /\ c1.programmed = c0.programmed
          /\ c1.running = b
      <4>1. ASSUME NEW c \in ChipState, NEW v \in BOOLEAN
            PROVE  LET d == [c EXCEPT !.running = v]
                   IN /\ d \in ChipState /\ d.resetting = c.resetting /\ d.programmed = c.programmed
                      /\ d.running = v
        BY DEF ChipState
      <4> QED BY <1>1, <2>2, <4>1, ZenonT(60)
    <3>2. chip' = [chip EXCEPT ![h0] = c1]
      BY <2>2
    <3> HIDE DEF c1
    <3> QED BY <1>1, <3>1, <3>2
  <2>4. ASSUME NEW h \in Hosts PROVE Cardinality(SameKind(h)') <= HostLimit
    <3>1. /\ IsFiniteSet(SameKind(h)) /\ Cardinality(SameKind(h)) <= HostLimit
          /\ n + 1 \notin SameKind(h)
      <4>1. IsFiniteSet(1..n) /\ SameKind(h) \subseteq 1..n
        BY <1>1, FS_Interval DEF SameKind
      <4>2. n + 1 \notin 1..n
        BY <1>1
      <4> QED BY <4>1, <4>2, FS_Subset DEF HostsInv, HostsSound, HostsTypeOK
    <3>2. CASE HostKind[h] # HostKind[h0]
      <4>1. SameKind(h)' = SameKind(h)
        BY <1>1, <2>1, <3>2 DEF SameKind
      <4> QED BY <3>1, <4>1
    <3>3. CASE HostKind[h] = HostKind[h0]
      <4>1. SameKind(h)' = SameKind(h) \cup {n + 1} /\ SameKind(h) = SameKind(h0)
        BY <1>1, <2>1, <3>3 DEF SameKind
      <4>2. Cardinality(SameKind(h)') = Cardinality(SameKind(h)) + 1
        BY <3>1, <4>1, FS_AddElement, ZenonT(60)
      <4>3. Cardinality(SameKind(h)) \in Nat /\ Cardinality(SameKind(h)) < HostLimit
        BY <1>2, <3>1, <4>1, FS_CardinalityType
      <4> QED BY <4>2, <4>3, HostsAssumption
    <3> QED BY <3>2, <3>3
  <2>5. HostsTypeOK'
    BY <1>3, <2>4 DEF StepRun, HostsInv, HostsSound, HostsTypeOK
  <2>6. PresentIsReady'
    <3> SUFFICES ASSUME NEW i \in 1..(n + 1), HostKind[hosts'[i]] = "xhci"
                 PROVE  /\ chip'[hosts'[i]].running /\ chip'[hosts'[i]].programmed
                        /\ ~chip'[hosts'[i]].resetting
      BY <2>1 DEF PresentIsReady
    <3>1. CASE i = n + 1
      BY <1>2, <2>1, <2>3, <3>1, ZenonT(60) DEF b
    <3>2. CASE i \in 1..n
      BY <2>1, <2>3, <3>2 DEF HostsInv, HostsSound, PresentIsReady
    <3> QED BY <1>1, <3>1, <3>2
  <2>7. HostsOnce'
    <3> SUFFICES ASSUME NEW i \in 1..(n + 1), NEW j \in 1..(n + 1), hosts'[i] = hosts'[j]
                 PROVE  i = j
      BY <2>1 DEF HostsOnce
    <3>1. CASE i \in 1..n /\ j \in 1..n
      BY <2>1, <3>1 DEF HostsInv, HostsSound, HostsOnce
    <3>2. CASE i \notin 1..n \/ j \notin 1..n
      BY <1>1, <2>1, <3>2
    <3> QED BY <3>1, <3>2
  <2> QED BY <1>3, <2>1, <2>3, <2>5, <2>6, <2>7, ZenonT(60) DEF HostsInv, HostsSound
<1> QED BY <1>4, <1>5 DEF StepRun

\* A reset that ends takes nothing away.
LEMMA ReadyInv == ASSUME HostsInv, NEW h \in Hosts, ChipReady(h) PROVE HostsInv'
<1>1. chip \in [Hosts -> ChipState] /\ chip' = [chip EXCEPT ![h].resetting = FALSE]
  BY DEF HostsInv, ChipReady
<1>2. /\ chip' \in [Hosts -> ChipState] /\ \A g \in Hosts \ {h} : chip'[g] = chip[g]
      /\ chip'[h].resetting = FALSE /\ chip'[h].programmed = chip[h].programmed
      /\ chip'[h].running = chip[h].running
  BY <1>1, ChipTypes, ZenonT(60)
<1>3. \A g : WindowsOf(g)' = WindowsOf(g) /\ SameKind(g)' = SameKind(g) /\ InTable(g)' = InTable(g)
  BY DEF WindowsOf, SameKind, InTable, ChipReady
<1>4. ProbeUnderWay'
  BY <1>2, <1>3 DEF ChipReady, HostsInv, ProbeUnderWay
<1>5. PresentIsReady'
  <2>1. \A i \in 1..Len(hosts) : hosts[i] \in Hosts
    BY DEF HostsInv
  <2> QED BY <1>2, <2>1 DEF ChipReady, HostsInv, HostsSound, PresentIsReady
<1> QED BY <1>2, <1>3, <1>4, <1>5 DEF ChipReady, HostsInv, HostsSound, HostsTypeOK, HostsOnce

\* No step breaks the invariant.
LEMMA HostsNextInv == HostsInv /\ [HostsNext]_hostsVars => HostsInv'
<1> SUFFICES ASSUME HostsInv, [HostsNext]_hostsVars PROVE HostsInv'
  OBVIOUS
<1>1. CASE UNCHANGED hostsVars
  BY <1>1, ZenonT(60) DEF hostsVars, HostsInv, ProbeUnderWay, HostsSound, HostsTypeOK, PresentIsReady,
              HostsOnce, WindowsOf, SameKind, InTable
<1>2. CASE HostsNext
  BY <1>2, ProbeInv, MapInv, ChipStepInv, RunInv, ReadyInv DEF HostsNext
<1> QED BY <1>1, <1>2

\* However often the controllers are probed and whichever waits time out, the
\* tables hold each controller once and within the limits, and an xHCI
\* controller only with the rings it was given after its reset was over.
THEOREM HostsStaySound == HostsSpec => []HostsSound
<1>1. HostsInv => HostsSound
  BY DEF HostsInv
<1> QED BY <1>1, HostsInitInv, HostsNextInv, PTL DEF HostsSpec

-----------------------------------------------------------------------------
(* Ahci.                                                                   *)

\* Rounding up: q pages of P sectors hold e sectors, and fewer do not.
LEMMA RoundedUp ==
  ASSUME NEW e \in Nat, NEW P \in Nat \ {0}
  PROVE  LET q == (e + P - 1) \div P
         IN q \in Nat /\ q * P >= e /\ (q - 1) * P < e
<1> DEFINE a == e + P - 1
           q == a \div P
<1>1. a \in Nat /\ q \in Int /\ q >= 0
  OBVIOUS
<1>2. P * q <= a /\ a < P * q + P
  BY <1>1
<1>3. (q - 1) * P = P * q - P /\ q * P = P * q
  BY <1>1
<1>4. P * q \in Int
  BY <1>1
<1> HIDE DEF q
<1> QED BY <1>1, <1>2, <1>3, <1>4

\* The sum of a sequence of naturals is the last of its partial sums.
SumLoop(s) ==
  CHOOSE f : f = [i \in 0..Len(s) |-> IF i = 0 THEN 0 ELSE f[i - 1] + s[i]]

\* The recursion in PrdtTotal runs to its end.
LEMMA SumRuns ==
  ASSUME NEW s \in Seq(Nat)
  PROVE  LET f == SumLoop(s)
         IN /\ PrdtTotal(s) = f[Len(s)] /\ f[0] = 0
            /\ \A i \in 1..Len(s) : f[i] = f[i - 1] + s[i]
<1> DEFINE m == Len(s)
           step == [x \in Nat \X (1..m) |-> x[1] + s[x[2]]]
           f == SumLoop(s)
<1>1. m \in Nat /\ \A i \in 1..m : s[i] \in Nat
  OBVIOUS
<1>2. /\ step \in [Nat \X (1..m) -> Nat]
      /\ \A q \in Nat, i \in 1..m : step[<<q, i>>] = q + s[i]
  BY <1>1
<1> HIDE DEF step
<1>3. PICK g : IsLoop(Nat, m, 0, step, g)
  <2> HIDE DEF m
  <2> QED BY <1>1, <1>2, LoopRuns, ZenonT(60)
<1>4. g = [i \in 0..m |-> IF i = 0 THEN 0 ELSE g[i - 1] + s[i]]
  <2>1. \A i \in 0..m : i = 0 \/ (i \in 1..m /\ i - 1 \in 0..m)
    BY <1>1
  <2>2. \A i \in 0..m : g[i] = IF i = 0 THEN 0 ELSE g[i - 1] + s[i]
    BY <1>2, <1>3, <2>1, ZenonT(60) DEF IsLoop
  <2>3. g = [i \in 0..m |-> g[i]]
    BY <1>3 DEF IsLoop
  <2> QED BY <2>2, <2>3
<1>5. f = [i \in 0..m |-> IF i = 0 THEN 0 ELSE f[i - 1] + s[i]]
  <2> HIDE DEF m
  <2> QED BY <1>4, ZenonT(60) DEF SumLoop, m
<1>6. PrdtTotal(s) = f[m]
  BY ZenonT(60) DEF PrdtTotal, SumLoop
<1> HIDE DEF f, m
<1>7. f[0] = 0 /\ \A i \in 1..m : f[i] = f[i - 1] + s[i]
  BY <1>1, <1>5
<1> QED BY <1>6, <1>7 DEF f, m

\* The regions of a buffer cover it: after i pages, either all of it or all up to
\* the end of the i-th page.
LEMMA PrdtCovers ==
  ASSUME NEW off \in 0..(AhciPage - 1), NEW n \in Nat, n # 0
  PROVE  /\ Prdt(off, n) \in Seq(1..AhciPage)
         /\ Len(Prdt(off, n)) = PrdtPages(off, n)
         /\ PrdtTotal(Prdt(off, n)) = n
<1> DEFINE P == AhciPage
           e == off + n
           q == PrdtPages(off, n)
           s == Prdt(off, n)
           f == SumLoop(s)
<1>1. /\ P \in Nat \ {0} /\ e \in Nat /\ e > off /\ off \in Nat /\ off < P
  BY AhciAssumption
<1>2. q \in Nat /\ q * P >= e /\ (q - 1) * P < e
  <2> HIDE DEF e, P
  <2>1. q = (e + P - 1) \div P
    BY DEF PrdtPages, e, P
  <2> QED BY <1>1, <2>1, RoundedUp
<1>3. q # 0 /\ q * P = (q - 1) * P + P /\ (q - 1) * P \in Nat
  <2> HIDE DEF q, P, e
  <2>1. q # 0
    BY <1>1, <1>2
  <2> QED BY <1>1, <1>2, <2>1
<1>4. s = [i \in 1..q |-> (IF i = q THEN e - (q - 1) * P ELSE P) - (IF i = 1 THEN off ELSE 0)]
  <2> DEFINE r == (q - 1) * P
  <2>1. off + (n - r) = e - r /\ r \in Nat
    BY <1>1, <1>3
  <2>2. s = [i \in 1..q |-> (IF i = q THEN off + (n - r) ELSE P) - (IF i = 1 THEN off ELSE 0)]
    BY ZenonT(60) DEF Prdt
  <2> QED BY <2>1, <2>2
<1>5. q = 1 => (q - 1) * P = 0
  <2> HIDE DEF q, P
  <2> QED BY <1>1
<1>6. \A i \in 1..q : /\ s[i] = (IF i = q THEN e - (q - 1) * P ELSE P) - (IF i = 1 THEN off ELSE 0)
                      /\ s[i] \in 1..P
  <2> DEFINE r == (q - 1) * P
  <2>1. r \in Nat /\ q * P = r + P /\ r < e /\ e <= r + P /\ (q = 1 => r = 0)
    BY <1>2, <1>3, <1>5
  <2> HIDE DEF r, q, P, e, s
  <2>2. s = [i \in 1..q |-> (IF i = q THEN e - r ELSE P) - (IF i = 1 THEN off ELSE 0)]
    BY <1>4 DEF r
  <2>3. \A i \in 1..q : s[i] = (IF i = q THEN e - r ELSE P) - (IF i = 1 THEN off ELSE 0)
    BY <2>2
  <2>4. ASSUME NEW i \in 1..q PROVE s[i] \in 1..P
    BY <1>1, <1>2, <2>1, <2>3
  <2> QED BY <2>3, <2>4 DEF r
<1> HIDE DEF s, q, e, P
<1>7. s \in Seq(1..P) /\ Len(s) = q
  <2>1. s \in [1..q -> 1..P]
    BY <1>4, <1>6
  <2>2. s \in Seq(1..P)
    BY <1>2, <2>1, SeqIs, ZenonT(60)
  <2>3. 1..Len(s) = 1..q /\ Len(s) \in Nat
    BY <2>1, <2>2, SeqShape
  <2> QED BY <1>2, <2>2, <2>3
<1>8. s \in Seq(Nat)
  BY <1>1, <1>7
<1>9. PrdtTotal(s) = f[q] /\ f[0] = 0 /\ \A i \in 1..q : f[i] = f[i - 1] + s[i]
  <2> HIDE DEF f
  <2> QED BY <1>7, <1>8, SumRuns DEF f
<1> HIDE DEF f
<1>10. q = 1 => f[q] = n
  BY <1>1, <1>2, <1>5, <1>6, <1>9 DEF e
<1>11. ASSUME q # 1 PROVE f[q] = n
  <2> DEFINE G == {i \in 0..(q - 1) : i # 0 => f[i] = i * P - off}
  <2>1. 0 \in G
    BY <1>2, <1>3
  <2>2. ASSUME NEW i \in 1..(q - 1), i - 1 \in G PROVE i \in G
    <3>1. i \in 1..q /\ i # q /\ i * P = (i - 1) * P + P /\ (i - 1) * P \in Int
      BY <1>1, <1>2
    <3>2. CASE i = 1
      <4>1. s[i] = P - off /\ f[i] = P - off /\ i * P = P
        BY <1>1, <1>6, <1>9, <3>1, <3>2
      <4> QED BY <4>1
    <3>3. CASE i # 1
      <4>1. s[i] = P /\ f[i - 1] = (i - 1) * P - off /\ f[i] = f[i - 1] + P
        BY <1>1, <1>6, <1>9, <2>2, <3>1, <3>3
      <4> QED BY <1>1, <3>1, <4>1
    <3> QED BY <3>2, <3>3
  <2>3. q - 1 \in G
    <3>1. q - 1 \in Nat
      BY <1>2, <1>3
    <3> HIDE DEF G
    <3>2. \A i \in 0..(q - 1) : i \in G
      BY <2>1, <2>2, <3>1, UpTo
    <3> QED BY <3>1, <3>2
  <2>4. q \in 1..q /\ q - 1 # 0
    BY <1>2, <1>3, <1>11
  <2>5. f[q - 1] = (q - 1) * P - off /\ s[q] = e - (q - 1) * P /\ f[q] = f[q - 1] + s[q]
    <3>1. f[q - 1] = (q - 1) * P - off
      BY <2>3, <2>4
    <3>2. s[q] = e - (q - 1) * P - 0
      BY <1>6, <1>11, <2>4
    <3>3. f[q] = f[q - 1] + s[q]
      BY <1>9, <2>4
    <3> QED BY <1>1, <1>3, <3>1, <3>2, <3>3
  <2> QED BY <1>1, <1>3, <2>5 DEF e
<1> QED BY <1>7, <1>9, <1>10, <1>11 DEF s, q, P

-----------------------------------------------------------------------------
(* The disk table.                                                         *)

SataDisk == [port : SataPorts, size : {0, AhciSectors}]

\* The tables in which no port is twice.
SataTables ==
  {ds \in Seq(SataDisk) : /\ Len(ds) <= AhciLimit
                          /\ \A i, j \in 1..Len(ds) : ds[i].port = ds[j].port => i = j}

\* ahci_find_disk_slot() keeps a port from being entered twice, and the table
\* from growing past AHCI_MAX_DISKS.
LEMMA ProbePortFacts ==
  ASSUME NEW ds \in SataTables, NEW p \in SataPorts
  PROVE  ProbePort(ds, p) \subseteq SataTables
<1> SUFFICES ASSUME ~ (\E i \in 1..Len(ds) : ds[i].port = p), ~ (Len(ds) >= AhciLimit),
                    NEW size \in {0, AhciSectors}
             PROVE  Append(ds, [port |-> p, size |-> size]) \in SataTables
  BY ZenonT(60) DEF ProbePort
<1> DEFINE d == [port |-> p, size |-> size]
           t == Append(ds, d)
<1>1. d \in SataDisk /\ d.port = p
  BY DEF SataDisk
<1>2. ds \in Seq(SataDisk) /\ Len(ds) \in Nat /\ AhciLimit \in Nat
  BY SeqShape, AhciAssumption DEF SataTables
<1> HIDE DEF d
<1>3. /\ t \in Seq(SataDisk) /\ Len(t) = Len(ds) + 1 /\ t[Len(ds) + 1] = d
      /\ \A i \in 1..Len(ds) : t[i] = ds[i]
  BY <1>1, <1>2, SeqAppend
<1> HIDE DEF t
<1>4. \A i \in 1..Len(t) : i = Len(ds) + 1 \/ i \in 1..Len(ds)
  BY <1>2, <1>3
<1>5. ASSUME NEW i \in 1..Len(t), NEW j \in 1..Len(t), t[i].port = t[j].port PROVE i = j
  <2>1. i \in 1..Len(ds) => t[i].port = ds[i].port /\ t[i].port # p
    BY <1>3
  <2>2. j \in 1..Len(ds) => t[j].port = ds[j].port /\ t[j].port # p
    BY <1>3
  <2>3. \A k, l \in 1..Len(ds) : ds[k].port = ds[l].port => k = l
    BY DEF SataTables
  <2> QED BY <1>1, <1>3, <1>4, <1>5, <2>1, <2>2, <2>3
<1>6. Len(t) <= AhciLimit
  BY <1>2, <1>3
<1> QED BY <1>3, <1>5, <1>6, ZenonT(60) DEF SataTables, t, d

SataTurn(before, i) == UNION {ProbePort(d, AhciPorts[i]) : d \in before}
ProbeTurns(ds) ==
  CHOOSE f : f = [i \in 0..Len(AhciPorts) |-> IF i = 0 THEN {ds} ELSE SataTurn(f[i - 1], i)]

\* Nor does the loop of ahci_probe_mmio() over all ports.
LEMMA ProbeLoopFacts ==
  ASSUME NEW ds \in SataTables
  PROVE  ProbeLoop(ds) \subseteq SataTables
<1> DEFINE m == Len(AhciPorts)
           S == SUBSET SataTables
           step == [x \in S \X (1..m) |-> SataTurn(x[1], x[2])]
           f == ProbeTurns(ds)
<1>1. m \in Nat /\ \A i \in 1..m : AhciPorts[i] \in SataPorts
  BY AhciAssumption, SeqShape, ZenonT(60)
<1>2. ASSUME NEW q \in S, NEW i \in 1..m PROVE SataTurn(q, i) \in S
  <2>1. \A d \in q : ProbePort(d, AhciPorts[i]) \subseteq SataTables
    BY <1>1, ProbePortFacts
  <2> QED BY <2>1, ZenonT(60) DEF SataTurn
<1>3. /\ step \in [S \X (1..m) -> S]
      /\ \A q \in S, i \in 1..m : step[<<q, i>>] = SataTurn(q, i)
  <2> HIDE DEF S, m
  <2> QED BY <1>2
<1>4. {ds} \in S
  OBVIOUS
<1> HIDE DEF step, S
<1>5. PICK g : IsLoop(S, m, {ds}, step, g)
  <2> HIDE DEF m
  <2> QED BY <1>1, <1>3, <1>4, LoopRuns
<1>6. g = [i \in 0..m |-> IF i = 0 THEN {ds} ELSE SataTurn(g[i - 1], i)]
  <2>1. \A i \in 0..m : i = 0 \/ (i \in 1..m /\ i - 1 \in 0..m)
    BY <1>1
  <2>2. \A i \in 0..m : g[i] = IF i = 0 THEN {ds} ELSE SataTurn(g[i - 1], i)
    BY <1>3, <1>5, <2>1, ZenonT(60) DEF IsLoop
  <2>3. g = [i \in 0..m |-> g[i]]
    BY <1>5 DEF IsLoop
  <2> QED BY <2>2, <2>3
<1>7. f = [i \in 0..m |-> IF i = 0 THEN {ds} ELSE SataTurn(f[i - 1], i)]
  <2> HIDE DEF m
  <2> QED BY <1>6, ZenonT(60) DEF ProbeTurns, m
<1>8. ProbeLoop(ds) = f[m]
  BY ZenonT(60) DEF ProbeLoop, ProbeTurns, SataTurn
<1> HIDE DEF f, m
<1>9. \A i \in 0..m : f[i] \in S
  <2> DEFINE G == {i \in 0..m : f[i] \in S}
  <2>1. 0 \in G
    BY <1>1, <1>4, <1>7
  <2>2. ASSUME NEW i \in 1..m, i - 1 \in G PROVE i \in G
    <3>1. i \in 0..m /\ i # 0
      BY <1>1
    <3>2. f[i] = SataTurn(f[i - 1], i)
      BY <1>7, <3>1, ZenonT(60)
    <3> QED BY <1>2, <2>2, <3>1, <3>2
  <2> HIDE DEF G
  <2>3. \A i \in 0..m : i \in G
    BY <1>1, <2>1, <2>2, UpTo
  <2> QED BY <2>3 DEF G
<1>10. m \in 0..m
  BY <1>1
<1> QED BY <1>8, <1>9, <1>10 DEF S

-----------------------------------------------------------------------------
(* Commands.                                                               *)

Command == [id : Nat, op : {"none", "read", "write"}, lba : Nat, n : Nat, prdt : Seq(Nat)]
Engine == [ci : BOOLEAN, bsy : BOOLEAN, err : BOOLEAN, halted : BOOLEAN,
           exec : Command, last : Command]

\* What the driver and the HBA may rely on: the command polled for is the one in
\* the table, the one that runs is the one in the table, and when the slot's bit
\* is clear and no error is up, the one polled for is what ran last.
Handshake ==
  /\ wait # NoCommand => wait = cmdtab
  /\ hba.bsy => hba.exec = cmdtab
  /\ wait # NoCommand /\ ~hba.ci /\ ~hba.err => hba.last = wait

AhciInv ==
  /\ sata \in SataTables
  /\ issued \in 0..AhciCommands
  /\ wait \in Command /\ cmdtab \in Command /\ hba \in Engine
  /\ wait.id <= issued /\ cmdtab.id <= issued /\ hba.exec.id <= issued
  /\ ended.id \in 0..issued
  /\ AhciTruth
  /\ Handshake
  /\ PrdtExact

\* No command at all is one with nothing in it.
LEMMA NoCommandFacts == NoCommand \in Command /\ NoCommand.id = 0
<1>1. <<>> \in Seq(Nat)
  OBVIOUS
<1> QED BY <1>1 DEF NoCommand, Command

\* A command made of its parts.
LEMMA CommandFacts ==
  ASSUME NEW id \in Nat, NEW op \in {"read", "write"}, NEW lba \in Nat, NEW n \in Nat,
         NEW prdt \in Seq(Nat)
  PROVE  LET c == [id |-> id, op |-> op, lba |-> lba, n |-> n, prdt |-> prdt]
         IN c \in Command /\ c.id = id /\ c.n = n /\ c.prdt = prdt
BY DEF Command

\* Nothing is registered or issued when ahci.c starts.
LEMMA AhciInitInv == AhciInit => AhciInv
<1> SUFFICES ASSUME AhciInit PROVE AhciInv
  OBVIOUS
<1>1. <<>> \in SataTables
  <2>1. <<>> \in Seq(SataDisk) /\ Len(<<>>) = 0
    OBVIOUS
  <2> QED BY <2>1, AhciAssumption DEF SataTables
<1>2. hba \in Engine /\ hba.exec = NoCommand /\ ~hba.bsy
  BY NoCommandFacts DEF AhciInit, Engine
<1>3. 0 \in 0..AhciCommands
  BY AhciAssumption
<1>4. PrdtExact /\ Handshake
  BY <1>2, ZenonT(60) DEF AhciInit, Handshake, PrdtExact
<1>5. AhciTruth /\ ended.id \in 0..issued
  BY DEF AhciInit, AhciTruth
<1>6. /\ wait \in Command /\ cmdtab \in Command
      /\ wait.id <= issued /\ cmdtab.id <= issued /\ hba.exec.id <= issued
  <2>1. wait = NoCommand /\ cmdtab = NoCommand /\ hba.exec = NoCommand /\ issued = 0
    BY <1>2, ZenonT(60) DEF AhciInit
  <2>2. NoCommand.id <= 0
    BY NoCommandFacts
  <2> QED BY <2>1, <2>2, NoCommandFacts, ZenonT(60)
<1>7. sata \in SataTables /\ issued \in 0..AhciCommands
  BY <1>1, <1>3, ZenonT(60) DEF AhciInit
<1> QED BY <1>2, <1>4, <1>5, <1>6, <1>7, ZenonT(60) DEF AhciInv

\* The invariant implies what ahci.c promises.
LEMMA AhciInvSound == AhciInv => AhciSound
<1> SUFFICES ASSUME AhciInv PROVE AhciSound
  OBVIOUS
<1>1. /\ Len(sata) <= AhciLimit /\ Len(sata) \in Nat /\ sata \in Seq(SataDisk)
      /\ \A i, j \in 1..Len(sata) : sata[i].port = sata[j].port => i = j
  BY SeqShape, ZenonT(60) DEF AhciInv, SataTables
<1>2. \A i \in 1..Len(sata) : sata[i].size \in {0, AhciSectors}
  <2>1. \A i \in 1..Len(sata) : sata[i] \in SataDisk
    BY <1>1, SeqShape, ZenonT(60)
  <2> QED BY <2>1 DEF SataDisk
<1>3. wait.id \in 0..issued /\ cmdtab.id \in 0..issued /\ hba.exec.id \in 0..issued
  BY AhciAssumption DEF AhciInv, Command, Engine
<1> QED BY <1>1, <1>2, <1>3, ZenonT(60) DEF AhciInv, AhciSound, AhciTypeOK, PortsOnce

\* Every step of the driver and of the HBA keeps the invariant.
LEMMA AhciNextInv ==
  ASSUME AhciInv, [AhciNext]_ahciVars
  PROVE  AhciInv'
<1> USE DEF AhciInv
<1>1. CASE AhciProbe
  <2>1. sata' \in SataTables
    BY <1>1, ProbeLoopFacts DEF AhciProbe
  <2> QED BY <1>1, <2>1, ZenonT(60) DEF AhciProbe, AhciTruth, Handshake, PrdtExact
<1>2. ASSUME NEW p \in SataPorts, AhciAppear(p) PROVE AhciInv'
  BY <1>2 DEF AhciAppear, AhciTruth, Handshake, PrdtExact
<1>3. ASSUME NEW op \in {"read", "write"}, NEW lba \in 0..AhciSectors,
             NEW n \in 0..(AhciSectors + 1), NEW off \in 0..(AhciPage - 1),
             AhciIssue(op, lba, n, off)
      PROVE  AhciInv'
  <2> DEFINE c == [id |-> issued + 1, op |-> op, lba |-> lba, n |-> n, prdt |-> Prdt(off, n)]
  <2>1. /\ cmdtab' = c /\ wait' = c /\ issued' = issued + 1 /\ issued < AhciCommands
        /\ ~hba.bsy /\ hba' = [hba EXCEPT !.ci = TRUE]
        /\ n # 0 /\ PrdtPages(off, n) <= AhciMaxPrdt
        /\ UNCHANGED <<sataPort, sata, ended>>
    BY <1>3 DEF AhciIssue, AhciAdmitted, NotBusy
  <2>2. n \in Nat /\ lba \in Nat /\ issued \in Nat
    BY AhciAssumption
  <2>3. /\ Prdt(off, n) \in Seq(1..AhciPage) /\ Len(Prdt(off, n)) <= AhciMaxPrdt
        /\ PrdtTotal(Prdt(off, n)) = n
    BY <2>1, <2>2, PrdtCovers
  <2>4. /\ Prdt(off, n) \in Seq(Nat)
        /\ \A i \in 1..Len(Prdt(off, n)) : Prdt(off, n)[i] \in 1..AhciPage
    BY <2>3, AhciAssumption
  <2>5. c \in Command /\ c.id = issued + 1 /\ c.n = n /\ c.prdt = Prdt(off, n)
    <3>1. issued + 1 \in Nat
      BY <2>2
    <3> QED BY <2>2, <2>4, <3>1, CommandFacts, ZenonT(60)
  <2> HIDE DEF c
  <2>6. /\ hba' \in Engine /\ hba'.ci /\ ~hba'.bsy /\ hba'.exec = hba.exec
    BY <2>1, ZenonT(60) DEF Engine
  <2>7. PrdtExact'
    BY <2>1, <2>3, <2>4, <2>5 DEF PrdtExact
  <2>8. Handshake' /\ AhciTruth'
    BY <2>1, <2>6 DEF Handshake, AhciTruth
  <2>9. hba.exec.id \in Nat /\ ended'.id = ended.id
    BY <2>1 DEF Engine, Command
  <2>10. issued' \in 0..AhciCommands /\ c.id <= issued' /\ hba'.exec.id <= issued' /\ ended'.id \in 0..issued'
    BY <2>1, <2>2, <2>5, <2>6, <2>9, AhciAssumption
  <2> QED BY <2>1, <2>5, <2>6, <2>7, <2>8, <2>10
<1>4. CASE AhciDone
  <2>1. /\ wait # NoCommand /\ ~hba.ci /\ wait' = NoCommand
        /\ ended' = [id |-> wait.id, ok |-> ~hba.err, ran |-> wait = hba.last]
        /\ UNCHANGED <<sataPort, sata, hba, cmdtab, issued>>
    BY <1>4, ZenonT(60) DEF AhciDone
  <2>2. AhciTruth'
    <3>1. ended'.ok = ~hba.err /\ ended'.ran = (wait = hba.last)
      BY <2>1, ZenonT(60)
    <3> QED BY <2>1, <3>1, ZenonT(60) DEF AhciTruth, Handshake
  <2>3. ended'.id \in 0..issued
    <3>1. ended'.id = wait.id
      BY <2>1
    <3>2. wait.id \in Nat
      BY DEF Command
    <3> QED BY <3>1, <3>2, AhciAssumption
  <2>4. Handshake' /\ PrdtExact'
    BY <2>1, ZenonT(60) DEF Handshake, PrdtExact
  <2>5. wait' \in Command /\ wait'.id <= issued
    <3>1. NoCommand.id <= issued
      BY NoCommandFacts
    <3> QED BY <2>1, <3>1, NoCommandFacts, ZenonT(60)
  <2> QED BY <2>1, <2>2, <2>3, <2>4, <2>5, ZenonT(60)
<1>5. CASE AhciTimeout
  <2>1. /\ wait' = NoCommand
        /\ ended' = [id |-> wait.id, ok |-> FALSE, ran |-> wait = hba.last]
        /\ UNCHANGED <<sataPort, sata, hba, cmdtab, issued>>
    BY <1>5, ZenonT(60) DEF AhciTimeout
  <2>2. AhciTruth'
    BY <2>1, ZenonT(60) DEF AhciTruth
  <2>3. ended'.id \in 0..issued
    <3>1. ended'.id = wait.id
      BY <2>1
    <3>2. wait.id \in Nat
      BY DEF Command
    <3> QED BY <3>1, <3>2, AhciAssumption
  <2>4. Handshake' /\ PrdtExact'
    BY <2>1, ZenonT(60) DEF Handshake, PrdtExact
  <2>5. wait' \in Command /\ wait'.id <= issued
    <3>1. NoCommand.id <= issued
      BY NoCommandFacts
    <3> QED BY <2>1, <3>1, NoCommandFacts, ZenonT(60)
  <2> QED BY <2>1, <2>2, <2>3, <2>4, <2>5, ZenonT(60)
<1>6. CASE HbaFetch
  <2>1. /\ hba' = [hba EXCEPT !.bsy = TRUE, !.err = FALSE, !.exec = cmdtab] /\ hba.ci
        /\ UNCHANGED <<sataPort, sata, cmdtab, wait, issued, ended>>
    BY <1>6 DEF HbaFetch
  <2>2. hba' \in Engine /\ hba'.exec = cmdtab /\ hba'.ci
    BY <2>1, ZenonT(60) DEF Engine
  <2> QED BY <2>1, <2>2 DEF AhciTruth, Handshake, PrdtExact
<1>7. CASE HbaComplete
  <2>1. /\ hba' = [hba EXCEPT !.bsy = FALSE, !.ci = FALSE, !.last = hba.exec, !.exec = NoCommand]
        /\ hba.bsy /\ UNCHANGED <<sataPort, sata, cmdtab, wait, issued, ended>>
    BY <1>7 DEF HbaComplete
  <2>2. /\ hba' \in Engine /\ hba'.exec = NoCommand /\ ~hba'.bsy /\ hba'.last = hba.exec
    BY <2>1, NoCommandFacts, ZenonT(60) DEF Engine
  <2>3. Handshake'
    BY <2>1, <2>2 DEF Handshake
  <2> QED BY <2>1, <2>2, <2>3, NoCommandFacts DEF AhciTruth, PrdtExact
<1>8. ASSUME NEW stops \in BOOLEAN, HbaError(stops) PROVE AhciInv'
  <2>1. /\ hba' = [hba EXCEPT !.bsy = FALSE, !.err = TRUE, !.halted = stops, !.ci = stops,
                               !.exec = NoCommand]
        /\ UNCHANGED <<sataPort, sata, cmdtab, wait, issued, ended>>
    BY <1>8 DEF HbaError
  <2>2. /\ hba' \in Engine /\ hba'.exec = NoCommand /\ ~hba'.bsy /\ hba'.err
    BY <2>1, NoCommandFacts, ZenonT(60) DEF Engine
  <2>3. Handshake'
    BY <2>1, <2>2 DEF Handshake
  <2> QED BY <2>1, <2>2, <2>3, NoCommandFacts DEF AhciTruth, PrdtExact
<1>9. CASE UNCHANGED ahciVars
  BY <1>9 DEF ahciVars, AhciTruth, Handshake, PrdtExact
<1> QED BY <1>1, <1>2, <1>3, <1>4, <1>5, <1>6, <1>7, <1>8, <1>9, ZenonT(60) DEF AhciNext

\* ahci.c reports what happened on the disk a request was for: whatever times
\* out, fails or completes late, a command reported as done was executed, no
\* port is in the table twice, and the regions of a command cover its buffer.
THEOREM AhciStaysSound == AhciSpec => []AhciSound
<1>1. AhciInit => AhciInv
  BY AhciInitInv
<1>2. AhciInv /\ [AhciNext]_ahciVars => AhciInv'
  BY AhciNextInv
<1>3. AhciInv => AhciSound
  BY AhciInvSound
<1> QED BY <1>1, <1>2, <1>3, PTL DEF AhciSpec

=============================================================================
