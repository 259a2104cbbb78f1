----------------------------- MODULE BlockProofs ----------------------------
(***************************************************************************)
(* Proofs about the disks: the USB ports, the disk table and the registry  *)
(* of block devices agree, and a disk name is never given to another       *)
(* device.                                                                 *)
(***************************************************************************)
EXTENDS Block, BasicLemmas

USE ZenonT(3), SMTT(30), Z3T(30), ZenonT(60)

-----------------------------------------------------------------------------
(* The USB ports.                                                          *)

Entry == [present : BOOLEAN, port : PortSet, dev : Disks, slot : Nat]

UsbState == [pstate : [PortSet -> IGNORED..MaxStorage], storage : Seq(Entry), slots : SUBSET Nat]

HwState == [plugged : [PortSet -> Device \cup {None}],
            change : [PortSet -> BOOLEAN],
            released : [PortSet -> BOOLEAN]]

\* BindingsExact, SlotsAccounted and SwapIsSeen of a state of the drivers, which
\* need not be the current one.
Bindings(u) ==
  /\ \A i \in 1..Len(u.storage) : u.storage[i].present => u.pstate[u.storage[i].port] = i
  /\ \A p \in PortSet :
       Bound(u.pstate[p]) => /\ u.pstate[p] <= Len(u.storage)
                             /\ u.storage[u.pstate[p]].port = p

SlotsOf(u) ==
  {u.storage[i].slot : i \in {i \in 1..Len(u.storage) : BusOf[u.storage[i].port] = "xhci"}}

Swaps(u, h) ==
  \A i \in 1..Len(u.storage) :
    /\ u.storage[i].present
    /\ BusOf[u.storage[i].port] = "uhci"
    /\ ~h.change[u.storage[i].port]
    => h.plugged[u.storage[i].port] = u.storage[i].dev

Tables(u) == u \in UsbState /\ Len(u.storage) <= MaxStorage /\ Bindings(u)

\* No disk that counts as present is on port p.
Idle(u, p) == \A i \in 1..Len(u.storage) : u.storage[i].present => u.storage[i].port # p

\* Entries are appended, and old ones at most marked as removed.
Grows(u, v) ==
  /\ Len(u.storage) <= Len(v.storage)
  /\ \A i \in 1..Len(u.storage) :
       /\ v.storage[i].dev = u.storage[i].dev
       /\ v.storage[i].port = u.storage[i].port
       /\ v.storage[i].slot = u.storage[i].slot
       /\ v.storage[i].present => u.storage[i].present

\* The types of the fields of the drivers' tables and of the hardware.
LEMMA StateFields ==
  ASSUME NEW u \in UsbState
  PROVE  /\ u.pstate \in [PortSet -> IGNORED..MaxStorage]
         /\ u.storage \in Seq(Entry)
         /\ u.slots \subseteq Nat
         /\ Len(u.storage) \in Nat
         /\ \A i \in 1..Len(u.storage) : u.storage[i] \in Entry
         /\ \A i \in 1..Len(u.storage) : u.storage[i].port \in PortSet
         /\ \A p \in PortSet : u.pstate[p] \in IGNORED..MaxStorage
<1>1. /\ u.pstate \in [PortSet -> IGNORED..MaxStorage]
      /\ u.storage \in Seq(Entry)
      /\ u.slots \subseteq Nat
  BY DEF UsbState
<1>2. Len(u.storage) \in Nat /\ \A i \in 1..Len(u.storage) : u.storage[i] \in Entry
  BY <1>1
<1>3. \A e \in Entry : e.port \in PortSet
  BY DEF Entry
<1> QED BY <1>1, <1>2, <1>3

\* A port with no disk on it can be marked as empty or to be ignored.
LEMMA Marked ==
  ASSUME NEW u, Tables(u), NEW p \in PortSet, Idle(u, p), NEW v \in {EMPTY, IGNORED}
  PROVE  LET w == [u EXCEPT !.pstate[p] = v]
         IN /\ Tables(w) /\ w.storage = u.storage /\ w.slots = u.slots
            /\ w.pstate = [u.pstate EXCEPT ![p] = v]
<1> DEFINE w == [u EXCEPT !.pstate[p] = v]
<1>1. u \in UsbState /\ Len(u.storage) <= MaxStorage /\ Bindings(u)
  BY DEF Tables
<1>2. v \in IGNORED..MaxStorage /\ ~Bound(v)
  BY PortsAssumption DEF EMPTY, IGNORED, Bound
<1>3. w \in UsbState /\ w.storage = u.storage /\ w.slots = u.slots /\ w.pstate = [u.pstate EXCEPT ![p] = v]
  BY <1>1, <1>2, ZenonT(60) DEF UsbState
<1>4. Bindings(w)
  <2> HIDE DEF w
  <2>1. ASSUME NEW i \in 1..Len(w.storage), w.storage[i].present
        PROVE  w.pstate[w.storage[i].port] = i
    <3>1. u.storage[i].port # p /\ u.storage[i].port \in PortSet /\ u.pstate[u.storage[i].port] = i
      BY <1>1, <1>3, <2>1, StateFields DEF Bindings, Idle
    <3> QED BY <1>1, <1>3, <3>1, StateFields
  <2>2. ASSUME NEW q \in PortSet, Bound(w.pstate[q])
        PROVE  w.pstate[q] <= Len(w.storage) /\ w.storage[w.pstate[q]].port = q
    <3>1. q # p /\ w.pstate[q] = u.pstate[q]
      BY <1>1, <1>2, <1>3, <2>2, StateFields
    <3> QED BY <1>1, <1>3, <2>2, <3>1 DEF Bindings
  <2> QED BY <2>1, <2>2 DEF Bindings
<1> QED BY <1>1, <1>3, <1>4 DEF Tables

\* usb_storage_mark_removed, and with it a port that is forgotten: nothing is
\* left on the port.
LEMMA ForgottenFacts ==
  ASSUME NEW u, Tables(u), NEW p \in PortSet
  PROVE  LET w == Forgotten(u, p)
         IN /\ Tables(w) /\ Idle(w, p) /\ w.slots = u.slots
            /\ Grows(u, w) /\ Len(w.storage) = Len(u.storage)
            /\ w.pstate[p] = EMPTY
<1> DEFINE s == u.pstate[p]
           v == MarkRemoved(u, s)
<1>1. u \in UsbState /\ Len(u.storage) <= MaxStorage /\ Bindings(u)
  BY DEF Tables
<1>2. s \in IGNORED..MaxStorage /\ Len(u.storage) \in Nat /\ (Bound(s) => s \in 1..Len(u.storage))
  BY <1>1, StateFields, PortsAssumption DEF Bindings, Bound, IGNORED
<1>3. /\ Tables(v) /\ Idle(v, p) /\ v.slots = u.slots
      /\ Grows(u, v) /\ Len(v.storage) = Len(u.storage)
  <2>1. CASE ~(Bound(s) /\ IsPresent(u, s))
    <3>1. v = u
      BY <2>1 DEF MarkRemoved
    <3>2. Idle(u, p)
      <4> SUFFICES ASSUME NEW i \in 1..Len(u.storage), u.storage[i].present, u.storage[i].port = p
                   PROVE  FALSE
        BY DEF Idle
      <4>1. s = i
        BY <1>1 DEF Bindings
      <4> QED BY <1>2, <2>1, <4>1 DEF Bound, IsPresent
    <3>3. Grows(u, u)
      BY <1>2 DEF Grows
    <3> QED BY <3>1, <3>2, <3>3
  <2>2. CASE Bound(s) /\ IsPresent(u, s)
    <3> DEFINE e0 == u.storage[s]
               e1 == [e0 EXCEPT !.present = FALSE]
    <3>1. s \in 1..Len(u.storage) /\ e0 \in Entry
      BY <1>1, <1>2, <2>2, StateFields
    <3>2. e1 \in Entry /\ e1.port = e0.port /\ e1.dev = e0.dev /\ e1.slot = e0.slot /\ ~e1.present
      <4> HIDE DEF e0
      <4> QED BY <3>1, ZenonT(60) DEF Entry
    <3>3. v = [u EXCEPT !.storage = [u.storage EXCEPT ![s] = e1]]
      BY <1>1, <2>2 DEF MarkRemoved, UsbState
    <3> HIDE DEF e1
    <3>4. /\ v.storage = [u.storage EXCEPT ![s] = e1] /\ v.pstate = u.pstate /\ v.slots = u.slots
          /\ v \in UsbState /\ Len(v.storage) = Len(u.storage)
      <4>1. [u.storage EXCEPT ![s] = e1] \in Seq(Entry) /\ Len([u.storage EXCEPT ![s] = e1]) = Len(u.storage)
        BY <1>1, <3>1, <3>2, StateFields, SeqExcept
      <4> QED BY <1>1, <3>3, <4>1, ZenonT(60) DEF UsbState
    <3> HIDE DEF v
    <3>5. /\ v.storage[s] = e1
          /\ \A i \in 1..Len(u.storage) : i # s => v.storage[i] = u.storage[i]
      BY <1>1, <3>1, <3>4, StateFields
    <3>6. Grows(u, v)
      <4>1. ASSUME NEW i \in 1..Len(u.storage)
            PROVE  /\ v.storage[i].dev = u.storage[i].dev
                   /\ v.storage[i].port = u.storage[i].port
                   /\ v.storage[i].slot = u.storage[i].slot
                   /\ v.storage[i].present => u.storage[i].present
        BY <3>2, <3>5
      <4> QED BY <1>2, <3>4, <4>1 DEF Grows
    <3>7. Bindings(v)
      BY <1>1, <3>1, <3>2, <3>4, <3>5 DEF Bindings, Bound
    <3>8. Idle(v, p)
      <4> SUFFICES ASSUME NEW i \in 1..Len(v.storage), v.storage[i].present, v.storage[i].port = p
                   PROVE  FALSE
        BY DEF Idle
      <4>1. i = s
        BY <3>4, <3>7 DEF Bindings
      <4> QED BY <3>2, <3>5, <4>1
    <3> QED BY <1>1, <3>4, <3>6, <3>7, <3>8 DEF Tables
  <2> QED BY <2>1, <2>2
<1> DEFINE w == [v EXCEPT !.pstate[p] = EMPTY]
<1>4. Forgotten(u, p) = w
  BY DEF Forgotten
<1> HIDE DEF v
<1>5. /\ Tables(w) /\ w.storage = v.storage /\ w.slots = v.slots
      /\ w.pstate = [v.pstate EXCEPT ![p] = EMPTY]
  BY <1>3, Marked, ZenonT(60)
<1>6. w.pstate[p] = EMPTY
  BY <1>3, <1>5, StateFields DEF Tables
<1> HIDE DEF w
<1>7. Idle(w, p) /\ Grows(u, w) /\ Len(w.storage) = Len(u.storage)
  BY <1>3, <1>5 DEF Idle, Grows
<1> QED BY <1>3, <1>4, <1>5, <1>6, <1>7

Entered(u, p, d, slot) == [Register(u, p, d, slot) EXCEPT !.pstate[p] = Len(u.storage) + 1]

\* A new disk is entered for a port with nothing on it.
LEMMA Registered ==
  ASSUME NEW u, Tables(u), NEW p \in PortSet, Idle(u, p), NEW d \in Disks, NEW slot \in Nat, ~Full(u)
  PROVE  LET w == Entered(u, p, d, slot)
         IN /\ Tables(w) /\ w.slots = u.slots /\ Grows(u, w)
            /\ Len(w.storage) = Len(u.storage) + 1
            /\ w.storage[Len(w.storage)] = [present |-> TRUE, port |-> p, dev |-> d, slot |-> slot]
            /\ \A i \in 1..Len(u.storage) : w.storage[i] = u.storage[i]
<1> DEFINE n == Len(u.storage)
           e == [present |-> TRUE, port |-> p, dev |-> d, slot |-> slot]
           w == Entered(u, p, d, slot)
<1>1. u \in UsbState /\ n <= MaxStorage /\ Bindings(u) /\ n \in Nat /\ u.storage \in Seq(Entry)
  BY StateFields DEF Tables
<1>2. e \in Entry /\ e.present /\ e.port = p
  BY DEF Entry
<1> HIDE DEF e
<1>3. n < MaxStorage /\ n + 1 \in IGNORED..MaxStorage
  BY <1>1, PortsAssumption DEF Full, IGNORED
<1>4. /\ w.storage = Append(u.storage, e) /\ w.slots = u.slots
      /\ w.pstate = [u.pstate EXCEPT ![p] = n + 1]
      /\ w \in UsbState
  <2>1. Append(u.storage, e) \in Seq(Entry)
    BY <1>1, <1>2
  <2>2. Register(u, p, d, slot) = [u EXCEPT !.storage = Append(u.storage, e)]
    BY DEF Register, e
  <2> QED BY <1>1, <1>3, <2>1, <2>2, ZenonT(60) DEF UsbState, Entered
<1> HIDE DEF w
<1>5. /\ Len(w.storage) = n + 1 /\ w.storage[n + 1] = e
      /\ \A i \in 1..n : w.storage[i] = u.storage[i]
  BY <1>1, <1>2, <1>4, SeqAppend
<1>6. Grows(u, w)
  BY <1>1, <1>5 DEF Grows
<1>7. Bindings(w)
  <2>1. ASSUME NEW i \in 1..Len(w.storage), w.storage[i].present
        PROVE  w.pstate[w.storage[i].port] = i
    <3>1. CASE i = n + 1
      BY <1>1, <1>2, <1>4, <1>5, <3>1, StateFields
    <3>2. CASE i # n + 1
      <4>1. i \in 1..n /\ w.storage[i] = u.storage[i]
        BY <1>1, <1>5, <3>2
      <4>2. u.storage[i].port # p /\ u.storage[i].port \in PortSet /\ u.pstate[u.storage[i].port] = i
        BY <1>1, <2>1, <4>1, StateFields DEF Idle, Bindings
      <4> QED BY <1>1, <1>4, <4>1, <4>2, StateFields
    <3> QED BY <3>1, <3>2
  <2>2. ASSUME NEW q \in PortSet, Bound(w.pstate[q])
        PROVE  w.pstate[q] <= Len(w.storage) /\ w.storage[w.pstate[q]].port = q
    <3>1. CASE q = p
      BY <1>1, <1>2, <1>4, <1>5, <3>1, StateFields
    <3>2. CASE q # p
      <4>1. w.pstate[q] = u.pstate[q] /\ u.pstate[q] \in IGNORED..MaxStorage
        BY <1>1, <1>4, <3>2, StateFields
      <4>2. u.pstate[q] \in 1..n /\ u.storage[u.pstate[q]].port = q
        BY <1>1, <2>2, <4>1, PortsAssumption DEF Bindings, Bound, IGNORED
      <4> QED BY <1>1, <1>5, <4>1, <4>2
    <3> QED BY <3>1, <3>2
  <2> QED BY <2>1, <2>2 DEF Bindings
<1>8. n + 1 <= MaxStorage
  BY <1>1, <1>3, PortsAssumption
<1> QED BY <1>4, <1>5, <1>6, <1>7, <1>8 DEF Tables, e, w

\* What holds of the drivers' tables and the hardware after every step.
Good(u, h) == Tables(u) /\ u.slots = SlotsOf(u) /\ h \in HwState /\ Swaps(u, h)

\* A port that is not bound to a disk that counts as present has none on it.
LEMMA IdleUnbound ==
  ASSUME NEW u, Tables(u), NEW p \in PortSet, ~(Bound(u.pstate[p]) /\ IsPresent(u, u.pstate[p]))
  PROVE  Idle(u, p)
<1> SUFFICES ASSUME NEW i \in 1..Len(u.storage), u.storage[i].present, u.storage[i].port = p
             PROVE  FALSE
  BY DEF Idle
<1>1. u.pstate[p] = i /\ Len(u.storage) \in Nat
  BY StateFields DEF Tables, Bindings
<1> QED BY <1>1 DEF Bound, IsPresent

\* The slots in use after an entry is appended.
LEMMA SlotsGrow ==
  ASSUME NEW u, NEW w, Len(u.storage) \in Nat, Len(w.storage) = Len(u.storage) + 1,
         \A i \in 1..Len(u.storage) : w.storage[i] = u.storage[i],
         NEW e, w.storage[Len(w.storage)] = e
  PROVE  /\ BusOf[e.port] = "xhci" => SlotsOf(w) = SlotsOf(u) \cup {e.slot}
         /\ BusOf[e.port] # "xhci" => SlotsOf(w) = SlotsOf(u)
<1>1. 1..Len(w.storage) = (1..Len(u.storage)) \cup {Len(u.storage) + 1}
  OBVIOUS
<1> DEFINE I(x) == {i \in 1..Len(x.storage) : BusOf[x.storage[i].port] = "xhci"}
           n == Len(u.storage) + 1
<1>2. /\ BusOf[e.port] = "xhci" => I(w) = I(u) \cup {n}
      /\ BusOf[e.port] # "xhci" => I(w) = I(u)
  BY <1>1
<1>3. (\A i \in I(u) : w.storage[i] = u.storage[i]) /\ w.storage[n] = e
  OBVIOUS
<1>4. SlotsOf(w) = {w.storage[i].slot : i \in I(w)} /\ SlotsOf(u) = {u.storage[i].slot : i \in I(u)}
  BY DEF SlotsOf
<1> HIDE DEF I, n
<1> QED BY <1>2, <1>3, <1>4

\* The slots in use depend only on the entries' ports and slots.
LEMMA SlotsSame ==
  ASSUME NEW u, NEW w, Len(w.storage) = Len(u.storage),
         \A i \in 1..Len(u.storage) : w.storage[i].port = u.storage[i].port /\ w.storage[i].slot = u.storage[i].slot
  PROVE  SlotsOf(w) = SlotsOf(u)
BY DEF SlotsOf

\* The outcome of an enumeration on p: nothing but an entry for the device there
\* is added, and slots agree with entries.
Enumerated(u, h, p, w) ==
  /\ Tables(w)
  /\ w.slots = SlotsOf(w)
  /\ Grows(u, w)
  /\ \A i \in 1..Len(w.storage) :
       i > Len(u.storage) => w.storage[i].port = p /\ w.storage[i].dev = h.plugged[p]

\* An enumeration that ends with a device that is ignored keeps the tables.
LEMMA IgnoredEnumerated ==
  ASSUME NEW u, Tables(u), u.slots = SlotsOf(u), NEW h, NEW p \in PortSet, Idle(u, p)
  PROVE  Enumerated(u, h, p, [u EXCEPT !.pstate[p] = IGNORED])
<1> DEFINE w == [u EXCEPT !.pstate[p] = IGNORED]
<1>1. Tables(w) /\ w.storage = u.storage /\ w.slots = u.slots
  BY Marked, ZenonT(60)
<1> HIDE DEF w
<1>2. Len(u.storage) \in Nat
  BY StateFields DEF Tables
<1>3. SlotsOf(w) = SlotsOf(u)
  BY <1>1 DEF SlotsOf
<1>4. Grows(u, w)
  BY <1>1, <1>2 DEF Grows
<1>5. \A i \in 1..Len(w.storage) : ~(i > Len(u.storage))
  BY <1>1, <1>2
<1>6. Enumerated(u, h, p, w)
  BY <1>1, <1>3, <1>4, <1>5 DEF Enumerated
<1> QED BY <1>6 DEF w

\* usb_storage_register_bot() fills the next entry of g_storage or, when it is full,
\* leaves it alone.
LEMMA RegisteredEnumerated ==
  ASSUME NEW u, Tables(u), NEW h, NEW p \in PortSet, Idle(u, p), h.plugged[p] \in Disks, ~Full(u),
         NEW slot \in Nat, NEW old, old.storage = u.storage,
         u.slots = IF BusOf[p] = "xhci" THEN SlotsOf(old) \cup {slot} ELSE SlotsOf(old)
  PROVE  Enumerated(old, h, p, Entered(u, p, h.plugged[p], slot))
<1> DEFINE d == h.plugged[p]
           w == Entered(u, p, d, slot)
           e == [present |-> TRUE, port |-> p, dev |-> d, slot |-> slot]
<1>1. /\ Tables(w) /\ w.slots = u.slots /\ Grows(u, w)
      /\ Len(w.storage) = Len(u.storage) + 1
      /\ w.storage[Len(w.storage)] = e
      /\ \A i \in 1..Len(u.storage) : w.storage[i] = u.storage[i]
  BY Registered
<1> HIDE DEF w
<1>2. Len(u.storage) \in Nat
  BY StateFields DEF Tables
<1>3. e.port = p /\ e.slot = slot /\ e.dev = d
  OBVIOUS
<1> HIDE DEF e
<1>4. SlotsOf(old) = SlotsOf(u)
  BY DEF SlotsOf
<1>5. w.slots = SlotsOf(w)
  BY <1>1, <1>2, <1>3, <1>4, SlotsGrow
<1>6. Grows(old, w)
  BY <1>1 DEF Grows
<1>7. \A i \in 1..Len(w.storage) :
        i > Len(old.storage) => w.storage[i].port = p /\ w.storage[i].dev = h.plugged[p]
  <2> SUFFICES ASSUME NEW i \in 1..Len(w.storage), i > Len(old.storage)
               PROVE  w.storage[i].port = p /\ w.storage[i].dev = h.plugged[p]
    OBVIOUS
  <2>1. i = Len(w.storage)
    BY <1>1, <1>2
  <2> QED BY <1>1, <1>3, <2>1
<1>8. Enumerated(old, h, p, w)
  BY <1>1, <1>5, <1>6, <1>7 DEF Enumerated
<1> QED BY <1>8 DEF w

\* Every outcome of an enumeration on a UHCI port keeps the tables.
LEMMA UhciEnumerated ==
  ASSUME NEW u, Tables(u), u.slots = SlotsOf(u), NEW h, NEW p \in PortSet, Idle(u, p),
         BusOf[p] # "xhci", NEW stage, stage = "none" => h.plugged[p] \in Disks
  PROVE  /\ Enumerated(u, h, p, UhciEnumerate(u, h, p, stage))
         /\ Enumerated(u, h, p, EhciEnumerate(u, h, p, stage))
<1>1. Enumerated(u, h, p, [u EXCEPT !.pstate[p] = IGNORED])
  BY IgnoredEnumerated
<1>2. ASSUME ~Full(u), stage = "none"
      PROVE  Enumerated(u, h, p, Entered(u, p, h.plugged[p], 0))
  BY <1>2, RegisteredEnumerated, ZenonT(60)
<1> QED BY <1>1, <1>2 DEF UhciEnumerate, EhciEnumerate, Entered

\* A slot that was enabled is given back, or belongs to the new entry.
LEMMA XhciEnumerated ==
  ASSUME NEW u, Tables(u), u.slots = SlotsOf(u), NEW h, NEW p \in PortSet, Idle(u, p),
         BusOf[p] = "xhci", NEW stage, stage = "none" => h.plugged[p] \in Disks
  PROVE  Enumerated(u, h, p, XhciEnumerate(u, h, p, stage))
<1> DEFINE d == h.plugged[p]
           s == CHOOSE s \in FreeSlots(u) : TRUE
           w == [u EXCEPT !.slots = @ \cup {s}]
           ignored == [u EXCEPT !.pstate[p] = IGNORED]
<1>1. CASE Full(u) \/ stage \in {"reset", "slot"} \/ FreeSlots(u) = {}
  <2>1. XhciEnumerate(u, h, p, stage) = ignored
    BY <1>1 DEF XhciEnumerate
  <2> QED BY <2>1, IgnoredEnumerated
<1>2. CASE ~(Full(u) \/ stage \in {"reset", "slot"} \/ FreeSlots(u) = {})
  <2>1. s \in FreeSlots(u)
    BY <1>2
  <2> HIDE DEF s
  <2>2. s \in Nat /\ s \notin u.slots
    BY <2>1, PortsAssumption DEF FreeSlots
  <2>3. u \in UsbState
    BY DEF Tables
  <2>4. CASE stage # "none"
    <3>1. XhciEnumerate(u, h, p, stage) = DisableSlot([w EXCEPT !.pstate[p] = IGNORED], s)
      BY <1>2, <2>4 DEF XhciEnumerate, s
    <3>2. DisableSlot([w EXCEPT !.pstate[p] = IGNORED], s) = ignored
      <4>1. (u.slots \cup {s}) \ {s} = u.slots
        BY <2>2
      <4> QED BY <2>3, <4>1, ZenonT(60) DEF DisableSlot, UsbState
    <3> QED BY <3>1, <3>2, IgnoredEnumerated
  <2>5. CASE stage = "none"
    <3>1. XhciEnumerate(u, h, p, stage) = Entered(w, p, d, s)
      BY <1>2, <2>5 DEF XhciEnumerate, s, Entered
    <3>2. /\ w \in UsbState /\ w.storage = u.storage /\ w.pstate = u.pstate
          /\ w.slots = SlotsOf(u) \cup {s}
      BY <2>2, <2>3 DEF UsbState
    <3> HIDE DEF w
    <3>3. Tables(w) /\ Idle(w, p) /\ ~Full(w)
      BY <1>2, <3>2 DEF Tables, Bindings, Idle, Full
    <3>4. Enumerated(u, h, p, Entered(w, p, d, s))
      BY <2>2, <2>5, <3>2, <3>3, RegisteredEnumerated
    <3> QED BY <3>1, <3>2, <3>4
  <2> QED BY <2>4, <2>5
<1> QED BY <1>1, <1>2

\* The registers after the change bit is cleared.
LEMMA Cleared ==
  ASSUME NEW h \in HwState, NEW p \in PortSet
  PROVE  LET g == ClearChange(h, p)
         IN /\ g \in HwState /\ g.plugged = h.plugged
            /\ ~g.change[p]
            /\ \A q \in PortSet : q # p => g.change[q] = h.change[q]
BY ZenonT(60) DEF ClearChange, HwState

\* An entry of the device that is in the port is no swap.
LEMMA SwapsKept ==
  ASSUME NEW u, NEW w, NEW h, NEW g, NEW p \in PortSet, Tables(u), Enumerated(u, h, p, w),
         Swaps(u, g), g.plugged = h.plugged
  PROVE  Swaps(w, g)
<1> SUFFICES ASSUME NEW i \in 1..Len(w.storage), w.storage[i].present,
                    BusOf[w.storage[i].port] = "uhci", ~g.change[w.storage[i].port]
             PROVE  g.plugged[w.storage[i].port] = w.storage[i].dev
  BY DEF Swaps
<1>1. CASE i > Len(u.storage)
  BY <1>1 DEF Enumerated
<1>2. CASE ~(i > Len(u.storage))
  <2>1. i \in 1..Len(u.storage)
    BY <1>2, StateFields DEF Tables, Enumerated
  <2> QED BY <2>1 DEF Enumerated, Grows, Swaps
<1> QED BY <1>1, <1>2

\* A scan that finds nothing leaves g_storage as it is ...
LEMMA GrowsSelf ==
  ASSUME NEW u, Tables(u)
  PROVE  Grows(u, u)
<1>1. Len(u.storage) \in Nat
  BY StateFields DEF Tables
<1> QED BY <1>1 DEF Grows

\* ... and what two steps append to it is what they append together.
LEMMA GrowsOn ==
  ASSUME NEW u, NEW v, NEW w, Tables(u), Tables(v), Tables(w), Grows(u, v), Grows(v, w)
  PROVE  Grows(u, w)
<1>1. Len(u.storage) \in Nat /\ Len(v.storage) \in Nat /\ Len(w.storage) \in Nat
  BY StateFields DEF Tables
<1>2. \A i \in 1..Len(u.storage) : i \in 1..Len(v.storage)
  BY <1>1 DEF Grows
<1> QED BY <1>1, <1>2 DEF Grows

\* Clearing the change bit is right when nothing is on the port, or nothing had
\* changed there, or the port is not UHCI's.
LEMMA SwapsCleared ==
  ASSUME NEW u, NEW v, NEW h \in HwState, NEW p \in PortSet, Tables(u), Tables(v), Swaps(u, h), Grows(u, v),
         Len(v.storage) = Len(u.storage),
         Idle(v, p) \/ ~h.change[p] \/ BusOf[p] # "uhci"
  PROVE  Swaps(v, ClearChange(h, p))
<1> DEFINE g == ClearChange(h, p)
<1> SUFFICES ASSUME NEW i \in 1..Len(v.storage), v.storage[i].present,
                    BusOf[v.storage[i].port] = "uhci", ~g.change[v.storage[i].port]
             PROVE  g.plugged[v.storage[i].port] = v.storage[i].dev
  BY DEF Swaps
<1>1. g.plugged = h.plugged /\ \A q \in PortSet : q # p => g.change[q] = h.change[q]
  BY Cleared
<1> HIDE DEF g
<1>2. v.storage[i].port \in PortSet
  BY StateFields DEF Tables
<1>3. ~h.change[v.storage[i].port]
  <2>1. CASE v.storage[i].port = p
    BY <2>1 DEF Idle
  <2>2. CASE v.storage[i].port # p
    BY <1>1, <1>2, <2>2
  <2> QED BY <2>1, <2>2
<1> QED BY <1>1, <1>3 DEF Grows, Swaps

\* What a poll of one port leaves.
Polled(u, r) == Good(r.u, r.h) /\ Grows(u, r.u)

\* The fields of what a poll leaves: the tables and the hardware.
LEMMA PairFields ==
  ASSUME NEW u, NEW h
  PROVE  Pair(u, h).u = u /\ Pair(u, h).h = h
BY DEF Pair

\* The two ways on: nothing but the change bit, or an enumeration.
LEMMA PollKeeps ==
  ASSUME NEW u, NEW v, NEW h, NEW p \in PortSet, Good(u, h), Tables(v), v.slots = SlotsOf(v),
         Grows(u, v), Len(v.storage) = Len(u.storage),
         Idle(v, p) \/ ~h.change[p] \/ BusOf[p] # "uhci"
  PROVE  Polled(u, Pair(v, ClearChange(h, p)))
<1>1. ClearChange(h, p) \in HwState
  BY Cleared DEF Good
<1>2. Swaps(v, ClearChange(h, p))
  BY SwapsCleared DEF Good
<1> QED BY <1>1, <1>2, PairFields DEF Good, Polled

\* A poll that goes on to enumerate the port leaves what the enumeration does.
LEMMA PollEnumerates ==
  ASSUME NEW u, NEW v, NEW h, NEW p \in PortSet, Good(u, h), Tables(v),
         Grows(u, v), Len(v.storage) = Len(u.storage),
         Idle(v, p), NEW k, k.plugged = h.plugged, NEW w, Enumerated(v, k, p, w)
  PROVE  Polled(u, Pair(w, ClearChange(h, p)))
<1> DEFINE g == ClearChange(h, p)
<1>1. g \in HwState /\ g.plugged = h.plugged
  BY Cleared DEF Good
<1>2. Swaps(v, g)
  BY SwapsCleared DEF Good
<1> HIDE DEF g
<1>3. Swaps(w, g)
  BY <1>1, <1>2, SwapsKept
<1>4. Tables(w) /\ w.slots = SlotsOf(w) /\ Grows(u, w)
  BY GrowsOn DEF Enumerated, Good
<1> QED BY <1>1, <1>3, <1>4, PairFields DEF Good, Polled, g

\* A port that reads as not connected is forgotten.
LEMMA PollForgets ==
  ASSUME NEW u, NEW v, NEW h, NEW p \in PortSet, Good(u, h), Tables(v), v.slots = SlotsOf(v),
         Grows(u, v), Len(v.storage) = Len(u.storage)
  PROVE  Polled(u, Pair(Forgotten(v, p), ClearChange(h, p)))
<1> DEFINE w == Forgotten(v, p)
<1>1. /\ Tables(w) /\ Idle(w, p) /\ w.slots = v.slots
      /\ Grows(v, w) /\ Len(w.storage) = Len(v.storage)
  BY ForgottenFacts
<1> HIDE DEF w
<1>2. w.slots = SlotsOf(w)
  BY <1>1, SlotsSame DEF Grows
<1>3. Grows(u, w)
  BY <1>1, GrowsOn DEF Good
<1>4. Polled(u, Pair(w, ClearChange(h, p)))
  BY <1>1, <1>2, <1>3, PollKeeps
<1> QED BY <1>4 DEF w

\* A UHCI rescan of one port keeps the tables whatever is plugged there.
LEMMA UhciPolled ==
  ASSUME NEW u, NEW h, NEW p \in PortSet, NEW force, NEW stage, Good(u, h), BusOf[p] = "uhci",
         stage = "none" => h.plugged[p] \in Disks
  PROVE  Polled(u, UhciPort(u, h, p, force, stage))
<1> DEFINE u0 == IF force /\ u.pstate[p] = IGNORED THEN [u EXCEPT !.pstate[p] = EMPTY] ELSE u
           seen == IF h.change[p] THEN Forgotten(u0, p) ELSE u0
           h1 == ClearChange(h, p)
           s == seen.pstate[p]
<1>1. Tables(u0) /\ u0.slots = SlotsOf(u0) /\ u0.storage = u.storage
  <2>1. CASE force /\ u.pstate[p] = IGNORED
    <3> DEFINE w == [u EXCEPT !.pstate[p] = EMPTY]
    <3>1. Idle(u, p)
      BY <2>1, IdleUnbound DEF Good, Bound, IGNORED
    <3>2. Tables(w) /\ w.storage = u.storage /\ w.slots = u.slots
      BY <3>1, Marked, ZenonT(60) DEF Good
    <3>3. u0 = w
      BY <2>1
    <3> HIDE DEF w, u0
    <3> QED BY <3>2, <3>3 DEF Good, SlotsOf
  <2>2. CASE ~(force /\ u.pstate[p] = IGNORED)
    <3>1. u0 = u
      BY <2>2
    <3> QED BY <3>1 DEF Good
  <2> QED BY <2>1, <2>2
<1> HIDE DEF u0
<1>2. Grows(u, u0) /\ Len(u0.storage) = Len(u.storage)
  BY <1>1, GrowsSelf DEF Good, Grows
<1>3. /\ Tables(seen) /\ seen.slots = SlotsOf(seen)
      /\ Grows(u, seen) /\ Len(seen.storage) = Len(u.storage)
      /\ Idle(seen, p) \/ ~h.change[p]
  <2>1. CASE h.change[p]
    <3> DEFINE w == Forgotten(u0, p)
    <3>1. /\ Tables(w) /\ Idle(w, p) /\ w.slots = u0.slots
          /\ Grows(u0, w) /\ Len(w.storage) = Len(u0.storage)
      BY <1>1, ForgottenFacts
    <3>2. seen = w
      BY <2>1
    <3> HIDE DEF w, seen
    <3>3. w.slots = SlotsOf(w)
      BY <1>1, <3>1, SlotsSame DEF Grows
    <3>4. Grows(u, w)
      BY <1>1, <1>2, <3>1, GrowsOn DEF Good
    <3> QED BY <1>2, <3>1, <3>2, <3>3, <3>4
  <2>2. CASE ~h.change[p]
    BY <1>1, <1>2, <2>2
  <2> QED BY <2>1, <2>2
<1> HIDE DEF seen
<1>4. UhciPort(u, h, p, force, stage) =
        IF ~Connected(h, p) THEN Pair(Forgotten(seen, p), h1)
        ELSE IF (Bound(s) /\ IsPresent(seen, s)) \/ (s = IGNORED /\ ~force) THEN Pair(seen, h1)
        ELSE Pair(UhciEnumerate(seen, h1, p, stage), h1)
  BY DEF UhciPort, u0, seen
<1>5. Polled(u, Pair(Forgotten(seen, p), h1))
  BY <1>3, PollForgets
<1>6. Polled(u, Pair(seen, h1))
  BY <1>3, PollKeeps
<1>7. ASSUME ~(Bound(s) /\ IsPresent(seen, s)) PROVE Polled(u, Pair(UhciEnumerate(seen, h1, p, stage), h1))
  <2>1. Idle(seen, p)
    BY <1>3, <1>7, IdleUnbound
  <2>2. h1.plugged = h.plugged
    BY Cleared DEF Good
  <2> HIDE DEF h1
  <2>3. Enumerated(seen, h1, p, UhciEnumerate(seen, h1, p, stage))
    BY <1>3, <2>1, <2>2, UhciEnumerated, ZenonT(60)
  <2>4. Polled(u, Pair(UhciEnumerate(seen, h1, p, stage), ClearChange(h, p)))
    BY <1>3, <2>1, <2>2, <2>3, PollEnumerates
  <2> QED BY <2>4 DEF h1
<1> QED BY <1>4, <1>5, <1>6, <1>7

\* An xHCI rescan of one port does too.
LEMMA XhciPolled ==
  ASSUME NEW u, NEW h, NEW p \in PortSet, NEW force, NEW stage, Good(u, h), BusOf[p] = "xhci",
         stage = "none" => h.plugged[p] \in Disks
  PROVE  Polled(u, XhciPort(u, h, p, force, stage))
<1> DEFINE s == u.pstate[p]
<1>1. Tables(u) /\ u.slots = SlotsOf(u) /\ Grows(u, u)
  BY GrowsSelf DEF Good
<1>2. Polled(u, Pair(u, h)) /\ Polled(u, Pair(Forgotten(u, p), ClearChange(h, p)))
  BY <1>1, PollForgets, PairFields DEF Polled
<1>3. ASSUME ~(Bound(s) /\ IsPresent(u, s))
      PROVE  Polled(u, Pair(XhciEnumerate(u, h, p, stage), ClearChange(h, p)))
  <2>1. Idle(u, p)
    BY <1>1, <1>3, IdleUnbound
  <2>2. Enumerated(u, h, p, XhciEnumerate(u, h, p, stage))
    BY <1>1, <2>1, XhciEnumerated, ZenonT(60)
  <2> QED BY <1>1, <2>1, <2>2, PollEnumerates
<1> QED BY <1>2, <1>3 DEF XhciPort

\* Releasing the port moves the device to the companion and sets its change bit.
LEMMA EhciPolled ==
  ASSUME NEW u, NEW h, NEW p \in PortSet, NEW force, NEW stage, Good(u, h), BusOf[p] = "ehci",
         stage = "none" => h.plugged[p] \in Disks
  PROVE  Polled(u, EhciPort(u, h, p, force, stage))
<1> DEFINE s == u.pstate[p]
<1>1. Tables(u) /\ u.slots = SlotsOf(u) /\ Grows(u, u) /\ h \in HwState /\ Swaps(u, h)
  BY GrowsSelf DEF Good
<1>2. /\ Polled(u, Pair(u, h)) /\ Polled(u, Pair(Forgotten(u, p), ClearChange(h, p)))
      /\ Polled(u, Pair(u, ClearChange(h, p)))
  BY <1>1, PollForgets, PollKeeps, PairFields DEF Polled
<1>3. ASSUME ~(Bound(s) /\ IsPresent(u, s))
      PROVE  /\ Polled(u, Pair(EhciEnumerate(u, h, p, stage), ClearChange(h, p)))
             /\ Polled(u, Pair([u EXCEPT !.pstate[p] = IGNORED], Release(h, p)))
  <2>1. Idle(u, p)
    BY <1>1, <1>3, IdleUnbound
  <2>2. Enumerated(u, h, p, EhciEnumerate(u, h, p, stage))
    BY <1>1, <2>1, UhciEnumerated
  <2>3. Polled(u, Pair(EhciEnumerate(u, h, p, stage), ClearChange(h, p)))
    BY <1>1, <2>1, <2>2, PollEnumerates
  <2> DEFINE w == [u EXCEPT !.pstate[p] = IGNORED]
             g == Release(h, p)
             c == Companion[p]
  <2>4. Enumerated(u, h, p, w) /\ w.storage = u.storage
    BY <1>1, <2>1, IgnoredEnumerated, Marked
  <2>5. /\ g \in HwState
        /\ \A q \in PortSet : q # p /\ q # c => g.plugged[q] = h.plugged[q] /\ g.change[q] = h.change[q]
        /\ c \in PortSet => g.change[c]
    BY <1>1, ZenonT(60) DEF Release, HwState
  <2> HIDE DEF w, g
  <2>6. Swaps(w, g)
    <3> SUFFICES ASSUME NEW i \in 1..Len(w.storage), w.storage[i].present,
                        BusOf[w.storage[i].port] = "uhci", ~g.change[w.storage[i].port]
                 PROVE  g.plugged[w.storage[i].port] = w.storage[i].dev
      BY DEF Swaps
    <3>1. u.storage[i].port \in PortSet /\ u.storage[i].port # p /\ u.storage[i].port # c
      BY <1>1, <2>4, <2>5, StateFields DEF Tables
    <3> DEFINE o == u.storage[i].port
    <3>2. w.storage = u.storage
      BY <2>4
    <3>3. /\ i \in 1..Len(u.storage) /\ u.storage[i].present /\ BusOf[o] = "uhci"
          /\ ~g.change[o] /\ w.storage[i].port = o /\ w.storage[i].dev = u.storage[i].dev
      BY <3>2
    <3>4. g.plugged[o] = h.plugged[o] /\ g.change[o] = h.change[o]
      BY <2>5, <3>1
    <3>5. h.plugged[o] = u.storage[i].dev
      <4>1. Swaps(u, h)
        BY <1>1
      <4> QED BY ONLY <3>3, <3>4, <4>1, ZenonT(60) DEF Swaps
    <3> QED BY <3>3, <3>4, <3>5
  <2>7. Polled(u, Pair(w, g))
    BY <2>4, <2>5, <2>6, PairFields DEF Polled, Good, Enumerated
  <2> QED BY <2>3, <2>7 DEF w, g
<1> QED BY <1>2, <1>3 DEF EhciPort

-----------------------------------------------------------------------------
(* The registry.                                                           *)

DiskEntry == [backend : {"ahci", "usb"}, index : Nat, table : {"none", "GPT", "MBR"}]

\* Partitions of the first n disks.
PartsOf(n) == [disk : 1..n, num : Nat, start : Nat, count : Nat]

Found == {f \in [used : BOOLEAN, start : Nat, count : Int] : f.used => f.count \in Nat}

Registry ==
  {b \in [disks : Seq(DiskEntry), parts : Seq([disk : Nat, num : Nat, start : Nat, count : Nat]),
          regA : Nat, regU : Nat] :
     /\ Len(b.disks) <= MaxDisks
     /\ Len(b.parts) <= MaxPartitions
     /\ b.parts \in Seq(PartsOf(Len(b.disks)))}

\* The types of the fields of the registry of block devices.
LEMMA RegistryFields ==
  ASSUME NEW b \in Registry
  PROVE  /\ b.disks \in Seq(DiskEntry) /\ Len(b.disks) \in Nat /\ Len(b.disks) <= MaxDisks
         /\ b.parts \in Seq(PartsOf(Len(b.disks))) /\ Len(b.parts) \in Nat /\ Len(b.parts) <= MaxPartitions
         /\ b.regA \in Nat /\ b.regU \in Nat
<1>1. b \in [disks : Seq(DiskEntry), parts : Seq([disk : Nat, num : Nat, start : Nat, count : Nat]),
             regA : Nat, regU : Nat]
  BY DEF Registry
<1>2. b.disks \in Seq(DiskEntry) /\ b.regA \in Nat /\ b.regU \in Nat
      /\ b.parts \in Seq([disk : Nat, num : Nat, start : Nat, count : Nat])
  BY <1>1
<1>3. /\ Len(b.disks) <= MaxDisks /\ Len(b.parts) <= MaxPartitions
      /\ b.parts \in Seq(PartsOf(Len(b.disks)))
  BY DEF Registry
<1> QED BY <1>2, <1>3

\* A longer list of disks leaves the partitions what they are.
LEMMA PartsGrow ==
  ASSUME NEW n \in Nat, NEW m \in Nat, n <= m, NEW parts \in Seq(PartsOf(n))
  PROVE  parts \in Seq(PartsOf(m)) /\ parts \in Seq([disk : Nat, num : Nat, start : Nat, count : Nat])
<1>1. \A q \in PartsOf(n) : q \in PartsOf(m) /\ q \in [disk : Nat, num : Nat, start : Nat, count : Nat]
  BY DEF PartsOf
<1>2. \A i \in 1..Len(parts) : parts[i] \in PartsOf(n)
  OBVIOUS
<1> DEFINE Q == [disk : Nat, num : Nat, start : Nat, count : Nat]
<1>3. Len(parts) \in Nat /\ parts \in [1..Len(parts) -> PartsOf(n)]
  BY SeqShape
<1>4. parts \in [1..Len(parts) -> PartsOf(m)] /\ parts \in [1..Len(parts) -> Q]
  BY <1>1, <1>2, <1>3
<1> HIDE DEF Q
<1>5. parts \in Seq(PartsOf(m)) /\ parts \in Seq(Q)
  BY <1>3, <1>4, SeqIs
<1> QED BY <1>5 DEF Q

\* The loop that registers the partitions found on a disk.
PartStep(disk, found, before, i) ==
  IF found[i].used /\ Len(before) < MaxPartitions
  THEN Append(before, [disk |-> disk, num |-> i, start |-> found[i].start, count |-> found[i].count])
  ELSE before

PartLoop(b, disk, found) ==
  CHOOSE f : f = [i \in 0..Len(found) |-> IF i = 0 THEN b.parts ELSE PartStep(disk, found, f[i - 1], i)]

\* One turn of the loop over a partition table leaves a list of partitions.
LEMMA PartStepTypes ==
  ASSUME NEW n \in Nat, NEW disk \in 1..n, NEW found \in Seq(Found), NEW i \in 1..Len(found),
         NEW before \in Seq(PartsOf(n)), Len(before) <= MaxPartitions
  PROVE  LET after == PartStep(disk, found, before, i)
         IN /\ after \in Seq(PartsOf(n)) /\ Len(after) <= MaxPartitions /\ Len(before) <= Len(after)
            /\ \A j \in 1..Len(before) : after[j] = before[j]
<1>1. found[i] \in Found /\ Len(before) \in Nat
  OBVIOUS
<1>2. CASE found[i].used /\ Len(before) < MaxPartitions
  <2> DEFINE q == [disk |-> disk, num |-> i, start |-> found[i].start, count |-> found[i].count]
  <2>1. found[i].start \in Nat /\ found[i].count \in Nat
    BY <1>1, <1>2 DEF Found
  <2>2. q \in PartsOf(n)
    BY <2>1 DEF PartsOf
  <2>3. PartStep(disk, found, before, i) = Append(before, q)
    BY <1>2 DEF PartStep
  <2> HIDE DEF q
  <2> QED BY <1>1, <1>2, <2>2, <2>3, BlockAssumption
<1>3. CASE ~(found[i].used /\ Len(before) < MaxPartitions)
  BY <1>1, <1>3 DEF PartStep
<1> QED BY <1>2, <1>3

\* Each turn of that loop keeps the partitions there are and appends at most one,
\* of the disk being probed.
LEMMA PartLoopFacts ==
  ASSUME NEW b \in Registry, NEW disk \in 1..Len(b.disks), NEW found \in Seq(Found)
  PROVE  LET parts == PartLoop(b, disk, found)[Len(found)]
         IN /\ parts \in Seq(PartsOf(Len(b.disks))) /\ Len(parts) <= MaxPartitions
            /\ Len(b.parts) <= Len(parts)
<1> DEFINE n == Len(b.disks)
           m == Len(found)
           S == {q \in Seq(PartsOf(n)) : Len(q) <= MaxPartitions}
           step == [x \in S \X (1..m) |-> PartStep(disk, found, x[1], x[2])]
           f == PartLoop(b, disk, found)
<1>1. n \in Nat /\ m \in Nat /\ b.parts \in S
  BY RegistryFields
<1>2. \A q \in S, i \in 1..m : PartStep(disk, found, q, i) \in S
  BY <1>1, PartStepTypes
<1>3. step \in [S \X (1..m) -> S] /\ \A q \in S, i \in 1..m : step[<<q, i>>] = PartStep(disk, found, q, i)
  BY <1>2, ZenonT(60)
<1>4. PICK g : IsLoop(S, m, b.parts, step, g)
  <2> HIDE DEF S, step, m
  <2> QED BY <1>1, <1>3, LoopRuns, ZenonT(60)
<1> HIDE DEF S, step
<1>5. g = [i \in 0..m |-> IF i = 0 THEN b.parts ELSE PartStep(disk, found, g[i - 1], i)]
  <2>1. \A i \in 0..m : i = 0 \/ (i \in 1..m /\ i - 1 \in 0..m)
    BY <1>1
  <2>2. \A i \in 0..m : g[i] = IF i = 0 THEN b.parts ELSE PartStep(disk, found, g[i - 1], i)
    BY <1>3, <1>4, <2>1, ZenonT(60) DEF IsLoop
  <2>3. g = [i \in 0..m |-> g[i]]
    BY <1>4 DEF IsLoop
  <2> QED BY <2>2, <2>3
<1>6. f = [i \in 0..m |-> IF i = 0 THEN b.parts ELSE PartStep(disk, found, f[i - 1], i)]
  BY <1>5 DEF PartLoop
<1> HIDE DEF f
<1>7. f[0] = b.parts /\ \A i \in 1..m : f[i] = PartStep(disk, found, f[i - 1], i)
  BY <1>1, <1>6
<1> DEFINE G == {i \in 0..m : f[i] \in S /\ Len(b.parts) <= Len(f[i])}
<1>8. 0 \in G
  BY <1>1, <1>7, RegistryFields
<1>9. ASSUME NEW i \in 1..m, i - 1 \in G PROVE i \in G
  <2>1. f[i - 1] \in Seq(PartsOf(n)) /\ Len(f[i - 1]) <= MaxPartitions /\ Len(b.parts) <= Len(f[i - 1])
    BY <1>9 DEF S
  <2> DEFINE q == PartStep(disk, found, f[i - 1], i)
  <2>2. q \in Seq(PartsOf(n)) /\ Len(q) <= MaxPartitions /\ Len(f[i - 1]) <= Len(q)
    BY <1>1, <2>1, PartStepTypes
  <2>3. f[i] = q
    BY <1>7
  <2> HIDE DEF q
  <2>4. Len(b.parts) \in Nat /\ Len(q) \in Nat /\ Len(f[i - 1]) \in Nat
    BY <2>1, <2>2, RegistryFields
  <2>5. Len(b.parts) <= Len(q)
    BY <2>1, <2>2, <2>4
  <2> QED BY <2>2, <2>3, <2>5 DEF S
<1>10. m \in G
  <2> HIDE DEF G
  <2>1. \A i \in 0..m : i \in G
    BY <1>1, <1>8, <1>9, UpTo, ZenonT(60)
  <2> QED BY <1>1, <2>1
<1> QED BY <1>10 DEF S, f

\* So does the whole loop.
LEMMA AppendFacts ==
  ASSUME NEW b \in Registry, NEW disk \in 1..Len(b.disks), NEW found \in Seq(Found)
  PROVE  LET r == AppendPartitions(b, disk, found)
         IN /\ r \in Registry /\ r.disks = b.disks /\ r.regA = b.regA /\ r.regU = b.regU
            /\ Len(b.parts) <= Len(r.parts)
<1> DEFINE parts == PartLoop(b, disk, found)[Len(found)]
<1>1. AppendPartitions(b, disk, found) = [b EXCEPT !.parts = parts]
  BY ZenonT(60) DEF AppendPartitions, PartLoop, PartStep
<1>2. /\ parts \in Seq(PartsOf(Len(b.disks))) /\ Len(parts) <= MaxPartitions
      /\ Len(b.parts) <= Len(parts)
  BY PartLoopFacts
<1> HIDE DEF parts
<1>3. Len(b.disks) \in Nat /\ Len(b.disks) <= MaxDisks
  BY RegistryFields
<1>4. parts \in Seq([disk : Nat, num : Nat, start : Nat, count : Nat])
  BY <1>2, <1>3, PartsGrow
<1> DEFINE r == [b EXCEPT !.parts = parts]
<1>5. /\ r \in [disks : Seq(DiskEntry), parts : Seq([disk : Nat, num : Nat, start : Nat, count : Nat]),
                regA : Nat, regU : Nat]
      /\ r.disks = b.disks /\ r.regA = b.regA /\ r.regU = b.regU /\ r.parts = parts
  BY <1>4, ZenonT(60) DEF Registry
<1> HIDE DEF r
<1>6. r \in Registry
  BY <1>2, <1>3, <1>5 DEF Registry
<1> QED BY <1>1, <1>2, <1>5, <1>6 DEF r

\* Whatever the tables say, the entries taken from them have sensible counts.
LEMMA EntriesFound ==
  ASSUME NEW table \in PartitionTables
  PROVE  GptPartitions(table.gpt) \in Seq(Found) /\ MbrPartitions(table.mbr) \in Seq(Found)
<1>1. /\ table.gpt \in Seq([type : Nat, first : Nat, last : Nat])
      /\ table.mbr \in Seq([type : Nat, first : Nat, count : Nat])
  BY DEF PartitionTables
<1>2. ASSUME NEW e \in [type : Nat, first : Nat, last : Nat]
      PROVE  [used |-> e.type # ZeroGuid /\ ~(e.first = 0 /\ e.last = 0) /\ e.last >= e.first,
              start |-> e.first, count |-> e.last - e.first + 1] \in Found
  <2> DEFINE t == e.type # ZeroGuid /\ ~(e.first = 0 /\ e.last = 0) /\ e.last >= e.first
             c == e.last - e.first + 1
  <2>1. t \in BOOLEAN /\ e.first \in Nat /\ c \in Int /\ (t => c \in Nat)
    OBVIOUS
  <2> HIDE DEF t, c
  <2>2. [used |-> t, start |-> e.first, count |-> c] \in Found
    BY <2>1 DEF Found
  <2> QED BY <2>2 DEF t, c
<1>3. ASSUME NEW e \in [type : Nat, first : Nat, count : Nat]
      PROVE  [used |-> e.type # 0 /\ e.count # 0 /\ e.type # Protective,
              start |-> e.first, count |-> e.count] \in Found
  <2> DEFINE t == e.type # 0 /\ e.count # 0 /\ e.type # Protective
  <2>1. t \in BOOLEAN /\ e.first \in Nat /\ e.count \in Int /\ e.count \in Nat
    OBVIOUS
  <2> HIDE DEF t
  <2>2. [used |-> t, start |-> e.first, count |-> e.count] \in Found
    BY <2>1 DEF Found
  <2> QED BY <2>2 DEF t
<1>4. GptPartitions(table.gpt) \in [1..Len(table.gpt) -> Found] /\ Len(table.gpt) \in Nat
  <2>1. /\ Len(table.gpt) \in Nat
        /\ \A i \in 1..Len(table.gpt) : table.gpt[i] \in [type : Nat, first : Nat, last : Nat]
    BY <1>1, SeqShape, ZenonT(60)
  <2> QED BY <1>2, <2>1, ZenonT(60) DEF GptPartitions
<1>5. MbrPartitions(table.mbr) \in [1..Len(table.mbr) -> Found] /\ Len(table.mbr) \in Nat
  <2>1. /\ Len(table.mbr) \in Nat
        /\ \A i \in 1..Len(table.mbr) : table.mbr[i] \in [type : Nat, first : Nat, count : Nat]
    BY <1>1, SeqShape, ZenonT(60)
  <2> QED BY <1>3, <2>1, ZenonT(60) DEF MbrPartitions
<1> QED BY <1>4, <1>5, SeqIs

\* The list of disks is as before, except for the kind of table the disk has.
SameDisks(b, r, disk) ==
  /\ Len(r.disks) = Len(b.disks) /\ r.regA = b.regA /\ r.regU = b.regU
  /\ \A i \in 1..Len(b.disks) : /\ r.disks[i].backend = b.disks[i].backend
                                /\ r.disks[i].index = b.disks[i].index
                                /\ i # disk => r.disks[i] = b.disks[i]

\* Recording the kind of a disk's table changes no more than that.
LEMMA TableSet ==
  ASSUME NEW b \in Registry, NEW disk \in 1..Len(b.disks), NEW t \in {"GPT", "MBR"}
  PROVE  LET r == [b EXCEPT !.disks[disk].table = t]
         IN r \in Registry /\ SameDisks(b, r, disk)
<1> DEFINE e0 == b.disks[disk]
           e1 == [e0 EXCEPT !.table = t]
           ds == [b.disks EXCEPT ![disk] = e1]
           r == [b EXCEPT !.disks = ds]
<1>1. b.disks \in Seq(DiskEntry) /\ Len(b.disks) \in Nat /\ e0 \in DiskEntry
  BY RegistryFields
<1>2. e1 \in DiskEntry /\ e1.backend = e0.backend /\ e1.index = e0.index
  <2> HIDE DEF e0
  <2> QED BY <1>1 DEF DiskEntry
<1>3. [b EXCEPT !.disks[disk].table = t] = r
  BY DEF Registry
<1> HIDE DEF e1
<1>4. ds \in Seq(DiskEntry) /\ Len(ds) = Len(b.disks)
  BY <1>1, <1>2, SeqExcept
<1>5. ds[disk] = e1 /\ \A i \in 1..Len(b.disks) : i # disk => ds[i] = b.disks[i]
  BY <1>1
<1> HIDE DEF ds
<1>6. /\ r \in [disks : Seq(DiskEntry), parts : Seq([disk : Nat, num : Nat, start : Nat, count : Nat]),
                regA : Nat, regU : Nat]
      /\ r.disks = ds /\ r.regA = b.regA /\ r.regU = b.regU /\ r.parts = b.parts
  BY <1>4, ZenonT(60) DEF Registry
<1> HIDE DEF r
<1>7. r \in Registry
  BY <1>4, <1>6, RegistryFields DEF Registry
<1>8. SameDisks(b, r, disk)
  BY <1>2, <1>4, <1>5, <1>6 DEF SameDisks
<1> QED BY <1>3, <1>7, <1>8

\* probe_partitions_for_disk() keeps the disks, but for the kind of table of the one
\* it probes, and appends partitions of that one.
LEMMA ProbeFacts ==
  ASSUME NEW b \in Registry, NEW disk \in 1..Len(b.disks), NEW table \in PartitionTables
  PROVE  LET r == Probe(b, disk, table)
         IN r \in Registry /\ SameDisks(b, r, disk)
<1> DEFINE g == AppendPartitions(b, disk, GptPartitions(table.gpt))
           a == AppendPartitions(b, disk, MbrPartitions(table.mbr))
<1>1. /\ g \in Registry /\ g.disks = b.disks /\ g.regA = b.regA /\ g.regU = b.regU
      /\ a \in Registry /\ a.disks = b.disks /\ a.regA = b.regA /\ a.regU = b.regU
  BY EntriesFound, AppendFacts
<1>2. Probe(b, disk, table) \in {b, [g EXCEPT !.disks[disk].table = "GPT"], [a EXCEPT !.disks[disk].table = "MBR"]}
  BY DEF Probe
<1> HIDE DEF g, a
<1>3. SameDisks(b, b, disk)
  BY DEF SameDisks
<1>4. [g EXCEPT !.disks[disk].table = "GPT"] \in Registry
      /\ SameDisks(b, [g EXCEPT !.disks[disk].table = "GPT"], disk)
  <2> DEFINE r == [g EXCEPT !.disks[disk].table = "GPT"]
  <2>1. r \in Registry /\ SameDisks(g, r, disk)
    BY <1>1, TableSet, ZenonT(60)
  <2> HIDE DEF r
  <2>2. SameDisks(b, r, disk)
    BY <1>1, <2>1 DEF SameDisks
  <2> QED BY <2>1, <2>2 DEF r
<1>5. [a EXCEPT !.disks[disk].table = "MBR"] \in Registry
      /\ SameDisks(b, [a EXCEPT !.disks[disk].table = "MBR"], disk)
  <2> DEFINE r == [a EXCEPT !.disks[disk].table = "MBR"]
  <2>1. r \in Registry /\ SameDisks(a, r, disk)
    BY <1>1, TableSet, ZenonT(60)
  <2> HIDE DEF r
  <2>2. SameDisks(b, r, disk)
    BY <1>1, <2>1 DEF SameDisks
  <2> QED BY <2>1, <2>2 DEF r
<1> QED BY <1>2, <1>3, <1>4, <1>5

\* A disk that can be registered now.
Candidate(x) ==
  /\ x \in [backend : {"ahci", "usb"}, index : Nat]
  /\ x.index > 0
  /\ x.backend = "ahci" => x.index <= AhciMax

\* One disk more, at the end.
OneMore(b, r, x) ==
  /\ Len(r.disks) = Len(b.disks) + 1
  /\ r.disks[Len(r.disks)].backend = x.backend
  /\ r.disks[Len(r.disks)].index = x.index
  /\ \A i \in 1..Len(b.disks) : r.disks[i] = b.disks[i]
  /\ x.backend = "ahci" => r.regA = b.regA + 1 /\ r.regU = b.regU
  /\ x.backend = "usb" => r.regA = b.regA /\ r.regU = b.regU + 1

\* register_disk() appends the disk, if there is room, and its partitions.
LEMMA RegisterDiskFacts ==
  ASSUME NEW b \in Registry, NEW u, Tables(u), NEW h, NEW x, Candidate(x)
  PROVE  LET r == RegisterDisk(b, u, h, x)
         IN /\ r \in Registry
            /\ Len(b.disks) >= MaxDisks => r = b
            /\ Len(b.disks) < MaxDisks => OneMore(b, r, x)
<1>1. /\ b.disks \in Seq(DiskEntry) /\ Len(b.disks) \in Nat /\ MaxDisks \in Nat
      /\ b.parts \in Seq(PartsOf(Len(b.disks))) /\ Len(b.parts) <= MaxPartitions
      /\ b.regA \in Nat /\ b.regU \in Nat
  BY RegistryFields, BlockAssumption
<1>2. CASE Len(b.disks) >= MaxDisks
  BY <1>1, <1>2 DEF RegisterDisk
<1>3. CASE Len(b.disks) < MaxDisks
  <2> DEFINE n == Len(b.disks) + 1
             e == [backend |-> x.backend, index |-> x.index, table |-> "none"]
             ra == IF x.backend = "ahci" THEN b.regA + 1 ELSE b.regA
             ru == IF x.backend = "usb" THEN b.regU + 1 ELSE b.regU
             w == [b EXCEPT !.disks = Append(@, e),
                            !.regA = IF x.backend = "ahci" THEN @ + 1 ELSE @,
                            !.regU = IF x.backend = "usb" THEN @ + 1 ELSE @]
  <2>1. e \in DiskEntry /\ e.backend = x.backend /\ e.index = x.index
    BY DEF Candidate, DiskEntry
  <2>2. ra \in Nat /\ ru \in Nat
    BY <1>1
  <2>3. RegisterDisk(b, u, h, x) = IF Readable(u, h, x) THEN Probe(w, n, TableBehind(u, x)) ELSE w
    BY <1>1, <1>3 DEF RegisterDisk
  <2> HIDE DEF e
  <2>4. w = [b EXCEPT !.disks = Append(b.disks, e), !.regA = ra, !.regU = ru]
    BY DEF Registry
  <2> HIDE DEF ra, ru, w
  <2>5. /\ Append(b.disks, e) \in Seq(DiskEntry) /\ Len(Append(b.disks, e)) = n
        /\ Append(b.disks, e)[n] = e
        /\ \A i \in 1..Len(b.disks) : Append(b.disks, e)[i] = b.disks[i]
    BY <1>1, <2>1, SeqAppend
  <2>6. /\ w \in [disks : Seq(DiskEntry), parts : Seq([disk : Nat, num : Nat, start : Nat, count : Nat]),
                  regA : Nat, regU : Nat]
        /\ w.disks = Append(b.disks, e) /\ w.parts = b.parts /\ w.regA = ra /\ w.regU = ru
    BY <2>2, <2>4, <2>5, ZenonT(60) DEF Registry
  <2>7. n \in Nat /\ n <= MaxDisks /\ Len(b.disks) <= n /\ n \in 1..n
    BY <1>1, <1>3
  <2>8. b.parts \in Seq(PartsOf(n))
    BY <1>1, <2>7, PartsGrow
  <2>9. w \in Registry /\ Len(w.disks) = n
    BY <1>1, <2>5, <2>6, <2>7, <2>8 DEF Registry
  <2>10. OneMore(b, w, x)
    BY <2>1, <2>5, <2>6, <2>9 DEF OneMore, ra, ru
  <2>11. ASSUME Readable(u, h, x) PROVE TableBehind(u, x) \in PartitionTables
    <3>1. CASE x.backend = "ahci"
      <4>1. x.index \in 1..AhciMax
        BY <3>1, BlockAssumption DEF Candidate
      <4> QED BY <3>1, <4>1, BlockAssumption DEF TableBehind
    <3>2. CASE x.backend # "ahci"
      <4>1. x.index \in 1..Len(u.storage)
        BY <2>11, <3>2, StateFields DEF Readable, IsPresent, Candidate, Tables
      <4>2. u.storage[x.index].dev \in Disks
        BY <4>1, StateFields DEF Tables, Entry
      <4> QED BY <3>2, <4>2, BlockAssumption DEF TableBehind
    <3> QED BY <3>1, <3>2
  <2> DEFINE r == Probe(w, n, TableBehind(u, x))
  <2>12. ASSUME Readable(u, h, x) PROVE r \in Registry /\ OneMore(b, r, x)
    <3>1. r \in Registry /\ SameDisks(w, r, n)
      BY <2>7, <2>9, <2>11, <2>12, ProbeFacts
    <3> HIDE DEF r
    <3>2. \A i \in 1..Len(b.disks) : i # n /\ i \in 1..n
      BY <1>1
    <3> QED BY <2>7, <2>9, <2>10, <3>1, <3>2 DEF OneMore, SameDisks
  <2> QED BY <1>1, <1>3, <2>3, <2>9, <2>10, <2>12
<1> QED BY <1>1, <1>2, <1>3

\* The registry counts right: the USB disks in it are the first regU of g_storage,
\* in this order, and there are regA others.
Counted(b) ==
  /\ b \in Registry
  /\ b.regA + b.regU = Len(b.disks)
  /\ \A i \in 1..Len(b.disks) :
       IF b.disks[i].backend = "usb" THEN b.disks[i].index \in 1..b.regU
                                     ELSE b.disks[i].index \in 1..b.regA
  /\ \A k \in 1..b.regU : \E i \in 1..Len(b.disks) : b.disks[i].backend = "usb" /\ b.disks[i].index = k
  /\ \A i, j \in 1..Len(b.disks) :
       i < j /\ b.disks[i].backend = "usb" /\ b.disks[j].backend = "usb" =>
         b.disks[i].index < b.disks[j].index

\* Registering one more disk keeps the counts of the registry exact.
LEMMA CountedOn ==
  ASSUME NEW b, Counted(b), NEW r \in Registry, NEW x, Candidate(x), OneMore(b, r, x),
         x.backend = "usb" => x.index = b.regU + 1,
         x.backend = "ahci" => x.index = b.regA + 1
  PROVE  Counted(r)
<1> DEFINE n == Len(b.disks)
<1>1. n \in Nat /\ b.regA \in Nat /\ b.regU \in Nat /\ b.regA + b.regU = n
  BY RegistryFields DEF Counted
<1>2. /\ Len(r.disks) = n + 1
      /\ r.disks[n + 1].backend = x.backend /\ r.disks[n + 1].index = x.index
      /\ \A i \in 1..n : r.disks[i] = b.disks[i]
  BY DEF OneMore
<1>3. \A i \in 1..(n + 1) : i \in 1..n \/ i = n + 1
  BY <1>1
<1>4. ASSUME NEW i \in 1..n
      PROVE  /\ r.disks[i] = b.disks[i]
             /\ IF b.disks[i].backend = "usb" THEN b.disks[i].index \in 1..b.regU
                                              ELSE b.disks[i].index \in 1..b.regA
  BY <1>2 DEF Counted
<1>5. CASE x.backend = "usb"
  <2>1. x.index = b.regU + 1 /\ r.regA = b.regA /\ r.regU = b.regU + 1
    BY <1>5 DEF OneMore
  <2>2. r.regA + r.regU = Len(r.disks)
    <3>1. r.regA + r.regU = (b.regA + b.regU) + 1
      BY <1>1, <2>1
    <3> QED BY <1>1, <1>2, <3>1
  <2>3. ASSUME NEW i \in 1..Len(r.disks)
        PROVE  IF r.disks[i].backend = "usb" THEN r.disks[i].index \in 1..r.regU
                                             ELSE r.disks[i].index \in 1..r.regA
    <3>1. CASE i = n + 1
      BY <1>1, <1>2, <1>5, <2>1, <3>1
    <3>2. CASE i \in 1..n
      <4>1. 1..b.regU \subseteq 1..r.regU /\ 1..b.regA \subseteq 1..r.regA
        BY <1>1, <2>1
      <4> QED BY <1>4, <3>2, <4>1
    <3> QED BY <1>2, <1>3, <3>1, <3>2
  <2>4. ASSUME NEW k \in 1..r.regU
        PROVE  \E i \in 1..Len(r.disks) : r.disks[i].backend = "usb" /\ r.disks[i].index = k
    <3>1. CASE k = b.regU + 1
      <4>1. n + 1 \in 1..Len(r.disks)
        BY <1>1, <1>2
      <4> QED BY <1>2, <1>5, <2>1, <3>1, <4>1
    <3>2. CASE k # b.regU + 1
      <4>1. k \in 1..b.regU
        BY <1>1, <2>1, <3>2
      <4>2. PICK i \in 1..n : b.disks[i].backend = "usb" /\ b.disks[i].index = k
        BY <4>1 DEF Counted
      <4>3. i \in 1..Len(r.disks)
        BY <1>1, <1>2
      <4> QED BY <1>2, <4>2, <4>3
    <3> QED BY <3>1, <3>2
  <2>5. ASSUME NEW i \in 1..Len(r.disks), NEW j \in 1..Len(r.disks), i < j,
               r.disks[i].backend = "usb", r.disks[j].backend = "usb"
        PROVE  r.disks[i].index < r.disks[j].index
    <3>1. i \in 1..n
      BY <1>1, <1>2, <2>5
    <3>2. CASE j \in 1..n
      BY <1>2, <2>5, <3>1, <3>2 DEF Counted
    <3>3. CASE j = n + 1
      <4>1. b.disks[i].index \in 1..b.regU
        BY <1>2, <2>5, <3>1 DEF Counted
      <4>2. b.disks[i].index < b.regU + 1
        BY <1>1, <4>1
      <4> QED BY <1>2, <2>1, <3>1, <3>3, <4>2
    <3> QED BY <1>2, <1>3, <3>2, <3>3
  <2> QED BY <2>2, <2>3, <2>4, <2>5 DEF Counted
<1>6. CASE x.backend # "usb"
  <2>1. x.index = b.regA + 1 /\ r.regA = b.regA + 1 /\ r.regU = b.regU
    <3>1. x.backend = "ahci"
      BY <1>6 DEF Candidate
    <3> QED BY <3>1 DEF OneMore
  <2>2. r.regA + r.regU = Len(r.disks)
    <3>1. r.regA + r.regU = (b.regA + b.regU) + 1
      BY <1>1, <2>1
    <3> QED BY <1>1, <1>2, <3>1
  <2>3. ASSUME NEW i \in 1..Len(r.disks)
        PROVE  IF r.disks[i].backend = "usb" THEN r.disks[i].index \in 1..r.regU
                                             ELSE r.disks[i].index \in 1..r.regA
    <3>1. CASE i = n + 1
      <4>1. r.disks[i].backend # "usb" /\ r.disks[i].index = r.regA
        BY <1>2, <1>6, <2>1, <3>1
      <4>2. r.regA \in 1..r.regA
        BY <1>1, <2>1
      <4> QED BY <4>1, <4>2
    <3>2. CASE i \in 1..n
      <4>1. 1..b.regU \subseteq 1..r.regU /\ 1..b.regA \subseteq 1..r.regA
        BY <1>1, <2>1
      <4> QED BY <1>4, <3>2, <4>1
    <3> QED BY <1>2, <1>3, <3>1, <3>2
  <2>4. ASSUME NEW k \in 1..r.regU
        PROVE  \E i \in 1..Len(r.disks) : r.disks[i].backend = "usb" /\ r.disks[i].index = k
    <3>1. PICK i \in 1..n : b.disks[i].backend = "usb" /\ b.disks[i].index = k
      BY <2>1 DEF Counted
    <3>2. i \in 1..Len(r.disks)
      BY <1>1, <1>2
    <3> QED BY <1>2, <3>1, <3>2
  <2>5. ASSUME NEW i \in 1..Len(r.disks), NEW j \in 1..Len(r.disks), i < j,
               r.disks[i].backend = "usb", r.disks[j].backend = "usb"
        PROVE  r.disks[i].index < r.disks[j].index
    <3>1. i \in 1..n /\ j \in 1..n
      BY <1>2, <1>3, <1>6, <2>5
    <3> QED BY <1>2, <2>5, <3>1 DEF Counted
  <2> QED BY <2>2, <2>3, <2>4, <2>5 DEF Counted
<1> QED BY <1>5, <1>6

\* The disks a scan finds not yet registered: first na SATA disks, then the USB disks.
New(b, u, kind, sataDisks) ==
  (IF kind = "poll" THEN <<>> ELSE Unregistered("ahci", b.regA, sataDisks))
    \o Unregistered("usb", b.regU, Len(u.storage))

NewSata(b, kind, sataDisks) == IF kind = "poll" THEN 0 ELSE sataDisks - b.regA

\* One turn of the loop of block_rescan() registers one disk.
LEMMA NewFacts ==
  ASSUME NEW b, NEW u, NEW kind, NEW sataDisks \in Nat, b.regA \in Nat, b.regU \in Nat,
         Len(u.storage) \in Nat, b.regA <= sataDisks, b.regU <= Len(u.storage)
  PROVE  LET new == New(b, u, kind, sataDisks)
             na == NewSata(b, kind, sataDisks)
         IN /\ na \in Nat /\ b.regA + na <= sataDisks
            /\ Len(new) = na + (Len(u.storage) - b.regU)
            /\ \A i \in 1..Len(new) :
                 new[i] = IF i <= na THEN [backend |-> "ahci", index |-> b.regA + i]
                                     ELSE [backend |-> "usb", index |-> b.regU + (i - na)]
<1> DEFINE na == NewSata(b, kind, sataDisks)
           nu == Len(u.storage) - b.regU
           s == IF kind = "poll" THEN <<>> ELSE Unregistered("ahci", b.regA, sataDisks)
           t == Unregistered("usb", b.regU, Len(u.storage))
           E == [backend : {"ahci", "usb"}, index : Nat]
<1>1. na \in Nat /\ nu \in Nat /\ b.regA + na <= sataDisks
  BY DEF NewSata
<1>2. s \in Seq(E) /\ Len(s) = na /\ \A i \in 1..na : s[i] = [backend |-> "ahci", index |-> b.regA + i]
  <2>1. CASE kind = "poll"
    BY <2>1 DEF NewSata
  <2>2. CASE kind # "poll"
    <3>1. s = [i \in 1..na |-> [backend |-> "ahci", index |-> b.regA + i]] /\ na = sataDisks - b.regA
      BY <2>2 DEF Unregistered, NewSata
    <3>2. \A i \in 1..na : [backend |-> "ahci", index |-> b.regA + i] \in E
      BY <1>1
    <3>3. s \in [1..na -> E]
      BY <3>1, <3>2
    <3> HIDE DEF na, E, s
    <3>4. s \in Seq(E) /\ Len(s) = na
      <4>1. s \in Seq(E)
        BY <1>1, <3>3, SeqIs
      <4>2. DOMAIN s = 1..na
        BY <3>3
      <4> QED BY <1>1, <4>1, <4>2, SeqShape
    <3> QED BY <3>1, <3>4
  <2> QED BY <2>1, <2>2
<1>3. t \in Seq(E) /\ Len(t) = nu /\ \A i \in 1..nu : t[i] = [backend |-> "usb", index |-> b.regU + i]
  <2>1. t = [i \in 1..nu |-> [backend |-> "usb", index |-> b.regU + i]]
    BY DEF Unregistered
  <2>2. \A i \in 1..nu : [backend |-> "usb", index |-> b.regU + i] \in E
    BY <1>1
  <2>3. t \in [1..nu -> E]
    BY <2>1, <2>2
  <2> HIDE DEF nu, E
  <2>4. t \in Seq(E) /\ Len(t) = nu
    BY <1>1, <2>1, <2>3, SeqIs
  <2> QED BY <2>1, <2>4
<1>4. New(b, u, kind, sataDisks) = s \o t
  BY DEF New
<1> HIDE DEF s, t, E, na
<1>5. /\ Len(s \o t) = na + nu
      /\ \A i \in 1..(na + nu) : (s \o t)[i] = IF i <= na THEN s[i] ELSE t[i - na]
  BY <1>1, <1>2, <1>3, SeqConcat
<1>6. ASSUME NEW i \in 1..(na + nu)
      PROVE  (s \o t)[i] = IF i <= na THEN [backend |-> "ahci", index |-> b.regA + i]
                                      ELSE [backend |-> "usb", index |-> b.regU + (i - na)]
  <2>1. CASE i <= na
    <3>1. i \in 1..na
      BY <1>1, <2>1
    <3> QED BY <1>2, <1>5, <2>1, <3>1
  <2>2. CASE ~(i <= na)
    <3>1. i - na \in 1..nu
      BY <1>1, <2>2
    <3> QED BY <1>3, <1>5, <2>2, <3>1
  <2> QED BY <2>1, <2>2, ZenonT(60)
<1> QED BY <1>1, <1>4, <1>5, <1>6 DEF na

\* The loop over them.
RegLoop(b, u, h, new) ==
  CHOOSE f : f = [i \in 0..Len(new) |-> IF i = 0 THEN b ELSE RegisterDisk(f[i - 1], u, h, new[i])]

\* Every turn of that loop runs on the registry the one before left.
LEMMA RegLoopTurns ==
  ASSUME NEW b \in Registry, NEW u, Tables(u), NEW h, NEW new, Len(new) \in Nat,
         \A i \in 1..Len(new) : Candidate(new[i])
  PROVE  LET f == RegLoop(b, u, h, new)
         IN f[0] = b /\ \A i \in 1..Len(new) : f[i] = RegisterDisk(f[i - 1], u, h, new[i])
<1> DEFINE m == Len(new)
           step == [x \in Registry \X (1..m) |-> RegisterDisk(x[1], u, h, new[x[2]])]
           f == RegLoop(b, u, h, new)
<1>1. \A q \in Registry, i \in 1..m : RegisterDisk(q, u, h, new[i]) \in Registry
  BY RegisterDiskFacts
<1>2. /\ step \in [Registry \X (1..m) -> Registry]
      /\ \A q \in Registry, i \in 1..m : step[<<q, i>>] = RegisterDisk(q, u, h, new[i])
  BY <1>1
<1> HIDE DEF step
<1>3. PICK g : IsLoop(Registry, m, b, step, g)
  <2> HIDE DEF m
  <2> QED BY <1>2, LoopRuns, ZenonT(60) DEF m
<1>4. g = [i \in 0..m |-> IF i = 0 THEN b ELSE RegisterDisk(g[i - 1], u, h, new[i])]
  <2>1. \A i \in 0..m : i = 0 \/ (i \in 1..m /\ i - 1 \in 0..m)
    OBVIOUS
  <2>2. \A i \in 0..m : g[i] = IF i = 0 THEN b ELSE RegisterDisk(g[i - 1], u, h, new[i])
    BY <1>2, <1>3, <2>1, ZenonT(60) DEF IsLoop
  <2>3. g = [i \in 0..m |-> g[i]]
    BY <1>3 DEF IsLoop
  <2> QED BY <2>2, <2>3
<1>5. f = [i \in 0..m |-> IF i = 0 THEN b ELSE RegisterDisk(f[i - 1], u, h, new[i])]
  BY <1>4 DEF RegLoop
<1> HIDE DEF f
<1>6. f[0] = b /\ \A i \in 1..m : f[i] = RegisterDisk(f[i - 1], u, h, new[i])
  BY <1>5
<1> QED BY <1>6 DEF f

\* Entries of the registry stay.
Longer(b, c) ==
  /\ Len(b.disks) <= Len(c.disks)
  /\ \A i \in 1..Len(b.disks) : c.disks[i] = b.disks[i]

\* All disks are registered in order, or the table is full.
LEMMA RegisterNewFacts ==
  ASSUME NEW b, Counted(b), NEW u, Tables(u), NEW h, NEW kind, NEW sataDisks \in 0..AhciMax,
         b.regA <= sataDisks, b.regU <= Len(u.storage)
  PROVE  LET c == RegisterNew(b, u, h, kind, sataDisks)
         IN /\ Counted(c) /\ Longer(b, c)
            /\ c.regA <= sataDisks /\ c.regU <= Len(u.storage)
            /\ Len(c.disks) < MaxDisks => c.regU = Len(u.storage)
<1> DEFINE new == New(b, u, kind, sataDisks)
           na == NewSata(b, kind, sataDisks)
           nu == Len(u.storage)
           m == Len(new)
           f == RegLoop(b, u, h, new)
<1>1. /\ b \in Registry /\ b.regA \in Nat /\ b.regU \in Nat /\ nu \in Nat /\ sataDisks \in Nat
      /\ Len(b.disks) \in Nat /\ MaxDisks \in Nat /\ sataDisks <= AhciMax /\ AhciMax \in Nat
  BY RegistryFields, StateFields, BlockAssumption DEF Counted, Tables
<1>2. /\ na \in Nat /\ b.regA + na <= sataDisks
      /\ m = na + (nu - b.regU)
      /\ \A i \in 1..m :
           new[i] = IF i <= na THEN [backend |-> "ahci", index |-> b.regA + i]
                               ELSE [backend |-> "usb", index |-> b.regU + (i - na)]
  BY <1>1, NewFacts
<1>3. RegisterNew(b, u, h, kind, sataDisks) = f[m]
  BY ZenonT(60) DEF RegisterNew, RegLoop, New
<1> HIDE DEF new, na, m
<1>4. m \in Nat
  BY <1>1, <1>2
<1>5. ASSUME NEW i \in 1..m PROVE Candidate(new[i])
  <2>1. CASE i <= na
    <3> DEFINE k == b.regA + i
    <3>1. new[i] = [backend |-> "ahci", index |-> k]
      BY <1>2, <2>1, ZenonT(60)
    <3>2. k \in Nat /\ k > 0 /\ k <= AhciMax
      BY <1>1, <1>2, <2>1
    <3> HIDE DEF k
    <3> QED BY <3>1, <3>2 DEF Candidate
  <2>2. CASE ~(i <= na)
    <3> DEFINE k == b.regU + (i - na)
    <3>1. new[i] = [backend |-> "usb", index |-> k]
      BY <1>2, <2>2, ZenonT(60)
    <3>2. k \in Nat /\ k > 0
      BY <1>1, <1>2, <2>2
    <3> HIDE DEF k
    <3> QED BY <3>1, <3>2 DEF Candidate
  <2> QED BY <2>1, <2>2
<1>6. f[0] = b /\ \A i \in 1..m : f[i] = RegisterDisk(f[i - 1], u, h, new[i])
  BY <1>1, <1>4, <1>5, RegLoopTurns DEF m
<1> HIDE DEF f
<1> DEFINE Upto(c, i) == /\ Counted(c) /\ Longer(b, c)
                         /\ c.regA <= sataDisks /\ c.regU <= nu
                         /\ Len(c.disks) < MaxDisks =>
                              /\ i <= na => c.regA = b.regA + i /\ c.regU = b.regU
                              /\ i >= na => c.regA = b.regA + na /\ c.regU = b.regU + (i - na)
           G == {i \in 0..m : Upto(f[i], i)}
<1>7. 0 \in G
  BY <1>1, <1>2, <1>4, <1>6 DEF Longer
<1>8. ASSUME NEW i \in 1..m, i - 1 \in G PROVE i \in G
  <2> DEFINE c == f[i - 1]
             r == RegisterDisk(c, u, h, new[i])
             x == new[i]
  <2>1. Upto(c, i - 1) /\ c \in Registry /\ Len(c.disks) \in Nat /\ c.regA \in Nat /\ c.regU \in Nat
    BY <1>8, RegistryFields, ZenonT(60) DEF Counted
  <2>2. /\ f[i] = r /\ r \in Registry
        /\ Len(c.disks) >= MaxDisks => r = c
        /\ Len(c.disks) < MaxDisks => OneMore(c, r, x)
    BY <1>5, <1>6, <2>1, RegisterDiskFacts
  <2> HIDE DEF r, c
  <2>3. CASE Len(c.disks) >= MaxDisks
    BY <1>1, <2>1, <2>2, <2>3
  <2>4. CASE Len(c.disks) < MaxDisks
    <3>1. x = IF i <= na THEN [backend |-> "ahci", index |-> b.regA + i]
                         ELSE [backend |-> "usb", index |-> b.regU + (i - na)]
      BY <1>2
    <3> HIDE DEF x
    <3>2. Longer(b, r)
      <4>1. Len(b.disks) <= Len(c.disks) /\ \A k \in 1..Len(b.disks) : k \in 1..Len(c.disks)
        BY <1>1, <2>1 DEF Longer
      <4> QED BY <1>1, <2>1, <2>2, <2>4, <4>1 DEF Longer, OneMore
    <3>3. Candidate(x)
      BY <1>5 DEF x
    <3>4. CASE i <= na
      <4>1. /\ x.backend = "ahci" /\ x.index = b.regA + i
            /\ c.regA = b.regA + (i - 1) /\ c.regU = b.regU
        BY <1>2, <2>1, <2>4, <3>1, <3>4
      <4>2. r.regA = c.regA + 1 /\ r.regU = c.regU
        BY <2>2, <2>4, <4>1 DEF OneMore
      <4>3. Counted(r)
        BY <1>1, <2>1, <2>2, <2>4, <3>3, <4>1, CountedOn
      <4>4. /\ r.regA = b.regA + i /\ r.regU = b.regU /\ r.regA <= sataDisks
            /\ i >= na => i = na
        BY <1>1, <1>2, <3>4, <4>1, <4>2
      <4>5. Upto(r, i)
        BY <1>1, <1>2, <2>1, <3>2, <4>2, <4>3, <4>4
      <4> QED BY <2>2, <4>5
    <3>5. CASE ~(i <= na)
      <4>1. /\ x.backend = "usb" /\ x.index = b.regU + (i - na)
            /\ c.regA = b.regA + na /\ c.regU = b.regU + ((i - 1) - na)
        BY <1>2, <2>1, <2>4, <3>1, <3>5
      <4>2. r.regA = c.regA /\ r.regU = c.regU + 1
        BY <2>2, <2>4, <4>1 DEF OneMore
      <4>3. Counted(r)
        <5>1. x.index = c.regU + 1
          BY <1>1, <1>2, <4>1
        <5> QED BY <2>1, <2>2, <2>4, <3>3, <4>1, <5>1, CountedOn
      <4>4. r.regU = b.regU + (i - na) /\ r.regU <= nu
        BY <1>1, <1>2, <3>5, <4>1, <4>2
      <4>5. Upto(r, i)
        BY <1>1, <1>2, <2>1, <3>2, <3>5, <4>1, <4>2, <4>3, <4>4
      <4> QED BY <2>2, <4>5
    <3> QED BY <3>4, <3>5, ZenonT(60)
  <2> QED BY <1>1, <2>1, <2>3, <2>4
<1>9. m \in G
  <2> HIDE DEF G
  <2>1. \A i \in 0..m : i \in G
    BY <1>4, <1>7, <1>8, UpTo
  <2> QED BY <1>4, <2>1
<1>10. Upto(f[m], m)
  BY <1>9
<1>11. m >= na /\ b.regU + (m - na) = nu
  BY <1>1, <1>2
<1> QED BY <1>3, <1>10, <1>11

-----------------------------------------------------------------------------
(* The specification.                                                      *)

BlockInv ==
  /\ Good(usb, hw)
  /\ Counted(blk)
  /\ ahci \in 0..AhciMax /\ blk.regA <= ahci /\ blk.regU <= Len(usb.storage)
  /\ scan \in [kind : {"no", "boot", "poll", "full"}, at : 0..(Len(Ports) + 1)]
  /\ scan.kind # "no" => scan.at # 0
  /\ scan.kind = "no" /\ Len(blk.disks) < MaxDisks => blk.regU = Len(usb.storage)

\* The machine boots with nothing plugged in and nothing registered.
LEMMA BlockInitInv == BlockInit => BlockInv
<1> SUFFICES ASSUME BlockInit PROVE BlockInv
  OBVIOUS
<1>1. usb.storage = <<>> /\ usb.slots = {} /\ usb.pstate = [p \in PortSet |-> EMPTY] /\ Len(usb.storage) = 0
  BY DEF BlockInit, PortsInit
<1>2. usb \in UsbState
  BY PortsAssumption DEF UsbState, EMPTY, IGNORED, BlockInit, PortsInit
<1>3. Bindings(usb) /\ SlotsOf(usb) = {} /\ Swaps(usb, hw)
  BY <1>1 DEF Bindings, SlotsOf, Swaps, Bound, EMPTY
<1>4. hw \in HwState
  BY DEF HwState, BlockInit, PortsInit
<1>5. Good(usb, hw)
  BY <1>1, <1>2, <1>3, <1>4, PortsAssumption DEF Good, Tables
<1>6. blk \in Registry
  <2>1. /\ blk \in [disks : Seq(DiskEntry), parts : Seq([disk : Nat, num : Nat, start : Nat, count : Nat]),
                    regA : Nat, regU : Nat]
        /\ blk.disks = <<>> /\ blk.parts = <<>>
    BY DEF BlockInit
  <2>2. Len(blk.disks) = 0 /\ Len(blk.parts) = 0 /\ blk.parts \in Seq(PartsOf(Len(blk.disks)))
    BY <2>1
  <2> QED BY <2>1, <2>2, BlockAssumption DEF Registry
<1>7. Counted(blk)
  BY <1>6 DEF Counted, BlockInit
<1>8. Len(Ports) \in Nat
  BY PortsAssumption
<1> QED BY <1>1, <1>5, <1>7, <1>8, BlockAssumption DEF BlockInv, BlockInit

\* A port of a scan: whatever the enumeration comes to, the tables stay right.
LEMMA ScanPortGood ==
  ASSUME Good(usb, hw), NEW p \in PortSet, NEW force, ScanPort(p, force)
  PROVE  Good(usb', hw') /\ Grows(usb, usb')
<1> DEFINE r(stage) == PortAfter(usb, hw, p, force, stage)
<1>1. ASSUME NEW stage, stage = "none" => hw.plugged[p] \in Disks PROVE Polled(usb, r(stage))
  <2>1. BusOf[p] = "uhci" \/ BusOf[p] = "xhci" \/ BusOf[p] = "ehci"
    BY PortsAssumption
  <2>2. CASE BusOf[p] = "uhci"
    <3>1. r(stage) = UhciPort(usb, hw, p, force, stage)
      BY <2>2 DEF PortAfter
    <3> QED BY <1>1, <2>2, <3>1, UhciPolled, ZenonT(60)
  <2>3. CASE BusOf[p] = "xhci"
    <3>1. r(stage) = XhciPort(usb, hw, p, force, stage)
      BY <2>3 DEF PortAfter
    <3> QED BY <1>1, <2>3, <3>1, XhciPolled, ZenonT(60)
  <2>4. CASE BusOf[p] = "ehci"
    <3>1. r(stage) = EhciPort(usb, hw, p, force, stage)
      BY <2>4 DEF PortAfter
    <3> QED BY <1>1, <2>4, <3>1, EhciPolled, ZenonT(60)
  <2> QED BY <2>1, <2>2, <2>3, <2>4
<1>2. PICK stage \in {Undisturbed(hw.plugged[p]), "line"} \cup Stages(p) : usb' = r(stage).u /\ hw' = r(stage).h
  <2> HIDE DEF r
  <2>1. PICK q : /\ \/ q = r(Undisturbed(hw.plugged[p]))
                    \/ q = r("line")
                    \/ \E stage \in Stages(p) : q = r(stage)
                 /\ usb' = q.u /\ hw' = q.h
    BY DEF ScanPort, r
  <2> QED BY <2>1
<1>3. stage = "none" => hw.plugged[p] \in Disks
  <2>1. "none" \notin Stages(p)
    BY PortsAssumption DEF Stages, UhciStages, XhciStages, EhciStages
  <2> QED BY <1>2, <2>1 DEF Undisturbed
<1>4. Polled(usb, r(stage))
  BY <1>1, <1>3
<1> HIDE DEF r
<1> QED BY <1>2, <1>4 DEF Polled

\* Plugging and unplugging set the change bit.
LEMMA PlugGood ==
  ASSUME Good(usb, hw), NEW p \in PortSet, (\E d \in Device : Plug(p, d)) \/ Unplug(p)
  PROVE  Good(usb', hw') /\ usb' = usb
<1>1. hw \in HwState /\ Swaps(usb, hw) /\ Tables(usb)
  BY DEF Good
<1>2. /\ usb' = usb /\ hw' \in HwState /\ hw'.change[p]
      /\ \A q \in PortSet : q # p => hw'.change[q] = hw.change[q] /\ hw'.plugged[q] = hw.plugged[q]
  <2>1. CASE \E d \in Device : Plug(p, d)
    <3>1. PICK d \in Device : Plug(p, d)
      BY <2>1
    <3>2. hw' = [hw EXCEPT !.plugged[p] = d, !.change[p] = TRUE] /\ usb' = usb
      BY <3>1, ZenonT(60) DEF Plug
    <3> QED BY <1>1, <3>2, ZenonT(60) DEF HwState
  <2>2. CASE Unplug(p)
    <3> DEFINE e == {q \in PortSet : BusOf[q] = "ehci" /\ Companion[q] = p /\ hw.released[q]}
               rel == [q \in PortSet |-> hw.released[q] /\ q \notin e]
    <3>1. hw' = [hw EXCEPT !.plugged[p] = None, !.change[p] = TRUE, !.released = rel] /\ usb' = usb
      BY <1>1, <2>2 DEF Unplug
    <3>2. rel \in [PortSet -> BOOLEAN]
      BY <1>1 DEF HwState
    <3> HIDE DEF rel
    <3> QED BY <1>1, <3>1, <3>2, ZenonT(60) DEF HwState
  <2> QED BY <2>1, <2>2
<1>3. Swaps(usb, hw')
  <2> SUFFICES ASSUME NEW i \in 1..Len(usb.storage), usb.storage[i].present,
                      BusOf[usb.storage[i].port] = "uhci", ~hw'.change[usb.storage[i].port]
               PROVE  hw'.plugged[usb.storage[i].port] = usb.storage[i].dev
    BY DEF Swaps
  <2>1. usb.storage[i].port \in PortSet /\ usb.storage[i].port # p
    BY <1>1, <1>2, StateFields, ZenonT(60) DEF Tables
  <2> QED BY <1>1, <1>2, <2>1, ZenonT(60) DEF Swaps
<1> QED BY <1>2, <1>3 DEF Good

\* What no step may do to the names (StableNames).
NamesKept ==
  /\ \A i \in 1..Len(blk.disks) : blk'.disks[i] = blk.disks[i]
  /\ \A i \in 1..Len(usb.storage) :
       /\ usb'.storage[i].dev = usb.storage[i].dev
       /\ usb'.storage[i].present => usb.storage[i].present

\* The invariant is inductive, and no step gives a name to another device.
LEMMA BlockNextInv ==
  ASSUME BlockInv, [BlockNext]_blockVars
  PROVE  BlockInv' /\ NamesKept
<1> DEFINE Kinds == {"no", "boot", "poll", "full"}
<1>1. /\ Good(usb, hw) /\ Tables(usb) /\ Counted(blk)
      /\ ahci \in 0..AhciMax /\ blk.regA <= ahci /\ blk.regU <= Len(usb.storage)
      /\ scan \in [kind : Kinds, at : 0..(Len(Ports) + 1)] /\ Len(Ports) \in Nat
      /\ scan.kind # "no" => scan.at # 0
      /\ scan.kind = "no" /\ Len(blk.disks) < MaxDisks => blk.regU = Len(usb.storage)
  BY PortsAssumption DEF BlockInv, Good
<1>2. blk.regA \in Nat /\ blk.regU \in Nat /\ Len(usb.storage) \in Nat /\ AhciMax \in Nat
  BY <1>1, RegistryFields, StateFields, BlockAssumption DEF Counted, Tables
<1>3. CASE UNCHANGED blockVars
  BY <1>1, <1>3 DEF blockVars, BlockInv, NamesKept
<1>4. ASSUME NEW kind \in {"poll", "full"}, ScanBegin(kind) PROVE BlockInv' /\ NamesKept
  <2>1. ahci' \in 0..AhciMax /\ blk.regA <= ahci'
    BY <1>1, <1>2, <1>4 DEF ScanBegin
  <2>2. scan' \in [kind : Kinds, at : 0..(Len(Ports) + 1)] /\ scan'.kind # "no" /\ scan'.at # 0
    BY <1>1, <1>4 DEF ScanBegin
  <2> QED BY <1>1, <1>4, <2>1, <2>2 DEF ScanBegin, BlockInv, NamesKept
<1>5. CASE ScanNextPort
  <2>1. scan.at \in 1..Len(Ports) /\ Ports[scan.at] \in PortSet
    BY <1>1, <1>5, PortsAssumption DEF ScanNextPort
  <2>2. Good(usb', hw') /\ Grows(usb, usb')
    BY <1>1, <1>5, <2>1, ScanPortGood DEF ScanNextPort
  <2>3. /\ scan' \in [kind : Kinds, at : 0..(Len(Ports) + 1)] /\ scan'.at # 0 /\ scan'.kind # "no"
        /\ ahci' = ahci /\ blk' = blk
    BY <1>1, <1>5, <2>1 DEF ScanNextPort
  <2>4. blk.regU <= Len(usb'.storage)
    <3>1. Len(usb'.storage) \in Nat
      BY <2>2, StateFields DEF Good, Tables
    <3> QED BY <1>1, <1>2, <2>2, <3>1 DEF Grows
  <2>5. BlockInv'
    BY <1>1, <2>2, <2>3, <2>4 DEF BlockInv
  <2> QED BY <2>2, <2>3, <2>5 DEF NamesKept, Grows
<1>6. CASE ScanEnd
  <2>1. /\ Counted(blk') /\ Longer(blk, blk')
        /\ blk'.regA <= ahci /\ blk'.regU <= Len(usb.storage)
        /\ Len(blk'.disks) < MaxDisks => blk'.regU = Len(usb.storage)
    BY <1>1, <1>6, RegisterNewFacts DEF ScanEnd
  <2>2. /\ scan' \in [kind : Kinds, at : 0..(Len(Ports) + 1)] /\ scan'.kind = "no"
        /\ ahci' = ahci /\ usb' = usb /\ hw' = hw
    BY <1>1, <1>6 DEF ScanEnd
  <2>3. BlockInv'
    BY <1>1, <2>1, <2>2 DEF BlockInv
  <2> QED BY <2>1, <2>2, <2>3 DEF NamesKept, Longer
<1>7. ASSUME NEW p \in PortSet, (\E d \in Device : BlockPlug(p, d)) \/ BlockUnplug(p)
      PROVE  BlockInv' /\ NamesKept
  <2>1. Good(usb', hw') /\ usb' = usb
    BY <1>1, <1>7, PlugGood DEF BlockPlug, BlockUnplug
  <2>2. scan' = scan /\ ahci' = ahci /\ blk' = blk
    BY <1>7 DEF BlockPlug, BlockUnplug
  <2>3. BlockInv'
    BY <1>1, <2>1, <2>2 DEF BlockInv
  <2> QED BY <2>1, <2>2, <2>3 DEF NamesKept
<1> QED BY <1>3, <1>4, <1>5, <1>6, <1>7 DEF BlockNext

\* The invariant is at least the property of ports, entries and slots.
LEMMA BlockInvPorts == BlockInv => PortsSound
<1> SUFFICES ASSUME BlockInv PROVE PortsSound
  OBVIOUS
<1>1. /\ usb \in UsbState /\ Len(usb.storage) <= MaxStorage /\ Bindings(usb)
      /\ usb.slots = SlotsOf(usb) /\ hw \in HwState /\ Swaps(usb, hw) /\ Counted(blk)
  BY DEF BlockInv, Good, Tables
<1>2. BlockTypeOK
  <2>1. hw.plugged \in [PortSet -> Device \cup {None}] /\ hw.change \in [PortSet -> BOOLEAN]
        /\ hw.released \in [PortSet -> BOOLEAN]
    BY <1>1 DEF HwState
  <2>2. usb.pstate \in [PortSet -> IGNORED..MaxStorage]
    BY <1>1, StateFields
  <2>3. Len(blk.disks) <= MaxDisks /\ Len(blk.parts) <= MaxPartitions /\ blk.regA + blk.regU = Len(blk.disks)
    BY <1>1, RegistryFields DEF Counted
  <2>4. scan.at \in 0..(Len(Ports) + 1)
    BY DEF BlockInv
  <2> QED BY <1>1, <2>1, <2>2, <2>3, <2>4 DEF BlockTypeOK
<1>3. BindingsExact /\ SlotsAccounted
  BY <1>1, ZenonT(60) DEF BindingsExact, Bindings, SlotsAccounted, SlotsOf
<1>4. SwapIsSeen
  BY <1>1, ZenonT(60) DEF SwapIsSeen, Swaps
<1> QED BY <1>2, <1>3, <1>4 DEF PortsSound

\* What a partition's request reaches depends on the table only through its
\* bounds, which it respects.
LEMMA BlockInvDisks == BlockInv => DisksSound
<1> SUFFICES ASSUME BlockInv PROVE DisksSound
  OBVIOUS
<1>1. Counted(blk) /\ blk \in Registry /\ Tables(usb) /\ Len(usb.storage) \in Nat /\ Len(blk.disks) \in Nat
      /\ blk.regU \in Nat /\ blk.regA \in Nat
      /\ ahci \in 0..AhciMax /\ blk.regA <= ahci /\ blk.regU <= Len(usb.storage) /\ AhciMax \in Nat
  BY StateFields, RegistryFields, BlockAssumption, ZenonT(60) DEF BlockInv, Good, Tables, Counted
<1>2. AllRegistered
  <2> DEFINE I == {i \in 1..Len(blk.disks) : blk.disks[i].backend = "usb"}
  <2>1. {blk.disks[i].index : i \in I} = 1..blk.regU
    BY <1>1, ZenonT(60) DEF Counted
  <2>2. scan.kind = "no" /\ Len(blk.disks) < MaxDisks => blk.regU = Len(usb.storage)
    BY DEF BlockInv
  <2> HIDE DEF I
  <2>3. scan.kind = "no" /\ Len(blk.disks) < MaxDisks => {blk.disks[i].index : i \in I} = 1..Len(usb.storage)
    BY <2>1, <2>2
  <2> QED BY <1>1, <2>3, ZenonT(60) DEF AllRegistered, Counted, I
<1>3. PartitionIsolation
  <2> SUFFICES ASSUME NEW j \in 1..Len(blk.parts),
                      NEW size, size = DiskSize(blk.disks[blk.parts[j].disk]),
                      NEW lba \in 0..(size + 1), NEW n \in 0..(size + 1)
               PROVE  PartReach(j, lba, n) \subseteq
                        (blk.parts[j].start..(blk.parts[j].start + blk.parts[j].count - 1)) \cap (0..(size - 1))
    BY DEF PartitionIsolation
  <2> DEFINE q == blk.parts[j]
             x == blk.disks[q.disk]
  <2>1. q \in PartsOf(Len(blk.disks))
    BY <1>1, RegistryFields
  <2>2. q.disk \in 1..Len(blk.disks) /\ q.start \in Nat /\ q.count \in Nat
    BY <2>1 DEF PartsOf
  <2>3. size \in Nat
    <3>1. IF x.backend = "usb" THEN x.index \in 1..blk.regU ELSE x.index \in 1..blk.regA
      BY <1>1, <2>2, ZenonT(60) DEF Counted
    <3>2. 1..blk.regU \subseteq 1..Len(usb.storage) /\ 1..blk.regA \subseteq 1..AhciMax
      BY <1>1
    <3>3. CASE x.backend = "ahci"
      <4>1. x.index \in 1..AhciMax
        BY <3>3, <3>1, <3>2, ZenonT(60)
      <4> QED BY <3>3, <4>1, BlockAssumption, ZenonT(60) DEF DiskSize
    <3>4. CASE x.backend # "ahci"
      <4>1. x \in DiskEntry
        BY <1>1, <2>2, RegistryFields
      <4>2. x.backend = "usb"
        BY <3>4, <4>1 DEF DiskEntry
      <4>3. x.index \in 1..Len(usb.storage)
        BY <3>1, <3>2, <4>2, ZenonT(60)
      <4>4. usb.storage[x.index].dev \in Disks
        BY <1>1, <4>3, StateFields, ZenonT(60) DEF Tables, Entry
      <4> QED BY <3>4, <4>4, BlockAssumption, ZenonT(60) DEF DiskSize
    <3> QED BY <3>3, <3>4, ZenonT(60)
  <2> DEFINE start == q.start
             howMany == q.count
             first == q.start + lba
  <2>4. CASE PartReach(j, lba, n) = {}
    BY <2>4
  <2>5. CASE PartReach(j, lba, n) # {}
    <3>1. lba < howMany /\ n <= howMany - lba /\ PartReach(j, lba, n) = DiskReach(q.disk, first, n)
      BY <2>5, ZenonT(60) DEF PartReach
    <3>2. n # 0 /\ first < size /\ n <= size - first /\ DiskReach(q.disk, first, n) = first..(first + n - 1)
      BY <2>5, <3>1, ZenonT(60) DEF DiskReach
    <3> HIDE DEF q, x
    <3>3. lba \in Nat /\ n \in Nat
      BY <2>3
    <3>4. first..(first + n - 1) \subseteq (start..(start + howMany - 1)) \cap (0..(size - 1))
      <4> DEFINE s0 == q.start
                 c0 == q.count
      <4>1. s0 \in Nat /\ c0 \in Nat /\ first = s0 + lba /\ n <= c0 - lba /\ n <= size - first
        BY <2>2, <3>1, <3>2
      <4> HIDE DEF s0, c0, first
      <4>2. ASSUME NEW k \in first..(first + n - 1)
            PROVE  k \in s0..(s0 + c0 - 1) /\ k \in 0..(size - 1)
        BY <2>3, <3>3, <4>1
      <4> QED BY <4>2 DEF s0, c0
    <3> QED BY <3>1, <3>2, <3>4, ZenonT(60)
  <2> QED BY <2>4, <2>5, ZenonT(60)
<1> QED BY <1>2, <1>3 DEF DisksSound

\* Ports, entries of g_storage and slots of the xHC agree whatever is plugged in
\* and out at whatever moment, and however enumerations end.
THEOREM PortsStaySound == BlockSpec => []PortsSound
<1>1. BlockInv /\ [BlockNext]_blockVars => BlockInv'
  BY BlockNextInv
<1> QED BY <1>1, BlockInitInv, BlockInvPorts, PTL DEF BlockSpec

\* Every disk found is registered, and partitions keep requests within themselves.
THEOREM DisksStaySound == BlockSpec => []DisksSound
<1>1. BlockInv /\ [BlockNext]_blockVars => BlockInv'
  BY BlockNextInv
<1> QED BY <1>1, BlockInitInv, BlockInvDisks, PTL DEF BlockSpec

\* Names are never given to another device.
THEOREM NamesStayStable == BlockSpec => StableNames
<1>1. BlockInv /\ [BlockNext]_blockVars => BlockInv'
  BY BlockNextInv
<1>2. BlockInv /\ [BlockNext]_blockVars => [NamesKept]_blockVars
  BY BlockNextInv
<1>3. StableNames <=> [][NamesKept]_blockVars
  BY DEF StableNames, NamesKept
<1> QED BY <1>1, <1>2, <1>3, BlockInitInv, PTL DEF BlockSpec

=============================================================================
