----------------------------- MODULE XhciRings -----------------------------
(***************************************************************************)
(* The rings of the xHCI driver, src/drivers/usb/xhci.c: a command ring    *)
(* that ends in a link TRB, filled by xhci_command, and the event ring     *)
(* that xhci_next_event empties.  Neither side sees the other's index; who *)
(* owns an entry is told by its cycle bit alone, which means the opposite  *)
(* on every other lap.                                                     *)
(*                                                                         *)
(* The driver waits for each command, but not for ever: a command it gave  *)
(* up stays on the ring and may complete at any later time.  The driver    *)
(* keeps no count of those, so the model bounds them.                      *)
(***************************************************************************)
EXTENDS Naturals, Sequences

CONSTANTS
  RingTrbs,      \* entries of the command ring, the link TRB included
  EventTrbs,     \* entries of the event ring
  RingCommands,  \* bound: commands issued
  RingBacklog    \* bound: commands given up whose completion was not seen

ASSUME RingsAssumption ==
  /\ RingTrbs \in Nat /\ RingTrbs >= 4
  /\ RingBacklog \in Nat /\ RingBacklog < RingTrbs - 2
  /\ EventTrbs \in Nat /\ EventTrbs >= 2
  /\ RingCommands \in Nat

VARIABLES
  trbs, enqueue, cycle,                     \* cmd_ring
  eventRing, eventDequeue, eventCycle,      \* event_ring
  xhc,       \* the controller: its indices and cycle bits, the ERDP register
  waitFor,   \* the command the driver waits for and its TRB, 0 if none
  queued, posted, count, taken              \* history

ringVars == <<trbs, enqueue, cycle, eventRing, eventDequeue, eventCycle, xhc, waitFor,
              queued, posted, count, taken>>

Flip(c) == 1 - c
Link == RingTrbs - 1

\* Mutant: the link TRB keeps the cycle bit xhci_ring_alloc gave it.
AdvanceStale(t) ==
  IF enqueue + 1 = Link
  THEN [trbs |-> t, enqueue |-> 0, cycle |-> Flip(cycle)]
  ELSE [trbs |-> t, enqueue |-> enqueue + 1, cycle |-> cycle]

\* xhci_ring_advance: before the ring wraps, the link TRB is handed over with the
\* cycle bit of the lap that ends.
Advance(t) ==
  IF enqueue + 1 = Link
  THEN [trbs |-> [t EXCEPT ![Link].c = cycle], enqueue |-> 0, cycle |-> Flip(cycle)]
  ELSE [trbs |-> t, enqueue |-> enqueue + 1, cycle |-> cycle]

\* xhci_ring_prepare and xhci_command, up to the doorbell.
RingCommand ==
  /\ waitFor.id = 0
  /\ count < RingCommands
  /\ Len(queued) + Len(posted) <= RingBacklog
  /\ count' = count + 1
  /\ LET r == Advance([trbs EXCEPT ![enqueue] = [c |-> cycle, id |-> count + 1]])
     IN trbs' = r.trbs /\ enqueue' = r.enqueue /\ cycle' = r.cycle
  /\ waitFor' = [id |-> count + 1, at |-> enqueue]
  /\ queued' = Append(queued, count + 1)
  /\ UNCHANGED <<eventRing, eventDequeue, eventCycle, xhc, posted, taken>>

NextDequeue ==
  [at |-> (eventDequeue + 1) % EventTrbs,
   c |-> IF eventDequeue + 1 = EventTrbs THEN Flip(eventCycle) ELSE eventCycle]

EventReady == eventRing[eventDequeue].c = eventCycle

\* xhci_wait_command compares the address of the TRB, not the command.
IsAnswer(ev) == ev.at = waitFor.at

\* One poll of xhci_wait_command that finds an event; other events are dropped.
\* The new dequeue index is written to ERDP.
RingPoll ==
  /\ waitFor.id # 0
  /\ EventReady
  /\ eventDequeue' = NextDequeue.at
  /\ eventCycle' = NextDequeue.c
  /\ xhc' = [xhc EXCEPT !.erdp = NextDequeue.at]
  /\ posted' = IF posted = <<>> THEN posted ELSE Tail(posted)
  /\ LET ev == eventRing[eventDequeue]
     IN IF IsAnswer(ev)
        THEN taken' = [asked |-> waitFor.id, got |-> ev.id] /\ waitFor' = [id |-> 0, at |-> 0]
        ELSE UNCHANGED <<taken, waitFor>>
  /\ UNCHANGED <<trbs, enqueue, cycle, eventRing, queued, count>>

\* The polls run out, the last one without an event.
RingTimeout ==
  /\ waitFor.id # 0
  /\ ~EventReady
  /\ waitFor' = [id |-> 0, at |-> 0]
  /\ UNCHANGED <<trbs, enqueue, cycle, eventRing, eventDequeue, eventCycle, xhc, queued,
                 posted, count, taken>>

-----------------------------------------------------------------------------
(* The controller.                                                         *)

\* It follows a link TRB that was handed over, and flips its cycle bit there.
XhcFollow ==
  IF xhc.dequeue = Link /\ trbs[Link].c = xhc.cycle
  THEN [at |-> 0, c |-> Flip(xhc.cycle)]
  ELSE [at |-> xhc.dequeue, c |-> xhc.cycle]

XhcSees == XhcFollow.at # Link /\ trbs[XhcFollow.at].c = XhcFollow.c

\* It executes the next command and posts the completion, while the event ring
\* has room up to ERDP.
XhcExecute ==
  /\ XhcSees
  /\ (xhc.eventEnqueue + 1) % EventTrbs # xhc.erdp
  /\ LET at == XhcFollow.at
         end == xhc.eventEnqueue + 1 = EventTrbs
     IN /\ eventRing' = [eventRing EXCEPT ![xhc.eventEnqueue] =
                           [c |-> xhc.eventCycle, id |-> trbs[at].id, at |-> at]]
        /\ posted' = Append(posted, trbs[at].id)
        /\ xhc' = [xhc EXCEPT !.dequeue = at + 1, !.cycle = XhcFollow.c,
                              !.eventEnqueue = IF end THEN 0 ELSE @ + 1,
                              !.eventCycle = IF end THEN Flip(@) ELSE @]
  /\ queued' = IF queued = <<>> THEN queued ELSE Tail(queued)
  /\ UNCHANGED <<trbs, enqueue, cycle, eventDequeue, eventCycle, waitFor, count, taken>>

-----------------------------------------------------------------------------
\* xhci_ring_alloc, and the ring registers xhci_setup_controller writes.
RingsInit ==
  /\ trbs = [i \in 0..Link |-> [c |-> IF i = Link THEN 1 ELSE 0, id |-> 0]]
  /\ enqueue = 0 /\ cycle = 1
  /\ eventRing = [i \in 0..(EventTrbs - 1) |-> [c |-> 0, id |-> 0, at |-> 0]]
  /\ eventDequeue = 0 /\ eventCycle = 1
  /\ xhc = [dequeue |-> 0, cycle |-> 1, eventEnqueue |-> 0, eventCycle |-> 1, erdp |-> 0]
  /\ waitFor = [id |-> 0, at |-> 0]
  /\ queued = <<>> /\ posted = <<>>
  /\ count = 0
  /\ taken = [asked |-> 0, got |-> 0]

RingsNext ==
  \/ RingCommand
  \/ RingPoll
  \/ RingTimeout
  \/ XhcExecute

RingsSpec == RingsInit /\ [][RingsNext]_ringVars

-----------------------------------------------------------------------------
\* The types of the state; the enqueue index never rests on the link TRB, where
\* xhci_ring_prepare would refuse every later command.
RingsTypeOK ==
  /\ enqueue \in 0..(Link - 1) /\ cycle \in 0..1
  /\ eventDequeue \in 0..(EventTrbs - 1) /\ eventCycle \in 0..1
  /\ xhc.dequeue \in 0..Link
  /\ count \in 0..RingCommands /\ waitFor.id \in 0..count

\* The command ring is a queue: the controller finds a command exactly when one
\* is queued, and finds the oldest, on whatever lap either side is.
RingIsQueue ==
  /\ XhcSees <=> queued # <<>>
  /\ queued # <<>> => trbs[XhcFollow.at].id = queued[1]

\* The event ring is a queue: the driver finds an event exactly when one was
\* posted and not taken; what the last lap left behind is never seen again.
EventsAreQueue ==
  /\ EventReady <=> posted # <<>>
  /\ posted # <<>> => eventRing[eventDequeue].id = posted[1]

\* The completion a caller gets is that of its own command, though a command
\* given up earlier may complete while it waits.
AnswerIsOwn == taken.asked = taken.got

\* The two rings of xhci.c work as queues, and an answer belongs to its command.
RingsSound == RingsTypeOK /\ RingIsQueue /\ EventsAreQueue /\ AnswerIsOwn

=============================================================================
