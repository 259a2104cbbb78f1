------------------------------ MODULE UsbPorts ------------------------------
(***************************************************************************)
(* Hot-plugging of USB disks: the root ports of the UHCI, xHCI and EHCI    *)
(* controllers, the enumeration of what is plugged into them, and the      *)
(* table g_storage of the disks found (usb_storage.c, xhci.c, ehci.c).     *)
(*                                                                         *)
(* The driver learns of a plug only when it polls a port, and acts on what *)
(* it reads there and on what it remembers of the port (port_dev,          *)
(* port_state).  Devices come and go between any two polls.  A poll of one *)
(* port, enumeration included, is one step.                                *)
(*                                                                         *)
(* The driver's state is a record usb, the hardware's a record hw; the     *)
(* operators of a controller map the pair and the outcome of the           *)
(* enumeration to the next pair.                                           *)
(***************************************************************************)
EXTENDS Integers, Sequences

CONSTANTS
  Ports,       \* the root ports, in the order a rescan visits them
  BusOf,       \* Ports' controllers: "uhci", "xhci" or "ehci"
  Companion,   \* the UHCI port an EHCI port is released to
  Device,      \* things one can plug in
  SpeedOf,     \* "low", "full" or "high"
  Disks,       \* the devices that are SCSI bulk-only mass storage
  MaxStorage,  \* UHCI_MAX_STORAGE_DEVS
  MaxSlots,    \* device slots of the xHC
  None

PortSet == {Ports[i] : i \in 1..Len(Ports)}

ASSUME PortsAssumption ==
  /\ Ports \in Seq(PortSet)
  /\ \A p \in PortSet : BusOf[p] \in {"uhci", "xhci", "ehci"}
  /\ Disks \subseteq Device
  /\ MaxStorage \in Nat
  /\ MaxSlots \in Nat

VARIABLES
  hw,      \* plugged and change bits, and the owner of EHCI ports
  usb,     \* the drivers' tables
  glitches \* bound: enumerations of a disk that fail on the bus

\* What the driver remembers of a port: the position in g_storage, from 1, of
\* the disk bound to it, or one of two marks.
EMPTY == 0
IGNORED == -1
Bound(s) == s > 0

-----------------------------------------------------------------------------
(* The ports as the registers show them.                                   *)

\* An EHCI port that was released shows nothing connected; its companion does.
Connected(h, p) ==
  /\ h.plugged[p] # None
  /\ BusOf[p] = "ehci" => ~h.released[p]

\* A device is plugged into the socket of p; a companion port has none of its
\* own.
Plug(p, d) ==
  /\ hw.plugged[p] = None
  /\ \A q \in PortSet : hw.plugged[q] # d
  /\ \A q \in PortSet : BusOf[q] = "ehci" => Companion[q] # p /\ ~hw.released[p]
  /\ hw' = [hw EXCEPT !.plugged[p] = d, !.change[p] = TRUE]
  /\ UNCHANGED <<usb, glitches>>

\* Pulling a device out of an EHCI socket whose port was released empties the
\* companion port and gives the port back.
Unplug(p) ==
  /\ hw.plugged[p] # None
  /\ hw' = LET e == {q \in PortSet : BusOf[q] = "ehci" /\ Companion[q] = p /\ hw.released[q]}
           IN [hw EXCEPT !.plugged[p] = None,
                         !.change[p] = TRUE,
                         !.released = [q \in PortSet |-> @[q] /\ q \notin e]]
  /\ UNCHANGED <<usb, glitches>>

ClearChange(h, p) == [h EXCEPT !.change[p] = FALSE]

\* ehci_release_port_to_companion: the device moves to the companion port.
Release(h, p) ==
  [h EXCEPT !.released[p] = TRUE,
            !.plugged = [@ EXCEPT ![p] = None, ![Companion[p]] = h.plugged[p]],
            !.change = [@ EXCEPT ![p] = FALSE, ![Companion[p]] = TRUE]]

-----------------------------------------------------------------------------
(* g_storage.                                                              *)

\* usb_storage_is_present, usb_storage_mark_removed.
IsPresent(u, i) == i <= Len(u.storage) /\ u.storage[i].present
MarkRemoved(u, s) ==
  IF Bound(s) /\ IsPresent(u, s) THEN [u EXCEPT !.storage[s].present = FALSE] ELSE u

\* usb_storage_register_bot and the end of UHCI's enumerate_storage_on_port: a
\* new entry at the end, never one that was used before.
Register(u, p, d, slot) ==
  [u EXCEPT !.storage = Append(@, [present |-> TRUE, port |-> p, dev |-> d, slot |-> slot])]

Full(u) == Len(u.storage) >= MaxStorage

-----------------------------------------------------------------------------
(* Enumeration.  It ends at a stage because the bus glitched there, or      *)
(* because the device is not what the driver looks for.                    *)

UhciStages == {"descriptor8", "address", "descriptor", "config9", "config", "setconfig", "capacity"}
EhciStages == UhciStages \cup {"reset"}
XhciStages == {"reset", "slot", "pages", "addressed", "descriptor", "config9", "config",
               "setconfig", "endpoints", "capacity"}

\* enumerate_storage_on_port of usb_storage.c: a low-speed device is left alone.
UhciEnumerate(u, h, p, stage) ==
  LET d == h.plugged[p] IN
  IF Full(u) \/ SpeedOf[d] = "low" \/ stage # "none"
  THEN [u EXCEPT !.pstate[p] = IGNORED]
  ELSE [Register(u, p, d, 0) EXCEPT !.pstate[p] = Len(u.storage) + 1]

\* enumerate_storage_on_port of ehci.c: only a high-speed device is enabled by
\* the reset.
EhciEnumerate(u, h, p, stage) ==
  LET d == h.plugged[p] IN
  IF Full(u) \/ SpeedOf[d] # "high" \/ stage # "none"
  THEN [u EXCEPT !.pstate[p] = IGNORED]
  ELSE [Register(u, p, d, 0) EXCEPT !.pstate[p] = Len(u.storage) + 1]

\* xhci_enable_slot takes a device slot, xhci_disable_slot gives it back.
FreeSlots(u) == (1..MaxSlots) \ u.slots
DisableSlot(u, s) == [u EXCEPT !.slots = @ \ {s}]

\* enumerate_storage_on_port of xhci.c: every failure after the slot was enabled
\* disables it again.
XhciEnumerate(u, h, p, stage) ==
  LET d == h.plugged[p]
      s == CHOOSE s \in FreeSlots(u) : TRUE
      w == [u EXCEPT !.slots = @ \cup {s}]
      ignored == [u EXCEPT !.pstate[p] = IGNORED]
  IN IF Full(u) \/ stage \in {"reset", "slot"} \/ FreeSlots(u) = {}
     THEN ignored
     ELSE IF stage # "none"
     THEN DisableSlot([w EXCEPT !.pstate[p] = IGNORED], s)
     ELSE [Register(w, p, d, s) EXCEPT !.pstate[p] = Len(u.storage) + 1]

-----------------------------------------------------------------------------
(* One port of a rescan; force is a rescan a user asked for.               *)

Pair(u, h) == [u |-> u, h |-> h]
\* Mutant: the entry in g_storage stays present.
ForgottenByPort(u, p) == [u EXCEPT !.pstate[p] = EMPTY]

Forgotten(u, p) == [MarkRemoved(u, u.pstate[p]) EXCEPT !.pstate[p] = EMPTY]

\* Mutant: a disk that comes back is taken up under its old entry.
UhciPortRevives(u, h, p, force, stage) ==
  LET s == u.pstate[p] IN
  IF ~Connected(h, p) THEN Pair(MarkRemoved(u, s), ClearChange(h, p))
  ELSE IF Bound(s)
  THEN Pair([u EXCEPT !.storage[s].present = (h.plugged[p] = u.storage[s].dev)], ClearChange(h, p))
  ELSE Pair(UhciEnumerate(u, h, p, stage), ClearChange(h, p))

\* Mutant: a poll enumerates nothing that no user asked for.
UhciPortForced(u, h, p, force, stage) ==
  LET seen == IF h.change[p] \/ ~Connected(h, p) THEN Forgotten(u, p) ELSE u IN
  IF force /\ Connected(h, p) /\ ~Bound(seen.pstate[p])
  THEN Pair(UhciEnumerate(seen, h, p, stage), ClearChange(h, p))
  ELSE Pair(seen, ClearChange(h, p))

\* usb_storage_rescan_common: a change bit alone is enough to forget the device,
\* so that one swapped for another between two polls is enumerated anew.
UhciPort(u, h, p, force, stage) ==
  LET u0 == IF force /\ u.pstate[p] = IGNORED THEN [u EXCEPT !.pstate[p] = EMPTY] ELSE u
      seen == IF h.change[p] THEN Forgotten(u0, p) ELSE u0
      h1 == ClearChange(h, p)
      s == seen.pstate[p]
  IN IF ~Connected(h, p) THEN Pair(Forgotten(seen, p), h1)
     ELSE IF (Bound(s) /\ IsPresent(seen, s)) \/ (s = IGNORED /\ ~force) THEN Pair(seen, h1)
     ELSE Pair(UhciEnumerate(seen, h1, p, stage), h1)

\* xhci_storage_rescan_common: a port that is still connected and bound is left
\* alone, whether or not its change bits are set.
XhciPort(u, h, p, force, stage) ==
  LET s == u.pstate[p] IN
  IF ~Connected(h, p) THEN Pair(Forgotten(u, p), ClearChange(h, p))
  ELSE IF Bound(s) /\ IsPresent(u, s) THEN Pair(u, h)
  ELSE IF s = IGNORED /\ ~h.change[p] /\ ~force THEN Pair(u, h)
  ELSE Pair(XhciEnumerate(u, h, p, stage), ClearChange(h, p))

\* ehci_storage_rescan_common: a device whose data lines are not at rest before
\* the reset is handed to the companion.  Those of a low- or full-speed device
\* never are, those of a high-speed device ("line") perhaps not.  The port reads
\* as not connected afterwards, which also clears ignored_line_state before it
\* could be compared.
EhciPort(u, h, p, force, stage) ==
  LET s == u.pstate[p] IN
  IF ~Connected(h, p) THEN Pair(Forgotten(u, p), ClearChange(h, p))
  ELSE IF Bound(s) /\ IsPresent(u, s) THEN Pair(u, h)
  ELSE IF s = IGNORED /\ ~force THEN Pair(u, ClearChange(h, p))
  ELSE IF SpeedOf[h.plugged[p]] # "high" \/ stage = "line"
  THEN Pair([u EXCEPT !.pstate[p] = IGNORED], Release(h, p))
  ELSE Pair(EhciEnumerate(u, h, p, stage), ClearChange(h, p))

Stages(p) ==
  CASE BusOf[p] = "uhci" -> UhciStages
    [] BusOf[p] = "xhci" -> XhciStages
    [] BusOf[p] = "ehci" -> EhciStages

PortAfter(u, h, p, force, stage) ==
  CASE BusOf[p] = "uhci" -> UhciPort(u, h, p, force, stage)
    [] BusOf[p] = "xhci" -> XhciPort(u, h, p, force, stage)
    [] BusOf[p] = "ehci" -> EhciPort(u, h, p, force, stage)

\* How enumerating d ends when the bus works: "parse" for a device that
\* parse_mass_storage_config turns down.
Undisturbed(d) == IF d \in Disks THEN "none" ELSE "parse"

\* A rescan reaches port p; an enumeration may fail at any stage.
ScanPort(p, force) ==
  \E good \in {PortAfter(usb, hw, p, force, Undisturbed(hw.plugged[p]))} :
  \E line \in {IF BusOf[p] = "ehci" THEN PortAfter(usb, hw, p, force, "line") ELSE good} :
  \E r \in {good, line}
        \cup (IF glitches = 0 THEN {}
             ELSE {PortAfter(usb, hw, p, force, stage) : stage \in Stages(p)}) :
    /\ usb' = r.u
    /\ hw' = r.h
    /\ glitches' = IF r \in {good, line} THEN glitches ELSE glitches - 1

PortsInit ==
  /\ hw = [plugged |-> [p \in PortSet |-> None],
           change |-> [p \in PortSet |-> FALSE],
           released |-> [p \in PortSet |-> FALSE]]
  /\ usb = [pstate |-> [p \in PortSet |-> EMPTY], storage |-> <<>>, slots |-> {}]

=============================================================================
