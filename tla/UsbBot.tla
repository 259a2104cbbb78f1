------------------------------- MODULE UsbBot -------------------------------
(***************************************************************************)
(* A USB mass-storage device driven through the Bulk-Only Transport, as    *)
(* src/drivers/usb/usb_storage.c does it over the three host controllers   *)
(* of usb_storage.c (UHCI), ehci.c and xhci.c.                             *)
(*                                                                         *)
(* A request (usb_storage_read, _write, _flush) is cut into commands, each *)
(* command (msc_command_dma) into a command block, a data phase and a      *)
(* status block, and each of those is one bulk transfer.  The driver is    *)
(* synchronous: it posts transfer descriptors, polls a bounded number of   *)
(* times and then either goes on or gives the whole request up.  It never  *)
(* resets the device, so that whatever a command that was given up left    *)
(* behind, in the device or in the controller, meets the next command.     *)
(*                                                                         *)
(* The controllers and the device run beside the driver, one packet at a   *)
(* time; a sector is one packet.  The device has a one-packet buffer on    *)
(* its OUT endpoint and answers in order on its IN endpoint.               *)
(***************************************************************************)
EXTENDS Naturals, Sequences, SequencesExt

CONSTANTS
  BotSectors,  \* sectors of the medium (READ CAPACITY's last LBA plus one)
  BotChunk,    \* max_chunk, the sectors of one READ(10) or WRITE(10)
  BotMaxTag,   \* bound: commands issued
  BotFaults    \* bound: commands the device reports as failed

ASSUME BotAssumption ==
  /\ BotSectors \in Nat \ {0}
  /\ BotChunk \in Nat \ {0}
  /\ BotMaxTag \in Nat
  /\ BotFaults \in Nat

VARIABLES
  kind,     \* the controller the device hangs on
  req,      \* the request being served
  phase,    \* the bulk transfer the driver waits for
  tag,      \* dev->tag, the tag of the last command block
  page,     \* what the current command has received
  htog,     \* the driver's data toggles (bulk_in_toggle, bulk_out_toggle)
  tds,      \* transfer descriptors the controller can still execute
  events,   \* xHCI: the transfer events not yet consumed
  fifo, inq, expect, dtog, medium,   \* the device
  faults,
  out, executed, clean, stray, lied  \* history, read by the properties only

hostVars == <<kind, req, phase, tag, page, htog>>
busVars  == <<tds, events>>
devVars  == <<fifo, inq, expect, dtog, medium, faults>>
history  == <<out, executed, clean, stray, lied>>
botVars  == <<hostVars, busVars, devVars, history>>

Controllers == {"uhci", "ehci", "xhci"}
Fresh == 1       \* what the medium holds at first
Stored == 2      \* what the driver writes
Junk == 9        \* bytes that are not a sector's
Blank == 0       \* memset(page, 0, PAGE_SIZE)

NoRequest == [op |-> "none", lba |-> 0, count |-> 0, done |-> 0, got |-> <<>>]
NoStatus == [t |-> "none"]
NothingExpected == [tag |-> 0, lba |-> 0, n |-> 0, sectors |-> <<>>]

-----------------------------------------------------------------------------
(* The driver: requests, commands and their phases.                        *)

\* The sectors of the command under way; SYNCHRONIZE CACHE moves none.
ChunkOf(q) ==
  IF q.op = "flush" THEN 0
  ELSE IF q.count - q.done > BotChunk THEN BotChunk ELSE q.count - q.done

Direction(ph, q) ==
  IF ph = "csw" \/ (ph = "data" /\ q.op = "read") THEN "in" ELSE "out"

Packets(ph, q) == IF ph = "data" THEN ChunkOf(q) ELSE 1

\* What the driver puts into the buffer of an OUT transfer.
PacketOf(ph, q, t) ==
  IF ph = "cbw"
  THEN [t |-> "cbw", tag |-> t, op |-> q.op, lba |-> q.lba + q.done, n |-> ChunkOf(q)]
  ELSE [t |-> "data", v |-> Stored]

\* uhci_bulk builds one descriptor per packet and numbers their toggles when
\* it builds them; ehci_bulk_transfer and xhci_ring_transfer build one
\* descriptor for the whole transfer.
Descriptors(h, ph, q, t) ==
  LET d == [tag |-> t, ph |-> ph, n |-> Packets(ph, q),
            tog |-> h[Direction(ph, q)], p |-> PacketOf(ph, q, t)]
  IN IF kind = "uhci"
     THEN [i \in 1..d.n |-> [d EXCEPT !.n = 1, !.tog = (@ + i - 1) % 2]]
     ELSE <<d>>

\* The bulk transfer of one phase is posted, the toggles being h.  UHCI's
\* toggle moves on at once, even if the transfer fails later.
Post(h, ph, q, t) ==
  /\ phase' = ph
  /\ tds' = [tds EXCEPT ![Direction(ph, q)] = @ \o Descriptors(h, ph, q, t)]
  /\ htog' = IF kind = "uhci"
             THEN [h EXCEPT ![Direction(ph, q)] = (@ + Packets(ph, q)) % 2]
             ELSE h

\* msc_command_dma up to the first transfer: a fresh tag and a zeroed page.
Command(h, q) ==
  /\ tag < BotMaxTag
  /\ tag' = tag + 1
  /\ req' = q
  /\ page' = [data |-> <<>>, csw |-> NoStatus]
  /\ Post(h, "cbw", q, tag + 1)

\* The checks both directions make first.
Admitted(lba, count) ==
  /\ count # 0
  /\ lba < BotSectors
  /\ count <= BotSectors - lba

Request(op, lba, count) == [op |-> op, lba |-> lba, count |-> count, done |-> 0, got |-> <<>>]

\* usb_storage_read and usb_storage_write, up to the first command block; the
\* rest of their loops is in BotStatus.
BotRead(lba, count) ==
  /\ phase = "idle"
  /\ Admitted(lba, count)
  /\ Command(htog, Request("read", lba, count))
  /\ UNCHANGED <<kind, events, devVars, history>>

BotWrite(lba, count) ==
  /\ phase = "idle"
  /\ Admitted(lba, count)
  /\ Command(htog, Request("write", lba, count))
  /\ UNCHANGED <<kind, events, devVars, history>>

\* usb_storage_flush
BotFlush ==
  /\ phase = "idle"
  /\ Command(htog, [NoRequest EXCEPT !.op = "flush"])
  /\ UNCHANGED <<kind, events, devVars, history>>

\* The transfer of the current phase is over, as the driver sees it.  uhci_submit
\* and ehci_submit_qh see the descriptors of their own list inactive.
\* xhci_wait_transfer takes the first event of the endpoint, whichever
\* descriptor it reports.
Finished ==
  IF kind = "xhci"
  THEN Direction(phase, req) \in Range(events)
  ELSE tds[Direction(phase, req)] = <<>>

EventsAfter ==
  IF kind # "xhci" THEN events
  ELSE LET dir == Direction(phase, req)
           i == CHOOSE i \in 1..Len(events) :
                  events[i] = dir /\ \A j \in 1..(i - 1) : events[j] # dir
       IN SubSeq(events, i + 1, Len(events))

\* ehci_next_toggle: EHCI's toggle moves only when the transfer succeeded, by
\* the packets that were asked for.
ToggleAfter ==
  IF kind = "ehci"
  THEN [htog EXCEPT ![Direction(phase, req)] = (@ + Packets(phase, req)) % 2]
  ELSE htog

Padded(data, n) == [i \in 1..n |-> IF i <= Len(data) THEN data[i] ELSE Blank]

\* The device executed the current command, and moved the sectors the driver
\* believes it moved (history only).
Carried ==
  \E e \in executed :
    /\ e.tag = tag
    /\ req.op = "read" => e.sectors = Padded(page.data, ChunkOf(req))
    /\ req.op = "write" => e.sectors = [i \in 1..ChunkOf(req) |-> Stored]

\* The request returns to its caller.
Return(ok, q) ==
  /\ out' = [ok |-> ok, q |-> IF ok THEN q ELSE NoRequest]
  /\ phase' = "idle"
  /\ req' = NoRequest
  /\ page' = [data |-> <<>>, csw |-> NoStatus]

\* Mutant: whichever command the status is of.
StatusOfAny == page.csw.t = "csw" /\ page.csw.st = 0

\* The checks of msc_command_dma on the status block.
StatusGood == page.csw = [t |-> "csw", tag |-> tag, st |-> 0]

\* From the command block to the data phase, or to the status phase when there
\* is no data, and from the data phase to the status phase.
BotNextPhase ==
  /\ phase \in {"cbw", "data"}
  /\ Finished
  /\ Post(ToggleAfter,
          IF phase = "cbw" /\ ChunkOf(req) # 0 THEN "data" ELSE "csw", req, tag)
  /\ events' = EventsAfter
  /\ UNCHANGED <<kind, req, tag, page, devVars, history>>

LastCommand(q) == q.done = q.count

\* The status block has arrived: the request fails, returns, or goes on with
\* its next command.
BotStatus ==
  /\ phase = "csw"
  /\ Finished
  /\ events' = EventsAfter
  /\ LET n == ChunkOf(req)
         q == [req EXCEPT !.done = @ + n,
                          !.got = @ \o (IF req.op = "read" THEN Padded(page.data, n) ELSE <<>>)]
     IN \/ /\ ~StatusGood
           /\ Return(FALSE, req)
           /\ htog' = ToggleAfter
           /\ clean' = FALSE
           /\ UNCHANGED <<tag, tds>>
        \/ /\ StatusGood
           /\ LastCommand(q)
           /\ Return(TRUE, q)
           /\ htog' = ToggleAfter
           /\ UNCHANGED <<tag, tds, clean>>
        \/ /\ StatusGood
           /\ ~LastCommand(q)
           /\ Command(ToggleAfter, q)
           /\ UNCHANGED <<out, clean>>
  /\ lied' = (lied \/ (StatusGood /\ ~Carried))
  /\ UNCHANGED <<kind, devVars, executed, stray>>

\* The polls ran out, or a descriptor ended in error.  UHCI's frame list and
\* EHCI's asynchronous list are emptied before the pages are freed; what was
\* put on an xHCI ring stays there.
GiveUpDescriptors == IF kind = "xhci" THEN tds ELSE [in |-> <<>>, out |-> <<>>]

BotGiveUp ==
  /\ phase # "idle"
  /\ Return(FALSE, req)
  /\ tds' = GiveUpDescriptors
  /\ clean' = FALSE
  /\ UNCHANGED <<kind, tag, htog, events, devVars, executed, stray, lied>>

-----------------------------------------------------------------------------
(* The controllers.                                                        *)

\* A descriptor's pages belong to the command that posted it, and only while
\* that command runs.
Owned(td) == td.tag = tag /\ phase # "idle"

\* A page that was freed keeps its bytes until someone reuses it, and the next
\* command block is the likeliest to.
Bytes(td) ==
  IF Owned(td) THEN {td.p}
  ELSE {td.p, [t |-> "junk"]}
       \cup (IF phase = "idle" THEN {} ELSE {PacketOf("cbw", req, tag)})

\* The descriptor after one packet, and whether it is done: a short packet
\* (a status block in a sector's place) ends it.
Shorter(td) == [td EXCEPT !.n = @ - 1, !.tog = (@ + 1) % 2]

Consume(dir, td, short) ==
  LET over == td.n = 1 \/ short
  IN /\ tds' = [tds EXCEPT ![dir] = IF over THEN Tail(@) ELSE <<Shorter(td)>> \o Tail(@)]
     /\ events' = IF over /\ kind = "xhci" THEN Append(events, dir) ELSE events

\* An IN packet whose toggle the controller does not expect is acknowledged and
\* dropped; the xHC keeps the toggles itself.
BotMoveIn ==
  /\ tds.in # <<>>
  /\ inq # <<>>
  /\ inq' = Tail(inq)
  /\ dtog' = [dtog EXCEPT !.in = (@ + 1) % 2]
  /\ LET td == tds.in[1]
         p == inq[1]
     IN IF kind # "xhci" /\ td.tog # dtog.in
        THEN UNCHANGED <<busVars, page, stray>>
        ELSE /\ Consume("in", td, td.ph = "data" /\ p.t = "csw")
             /\ IF Owned(td)
                THEN /\ page' = IF td.ph = "data"
                                THEN [page EXCEPT !.data =
                                        Append(@, IF p.t = "data" THEN p.v ELSE Junk)]
                                ELSE [page EXCEPT !.csw = p]
                     /\ UNCHANGED stray
                ELSE /\ stray' = TRUE
                     /\ UNCHANGED page
  /\ UNCHANGED <<kind, req, phase, tag, htog, fifo, expect, medium, faults,
                 out, executed, clean, lied>>

\* An OUT packet: a device that does not expect its toggle takes it for a
\* repeated one and drops it.
BotMoveOut ==
  /\ tds.out # <<>>
  /\ fifo = <<>>
  /\ LET td == tds.out[1]
     IN /\ Consume("out", td, FALSE)
        /\ IF kind # "xhci" /\ td.tog # dtog.out
           THEN UNCHANGED <<fifo, dtog>>
           ELSE /\ \E p \in Bytes(td) : fifo' = <<p>>
                /\ dtog' = [dtog EXCEPT !.out = (@ + 1) % 2]
  /\ UNCHANGED <<hostVars, inq, expect, medium, faults, history>>

-----------------------------------------------------------------------------
(* The device.                                                             *)

Status(t, st) == [t |-> "csw", tag |-> t, st |-> st]

\* The device carries out a command block, or reports that it could not.
DeviceCommand(p, ok) ==
  /\ expect.n = 0
  /\ inq = <<>>
  /\ p.t = "cbw"
  /\ IF ok
     THEN /\ inq' = IF p.op = "write" THEN <<>>
                    ELSE Append([i \in 1..p.n |-> [t |-> "data", v |-> medium[p.lba + i - 1]]],
                                Status(p.tag, 0))
          /\ expect' = IF p.op = "write" THEN [tag |-> p.tag, lba |-> p.lba, n |-> p.n,
                                                 sectors |-> <<>>] ELSE expect
          /\ executed' = IF p.op = "write" THEN executed ELSE executed \cup
                          {[tag |-> p.tag,
                            sectors |-> [i \in 1..p.n |-> medium[p.lba + i - 1]]]}
          /\ UNCHANGED faults
     ELSE /\ faults > 0
          /\ faults' = faults - 1
          /\ inq' = <<Status(p.tag, 1)>>
          /\ UNCHANGED <<expect, executed>>
  /\ UNCHANGED medium

\* A sector of a WRITE(10); anything else in its place is a phase error.
DeviceSector(p) ==
  /\ expect.n # 0
  /\ medium' = [medium EXCEPT ![expect.lba] = IF p.t = "data" THEN p.v ELSE Junk]
  /\ IF p.t = "data" /\ expect.n > 1
     THEN /\ expect' = [expect EXCEPT !.lba = @ + 1, !.n = @ - 1, !.sectors = Append(@, p.v)]
          /\ UNCHANGED <<inq, executed>>
     ELSE /\ expect' = NothingExpected
          /\ inq' = Append(inq, Status(expect.tag, IF p.t = "data" THEN 0 ELSE 2))
          /\ executed' = IF p.t = "data" THEN executed \cup
                            {[tag |-> expect.tag, sectors |-> Append(expect.sectors, p.v)]}
                         ELSE executed
  /\ UNCHANGED faults

BotDevice ==
  /\ fifo # <<>>
  /\ fifo' = <<>>
  /\ \/ \E ok \in BOOLEAN : DeviceCommand(fifo[1], ok)
     \/ DeviceSector(fifo[1])
     \/ /\ expect.n = 0 /\ inq = <<>> /\ fifo[1].t # "cbw"
        /\ UNCHANGED <<inq, expect, medium, faults, executed>>
  /\ UNCHANGED <<hostVars, busVars, dtog, out, clean, stray, lied>>

-----------------------------------------------------------------------------
BotInit ==
  /\ kind \in Controllers
  /\ req = NoRequest
  /\ phase = "idle"
  /\ tag = 0
  /\ page = [data |-> <<>>, csw |-> NoStatus]
  /\ htog = [in |-> 0, out |-> 0]
  /\ tds = [in |-> <<>>, out |-> <<>>]
  /\ events = <<>>
  /\ fifo = <<>>
  /\ inq = <<>>
  /\ expect = NothingExpected
  /\ dtog = [in |-> 0, out |-> 0]
  /\ medium = [s \in 0..(BotSectors - 1) |-> Fresh]
  /\ faults = BotFaults
  /\ out = [ok |-> FALSE, q |-> NoRequest]
  /\ executed = {}
  /\ clean = TRUE
  /\ stray = FALSE
  /\ lied = FALSE

BotNext ==
  \/ \E lba \in 0..BotSectors, count \in 0..BotSectors : BotRead(lba, count)
  \/ \E lba \in 0..BotSectors, count \in 0..BotSectors : BotWrite(lba, count)
  \/ BotFlush
  \/ BotNextPhase
  \/ BotStatus
  \/ BotGiveUp
  \/ BotMoveIn
  \/ BotMoveOut
  \/ BotDevice

BotSpec == BotInit /\ [][BotNext]_botVars

-----------------------------------------------------------------------------
Sectors == {Blank, Fresh, Stored, Junk}
Toggles == [in : 0..1, out : 0..1]

\* The types of the state.
BotTypeOK ==
  /\ kind \in Controllers
  /\ phase \in {"idle", "cbw", "data", "csw"}
  /\ tag \in 0..BotMaxTag
  /\ req.op \in {"none", "read", "write", "flush"}
  /\ req.done <= req.count
  /\ req.lba + req.count <= BotSectors
  /\ Len(page.data) <= BotChunk
  /\ Range(page.data) \subseteq Sectors
  /\ htog \in Toggles /\ dtog \in Toggles
  /\ Range(events) \subseteq {"in", "out"}
  /\ Len(fifo) <= 1
  /\ medium \in [0..(BotSectors - 1) -> Sectors]
  /\ \A e \in executed : e.tag \in 1..tag

\* A command the driver accepts was carried out: the device executed it, and
\* the sectors the driver read or wrote are those the device moved for it (the
\* checks of msc_command_dma on the signature, the tag and the status).
\* Whatever earlier commands that were given up left in the device or on the
\* controller's rings, it never passes for the answer.
SuccessIsTruth == ~lied

\* Over UHCI and EHCI a write that returned true stays on the medium: no
\* command given up earlier reaches the device after it.
WritesStay ==
  kind \in {"uhci", "ehci"} /\ phase = "idle" /\ out.ok /\ out.q.op = "write" =>
    \A i \in 1..out.q.count : medium[out.q.lba + i - 1] = Stored

\* UHCI and EHCI never write into a page after the command that owned it has
\* returned and freed it: uhci_submit empties the frame list, ehci_submit_qh
\* the asynchronous list, before they report a timeout.
NoStrayDma == kind \in {"uhci", "ehci"} => ~stray

\* While every command has succeeded, the driver's toggles are the device's
\* between two requests, whatever the number of packets of the data phases.
TogglesAgree == clean /\ phase = "idle" /\ kind # "xhci" => htog = dtog

\* What the transport of usb_storage.c and its three controllers promise to
\* callers through timeouts, resets and late transfers.
TransportSound ==
  /\ BotTypeOK /\ SuccessIsTruth /\ WritesStay
  /\ NoStrayDma /\ TogglesAgree

=============================================================================
