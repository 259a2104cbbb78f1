-------------------------------- MODULE Block --------------------------------
(***************************************************************************)
(* The registry of block devices, src/drivers/block/block.c, above the USB *)
(* disks of UsbPorts and the AHCI disks: whole disks and their partitions, *)
(* appended by block_init, block_rescan and block_poll_hotplug and never   *)
(* taken out again.  The three share their steps: the USB ports one by     *)
(* one, with devices coming and going in between, then the registration of *)
(* what is new.                                                            *)
(*                                                                         *)
(* Every function that looks at a device's present flag refreshes it       *)
(* first (sync_disk_presence), so the flag is not kept: DiskPresent is     *)
(* what a refresh computes.                                                *)
(***************************************************************************)
EXTENDS UsbPorts

CONSTANTS
  MaxDisks,      \* MAX_DISKS
  MaxPartitions, \* MAX_PARTITIONS
  AhciMax,       \* SATA disks that can become active
  TableOf,       \* the partition table on a device
  AhciTable,     \* and on the SATA disks
  SizeOf         \* total_sectors of a device or SATA disk

PartitionTables == [gpt : Seq([type : Nat, first : Nat, last : Nat]),
                    mbr : Seq([type : Nat, first : Nat, count : Nat])]

ASSUME BlockAssumption ==
  /\ MaxDisks \in Nat
  /\ MaxPartitions \in Nat
  /\ AhciMax \in Nat
  /\ \A d \in Disks : TableOf[d] \in PartitionTables /\ SizeOf[d] \in Nat
  /\ \A i \in 1..AhciMax : AhciTable[i] \in PartitionTables /\ SizeOf[i] \in Nat

VARIABLES
  scan,    \* the scan under way: its kind and the port it is at
  ahci,    \* ahci_disk_count()
  blk      \* g_disks, g_parts and the counts of registered disks

blockVars == <<hw, usb, glitches, scan, ahci, blk>>

-----------------------------------------------------------------------------
(* Partition tables.                                                       *)

ZeroGuid == 0

\* The loop of probe_gpt_partitions: unused entries, empty ones and ones that
\* end before they begin are passed over.
GptPartitions(entries) ==
  [i \in 1..Len(entries) |->
    LET e == entries[i]
    IN [used |-> e.type # ZeroGuid /\ ~(e.first = 0 /\ e.last = 0) /\ e.last >= e.first,
        start |-> e.first, count |-> e.last - e.first + 1]]

Protective == 238   \* 0xEE

\* The loop of probe_mbr_partitions.
MbrPartitions(entries) ==
  [i \in 1..Len(entries) |->
    LET e == entries[i]
    IN [used |-> e.type # 0 /\ e.count # 0 /\ e.type # Protective,
        start |-> e.first, count |-> e.count]]

\* register_partition for one entry after the other, up to the limit.
AppendPartitions(b, disk, found) ==
  LET parts[i \in 0..Len(found)] ==
        IF i = 0 THEN b.parts
        ELSE LET before == parts[i - 1]
             IN IF found[i].used /\ Len(before) < MaxPartitions
                THEN Append(before, [disk |-> disk, num |-> i, start |-> found[i].start,
                                     count |-> found[i].count])
                ELSE before
  IN [b EXCEPT !.parts = parts[Len(found)]]

\* probe_partitions_for_disk: a GPT if there is one, even without partitions,
\* the MBR otherwise.
Probe(b, disk, table) ==
  IF table.gpt # <<>>
  THEN [AppendPartitions(b, disk, GptPartitions(table.gpt)) EXCEPT !.disks[disk].table = "GPT"]
  ELSE LET found == MbrPartitions(table.mbr)
           added == AppendPartitions(b, disk, found)
       IN IF Len(added.parts) > Len(b.parts)
          THEN [added EXCEPT !.disks[disk].table = "MBR"]
          ELSE b

-----------------------------------------------------------------------------
(* Disks.                                                                  *)

\* disk_backend_present
BackendPresent(u, x) == x.backend = "ahci" \/ IsPresent(u, x.index)

\* The device answers: it is the one enumerated and still in its port.
Readable(u, h, x) ==
  x.backend = "ahci" \/
  (IsPresent(u, x.index) /\ h.plugged[u.storage[x.index].port] = u.storage[x.index].dev)

TableBehind(u, x) ==
  IF x.backend = "ahci" THEN AhciTable[x.index] ELSE TableOf[u.storage[x.index].dev]

\* register_disk and, for a disk that can be read, the probe of its partitions.
RegisterDisk(b, u, h, x) ==
  IF Len(b.disks) >= MaxDisks THEN b
  ELSE LET n == Len(b.disks) + 1
           w == [b EXCEPT !.disks = Append(@, [backend |-> x.backend, index |-> x.index,
                                               table |-> "none"]),
                          !.regA = IF x.backend = "ahci" THEN @ + 1 ELSE @,
                          !.regU = IF x.backend = "usb" THEN @ + 1 ELSE @]
       IN IF Readable(u, h, x) THEN Probe(w, n, TableBehind(u, x)) ELSE w

Unregistered(backend, from, to) ==
  [i \in 1..(to - from) |-> [backend |-> backend, index |-> from + i]]

\* Mutant: a scan registers one disk only.
RegisterFirst(b, u, h, kind, sataDisks) ==
  LET new == (IF kind = "poll" THEN <<>> ELSE Unregistered("ahci", b.regA, sataDisks))
               \o Unregistered("usb", b.regU, Len(u.storage))
  IN IF new = <<>> THEN b ELSE RegisterDisk(b, u, h, new[1])

\* The loops over the disks not registered yet; a poll registers USB disks only.
RegisterNew(b, u, h, kind, sataDisks) ==
  LET new == (IF kind = "poll" THEN <<>> ELSE Unregistered("ahci", b.regA, sataDisks))
               \o Unregistered("usb", b.regU, Len(u.storage))
      after[i \in 0..Len(new)] ==
        IF i = 0 THEN b ELSE RegisterDisk(after[i - 1], u, h, new[i])
  IN after[Len(new)]

-----------------------------------------------------------------------------
(* block_init, block_rescan, block_poll_hotplug.                           *)

\* pci_enumerate_and_log probes the AHCI controllers again, and finds the disks
\* that have become active.
ScanBegin(kind) ==
  /\ scan.kind = "no"
  /\ scan' = [kind |-> kind, at |-> 1]
  /\ ahci' \in (IF kind = "full" THEN ahci..AhciMax ELSE {ahci})
  /\ UNCHANGED <<hw, usb, glitches, blk>>

ScanNextPort ==
  /\ scan.kind # "no"
  /\ scan.at <= Len(Ports)
  /\ ScanPort(Ports[scan.at], scan.kind = "full")
  /\ scan' = [scan EXCEPT !.at = @ + 1]
  /\ UNCHANGED <<ahci, blk>>

ScanEnd ==
  /\ scan.kind # "no"
  /\ scan.at > Len(Ports)
  /\ blk' = RegisterNew(blk, usb, hw, scan.kind, ahci)
  /\ scan' = [kind |-> "no", at |-> 0]
  /\ UNCHANGED <<hw, usb, glitches, ahci>>

BlockPlug(p, d) == Plug(p, d) /\ UNCHANGED <<scan, ahci, blk>>
BlockUnplug(p) == Unplug(p) /\ UNCHANGED <<scan, ahci, blk>>

\* The kernel boots into block_init.
BlockInit ==
  /\ PortsInit
  /\ scan = [kind |-> "boot", at |-> 1]
  /\ ahci \in 0..AhciMax
  /\ blk = [disks |-> <<>>, parts |-> <<>>, regA |-> 0, regU |-> 0]

BlockNext ==
  \/ \E kind \in {"poll", "full"} : ScanBegin(kind)
  \/ ScanNextPort
  \/ ScanEnd
  \/ \E p \in PortSet, d \in Device : BlockPlug(p, d)
  \/ \E p \in PortSet : BlockUnplug(p)

\* The idle loop of the scheduler, the shell and /dev poll over and over: in
\* every state a scan can begin, go on or end, and nothing but that changes
\* scan, so weak fairness of the three is that scan keeps changing.
PollsForever == []<><<TRUE>>_scan

BlockSpec == BlockInit /\ [][BlockNext]_blockVars /\ PollsForever

-----------------------------------------------------------------------------
(* Requests.                                                               *)

DiskSize(x) == IF x.backend = "ahci" THEN SizeOf[x.index] ELSE SizeOf[usb.storage[x.index].dev]

\* The sectors of the medium a request to a whole disk reaches, {} if refused
\* (ahci_rw_disk, usb_storage_read).
DiskReach(i, lba, n) ==
  LET x == blk.disks[i] IN
  IF /\ BackendPresent(usb, x)
     /\ n # 0
     /\ lba < DiskSize(x)
     /\ n <= DiskSize(x) - lba
  THEN lba..(lba + n - 1) ELSE {}

\* part_read, part_write
PartReach(j, lba, n) ==
  LET q == blk.parts[j] IN
  IF /\ n # 0
     /\ BackendPresent(usb, blk.disks[q.disk])
     /\ lba < q.count
     /\ n <= q.count - lba
  THEN DiskReach(q.disk, q.start + lba, n) ELSE {}

-----------------------------------------------------------------------------
\* The types of the state.
BlockTypeOK ==
  /\ hw.plugged \in [PortSet -> Device \cup {None}]
  /\ hw.change \in [PortSet -> BOOLEAN]
  /\ hw.released \in [PortSet -> BOOLEAN]
  /\ usb.pstate \in [PortSet -> IGNORED..MaxStorage]
  /\ Len(usb.storage) <= MaxStorage
  /\ Len(blk.disks) <= MaxDisks
  /\ Len(blk.parts) <= MaxPartitions
  /\ blk.regA + blk.regU = Len(blk.disks)
  /\ scan.at \in 0..(Len(Ports) + 1)

\* The two tables of the drivers agree: a disk that counts as present is the
\* one its port is bound to, and a port is bound to a disk of its own.  A disk
\* that nobody is bound to would count as present for ever
\* (usb_storage_mark_removed is called through port_dev and port_state only).
BindingsExact ==
  /\ \A i \in 1..Len(usb.storage) :
       usb.storage[i].present => usb.pstate[usb.storage[i].port] = i
  /\ \A p \in PortSet :
       Bound(usb.pstate[p]) => /\ usb.pstate[p] <= Len(usb.storage)
                               /\ usb.storage[usb.pstate[p]].port = p

\* Every enabled slot of the xHC belongs to a disk in the table: an enumeration
\* that fails gives its slot back at whatever stage it fails.
SlotsAccounted ==
  usb.slots = {usb.storage[i].slot : i \in {i \in 1..Len(usb.storage) :
                                              BusOf[usb.storage[i].port] = "xhci"}}

\* A UHCI disk that counts as present is the very device in the port, or the
\* port's change bit is still set for the next poll to see: a device swapped
\* for another between two polls is never taken for the old one.
SwapIsSeen ==
  \A i \in 1..Len(usb.storage) :
    LET x == usb.storage[i] IN
    x.present /\ BusOf[x.port] = "uhci" /\ ~hw.change[x.port] => hw.plugged[x.port] = x.dev

\* Ports, disk entries and device slots agree after every scan.
PortsSound == BlockTypeOK /\ BindingsExact /\ SlotsAccounted /\ SwapIsSeen

\* Between two scans every USB disk found is registered, once and in the order
\* of discovery, as long as there is room.
AllRegistered ==
  /\ \A i, j \in 1..Len(blk.disks) :
       i < j /\ blk.disks[i].backend = "usb" /\ blk.disks[j].backend = "usb" =>
         blk.disks[i].index < blk.disks[j].index
  /\ scan.kind = "no" /\ Len(blk.disks) < MaxDisks =>
       {blk.disks[i].index : i \in {i \in 1..Len(blk.disks) : blk.disks[i].backend = "usb"}}
         = 1..Len(usb.storage)

\* What a request through a partition reaches lies in the partition and on the
\* disk, whatever the partition table says.
PartitionIsolation ==
  scan.kind = "no" => \A j \in 1..Len(blk.parts) :
    LET q == blk.parts[j]
        size == DiskSize(blk.disks[q.disk])
    IN \A lba \in 0..(size + 1), n \in 0..(size + 1) :
         PartReach(j, lba, n) \subseteq (q.start..(q.start + q.count - 1)) \cap (0..(size - 1))

\* Disks that are there are registered, and their partitions stay apart.
DisksSound == AllRegistered /\ PartitionIsolation

\* "Removable devices remain registered after unplug so stable names do not get
\* reused" (block.h): no step takes a disk out of the registry or makes its
\* entry stand for another g_storage entry, and no g_storage entry is ever
\* given to another device or comes back to life.
StableNames ==
  [][/\ \A i \in 1..Len(blk.disks) : blk'.disks[i] = blk.disks[i]
     /\ \A i \in 1..Len(usb.storage) :
          /\ usb'.storage[i].dev = usb.storage[i].dev
          /\ usb'.storage[i].present => usb.storage[i].present]_blockVars

\* A disk that stays in a UHCI port becomes a block device, unless a table is
\* full or its enumeration failed.
Usable(p, d) ==
  \E i \in 1..Len(blk.disks) :
    /\ blk.disks[i].backend = "usb"
    /\ usb.storage[blk.disks[i].index].dev = d
    /\ usb.storage[blk.disks[i].index].port = p
    /\ usb.storage[blk.disks[i].index].present

PluggedBecomesDisk ==
  \A p \in {p \in PortSet : BusOf[p] = "uhci"}, d \in Disks :
    hw.plugged[p] = d ~>
      \/ hw.plugged[p] # d
      \/ Usable(p, d)
      \/ Full(usb)
      \/ Len(blk.disks) >= MaxDisks
      \/ usb.pstate[p] = IGNORED

=============================================================================
