-------------------------------- MODULE Ahci --------------------------------
(***************************************************************************)
(* The AHCI driver, src/drivers/ahci/ahci.c: the table of SATA disks that  *)
(* probing fills, and the life of one command on a port's slot 0.          *)
(*                                                                         *)
(* A command is built in the port's only command table, issued through the *)
(* command-issue register and polled for; when the polls run out the       *)
(* driver reports a failure and forgets the command, which the HBA may     *)
(* still hold.  The next command finds it there.  All the driver has       *)
(* against it is port_wait_not_busy.                                       *)
(*                                                                         *)
(* A page is AhciPage sectors; a buffer starts anywhere in a page.         *)
(***************************************************************************)
EXTENDS Integers, Sequences

CONSTANTS
  AhciPorts,     \* ports of the controller, in the order probing visits them
  AhciLimit,     \* AHCI_MAX_DISKS
  AhciSectors,   \* sectors of a disk
  AhciPage,      \* sectors to a page
  AhciMaxPrdt,   \* AHCI_MAX_PRDT
  AhciCommands   \* bound: commands issued

SataPorts == {AhciPorts[i] : i \in DOMAIN AhciPorts}

ASSUME AhciAssumption ==
  /\ AhciPorts \in Seq(SataPorts)
  /\ AhciLimit \in Nat /\ AhciSectors \in Nat /\ AhciCommands \in Nat
  /\ AhciPage \in Nat \ {0} /\ AhciMaxPrdt \in Nat \ {0}

VARIABLES
  sataPort,    \* what is behind each port
  sata,    \* g_disks
  hba,     \* the command engine of the port in use
  cmdtab,   \* its command table, as the driver last built it
  wait,    \* the command the driver polls for
  issued,
  ended    \* how the last command ended (history)

ahciVars == <<sataPort, sata, hba, cmdtab, wait, issued, ended>>

NoCommand == [id |-> 0, op |-> "none", lba |-> 0, n |-> 0, prdt |-> <<>>]

-----------------------------------------------------------------------------
(* Probing.                                                                *)

\* ahci_find_disk_slot, ahci_init_disk_slot and ahci_identify_disk on one port of
\* ahci_probe_mmio: a disk whose IDENTIFY fails is registered with its size unknown.
ProbePort(ds, p) ==
  IF sataPort[p] # "disk" \/ (\E i \in 1..Len(ds) : ds[i].port = p) \/ Len(ds) >= AhciLimit
  THEN {ds}
  ELSE {Append(ds, [port |-> p, size |-> size]) : size \in {0, AhciSectors}}

\* The loop of ahci_probe_mmio over the ports: what the table may be after it.
ProbeLoop(ds) ==
  LET after[i \in 0..Len(AhciPorts)] ==
        IF i = 0 THEN {ds} ELSE UNION {ProbePort(d, AhciPorts[i]) : d \in after[i - 1]}
  IN after[Len(AhciPorts)]

\* ahci_probe_mmio, at boot and again at every full rescan.
AhciProbe ==
  /\ wait = NoCommand
  /\ sata' \in ProbeLoop(sata)
  /\ sata' # sata
  /\ UNCHANGED <<sataPort, hba, cmdtab, wait, issued, ended>>

\* A drive spins up behind a port that had none.
AhciAppear(p) ==
  /\ sataPort[p] = "none"
  /\ sataPort' = [sataPort EXCEPT ![p] = "disk"]
  /\ UNCHANGED <<sata, hba, cmdtab, wait, issued, ended>>

-----------------------------------------------------------------------------
(* ahci_rw_disk                                                            *)

\* The pages that a buffer of n sectors touches which starts off sectors into one.
PrdtPages(off, n) == (off + n + AhciPage - 1) \div AhciPage

\* The pieces of such a buffer, one per page.
Prdt(off, n) ==
  LET pages == PrdtPages(off, n)
      From(i) == IF i = 1 THEN off ELSE 0
      To(i) == IF i = pages THEN off + n - (pages - 1) * AhciPage ELSE AhciPage
  IN [i \in 1..pages |-> To(i) - From(i)]

\* The tests made before the port is touched.  A disk of unknown size has no
\* bound.
AhciAdmitted(d, lba, n, off) ==
  /\ n # 0
  /\ d.size # 0 => lba < d.size /\ n <= d.size - lba
  /\ PrdtPages(off, n) <= AhciMaxPrdt

\* Mutant: the busy bits are not waited for.
BusyUnchecked == TRUE

\* port_wait_not_busy
NotBusy == ~hba.bsy

\* The command table is cleared and filled, and slot 0 issued; a slot that is
\* still issued stays so.
AhciIssue(op, lba, n, off) ==
  /\ wait = NoCommand
  /\ issued < AhciCommands
  /\ sata # <<>>
  /\ AhciAdmitted(sata[1], lba, n, off)
  /\ NotBusy
  /\ issued' = issued + 1
  /\ cmdtab' = [id |-> issued + 1, op |-> op, lba |-> lba, n |-> n, prdt |-> Prdt(off, n)]
  /\ wait' = cmdtab'
  /\ hba' = [hba EXCEPT !.ci = TRUE]
  /\ UNCHANGED <<sataPort, sata, ended>>

\* port_issue_and_wait: the slot's bit is clear, and the error bit decides.
AhciDone ==
  /\ wait # NoCommand
  /\ ~hba.ci
  /\ ended' = [id |-> wait.id, ok |-> ~hba.err, ran |-> wait = hba.last]
  /\ wait' = NoCommand
  /\ UNCHANGED <<sataPort, sata, hba, cmdtab, issued>>

AhciTimeout ==
  /\ wait # NoCommand
  /\ hba.ci
  /\ ended' = [id |-> wait.id, ok |-> FALSE, ran |-> wait = hba.last]
  /\ wait' = NoCommand
  /\ UNCHANGED <<sataPort, sata, hba, cmdtab, issued>>

-----------------------------------------------------------------------------
(* The host bus adapter: it reads the table when it starts the command; an *)
(* error leaves the slot issued and stops the engine until it is restarted. *)

HbaFetch ==
  /\ hba.ci /\ ~hba.bsy /\ ~hba.halted
  /\ hba' = [hba EXCEPT !.bsy = TRUE, !.err = FALSE, !.exec = cmdtab]
  /\ UNCHANGED <<sataPort, sata, cmdtab, wait, issued, ended>>

HbaComplete ==
  /\ hba.bsy
  /\ hba' = [hba EXCEPT !.bsy = FALSE, !.ci = FALSE, !.last = hba.exec,
                        !.exec = NoCommand]
  /\ UNCHANGED <<sataPort, sata, cmdtab, wait, issued, ended>>

\* stops is FALSE for an error the device reports without stopping the engine.
HbaError(stops) ==
  /\ hba.bsy
  /\ hba' = [hba EXCEPT !.bsy = FALSE, !.err = TRUE, !.halted = stops, !.ci = stops,
                        !.exec = NoCommand]
  /\ UNCHANGED <<sataPort, sata, cmdtab, wait, issued, ended>>

-----------------------------------------------------------------------------
AhciInit ==
  /\ sataPort \in [SataPorts -> {"none", "disk", "atapi"}]
  /\ sata = <<>>
  /\ hba = [ci |-> FALSE, bsy |-> FALSE, err |-> FALSE, halted |-> FALSE,
            exec |-> NoCommand, last |-> NoCommand]
  /\ cmdtab = NoCommand
  /\ wait = NoCommand
  /\ issued = 0
  /\ ended = [id |-> 0, ok |-> FALSE, ran |-> FALSE]

AhciNext ==
  \/ AhciProbe
  \/ \E p \in SataPorts : AhciAppear(p)
  \/ \E op \in {"read", "write"}, lba \in 0..AhciSectors, n \in 0..(AhciSectors + 1),
        off \in 0..(AhciPage - 1) : AhciIssue(op, lba, n, off)
  \/ AhciDone
  \/ AhciTimeout
  \/ HbaFetch
  \/ HbaComplete
  \/ \E stops \in BOOLEAN : HbaError(stops)

AhciSpec == AhciInit /\ [][AhciNext]_ahciVars

-----------------------------------------------------------------------------
\* The types of the state.
AhciTypeOK ==
  /\ Len(sata) <= AhciLimit
  /\ \A i \in 1..Len(sata) : sata[i].size \in {0, AhciSectors}
  /\ issued \in 0..AhciCommands
  /\ wait.id \in 0..issued /\ cmdtab.id \in 0..issued /\ ended.id \in 0..issued
  /\ hba.exec.id \in 0..issued

\* A command reported as done was executed by the drive, as it was asked for: a
\* command that timed out earlier and completes late is never taken for it.
AhciTruth == ended.ok => ended.ran

\* No port is in the table twice, however often the controller is probed again
\* (a second entry would reprogram the command list of a port in use).
PortsOnce == \A i, j \in 1..Len(sata) : sata[i].port = sata[j].port => i = j

\* The sectors that the regions of a command hold together.
PrdtTotal(prdt) ==
  LET sum[i \in 0..Len(prdt)] == IF i = 0 THEN 0 ELSE sum[i - 1] + prdt[i]
  IN sum[Len(prdt)]

\* The physical regions of a command cover its buffer exactly, no region
\* crosses a page, and their number fits the command table.
PrdtExact ==
  cmdtab # NoCommand =>
    /\ Len(cmdtab.prdt) <= AhciMaxPrdt
    /\ PrdtTotal(cmdtab.prdt) = cmdtab.n
    /\ \A i \in 1..Len(cmdtab.prdt) : cmdtab.prdt[i] \in 1..AhciPage

\* ahci.c reports what happened on the disk a request was for.
AhciSound == AhciTypeOK /\ AhciTruth /\ PortsOnce /\ PrdtExact

=============================================================================
