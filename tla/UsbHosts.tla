------------------------------ MODULE UsbHosts ------------------------------
(***************************************************************************)
(* Finding and starting the USB host controllers: uhci_probe_pci,          *)
(* ehci_probe_mmio and xhci_probe_mmio, called for every PCI function at   *)
(* boot and again at every full rescan.  A probe is a fixed sequence of    *)
(* steps; several wait for the hardware and give up.  A controller whose   *)
(* set-up failed is not in the table and is probed afresh the next time.   *)
(***************************************************************************)
EXTENDS Naturals, Sequences, FiniteSets

CONSTANTS
  Hosts,        \* the controllers on the PCI bus
  HostKind,     \* "uhci", "ehci" or "xhci"
  HostLimit,    \* XHCI_MAX_CONTROLLERS and its like
  HostWindows,  \* XHCI_MMIO_SLOTS and its like
  HostProbes    \* bound: probes

ASSUME HostsAssumption ==
  /\ \A h \in Hosts : HostKind[h] \in {"uhci", "ehci", "xhci"}
  /\ HostLimit \in Nat
  /\ HostWindows \in Nat
  /\ HostProbes \in Nat

VARIABLES
  hosts,    \* the controllers in a table, in the order they were found
  windows,  \* the register windows mapped
  probing,  \* the probe under way: its controller and the step it is at
  chip,     \* what each controller's registers say
  probes

hostsVars == <<hosts, windows, probing, chip, probes>>

NoProbe == [host |-> "none", at |-> 0]

Steps == [
  uhci |-> <<"alloc", "stop", "reset", "program", "run">>,
  ehci |-> <<"map", "own", "halt", "reset", "program", "run">>,
  xhci |-> <<"map", "own", "halt", "reset", "ready", "alloc", "program", "run">>]

StepAt == Steps[HostKind[probing.host]][probing.at]

InTable(h) == \E i \in 1..Len(hosts) : hosts[i] = h
SameKind(h) == {i \in 1..Len(hosts) : HostKind[hosts[i]] = HostKind[h]}

\* The checks a probe makes first.
ProbeHost(h) ==
  /\ probing = NoProbe
  /\ probes < HostProbes
  /\ ~InTable(h)
  /\ Cardinality(SameKind(h)) < HostLimit
  /\ probing' = [host |-> h, at |-> 1]
  /\ probes' = probes + 1
  /\ UNCHANGED <<hosts, windows, chip>>

GoOn == probing' = [probing EXCEPT !.at = @ + 1]
Fail == probing' = NoProbe

WindowsOf(h) == {w \in windows : HostKind[w] = HostKind[h]}

\* xhci_map_window: a window mapped before is used again.
StepMap ==
  /\ StepAt = "map"
  /\ \/ /\ probing.host \in windows \/ Cardinality(WindowsOf(probing.host)) < HostWindows
        /\ windows' = windows \cup {probing.host}
        /\ GoOn
     \/ /\ probing.host \notin windows
        /\ Fail
        /\ UNCHANGED windows
  /\ UNCHANGED <<hosts, chip, probes>>

\* xhci_take_ownership goes on whether or not the firmware let go.
StepOwn ==
  /\ StepAt = "own"
  /\ GoOn
  /\ UNCHANGED <<hosts, windows, chip, probes>>

\* Run/stop is cleared, and the halt awaited; UHCI's is not.
StepHalt ==
  /\ StepAt \in {"halt", "stop"}
  /\ \/ chip' = [chip EXCEPT ![probing.host].running = FALSE] /\ GoOn
     \/ StepAt = "halt" /\ chip[probing.host].running /\ Fail /\ UNCHANGED chip
  /\ UNCHANGED <<hosts, windows, probes>>

\* The reset is begun; the wait for its end is left without a check.
StepReset ==
  /\ StepAt = "reset"
  /\ \E over \in BOOLEAN :
       chip' = [chip EXCEPT ![probing.host] =
                  [running |-> FALSE, resetting |-> ~over, programmed |-> FALSE]]
  /\ GoOn
  /\ UNCHANGED <<hosts, windows, probes>>

\* Mutant: a controller that is not ready is used all the same.
StepReadyUnchecked ==
  /\ StepAt = "ready"
  /\ GoOn
  /\ UNCHANGED <<hosts, windows, chip, probes>>

\* xHCI: xhci_wait_status_set(CNR).
StepReady ==
  /\ StepAt = "ready"
  /\ IF chip[probing.host].resetting THEN Fail ELSE GoOn
  /\ UNCHANGED <<hosts, windows, chip, probes>>

\* The pages of the rings and lists, any of which may be missing.
StepAlloc ==
  /\ StepAt = "alloc"
  /\ GoOn \/ Fail
  /\ UNCHANGED <<hosts, windows, chip, probes>>

\* The list and ring registers; a controller in reset loses what is written.
StepProgram ==
  /\ StepAt = "program"
  /\ chip' = [chip EXCEPT ![probing.host].programmed = ~chip[probing.host].resetting]
  /\ GoOn
  /\ UNCHANGED <<hosts, windows, probes>>

\* Run/stop is set; EHCI and xHCI wait until the controller runs.  A controller
\* that was found is entered into the table.
StepRun ==
  /\ StepAt = "run"
  /\ \/ /\ ~chip[probing.host].resetting \/ HostKind[probing.host] = "uhci"
        /\ chip' = [chip EXCEPT ![probing.host].running = ~chip[probing.host].resetting]
        /\ hosts' = Append(hosts, probing.host)
     \/ /\ HostKind[probing.host] # "uhci"
        /\ UNCHANGED <<chip, hosts>>
  /\ probing' = NoProbe
  /\ UNCHANGED <<windows, probes>>

\* The reset of a controller ends.
ChipReady(h) ==
  /\ chip[h].resetting
  /\ chip' = [chip EXCEPT ![h].resetting = FALSE]
  /\ UNCHANGED <<hosts, windows, probing, probes>>

\* Firmware may leave a controller running.
HostsInit ==
  /\ hosts = <<>>
  /\ windows = {}
  /\ probing = NoProbe
  /\ chip \in [Hosts -> {[running |-> r, resetting |-> FALSE, programmed |-> FALSE] : r \in BOOLEAN}]
  /\ probes = 0

HostsNext ==
  \/ \E h \in Hosts : ProbeHost(h)
  \/ /\ probing # NoProbe
     /\ StepMap \/ StepOwn \/ StepHalt \/ StepReset \/ StepReady \/ StepAlloc \/ StepProgram \/ StepRun
  \/ \E h \in Hosts : ChipReady(h)

HostsSpec == HostsInit /\ [][HostsNext]_hostsVars

-----------------------------------------------------------------------------
\* The types of the state.
HostsTypeOK ==
  /\ \A h \in Hosts : /\ Cardinality(WindowsOf(h)) <= HostWindows
                      /\ Cardinality(SameKind(h)) <= HostLimit
  /\ probing = NoProbe \/ probing.at \in 1..Len(Steps[HostKind[probing.host]])

\* An xHCI controller in the table runs on the rings the driver gave it: they
\* were written after its last reset, and after the reset was over, whatever
\* waits timed out and however often it was probed before.
PresentIsReady ==
  \A i \in 1..Len(hosts) :
    HostKind[hosts[i]] = "xhci" => /\ chip[hosts[i]].running
                                   /\ chip[hosts[i]].programmed
                                   /\ ~chip[hosts[i]].resetting

\* No controller is in a table twice: a second entry would reset a controller
\* whose rings are in use.
HostsOnce == \A i, j \in 1..Len(hosts) : hosts[i] = hosts[j] => i = j

\* The tables of host controllers hold each controller once, and only set up.
HostsSound == HostsTypeOK /\ PresentIsReady /\ HostsOnce

=============================================================================
