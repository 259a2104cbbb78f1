------------------------------ MODULE MCStorage ------------------------------
(***************************************************************************)
(* The block devices for TLC: the registry over the USB ports, the bulk-   *)
(* only transport, the start of the host controllers, xHCI's rings and the *)
(* AHCI port.  They share no state, so an initial state chooses which of   *)
(* the five moves.                                                         *)
(***************************************************************************)
EXTENDS Block, UsbBot, UsbHosts, XhciRings, Ahci, TLC

CONSTANTS u1, x1, e1, stick, mouse

VARIABLE focus

storageVars == <<blockVars, botVars, hostsVars, ringVars, ahciVars, focus>>

\* One port of each controller; e1's companion is u1.
MCPorts == <<u1, x1, e1>>
MCBus == (u1 :> "uhci") @@ (x1 :> "xhci") @@ (e1 :> "ehci")
MCComp == (e1 :> u1)
MCSpeed == (stick :> "high") @@ (mouse :> "low")

\* The stick has a GPT whose last partition runs past the end of the disk.
MCTable ==
  (stick :> [gpt |-> <<[type |-> 1, first |-> 1, last |-> 2],
                       [type |-> 0, first |-> 1, last |-> 1],
                       [type |-> 1, first |-> 3, last |-> 5]>>,
             mbr |-> <<[type |-> 238, first |-> 1, count |-> 3]>>])
MCAhciTable == <<[gpt |-> <<>>, mbr |-> <<[type |-> 131, first |-> 1, count |-> 1],
                                          [type |-> 131, first |-> 2, count |-> 0]>>]>>
MCSize == (stick :> 4) @@ (1 :> 3)

MCHostKind == [u |-> "uhci", e |-> "ehci", x |-> "xhci", y |-> "xhci"]

MCAhciPorts == <<"p0", "p1">>

\* What is plugged in where while the registry moves: the stick alone into any
\* socket, or, with failing enumerations, the stick and the mouse into one.
Plugging == [anywhere |-> {u1, x1, e1} \X {stick},
             companion |-> {u1, e1} \X {stick, mouse},
             xhci |-> {x1} \X {stick, mouse}]

Registry == DOMAIN Plugging

\* A part that does not move starts in one state only.
Init ==
  /\ focus \in Registry \cup {"bot", "hosts", "rings", "ahci"}
  /\ BlockInit /\ glitches = IF focus = "anywhere" THEN 0 ELSE 1
  /\ BotInit
  /\ HostsInit
  /\ RingsInit
  /\ AhciInit
  /\ focus \notin Registry => ahci = 0
  /\ focus # "bot" => kind = "uhci"
  /\ focus # "hosts" => \A h \in Hosts : ~chip[h].running
  /\ focus # "ahci" => \A p \in SataPorts : sataPort[p] = "none"

OnlyBlock == UNCHANGED <<botVars, hostsVars, ringVars, ahciVars, focus>>
OnlyBot == UNCHANGED <<blockVars, hostsVars, ringVars, ahciVars, focus>>
OnlyHosts == UNCHANGED <<blockVars, botVars, ringVars, ahciVars, focus>>
OnlyRings == UNCHANGED <<blockVars, botVars, hostsVars, ahciVars, focus>>
OnlyAhci == UNCHANGED <<blockVars, botVars, hostsVars, ringVars, focus>>

Next ==
  \/ /\ focus \in Registry
     /\ BlockNext
     /\ \A p \in PortSet : hw'.plugged[p] \in {None, hw.plugged[p]}
                             \/ <<p, hw'.plugged[p]>> \in Plugging[focus]
     /\ OnlyBlock
  \/ focus = "bot" /\ BotNext /\ OnlyBot
  \/ focus = "hosts" /\ HostsNext /\ OnlyHosts
  \/ focus = "rings" /\ RingsNext /\ OnlyRings
  \/ focus = "ahci" /\ AhciNext /\ OnlyAhci

\* PollsForever is asked of the registry only.
Fairness == []<><<TRUE>>_scan \/ [](focus \notin Registry)

Spec == Init /\ [][Next]_storageVars /\ Fairness
=============================================================================
