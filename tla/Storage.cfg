SPECIFICATION Spec
CONSTANTS
    u1 = u1
    x1 = x1
    e1 = e1
    stick = stick
    mouse = mouse
    None = None
    Ports <- MCPorts
    BusOf <- MCBus
    Companion <- MCComp
    Device = {stick, mouse}
    Disks = {stick}
    SpeedOf <- MCSpeed
    TableOf <- MCTable
    AhciTable <- MCAhciTable
    SizeOf <- MCSize
    MaxStorage = 2
    MaxSlots = 2
    MaxDisks = 2
    MaxPartitions = 3
    AhciMax = 1
    BotSectors = 3
    BotChunk = 2
    BotMaxTag = 2
    BotFaults = 1
    Hosts = {"u", "e", "x", "y"}
    HostKind <- MCHostKind
    HostLimit = 2
    HostWindows = 1
    HostProbes = 4
    RingTrbs = 5
    EventTrbs = 3
    RingCommands = 12
    RingBacklog = 2
    AhciPorts <- MCAhciPorts
    AhciLimit = 2
    AhciSectors = 2
    AhciPage = 2
    AhciMaxPrdt = 2
    AhciCommands = 2
INVARIANTS
    
    DisksSound
    TransportSound
    HostsSound
    RingsSound
    
PROPERTIES
    StableNames
    PluggedBecomesDisk
CHECK_DEADLOCK FALSE
