SPECIFICATION Spec
CONSTANTS
    ProcMax = 3
    MaxPid = 4
    TimeSlice = 1
    KeyMax = 2
    Calls = {"exit", "yield", "spawn", "exec", "waitpid", "read"}
INVARIANTS
    TableExact
    ResumesLiveFrame
    WaiterHasLiveChild
    KeysHaveReaders
    IdleAwaitsKey
PROPERTY
    StatusKept
