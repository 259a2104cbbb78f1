SPECIFICATION Spec
CONSTANTS
    Procs = {1}
    FdMax = 3
    FirstUser = 1
    PipeMax = 1
    VnodeMax = 0
    File = {f}
    f = f
    MaxOffset = 0
    MaxDesc = 4
    Capacity = 2
    Byte = {0, 1}
    Chunks <- MCChunks
    Lengths = {1, 2}
    Modes <- NoModes
    ProcMax = 3
    MaxPid = 4
    TimeSlice = 2
    KeyMax = 1
    Calls = {"exit", "yield", "spawn", "exec"}
PROPERTIES
    PipesAreQueues
    ReadyRuns
