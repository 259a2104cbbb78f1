SPECIFICATION FairSpec
CONSTANTS
    ProcMax = 3
    MaxPid = 3
    TimeSlice = 1
    KeyMax = 1
    Calls = {"exit", "spawn", "waitpid"}
PROPERTY ReadyRuns
