SPECIFICATION Spec
CONSTANTS
    ProcMax = 4
    MaxPid = 4
    TimeSlice = 1
    KeyMax = 1
    Calls = {"exit", "spawn", "exec", "waitpid"}
PROPERTY WaitAnyFindsChild
