INIT Init
NEXT Next
CONSTANTS
    Procs = {p1, p2}
    p1 = p1
    p2 = p2
    FdMax = 3
    FirstUser = 1
    PipeMax = 2
    VnodeMax = 2
    File = {f}
    f = f
    MaxOffset = 2
    MaxDesc = 4
    Capacity = 1
    Byte = {0}
    Chunks = {}
    Lengths = {2}
    Modes <- MCFileModes
    BreakMax = 21
    EnvNames = {"A", "B"}
    EnvValues = {"s", "l"}
    EntryUnits <- MCEntryUnits
    Inherited <- MCInherited
    EnvSlots = 2
    MapSlots = 1
    MapSizes = {3}
    UserSizes = {1, 10}
    Streams = {1}
    Standard = 1
    StreamFds = {1, 2, 3}
    Paths = {"p"}
    TempPaths = {"t"}
    Chars = {"a", "NL"}
    StartDisk <- MCStartDisk
    FileMax = 3
    StreamModes <- MCModes
    Counts = {1, 2}
    Texts <- MCTexts
    Pushed = {"a", "NL"}
    WordBits = 4
    Directives <- MCDirectives
    PrintArgs <- MCPrintArgs
    BufferSizes = {0, 1, 3, 6}
    Numerals <- MCNumerals
    Bases = {0, 8, 10, 16}
    FnPatterns <- MCFnPatterns
    FnTexts <- MCFnTexts
    Regexes <- MCRegexes
    RegexTexts <- MCRegexTexts
    GlobDirs <- MCGlobDirs
    GlobFiles <- MCGlobFiles
    GlobPatterns <- MCGlobPatterns
    GlobRoom = {0, 2, 9}
    GlobOffsets = {0, 1}
    GlobMax = 3
SYMMETRY ProcSymmetry
INVARIANTS
    DescriptorsExact
    DescriptionsShared
    MallocSound
    
    
    
CHECK_DEADLOCK FALSE
