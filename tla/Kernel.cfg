INIT Init
NEXT Next
CONSTANTS
    TotalPages = 6
    NumBufs = 2
    Key <- MCKey
    Value = {0, 1}
    MaxPins = 1
    HeapPages = 4
    PageUnits = 6
    HeaderUnits = 2
    InitialPages = 1
    Requests = {0, 1, 4, 8}
    Holders = {1, 2, 3}
    Disk = {"hd", "stick"}
    Removable = {"stick"}
    FormatOf <- MCFormat
    Room <- MCRoom
    Contents <- MCContents
    Targets <- MCTargets
    Inputs <- MCInputs
    MountSlots = 3
    PathMax = 2
    MaxOpened = 1
    Spaces = {1, 2}
    NumFrames = 18
    PageBytes = 2
    StackPage = 5
    UserMaxPage = 8
    AddressBits = 5
    Images <- MCImages
    Arguments <- MCArguments
    StackBytes = 26
    MaxArgc = 3
    ArgMax = 4
    Pointers <- MCPointers
    Readers = {1, 2}
    Keys <- MCKeys
    RingSize = 2
    ReadLens = {2}
    MaxTyped = 3
    Cols = 1
    Rows = 2
    MaxLines = 3
    TabWidth = 1
    WordRange = 32
    MaxParams = 2
    Writes <- MCWrites
    InputLines <- MCInputLines
INVARIANTS
    PmmSound
    SearchIsFirstFit
    CacheSound
    HeapSound
    
    SpacesSound
    UserMemoryExact
    
    
PROPERTIES
    
    AbsentUntouched
    LostOnlyBehindEscape
CHECK_DEADLOCK FALSE
