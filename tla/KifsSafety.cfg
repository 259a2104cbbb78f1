SPECIFICATION KifsSpec
CONSTANTS
    NumInodes = 5
    InodesPerBlock = 2
    NumBlocks = 4
    MaxExtents = 2
    BlockCells = 2
    DirSlots = 3
    Name = {nameA, nameB}
    nameA = nameA
    nameB = nameB
    BaseDirs <- MCBaseDirs
    Value = {1}
    MaxSize = 3
    MaxFaults = 1
CONSTRAINT Intact
SYMMETRY NameSymmetry
INVARIANTS
    KifsSound
    HoldsLastWrites
    OldInodeOldData
