SPECIFICATION PmmSpec
CONSTANTS
    TotalPages = 8
INVARIANTS
    RunFound
