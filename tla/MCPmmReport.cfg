SPECIFICATION PmmSpec
CONSTANTS
    TotalMemory <- MCTotalMemory
    WordSize = 1000000
INVARIANT
    FreePagesReported
