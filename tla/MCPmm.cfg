SPECIFICATION PmmSpec
CONSTANTS
    TotalMemory <- MCTotalMemory
    WordSize = 1000000
INVARIANTS
    PmmTypeOK
    BitmapExact
    CounterDrift
PROPERTY
    ImplementsPageAllocator
