SPECIFICATION KmallocSpec
CONSTANTS
    HEAP_SIZE = 160
    SizeRange = 1600000
    Requests <- MCRequests
INVARIANTS
    KmallocTypeOK
    HeapTiled
    NoAdjacentFree
    OwnersAndMarks
    ListIsWalk
    BytesAccounted
PROPERTY
    ImplementsHeapUse
