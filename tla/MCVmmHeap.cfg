SPECIFICATION VmmSpec
CONSTANTS
    TotalMemory <- MCTotalMemory
    WordSize = 1000000
    Index <- MCIndex
    VirtualPages <- MCVirtualPages
    DeviceMappings <- MCDeviceMappings
    MemoryFlags <- MCMemoryFlags
PROPERTY
    HeapLeftAlone
