CONSTANT Volumes <- MCLargeKernel
SPECIFICATION FatSpec
INVARIANT LoadedWhole
CHECK_DEADLOCK FALSE
