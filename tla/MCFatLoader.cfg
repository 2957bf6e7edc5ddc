CONSTANT Volumes <- MCVolumes
SPECIFICATION FatSpec
INVARIANT FatTypeOK
INVARIANT LoadedWhole
INVARIANT NotFoundMeansAbsent
INVARIANT SectorAsDocumented
PROPERTY LoaderStops
CHECK_DEADLOCK FALSE
