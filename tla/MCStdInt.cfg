CONSTANT Targets <- MCTargets
SPECIFICATION StdIntSpec
INVARIANTS
    StdIntTypeOK
    LeastIsNarrowest
    ConstantsFollowTypes
    LimitsFollowTypes
    WidthsFollowTypes
CHECK_DEADLOCK FALSE
