CONSTANT Processors <- MCProcessors
SPECIFICATION SwitchSpec
INVARIANTS
    SwitchTypeOK
    KernelInPlace
    ExecutesAsAssembled
    PagingPrepared
    NoInterruptOutsideRealMode
PROPERTY
    StageTwoEnds
CHECK_DEADLOCK FALSE
