SPECIFICATION FairSpec
CONSTANTS
    MinPos <- MCMinPos
    MaxPos = 7
    CfgAccel = 8
    CommandTimeout = 3
    Second = 4
    StepSizes = {0, 1}
    Commands <- MCCommands
    CounterMod = 2
    HalfBits = 5
INVARIANTS
    TypeOK
    TimeoutIsExact
    LimitFlagMeansClamped
    SpeedIsStoppable
PROPERTIES
    NeverPassesTarget
    MovesWithinLimits
    DisabledOnlyBrakes
    ImplementsWatchdog
    ComesToStandstill
    ReachesTarget
