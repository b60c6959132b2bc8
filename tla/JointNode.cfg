SPECIFICATION FairSpec
CONSTANTS
    CmdQueueDepth = 2
    RxQueueDepth = 1
    TxFifoSize = 1
    CommandTimeout = 2
    JointStatePeriod = 1
    CommsPeriod = 2
    Controller = TRUE
    Burst = 1
    CounterCap = 2
INVARIANTS TypeOK SnapshotConsistent CountersSound
PROPERTIES TxExclusive JointStops LostReported
