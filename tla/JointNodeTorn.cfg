SPECIFICATION Spec
CONSTANTS
    CmdQueueDepth = 2
    RxQueueDepth = 2
    TxFifoSize = 2
    CommandTimeout = 2
    JointStatePeriod = 1
    CommsPeriod = 2
    Controller = TRUE
    Burst = 1
    CounterCap = 3
INVARIANTS HeartbeatConsistent
