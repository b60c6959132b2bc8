SPECIFICATION FairSpec
CONSTANTS
    EnableDisplay = TRUE
    HalTimeout = 2
    RxFifoSize = 3
    RxQueueDepth = 2
    LogQueueDepth = 4
    Loggers = {3, 4}
    CanRx = 4
    Burst = 1
    CounterCap = 2
INVARIANTS TypeOK AllPresent LossesCounted
PROPERTIES StartsOrStops NoFrameStuck
