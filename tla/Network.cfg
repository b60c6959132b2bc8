SPECIFICATION FairSpec
CONSTANTS
    Peers = {p1, p2}
    Own = own
    FifoSize = 3
    CommandTimeout = 3
    CommsPeriod = 2
    FaultsPerPeriod = 1
INVARIANTS TypeOK StaleOnlyAfterFault
PROPERTIES CommandsInOrder AllStop AllFollow
