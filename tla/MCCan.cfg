SPECIFICATION MCSpec
CONSTANTS
    Base = 8
    NodeIdMax = 3
    Nodes = {0, 1, 3}
    MaxClock = 60
    MaxBitrate = 3
    Samples = {500, 501, 750, 800, 875, 950}
    Presc = 4
    Seg1 = 8
    Seg2 = 4
INVARIANTS RoundTrip CommandsExecutable TimingIsBest
CHECK_DEADLOCK FALSE
