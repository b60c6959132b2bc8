SPECIFICATION Spec
CONSTANTS
    NodeIdMax = 3
    MaxNodes = 2
    Timeout = 1
    Modulus = 4
    Nodes = {0, 1, 2, 3}
    Restarting = {1}
    HeartbeatMs = 1
    PollMax = 1
    ViewPeers = 1
INVARIANTS
    TypeOK
    OneSlotPerNode
    AgeIsTrue
PROPERTIES
    ImplementsDetector
    ResetNoticed
    RebootHasCause
