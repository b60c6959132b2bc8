SPECIFICATION Spec
CONSTANTS
    NodeIdMax = 3
    MaxNodes = 2
    Timeout = 3
    Modulus = 8
    Nodes = {1}
    Restarting = {1}
    HeartbeatMs = 2
    PollMax = 1
    ViewPeers = 1
PROPERTY RebootMeansReset
