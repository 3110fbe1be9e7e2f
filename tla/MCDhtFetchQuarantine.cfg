CONSTANTS
    p1 = p1
    p2 = p2
    p3 = p3
    Peers <- MCPeers
    Versions <- MCVersions
    Modes <- MCQuarantineModes
    Before <- MCBefore
    MaxProviders = 2
    MaxFetches = 4
    MaxFaults = 0
SPECIFICATION Spec
INVARIANTS
    QuarantinedIsNotAsked
CHECK_DEADLOCK FALSE
