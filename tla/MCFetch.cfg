CONSTANTS
    p1 = p1
    p2 = p2
    p3 = p3
    Peers <- AllPeers
    Versions <- TwoVersions
    Corrupting <- LastPeer
    Missing <- SecondPeer
    MaxFetches = 3
    MaxFaults = 1
    MaxInvalidations = 1
SPECIFICATION Spec
INVARIANTS
    FetchTypeOK
    CachesAreGenuine
    QuietInvalidationHolds
PROPERTIES
    VersionIsHonoured
CHECK_DEADLOCK FALSE
