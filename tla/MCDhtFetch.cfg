CONSTANTS
    p1 = p1
    p2 = p2
    p3 = p3
    Peers <- MCPeers
    Versions <- MCVersions
    Modes <- MCModes
    Before <- MCBefore
    MaxProviders = 2
    MaxFetches = 3
    MaxFaults = 1
SPECIFICATION Spec
INVARIANTS
    DhtFetchTypeOK
    CachesAreGenuine
    SteadyHolderIsAsked
CHECK_DEADLOCK FALSE
PROPERTIES
    VersionIsHonoured
    HonestIsNotAccused
