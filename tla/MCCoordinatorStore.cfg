CONSTANTS
    p1 = p1
    p2 = p2
    o1 = o1
    o2 = o2
    NoPeer = NoPeer
    NoTime = NoTime
    Reporters <- MCAnonymous
    Peers <- MCPeers2
    Objects <- MCObjects2
    Exempt = {}
    SuspectThreshold = 8
    QuarantineThreshold = 16
    Cooldown = 3
    DedupeWindow = 1
    Weight <- MCWeight
    RestartAllowed = TRUE
    MaxNow = 5
    MaxScore = 0
    Catalogue <- MCCatalogue
    Prefixes <- MCPrefixes2
    Locations <- MCLocations
    LocationOf <- MCLocationOf2
    PeerOrder <- MCOrder2
    Transfers = {1}
    MaxTransfers = 1
    MaxProviders = 1
    LoadAware = TRUE
    ReputationEnabled = FALSE
    PeerTimeout = 1
    CleanupInterval = 2
SPECIFICATION HistorySpec
INVARIANTS
    TypeOK
    StoreIsConsistent
    SilenceIsBounded
    OneContentPerVersion
PROPERTIES
    ImplementsDirectory
CHECK_DEADLOCK FALSE
