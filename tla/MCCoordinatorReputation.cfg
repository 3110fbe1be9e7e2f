CONSTANTS
    p1 = p1
    p2 = p2
    o1 = o1
    o2 = o2
    NoPeer = NoPeer
    NoTime = NoTime
    Reporters <- MCReporters
    Peers <- MCPeers2
    Objects <- MCObjects1
    Exempt = {}
    SuspectThreshold = 8
    QuarantineThreshold = 16
    Cooldown = 2
    DedupeWindow = 2
    Weight <- MCWeight
    RestartAllowed = TRUE
    MaxNow = 4
    MaxScore = 24
    Catalogue <- MCCatalogueContents
    Prefixes <- MCPrefixes1
    Locations <- MCLocations
    LocationOf <- MCLocationOf2
    PeerOrder <- MCOrder2
    Transfers = {1}
    MaxTransfers = 1
    MaxProviders = 1
    LoadAware = TRUE
    ReputationEnabled = TRUE
    PeerTimeout = 1
    CleanupInterval = 2
SPECIFICATION Spec
INVARIANTS
    QuarantineIsBounded
    AnswerPrefersHealthy
PROPERTIES
    EvictionIsEarned
    ImplementsReputation
CHECK_DEADLOCK FALSE
