CONSTANTS
    p1 = p1
    p2 = p2
    origin = origin
    o1 = o1
    Peers <- MCPeers
    Objects = {o1}
    Exempt <- MCExempt
    NoPeer = NoPeer
    Reporters <- MCReporters
    NoTime = NoTime
    SuspectThreshold = 8
    QuarantineThreshold = 24
    Cooldown = 2
    DedupeWindow = 2
    Weight <- MCWeight
    RestartAllowed = TRUE
    MaxNow = 4
    MaxScore = 32
SYMMETRY MCSymmetry
SPECIFICATION RepSpec
INVARIANTS
    RepTypeOK
    StateMatchesScore
PROPERTIES
    QuarantineNeedsSilence
    OffenderStaysMarked
    ReportsAreRateLimited
CHECK_DEADLOCK FALSE
