CONSTANTS
    p1 = p1
    p2 = p2
    p3 = p3
    Peers <- TwoPeers
    Versions <- TwoVersions
    Corrupting = {}
    Missing = {}
    MaxFetches = 3
    MaxFaults = 0
    MaxInvalidations = 1
SPECIFICATION Spec
INVARIANTS
    InvalidatedIsGone
CHECK_DEADLOCK FALSE
