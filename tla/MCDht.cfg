CONSTANTS
    p1 = p1
    p2 = p2
    NoCopy = NoCopy
    NoTime = NoTime
    Peers <- MCPeers
    Descriptions <- MCDescriptions
    Attempts = 2
    MaxNow = 1
    MaxEvents = 3
SPECIFICATION DhtSpec
INVARIANTS
    DhtTypeOK
    OneEntryPerPeer
    QuietListIsExact
PROPERTIES
    HolderIsFoundAgain
CHECK_DEADLOCK FALSE
