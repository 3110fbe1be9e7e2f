CONSTANTS
    o1 = o1
    o2 = o2
    heart = heart
    report = report
    NoObject = NoObject
    Objects <- MCObjects
    Timed = {}
    MaxFaults = 1
    MaxRestarts = 1
SPECIFICATION Spec
INVARIANTS
    MemTypeOK
PROPERTIES
    BeatingPeerIsRegistered
    HeldIsListed
