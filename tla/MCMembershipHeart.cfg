CONSTANTS
    o1 = o1
    o2 = o2
    heart = heart
    report = report
    NoObject = NoObject
    Objects <- MCObjects
    Timed <- MCTimed
    MaxFaults = 0
    MaxRestarts = 1
SPECIFICATION Spec
PROPERTIES
    RunningPeerIsRegistered
