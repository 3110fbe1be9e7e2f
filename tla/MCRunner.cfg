CONSTANTS
    p1 = p1
    coordinator = coordinator
    origin = origin
    Peers <- MCPeers
    Coordinator <- coordinator
    Origin <- origin
    Orchestrators = {"docker-compose", "kubernetes"}
    Specs <- MCSpecs
    Latencies = {1, 4}
    MaxFaults = 1
SPECIFICATION Spec
INVARIANTS
    RunnerTypeOK
    PlanKeepsScript
    StackIsAsScripted
    UpIsForwarded
    ForwardsAreStopped
    SummaryIsCoherent
PROPERTIES
    RunEnds
CHECK_DEADLOCK FALSE
