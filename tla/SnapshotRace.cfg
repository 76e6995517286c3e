SPECIFICATION Spec
CONSTANTS
    w1 = w1
    w2 = w2
    Workers <- TwoWorkers
    Templates = {"night", "dock"}
    Pgns = {130582}
    GateChoices <- ClosedOnly
    StoreMayFail = FALSE
    MaxCalls = 2
INVARIANTS SnapshotsAreTrue
