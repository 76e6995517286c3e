SPECIFICATION Spec
CONSTANTS
    w1 = w1
    w2 = w2
    Workers <- TwoWorkers
    Templates = {"night"}
    Pgns = {130582}
    GateChoices <- ThreeGates
    StoreMayFail = TRUE
    MaxCalls = 3
INVARIANTS TypeOK EventsMatchWrites AnnotationsOnlyGrow WatchAnswersExplained ShownGateIsPolicys
SYMMETRY Interchangeable
