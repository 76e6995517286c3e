SPECIFICATION Spec
CONSTANTS
    Requests <- MCRequests
    GateChoices <- MCGates
    Window = 1
    MaxAttempts = 2
    StoreMayFail = TRUE
    MaxTime = 3
    MaxDecided = 4
    MaxRows = 3
INVARIANTS TypeOK RateBound AuditExplainsDenial
PROPERTIES KeepsPromise
