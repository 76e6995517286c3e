SPECIFICATION Spec
CONSTANTS
    w1 = w1
    w2 = w2
    Workers <- TwoWorkers
    PreviewRequests <- NoPreviews
    LabKinds <- Mute
    Configs <- LabOnly
    Window = 1
    MaxAttempts = 1
    StoreMayFail = FALSE
    BusMayFail = FALSE
    MaxTime = 2
    MaxCalls = 3
INVARIANTS NoFlood
