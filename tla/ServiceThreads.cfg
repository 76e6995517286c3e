SPECIFICATION Spec
CONSTANTS
    w1 = w1
    w2 = w2
    Workers <- TwoWorkers
    PreviewRequests <- OnePreview
    LabKinds <- Mute
    Configs <- AllConfigs
    Window = 1
    MaxAttempts = 1
    StoreMayFail = TRUE
    BusMayFail = TRUE
    MaxTime = 2
    MaxCalls = 3
INVARIANTS TypeOK EffectsAreAudited ToldTruly OverlapAloneBreaksRate OverlapAloneReopens
PROPERTIES SendsBehindGates
SYMMETRY Interchangeable

