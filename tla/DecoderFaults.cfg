SPECIFICATION TelemetryFairSpec
CONSTANTS
    health = health
    Checkers <- OneChecker
    Voyages <- AtSea
    StoreMayFail = FALSE
    MaySkip = TRUE
    MayBeLate = TRUE
    MayDie = TRUE
    SpawnMayFail = TRUE
    MayBabble = TRUE
    PipeLines = 1
    MayStop = TRUE
    JoinMayExpire = TRUE
    MaxFrames = 3
    MaxSpawns = 2
    MaxChecks = 1
INVARIANTS TelemetryTypeOK LatenessAloneMispairs CrowdAloneLeaks LatenessAloneRejuvenates
PROPERTIES KeepsContract OnlyPipeOrJunkHangs RespawnAloneTurnsBack
CHECK_DEADLOCK FALSE
