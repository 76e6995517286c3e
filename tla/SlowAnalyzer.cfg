SPECIFICATION Spec
CONSTANTS
    health = health
    Checkers <- NoChecker
    MaySkip = FALSE
    MayBeLate = TRUE
    MayDie = FALSE
    SpawnMayFail = FALSE
    MayBabble = FALSE
    PipeLines = 1
    MayStop = FALSE
    JoinMayExpire = FALSE
    MaxFrames = 3
    MaxSpawns = 1
    MaxChecks = 0
INVARIANTS AnswerMatchesFrame
CHECK_DEADLOCK FALSE
