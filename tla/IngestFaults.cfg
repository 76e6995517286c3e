SPECIFICATION FairSpec
CONSTANTS
    FrameKinds <- Traffic
    DecoderMayFail = TRUE
    StoreMayFail = TRUE
    CaptureMayFail = TRUE
    BusMayFail = TRUE
    JoinMayExpire = TRUE
    MaxFrames = 3
    MaxStarts = 2
    MaxSessions = 1
INVARIANTS TypeOK OneListener RunningMeansAlive CaptureIsGapless FramesAccounted TelemetryExplained
PROPERTIES StopEndsListener
