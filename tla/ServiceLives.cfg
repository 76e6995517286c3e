SPECIFICATION FairSpec
CONSTANTS
    Files <- FiveFiles
    Parts = {"decoder", "link", "ip"}
    Interval = 3
    Burst = 3
    RestartSec = 1
    StartTicks = 1
    StopTicks = 1
    KillTicks = 5
    BootDelay = 6
    Period = 3
    Accuracy = 1
    Horizon = 13
INVARIANTS RecoversInTime OnlyMisspeltStopIsLost OpenLivesAreShort
PROPERTIES DownIsRevived
