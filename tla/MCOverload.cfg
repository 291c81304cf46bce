SPECIFICATION PartsFairSpec
CONSTANTS
    Delay = 2
    FadeIn = 2
    FadeOut = 3
    Hop = 1
    MaxPacket = 3
    Slack = 1
    InCap = 6
    OutCap = 10
    DryCap = 20
    InfoCap = 4
    Rates <- MC_Rates
    ModelRate = 48
    NoRate = 0
    Holdback = 0
    PeakDelay = 0
    Frames <- MC_Frames
    Disturbances <- MC_Disturbances
    MaxTaken = 12
INVARIANTS
    Aligned
    TensorsCarryLine
    OverlapComplete
PROPERTIES
    SmoothFade
    CallReturns
