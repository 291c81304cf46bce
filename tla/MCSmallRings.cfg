SPECIFICATION PartsSpec
CONSTANTS
    Delay = 1
    FadeIn = 1
    FadeOut = 2
    Hop = 2
    MaxPacket = 4
    Slack = 1
    InCap = 5
    OutCap = 9
    DryCap = 12
    InfoCap = 2
    Rates <- MC_Rates
    ModelRate = 48
    NoRate = 0
    Holdback = 1
    PeakDelay = 1
    Frames <- MC_Frames
    Disturbances <- MC_Disturbances
    MaxTaken = 8
INVARIANTS
    PassthroughLeavesNothing
    RingsHold
    RingsCarryLanes
PROPERTIES
    JumpsReported
