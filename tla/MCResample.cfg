SPECIFICATION HistorySpec
CONSTANTS
    Delay = 1
    FadeIn = 1
    FadeOut = 2
    Hop = 2
    MaxPacket = 4
    Slack = 1
    InCap = 9
    OutCap = 14
    DryCap = 24
    InfoCap = 24
    Rates <- MC_Rates
    ModelRate = 48
    NoRate = 0
    Holdback = 1
    PeakDelay = 1
    Frames <- MC_Frames
    Disturbances <- MC_Disturbances
    MaxTaken = 10
    MinRate = 5
    MaxRate = 8
    MaxWindow = 4
    MaxPrefill = 1
    LeastPlan <- MC_Least
INVARIANTS
    TypeOK
    LanesInSync
    OutputStamped
    PassthroughLeavesNothing
    BoundedLatency
    NoCapacityFailure
    PathIsCurrent
PROPERTIES
    FailuresReported
    KeepsPromise
