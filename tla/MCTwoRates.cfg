SPECIFICATION Spec
CONSTANTS
    Hop = 1
    MaxPacket = 10
    Slack = 2
    InCap = 0
    OutCap = 0
    DryCap = 0
    InfoCap = 0
    MinRate = 2
    MaxRate = 5
    MaxWindow = 2
    MaxPrefill = 2
    LeastPlan <- MC_Least
    ModelRate = 3
    Rates = {2, 3, 5}
    Delay = 1
    Jitter = 4
    Frames = {1, 4, 10}
    MaxTaken = 23
INVARIANTS
    TypeOK
    InTime
    LoadBounded
    PacketsFit
    PushesFit
