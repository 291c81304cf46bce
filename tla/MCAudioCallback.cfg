SPECIFICATION Spec
CONSTANTS
  MaxNs = 7
  NsPerSecond = 2
  MaxDebt = 3
  MinObserved = 2
  ProbeMaxDebt = 2
  ProbeMinObserved = 1
  LastDelay = 2
  LastStamp = 7
  StampsPerSecond = 2
  Rates = {2, 3}
  Stamps = {0, 6}
  Frames = {2}
  Hops = {0, 1, 2}
  Costs = {0, 2, 6}
  HopSize = 1
  ModelRate = 2
  ProbeAudio = 3
  MaxCalls = 3
INVARIANTS
  TypeOK
  OverloadNoticed
  NoOverlap
  NotHeldBack
PROPERTIES
  PauseEarned
  RecoveryEarned
