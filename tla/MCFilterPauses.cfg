SPECIFICATION FairSpec
CONSTANTS
  Formats = {"44k1"}
  RateOf <- MCRateOf
  Models = {"full"}
  ModelRate <- MCModelRate
  NoModel = NoModel
  NoPair <- MCNoPair
  Clients = {c}
  Calls = {"update"}
  Failures = {"load", "process", "overload"}
  Slots = {"setback"}
CHECK_DEADLOCK FALSE
INVARIANTS
  TypeOK
  PauseHasRetry
  DelayFitsAttempt
  ScheduleFollowsProbe
  NoEventLost
PROPERTIES
  PauseEnds
  WorkerStops
