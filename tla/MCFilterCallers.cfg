SPECIFICATION FairSpec
CONSTANTS
  Formats = {"44k1"}
  RateOf <- MCRateOf
  Models = {"full"}
  ModelRate <- MCModelRate
  NoModel = NoModel
  NoPair <- MCNoPair
  Clients = {c, d}
  Calls = {"update", "reset", "boundary", "enable"}
  Failures = {"process"}
  Slots = {}
CHECK_DEADLOCK FALSE
INVARIANTS
  StatusModelAlive
  PairMatchesPrefill
PROPERTIES
  CallsReturn
