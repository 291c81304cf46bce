SPECIFICATION Spec
CONSTANTS
  Formats = {"44k1", "96k"}
  RateOf <- MCRateOf
  Models = {"full"}
  ModelRate <- MCModelRate
  NoModel = NoModel
  NoPair <- MCNoPair
  Clients = {c}
  Calls = {"update", "boundary"}
  Failures = {}
  Slots = {}
CHECK_DEADLOCK FALSE
INVARIANT PairIsComing
