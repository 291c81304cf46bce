SPECIFICATION Spec
CONSTANTS
  Formats = {"44k1"}
  RateOf <- MCRateOf
  Models = {"full", "narrow"}
  ModelRate <- MCModelRate
  NoModel = NoModel
  NoPair <- MCNoPair
  Clients = {c}
  Calls = {"update"}
  Failures = {"prepare"}
  Slots = {}
CHECK_DEADLOCK FALSE
INVARIANT PairMatchesPrefill
