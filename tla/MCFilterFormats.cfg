SPECIFICATION Spec
CONSTANTS
  Formats = {"48k", "44k1", "44k1 surround"}
  RateOf <- MCRateOf
  Models = {"full", "narrow"}
  ModelRate <- MCModelRate
  NoModel = NoModel
  NoPair <- MCNoPair
  Clients = {c}
  Calls = {"update", "reset"}
  Failures = {"load", "prepare"}
  Slots = {}
CHECK_DEADLOCK FALSE
INVARIANT PairIsComing
