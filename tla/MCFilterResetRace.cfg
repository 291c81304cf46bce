SPECIFICATION Spec
CONSTANTS
  Formats = {"48k"}
  RateOf <- MCRateOf
  Models = {"full"}
  ModelRate <- MCModelRate
  NoModel = NoModel
  NoPair <- MCNoPair
  Clients = {c}
  Calls = {"update", "reset"}
  Failures = {"overload"}
  Slots = {}
CHECK_DEADLOCK FALSE
INVARIANT PauseHasRetry
