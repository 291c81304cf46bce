SPECIFICATION WindowSpec
CONSTANTS
  Formats = {"48k"}
  RateOf <- MCRateOf
  Models = {"full"}
  ModelRate <- MCModelRate
  NoModel = NoModel
  NoPair <- MCNoPair
  Clients = {c}
  Calls = {"update"}
  Failures = {"process"}
  Slots = {}
CHECK_DEADLOCK FALSE
INVARIANT StatusFollows
