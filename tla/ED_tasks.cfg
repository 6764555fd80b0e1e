SPECIFICATION MCSpec
CONSTANTS
  MaxEvents = 1
  Worker = {"w"}
  RecoveryWorker = "recovery"
  Key = {"scan"}
  KeyOf <- MCKeyOf
  Suppressible = {}
  BatchSize = 1
  MaxLen = 1
  MaxFaults = 0
  MaxStops = 0
  Flow = {"f", "g"}
  Alert = "alert"
  MaxReads = 2
  MaxPushFaults = 1
  MaxEnds = 1
  Conn = {"c1", "c2"}
  MaxAlerts = 3
  StreamLen = 2
  BatchCount = 2
  MaxErrors = 1
  MaxStalls = 1
  MaxRestarts = 1
INVARIANTS
  Conserved
  Gapless
PROPERTIES
  FlowLeaves
  FeedMovesOn
CHECK_DEADLOCK FALSE
