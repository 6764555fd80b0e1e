SPECIFICATION FairSpec
CONSTANTS
  ATTACK = 950
  SUSPICIOUS = 850
  ANOMALY = 800
  None = None
  Event = {"e1", "e2"}
  Source = {"a", "b"}
  SourceOf <- MCApart
  Protected = {"b"}
  V6 = {"a"}
  EvidenceSeen <- MCFlood
  TechniqueSeen = {"T1498", None}
  CtiScore = {0, 500}
  MAX_CACHE_SIZE = 1
  REPUTATION_LIMIT = 10000
  REPUTATION_TEMP_BLOCK = 25000
  REPUTATION_PERM_BLOCK = 50000
  MaxFailures = 1
  MaxCrashes = 1
  MaxOrders = 1
INVARIANTS
  ProtectedUntouched
PROPERTIES
  FloodStopped
CHECK_DEADLOCK FALSE
