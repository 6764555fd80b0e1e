SPECIFICATION FairSpec
CONSTANTS
  ATTACK = 950
  SUSPICIOUS = 850
  ANOMALY = 800
  None = None
  Event = {"e1", "e2"}
  Source = {"a"}
  SourceOf <- MCSame
  Protected = {}
  V6 = {}
  EvidenceSeen <- MCEvidence
  TechniqueSeen = {"T1595"}
  CtiScore = {500}
  MAX_CACHE_SIZE = 1
  REPUTATION_LIMIT = 10000
  REPUTATION_TEMP_BLOCK = 25000
  REPUTATION_PERM_BLOCK = 50000
  MaxFailures = 0
  MaxCrashes = 1
  MaxOrders = 0
INVARIANTS
  
  OnlyThreatsPunished
  
  SignatureStands
  
CHECK_DEADLOCK FALSE
