SPECIFICATION FairSpec
CONSTANTS
  IP = {"a"}
  Switch = {"s1", "s2"}
  Client = {"c"}
  Leftover = {"a"}
  MaxRequests = 2
  MaxEvents = 1
  MaxCuts = 1
INVARIANTS
  BlockStands
  ReleasedClean
  ListedUntilNoticed
PROPERTIES
  TimedRuleEnds
CHECK_DEADLOCK FALSE
