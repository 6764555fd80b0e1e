SPECIFICATION FairSpec
CONSTANTS
  Schema = {"s49", "s29"}
  Task = {"t1", "t2"}
  BufferMin = 1
  BufferMax = 2
  Cooldown = 1
  None = None
INVARIANTS
  TrustedOrigin
PROPERTIES
  
  RefreshEnds
