SPECIFICATION Spec
CONSTANTS
  Flow <- MCFlow
  Time = {0, 1, 3}
  Decay = {1}
  WindowSize = 4
  StampMax = 2
INVARIANTS
  IndexSound
  NoGhostStamps
PROPERTY
  RecentWhenOrdered
