SPECIFICATION Spec
CONSTANTS
  IP = {a, p}
  Protected = {p}
  Process = {"consumer", "relay"}
  Worker = {"w1"}
  Handler = {}
  Auditor = {}
  Decayer = {"decay"}
  Booter = {"boot", "bootRelay"}
  Home <- MCHome
  Request = {}
  None = None
  REPUTATION_LIMIT = 1
  REPUTATION_TEMP_BLOCK = 2
  REPUTATION_PERM_BLOCK = 3
  Delta <- MCDelta
  MinScore <- MCMinScore
  MaxScore = 3
  MaxCrashes = 1
  SetupMayFail = TRUE
  SetsMayVanish = TRUE
INVARIANTS
  
  NoSelfDeadlock
