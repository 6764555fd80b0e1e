SPECIFICATION FairSpec
CONSTANTS
  IP = {a}
  Protected = {}
  Process = {"consumer"}
  Worker = {"w1"}
  Handler = {"h1"}
  Auditor = {"audit"}
  Decayer = {}
  Booter = {"boot"}
  Home <- MCHome
  Request = {"block"}
  None = None
  REPUTATION_LIMIT = 1
  REPUTATION_TEMP_BLOCK = 2
  REPUTATION_PERM_BLOCK = 3
  Delta <- MCDeltaPair
  MinScore = 0
  MaxScore = 3
  MaxCrashes = 1
  SetupMayFail = FALSE
  SetsMayVanish = FALSE
PROPERTIES
  
  OffenderEnforced
