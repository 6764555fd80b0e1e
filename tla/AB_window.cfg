SPECIFICATION FairSpec
CONSTANTS
  Protocol = {"tcp", "udp"}
  Slot = {1, 2}
  Hold = 1
  Cooldown = 3
  WindowSize = 3
  LatentMin = 2
  MinSamples = {1, 2}
  MaxLevel = 2
PROPERTIES
  ContaminationNeedsSilence
  
  Thaws
  ClockSpec
