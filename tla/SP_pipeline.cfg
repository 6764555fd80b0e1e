SPECIFICATION FairSpec
CONSTANTS
  MaxEvents = 2
  Worker = {"w1", "w2"}
  RecoveryWorker = "recovery"
  Key = {"scan"}
  KeyOf <- MCKeySame
  Suppressible = {"scan"}
  BatchSize = 2
  MaxLen = 1
  MaxFaults = 2
  MaxStops = 1
INVARIANTS
  NoDoubleAlert
  AckedIsSettled
PROPERTIES
  ImplementsDelivery
  EventSettled
  DuplicateAlerted
  
