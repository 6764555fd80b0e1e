SPECIFICATION FairSpec
CONSTANTS
  Schema = {"unsw", "c2"}
  LengthOf <- MCLengthOf
  Model = {"forest", "onnx"}
  TrainedOn <- MCTrainedOn
  Onnx = {"onnx"}
  Companion = {}
  Unscaled = {"onnx"}
  DefaultModel = "forest"
  Event = {"flow", "flat", "other", "dns"}
  Flat = {"flat", "other"}
  Silent = {"dns"}
  Batch <- MCBatch
  Release <- MCRelease
  CacheSize = 1
  Request = {"r1"}
  MaxWrites = 2
  MaxDeploys = 2
  MaxCrashes = 1
  None = None
INVARIANTS
  EngineCoherent
  
  Aligned

  
