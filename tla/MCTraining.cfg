SPECIFICATION Spec
CONSTANTS
    Epochs <- FourThenTwo
    Steps = 1
    Losses = {1, 2, 4}
    NonFinite <- Broken
    MinDelta = 2
    EarlyStop = TRUE
    EsEpochs = 2
    ReduceLR = TRUE
    PlateauEpochs = 1
    MaxToKeep = 2
    Methods <- ThenLast
    ForceLR = TRUE
    Source <- Release
    FeatureCache = TRUE
    CacheForEpochs = {0, 2}
    TimedEpochs = {1}
    MaxRuns = 2
CHECK_DEADLOCK FALSE
INVARIANTS
  CheckpointInv
  BestKept
  EarlyStopInTime
  EpochsWhole
  CacheExpires
PROPERTIES
  PlateauRestarts
