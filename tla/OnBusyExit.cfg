SPECIFICATION BusySpec
CONSTANTS
  Configs <- ExitOnErrorSettings
  Batches <- SomeBatches
  MaxBatches <- UpToThree
INVARIANT FailureSeen
CHECK_DEADLOCK FALSE
