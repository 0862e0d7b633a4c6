SPECIFICATION WorkersSpec
CONSTANTS
  Ids = {i1, i2}
  Urgencies = {TRUE, FALSE}
  ChannelSize = 1
  MaxEvents = 2
  MaxJobs = 2
  SameIdTwice = FALSE
  Pathsets <- SomePathsets
  WatcherKinds = {"native", "poll"}
  MaxChanges = 4
  Configs <- FourSettings
  Batches <- SomeBatches
  MaxBatches <- UpToThree
  Unix = FALSE
  Trees <- SomeTrees
  CliOptions <- SomeOpts
  FsEvents <- SomeEvents
  MaxErrors = 1
INVARIANTS
  TrailingEdge
  NoLostJob
  QuitReapsAll
  WatchedIsConfigured
  IgnoresApply
  NoChangeForgotten
PROPERTIES
  GracefulQuitEnds
  EventsHandled
  CaughtChangeIsApplied
  ChangesAnswered
  TimeoutEnds
CHECK_DEADLOCK FALSE
