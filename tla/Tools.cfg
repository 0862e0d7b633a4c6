SPECIFICATION ToolsSpec
CONSTANTS
  Path <- Paths
  Token <- Contents
  Command <- SomeCommands
  Disks <- SomeDisks
  Volume <- Volumes
  MaxRuns = 2
  Owners = {1, 2}
  Slots = {1, 2}
  Names = {"n1", "n2", "n3"}
  Devices <- Drives
  MaxBytes = 5
  MaxLooks = 3
  LineCounts = {0, 1, 2}
  Threshold = 3
  SomeSockets <- AllSockets
  Programs = {"x", "y"}
  MaxChanges = 2
  Pids = {1, 2}
  Texts <- RowTexts
  Letters = {"a", "b"}
  Heights = {1, 9}
  MaxSteps = 4
  Traffic <- Packets
  Modulus = 8
  Skips <- LinkHeaders
  MaxPackets = 3
  Places <- BelowR
  ByName <- NameOrder
  ByText <- TextOrder
  Metas <- NewFiles
  DepthLimit = 1
  FindLands <- Lands
  FindJobs <- FirstJobs
  LaterJobs <- Searches
  MaxEvents = 2
INVARIANTS NothingLost SuccessMeansDone ListIsCurrent FollowIsComplete RowsAreTrue
  SocketsAreTrue SequenceAgrees ReadBackIsWhole FindIsTrue
PROPERTY NoSpike
CHECK_DEADLOCK FALSE
