SPECIFICATION FsSpec
CONSTANTS
  Pathsets <- OnePathset
  WatcherKinds = {"native", "poll"}
  MaxChanges = 2
INVARIANT AlwaysWatchesPathset
CHECK_DEADLOCK FALSE
