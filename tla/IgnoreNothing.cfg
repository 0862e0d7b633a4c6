SPECIFICATION IgnoresSpec
CONSTANTS
  Unix = FALSE
  Trees <- SomeTrees
  CliOptions <- SomeOpts
  FsEvents <- SomeEvents
  MaxErrors = 1
INVARIANT ExplicitIgnoresApply
CHECK_DEADLOCK FALSE
