SPECIFICATION FocusedSpec
CONSTANTS
  MaxSessions = 2
  MaxToggles = 2
  PipeSize = 1
  Polls = TRUE
  Signals = {"Interrupt", "Hangup"}
  Urgent = {"Interrupt"}
  EventSize = 1
  ErrorSize = 1
  MaxRaises = 2
  MaxErrors = 1
INVARIANTS
  TerminalRestored
  ExitIsClean
PROPERTIES
  ExitIsAnswered
  SignalsArrive
  CloseEndsThread
CHECK_DEADLOCK FALSE
