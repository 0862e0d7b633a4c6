SPECIFICATION FocusedSpec
CONSTANTS
  MaxSessions = 2
  MaxToggles = 2
  PipeSize = 1
  Polls = FALSE
  Signals = {"Interrupt", "Hangup"}
  Urgent = {"Interrupt"}
  EventSize = 1
  ErrorSize = 1
  MaxRaises = 2
  MaxErrors = 1
PROPERTY ProcessEnds
CHECK_DEADLOCK FALSE
