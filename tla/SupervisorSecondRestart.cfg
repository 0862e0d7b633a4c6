SPECIFICATION Spec
CONSTANTS
  Unix = TRUE
  Clients = {c1}
  Methods <- RestartMethods
  MaxTickets = 2
  MayDrop = FALSE
INVARIANT OneRestartPerRequest
CHECK_DEADLOCK FALSE
