SPECIFICATION TicketsSpec
CONSTANTS
  Tasks = {w1, w2}
  Controls = {k1, k2}
INVARIANT NoLostWakeup
PROPERTIES
  SoleTicketResolves
  TicketsResolve
  EndingObserved
CHECK_DEADLOCK FALSE
