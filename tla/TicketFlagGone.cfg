SPECIFICATION FairFlagSpec
CONSTANTS
  Tasks = {w1, w2}
  Controls = {k1, k2}
PROPERTY AllPendingResolve
CHECK_DEADLOCK FALSE
