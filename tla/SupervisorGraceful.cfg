SPECIFICATION Spec
CONSTANTS
  Unix = TRUE
  Clients = {c1, c2}
  Methods <- GracefulMethods
  MaxTickets = 4
  MayDrop = TRUE
SYMMETRY ClientSymmetry
INVARIANTS
  NoLostTicket
  NoOverlap
  ResolvedMeansEnded
  GraceRespected
PROPERTY ImplementsContract
CHECK_DEADLOCK FALSE
