SPECIFICATION PaySpec
CONSTANTS
  PayClients = {c1}
  StoreGroups = {g1}
  PayWorkers = 1
  GraceTime = 1
  PayHorizon = 1
INVARIANTS
  StalledIsFlagged
CHECK_DEADLOCK FALSE
