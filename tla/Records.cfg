SPECIFICATION RecordsSpec
CONSTANTS
  Pairs = {p1, p2}
  Twins = {q1, q2}
  Clients = {p1, p2}
  Windows = {2}
  Loads = {q1, q2}
  Limit = 2
  MaxVersion = 1
  Backlog = {1}
  Stoppable = FALSE
  WindowIds = {w1}
  Visits = {q1, q2}
  LastInstant = 2
  PunchClients = {c1}
  PunchCalls = {q1, q2}
  PunchCooldown = 1
  PunchHorizon = 3
  PayClients = {p1, p2}
  StoreGroups = {g1}
  PayWorkers = 2
  GraceTime = 1
  PayHorizon = 1
  Patches = {q1, q2}
  Overlap = FALSE
  ConfigFaults = TRUE
  Restarts = TRUE
  CheckJobs = {j1}
  Period = 3
  Window = 2
  Delay = 1
  CheckHorizon = 7
SYMMETRY Symmetry
INVARIANTS
  PendingMatchesClients
  WindowIsInterval
  SnapshotIsSound
  QuietConfigAgrees
  ChecksOnce
PROPERTIES
  RefreshNeverGoesBack
  SummaryIsComplete
  SuppressionOutlivesReads
CHECK_DEADLOCK FALSE
