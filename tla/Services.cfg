SPECIFICATION ServicesSpec
CONSTANTS
  Jobs = {j1, h1}
  Execs = {e1}
  Callers = {k1}
  HttpJobs = {h1}
  MaxConcurrency = 1
  MaxAttempts = 3
  Cancels = TRUE
  Toggles = TRUE
  Faults = FALSE
  Crashes = FALSE
  BatchClients = {c1, c2, c3}
  BatchLoads = {l1}
  a = a
  b = b
  CronJobs = {j1, j2, j3}
  SyncRows = {r1, r2}
  Syncs = {s1}
  CountClients = {c1, c2, c3}
  CountCalls = {r1, r2}
  PunchWorkers = 2
  ScanClients = {c1, c2, c3}
  Fetches = {f1, f2}
  UsesTotp = TRUE
  Boxes = {c1, c2}
  LoadRuns = {l1, l2}
  LoadWorkers = 1
  Tabs = {t1, t2}
  Sessions = {s1, s2}
  InAir = 1
  Executions = {e1}
  Writes = 4
INVARIANTS
  RunningIsAlive
  KillsOnlyCancelled
  LimitsHold
  DoneShowsEveryClient
  WritesAsShown
  HeardIsShown
PROPERTIES
  SuccessIsNotRepeated
  CancelledChildEnds
  OnlyWorkBlocks
  RefreshReturns
  BatchEnds
  EndIsNoticed
  LeavesLive
CHECK_DEADLOCK FALSE
