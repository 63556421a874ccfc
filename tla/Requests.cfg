SPECIFICATION RequestsSpec
CONSTANTS
  Pairs = {p1, p2}
  Twins = {q1, q2}
  Jobs = {j1, h1}
  HttpJobs = {h1}
  Execs = {p1, p2}
  Callers = {q1, q2}
  MaxConcurrency = 1
  MaxAttempts = 2
  Cancels = FALSE
  Toggles = FALSE
  Faults = TRUE
  Crashes = TRUE
  Accounts = {u1}
  Tokens = {p1, p2}
  Handlers = {q1, q2}
  MaxTokenVersion = 1
  Rules = {r1, r2}
  Alerts = {q1, q2}
  Channels = {m1}
  Cooldown = 1
  AlertHorizon = 2
  Every = 2
  Grace = 1
  Recent = 1
  OneDay = 2
  LogLines = 2
  LogHorizon = 2
  SecretClients = {c1}
  Tasks = {q1, q2}
  MaxKey = 2
SYMMETRY Symmetry
INVARIANTS
  AdmittedWasLive
  ApprovedHasAccount
  ReturnedAlertReached
  SealedIsReadable
PROPERTIES
  FollowsLifecycle
  RevocationIsFinal
  
CHECK_DEADLOCK FALSE
