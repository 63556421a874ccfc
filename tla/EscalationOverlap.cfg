SPECIFICATION Spec
CONSTANTS
  Clients = {c1}
  Users = {u1}
  Runs = {r1, r2}
  AlertIds = {1}
  MaxTime = 2
  EscalationMins = 1
  CooldownMins = 0
  AutoAckMins = 1
  SuppressMins = {1}
  AutoNotify = TRUE
  Requests = {"all", "one", "notify"}
  Unreachable = {c1}
  Faults = TRUE
SYMMETRY Symmetry
PROPERTIES
  AutoAckMeansNotified
  ResolutionIsFinal
  ReopensOnlyExpired
