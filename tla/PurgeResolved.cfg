SPECIFICATION RetentionSpec
CONSTANTS
  Clients = {c1}
  Users = {}
  Runs = {r1}
  AlertIds = {1}
  MaxTime = 3
  EscalationMins = 1
  CooldownMins = 1
  AutoAckMins = 1
  SuppressMins = {}
  AutoNotify = FALSE
  Requests = {"all"}
  Unreachable = {}
  Faults = FALSE
  Purges = {p1}
  RetainSettings = {0}
PROPERTIES
  ResolvedIsPurged
CHECK_DEADLOCK FALSE
