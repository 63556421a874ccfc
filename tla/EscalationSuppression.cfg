SPECIFICATION Spec
CONSTANTS
  Clients = {c1}
  Users = {u1}
  Runs = {r1}
  AlertIds = {1, 2}
  MaxTime = 3
  EscalationMins = 1
  CooldownMins = 1
  AutoAckMins = 1
  SuppressMins = {2}
  AutoNotify = TRUE
  Requests = {"all"}
  Unreachable = {}
  Faults = FALSE
PROPERTIES
  SuppressionHolds
