SPECIFICATION Spec
CONSTANTS
  Clients = {c1, c2}
  Users = {}
  Runs = {r1}
  AlertIds = {1, 2}
  MaxTime = 3
  EscalationMins = 1
  CooldownMins = 1
  AutoAckMins = 1
  SuppressMins = {}
  AutoNotify = TRUE
  Requests = {"one"}
  Unreachable = {}
  Faults = FALSE
PROPERTIES
  ResolvesOnlyQueried
