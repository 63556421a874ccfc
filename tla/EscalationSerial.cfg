SPECIFICATION DeskSpec
CONSTANTS
  Clients = {c1, c2}
  Users = {}
  Runs = {r1}
  AlertIds = {1, 2}
  MaxTime = 3
  EscalationMins = 1
  CooldownMins = 1
  AutoAckMins = 1
  SuppressMins = {}
  AutoNotify = TRUE
  Requests = {"all", "notify"}
  Unreachable = {}
  Faults = FALSE
  ImpactClients = {x1}
  Viewers = {k1, l1}
  Calendars = {l1}
  Hangs = TRUE
SYMMETRY Symmetry
INVARIANTS
  TypeOK
  OneActivePerClient
  NoMailWithinCooldown
  RefreshTracksPending
  ImpactIsSound
PROPERTIES
  PastReportIsFinal
