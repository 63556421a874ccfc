SPECIFICATION Spec
CONSTANTS
  a = a
  b = b
  Commands = {a, b}
  Schedules = {1, 2}
  BaseName <- OwnNames
  Crontabs <- FewCrontabs
  Jobs = {j1, j2}
  Rows = {r1, r2}
  Syncs = {s1}
  Users = FALSE
  Faults = TRUE
  Crashes = FALSE
PROPERTIES
  DiscoveredIsKept
