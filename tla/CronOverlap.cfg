SPECIFICATION Spec
CONSTANTS
  a = a
  b = b
  Commands = {a, b}
  Schedules = {1, 2}
  BaseName <- OwnNames
  Crontabs <- TwoCrontabs
  Jobs = {j1, j2}
  Rows = {r1, r2}
  Syncs = {s1, s2}
  Users = TRUE
  Faults = TRUE
  Crashes = TRUE
SYMMETRY Symmetry
INVARIANTS
  SyncRepairs
  OneRunningRow
  BatchesExclude
