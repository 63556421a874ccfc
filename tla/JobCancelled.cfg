SPECIFICATION Spec
CONSTANTS
  Jobs = {j1, h1}
  Execs = {e1, e2}
  Callers = {k1}
  HttpJobs = {h1}
  MaxConcurrency = 1
  MaxAttempts = 2
  Cancels = TRUE
  Toggles = TRUE
  Faults = FALSE
  Crashes = FALSE
SYMMETRY Symmetry
PROPERTIES
  CancelledIsFinal
