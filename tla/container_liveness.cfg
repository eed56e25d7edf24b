\* Three threads start a container whose guest returns, and wait for it.
SPECIFICATION TerminatingSpec
CONSTANTS
  Callers = {c1, c2, c3}
  Calls <- StartAndWait
  Detached = FALSE
  RuntimeOps = {}
  Spurious = TRUE
  MaxRuns = 2
  GuestExits = TRUE
  Faults = {"attr"}
INVARIANTS
  SemBalanced
PROPERTIES
  BlockedReturn
