\* A thread kills the container while another one starts it.
\* Every thread may wait for a guest that never returns.
CHECK_DEADLOCK FALSE
SPECIFICATION LiveSpec
CONSTANTS
  Callers = {c1, c2}
  Calls <- WamrCalls
  Detached = TRUE
  RuntimeOps = {}
  Spurious = FALSE
  MaxRuns = 2
  GuestExits = FALSE
  Faults = {}
PROPERTIES
  KillEndsRun
