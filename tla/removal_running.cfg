\* One application thread uses and removes the container.
\* The model stops when the container is freed.
CHECK_DEADLOCK FALSE
SPECIFICATION RemovalSpec
CONSTANTS
  Callers = {c1}
  Calls <- WamrCalls
  Detached = TRUE
  RuntimeOps = {}
  Spurious = FALSE
  MaxRuns = 2
  GuestExits = TRUE
  Faults = {}
  SingleThreaded = TRUE
INVARIANTS
  RemovedIsStopped
