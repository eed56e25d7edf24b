\* One application thread uses and removes the container.
\* The model stops when the container is freed.
CHECK_DEADLOCK FALSE
SPECIFICATION RemovalLiveSpec
CONSTANTS
  Callers = {c1}
  Calls <- WamrCalls
  Detached = TRUE
  RuntimeOps = {}
  Spurious = FALSE
  MaxRuns = 2
  GuestExits = TRUE
  Faults = {"attr", "thread"}
  SingleThreaded = TRUE
INVARIANTS
  RemovedIsJoined
PROPERTIES
  RemovalReturns
  KilledRunEnds
