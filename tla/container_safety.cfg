\* Three threads, every call, every fault, an engine with all operations.
\* With "instantiate" every thread may end up in a start that is never answered.
CHECK_DEADLOCK FALSE
SPECIFICATION Spec
CONSTANTS
  Callers = {c1, c2, c3}
  Calls <- AnyCall
  Detached = TRUE
  RuntimeOps = {"stop", "pause", "unpause"}
  Spurious = TRUE
  MaxRuns = 3
  GuestExits = TRUE
  Faults = {"attr", "thread", "instantiate"}
SYMMETRY CallerSymmetry
INVARIANTS
  TypeOK
  MutualExclusion
  OneThread
  JoinDoesNotBlock
  WaitReportsLatestRun
  StoppedIsStopped
PROPERTY ImplementsLifecycle
