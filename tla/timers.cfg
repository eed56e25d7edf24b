\* Two modules, each with a timer of its own or both with the same one.
\* They stop when both addresses have had their instances.
CHECK_DEADLOCK FALSE
SPECIFICATION TimersSpec
CONSTANTS
  Modules = {1, 2}
  NULL = 0
  QueueSize = 1
  MaxInstances = 2
  TimerIds = {1, 2}
  Uses <- BothUses
  Ops <- AllOps
  MaxCount = 1
  Faults = {"timer_create", "timer_settime"}
INVARIANTS
  
  RunningIsArmed
