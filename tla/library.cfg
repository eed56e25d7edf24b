\* Two threads create and destroy contexts; engines fail; the library restarts.
\* It stops when the library is down for the last time, or when every thread
\* waits for the mutex that a failed destruction keeps.
CHECK_DEADLOCK FALSE
SPECIFICATION LibraryLiveSpec
CONSTANTS
  Threads = {t1, t2}
  Workdirs = {w1, w2}
  Vtables <- SomeVtables
  MaxContexts = 3
  MaxInits = 2
  Settings <- BothSettings
INVARIANTS
  
  PhaseHolds

  
