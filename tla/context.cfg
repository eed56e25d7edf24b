\* Two ids, three containers and a crash, in both settings.
SPECIFICATION ContextLiveSpec
CONSTANTS
  Ids = {i1, i2}
  MaxObjects = 3
  MaxCrashes = 1
  Settings <- BothSettings
INVARIANTS
  
  OwnWorkdir
  NoOrphans
PROPERTIES
  DestroyedEmpty
  DestroyEnds
