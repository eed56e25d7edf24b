\* Two containers, one image of two fragments, two failing calls, one crash.
SPECIFICATION Spec
CONSTANTS
  Settings <- MCSettings
  MaxFailures = 2
  Paths <- MCPaths
  Parent <- MCParent
  Kind <- MCKind
  Target <- MCTarget
  Names = {"img"}
  Size = 2
  Ids <- MCIds
  Workdir <- MCWorkdir
  Outside <- MCOutside
  Words <- MCWords
  MaxCrashes = 1
INVARIANTS
  
  
  
  RemovalExact
  ImagesComplete
  RunningIsKept
 
