SPECIFICATION FairSpec
CONSTANTS
  Volumes <- MCVolumes
  Place <- MCPlace
  Paths <- MCPaths
  MaxHandles = 3
  Iter = {i}
  ImageDir <- MCImageDir
  Shells = {"none", "accepts", "rejects"}
  Faults = {"open", "info", "delete", "memory"}
  NULL = NULL
INVARIANTS HandleUse HandlesAccounted RmdirComplete 
PROPERTIES RmdirEnds
