CONSTANTS
  Sources <- MCSources
  AbsSources <- MCNoAbsSources
  Dirs <- MCDirs
  Types <- MCTypes
  RootPath <- MCRootPath
  NULL = NULL
  MaxMounts = 3
  LongDirs <- MCNoLongDirs
SPECIFICATION Spec
INVARIANT StopFailureKeepsList
CHECK_DEADLOCK FALSE
