CONSTANTS
  Sources <- MCSources
  AbsSources <- MCAbsSources
  Dirs <- MCDirs
  Types <- MCTypes
  RootPath <- MCRootPath
  NULL = NULL
  MaxMounts = 3
  LongDirs <- MCNoLongDirs
SPECIFICATION Spec
INVARIANT IgnoredAsSpecified
CHECK_DEADLOCK FALSE
