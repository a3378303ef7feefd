CONSTANTS
  Sources <- MCSources
  AbsSources <- MCAbsSources
  Dirs <- MCDirs
  Types <- MCTypes
  RootPath <- MCRootPath
  NULL = NULL
  MaxMounts = 3
  LongDirs <- MCNoLongDirs
SPECIFICATION Spec
INVARIANT ManifestMounted
CHECK_DEADLOCK FALSE
