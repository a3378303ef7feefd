\* Mount setup, persistence and (retried) teardown of one container.
CONSTANTS
  Sources <- MCSources
  AbsSources <- MCAbsSources
  Dirs <- MCDirs
  Types <- MCTypes
  RootPath <- MCRootPath
  NULL = NULL
  MaxMounts = 3
  LongDirs <- MCNoLongDirs

SPECIFICATION Spec

INVARIANT MountsRecorded
INVARIANT CleanStop

\* A CLI invocation exits: after a failed setup no state file exists and
\* after a successful stop it has been deleted, so no later command acts.
CHECK_DEADLOCK FALSE
