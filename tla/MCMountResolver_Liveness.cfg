\* Termination of the mount and unmount loops, under the fairness of a
\* running CLI process.
CONSTANTS
  Sources <- MCSources
  AbsSources <- MCAbsSources
  Dirs <- MCDirs
  Types <- MCTypes
  RootPath <- MCRootPath
  NULL = NULL
  MaxMounts = 3
  LongDirs <- MCNoLongDirs

SPECIFICATION FairSpec

PROPERTY LoopsTerminate

\* A CLI invocation exits: after a failed setup no state file exists and
\* after a successful stop it has been deleted, so no later command acts.
CHECK_DEADLOCK FALSE
