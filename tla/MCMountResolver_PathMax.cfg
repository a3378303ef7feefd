\* A destination longer than PATH_MAX: truncated, never refused.
CONSTANTS
  Sources <- MCSources
  AbsSources <- MCAbsSources
  Dirs <- MCDirs
  Types <- MCTypes
  RootPath <- MCRootPath
  NULL = NULL
  MaxMounts = 3
  LongDirs <- MCLongDirs

SPECIFICATION Spec

INVARIANT TooLongIsError

\* A CLI invocation exits: after a failed setup no state file exists and
\* after a successful stop it has been deleted, so no later command acts.
CHECK_DEADLOCK FALSE
