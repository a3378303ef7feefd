\* Spec section 8: the supported major.minor.patch passes the check.
CONSTANTS
  Versions <- MCVersions
  AlnumIdents <- MCAlnumIdents
  NoVersion = NoVersion
SPECIFICATION Spec
INVARIANT SameCoreAccepted
\* The check returns once; the CLI then goes on or exits.
CHECK_DEADLOCK FALSE
