\* clr_oci_config_check against semantic-version precedence.
CONSTANTS
  Versions <- MCVersions
  AlnumIdents <- MCAlnumIdents
  NoVersion = NoVersion
SPECIFICATION Spec
INVARIANTS
  CheckFollowsPrecedence
\* The check returns once; the CLI then goes on or exits.
CHECK_DEADLOCK FALSE
