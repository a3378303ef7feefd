\* Three concurrent CLI invocations of stop, pause, resume or kill.
CONSTANTS
  p1 = p1
  p2 = p2
  p3 = p3
  Procs <- MCProcs
  NoFile = NoFile
SYMMETRY MCSymmetry
SPECIFICATION Spec
INVARIANTS
  StopReportsTruth
\* Every invocation ends in "done", where the CLI process exits.
CHECK_DEADLOCK FALSE
