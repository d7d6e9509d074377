SPECIFICATION Spec
CONSTANTS
  q1 = q1
  q2 = q2
  NoProc = NoProc
  Procs <- Two
  Names = {"a"}
  MaxVers = 1
CHECK_DEADLOCK FALSE
INVARIANT OpenOnce
