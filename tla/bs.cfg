SPECIFICATION FairSpec
CONSTANTS
  q1 = q1
  q2 = q2
  NoProc = NoProc
  Procs <- Two
  Names = {"a", "b"}
  MaxVers = 2
INVARIANTS IoOnWalked
PROPERTY OpsFinish
\* a panic stops the model
CHECK_DEADLOCK FALSE
