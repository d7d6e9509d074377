SPECIFICATION Spec
CONSTANTS
  q1 = q1
  q2 = q2
  q3 = q3
  NoProc = NoProc
  NEngine = 2
  Procs <- Two
  Kinds = {"other"}
  Kills = FALSE
INVARIANT CompletionSeen
CHECK_DEADLOCK FALSE
