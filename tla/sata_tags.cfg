SPECIFICATION Spec
CONSTANTS
  p1 = p1
  p2 = p2
  k = k
  NoProc = NoProc
  Kproc <- k
  Procs <- Two
  NSlots = 2
  Depths = {2}
  Spinup = FALSE
  CtlOps = {}
  Faults = {}
  MaxFaults = 0
INVARIANT TagExclusive
\* a reset with no device present leaves nothing to do
CHECK_DEADLOCK FALSE
