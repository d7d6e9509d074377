SPECIFICATION Spec
CONSTANTS
  p1 = p1
  p2 = p2
  k = k
  NoProc = NoProc
  Kproc <- k
  Procs <- Two
  NSlots = 2
  Depths = {1}
  Spinup = TRUE
  CtlOps = {"flush"}
  Faults = {"devdis", "deverr", "selfdis", "devcon", "timeout", "kill"}
  MaxFaults = 1
SYMMETRY Symmetry
INVARIANTS TagExclusive ClaimQuiet CompletionDue NoTagReuse NoDeadlock
\* a reset with no device present leaves nothing to do
CHECK_DEADLOCK FALSE
