SPECIFICATION Spec
CONSTANTS
  Ntx = 3
  MaxPkts = 5
  BadPkts = {2}
  OtherCauses = FALSE
INVARIANT FreedAfterSent
\* when every packet has been written and sent nothing is left to do
CHECK_DEADLOCK FALSE
