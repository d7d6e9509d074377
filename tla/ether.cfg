SPECIFICATION DevSpec
CONSTANTS
  Ntx = 3
  MaxPkts = 5
  BadPkts = {2}
  OtherCauses = TRUE
  Setups <- MCSetups
  MaxIq = 1
INVARIANTS Accounted MuxRight
PROPERTIES PacketsSent FifoSpec
\* when every packet has been written and sent nothing is left to do
CHECK_DEADLOCK FALSE
