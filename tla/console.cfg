SPECIFICATION Spec
CONSTANTS
  Links <- MCLinks
  MaxTicks = 2
  FifoSize = 2
  Trigger = 2
  MaxEvents = 3
  PanicText = 2
INVARIANTS ClockRight OutputInOrder InputInOrder LineSet
PROPERTY OutputSent
CHECK_DEADLOCK FALSE
