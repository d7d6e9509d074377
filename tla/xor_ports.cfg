SPECIFICATION Spec
CONSTANTS
  q1 = q1
  q2 = q2
  q3 = q3
  NoProc = NoProc
  NEngine = 2
  Procs <- Three
  Kinds = {"other", "meminit"}
  Kills = TRUE
SYMMETRY Symmetry
INVARIANTS PortExclusive InitvalKept DoneIsFresh
PROPERTY PoolSpec
\* lost wakeups and panics stop the processes
CHECK_DEADLOCK FALSE
