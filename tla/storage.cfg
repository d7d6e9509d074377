SPECIFICATION MCSpec
CONSTANTS
  Cards = {"none", "mmc", "sd1", "sd2", "sdhc"}
  MaxPower = 2
  MaxRca = 2
  ZeroRca = TRUE
  PowerUp = {0, 2, 3}
  MaxErrors = 1
  MaxInits = 2
  Procs = {p1, p2}
  NoProc = NoProc
  MaxChunk = 2
  Sizes = {3}
  MaxTails = 1
  MaxFaults = 1
  DiskSize = 4
  NMbr = 2
  MaxLines = 2
  Numbers = {0, 1, 2, 4}
  SubNames <- Clashing
  Align = 2
  MaxN = 5
  MaxOff = 9
INVARIANTS OverlapOnlyWithin ReadRight WriteRight AllMoved BufferLive
PROPERTIES ValidRight GoodCardValid CallsReturn
\* partinit ends, and the initialisations are bounded
CHECK_DEADLOCK FALSE
