\* Two hosts, skewed clocks, expiry, kills, crashes and failed writes and a corrupted
\* sector; one thread in a file of two blocks.
SPECIFICATION PartsSpec
CONSTANTS
  NumHosts = 2
  LeaseDuration = 1
  ClockSkewMax = 1
  TicksPerSecond = 1
  MaxTime = 3
  MaxGen = 1
  MaxCorrupt = 1
  ReadFaults = FALSE
  WriteFaults = TRUE
  Writer = w
  NoThread = no
  FFaults = {"io", "tx", "crash"}
  MaxLen = 2
INVARIANTS
  MutualExclusion HolderVisible LeaseInv
  WideFileSound
