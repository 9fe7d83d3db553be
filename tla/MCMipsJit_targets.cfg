CONSTANTS
  CacheSize = 4
  Probes = 2
  BBMax = 3
  MaxVisits = 2
  Binaries <- MCBinaries
SPECIFICATION Spec
INVARIANT TargetsStartBlocks
CHECK_DEADLOCK FALSE
