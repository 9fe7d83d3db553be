CONSTANTS
  CacheSize = 4
  Probes = 2
  BBMax = 3
  MaxVisits = 2
  Binaries <- MCBinaries
SPECIFICATION Spec
INVARIANT TypeOK
INVARIANT CacheExact
INVARIANT BlocksTile
INVARIANT CutExactly
INVARIANT Chained
PROPERTY WarmupEnds
CHECK_DEADLOCK FALSE
