CONSTANTS
  PoolMax = 3
  Strings <- MCStrings
  MaxRefs = 3
  MaxAllocs = 5
  Threshold = 2
SPECIFICATION BothSpec
INVARIANT IdenticalCounts
