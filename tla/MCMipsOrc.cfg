CONSTANTS
  PoolMax = 4
  Strings <- MCStrings
  MaxRefs = 3
  MaxAllocs = 6
  Threshold = 2
SPECIFICATION Spec
INVARIANT TypeOK
INVARIANT FreesAreDead
INVARIANT ScanSeesAll
PROPERTY ScanTakesNothing
PROPERTY CountsReferences
