CONSTANTS
  HeapSize = 136
  WordRange = 4096
  Requests <- MCRequests
SPECIFICATION FairSpec
INVARIANT TypeOK
INVARIANT Tiled
INVARIANT Accounted
INVARIANT NoAdjacentFree
PROPERTY FirstFit
PROPERTY Allocates
PROPERTY CallsReturn
