CONSTANTS
  HeapSize = 136
  WordRange = 4096
  Requests <- MCRequests
  Increments <- MCIncrements
SPECIFICATION SpecWithSbrk
PROPERTY CoalescedWereAdjacent
