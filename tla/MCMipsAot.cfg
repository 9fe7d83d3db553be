CONSTANTS
  ByteBits = 2
  BitAnd <- MCBitAnd
  StackWords = 2
  HeapSize = 8
  CodeMax = 60
  RegionSize = 64
  Regs <- MCRegs
  Instrs <- MCInstrs
  StrayInstrs <- MCStray
  Programs <- MCPrograms
  MaxLoads = 1
  MaxCalls = 1
SPECIFICATION AotSpec
INVARIANT RunsIdentically
CHECK_DEADLOCK FALSE
