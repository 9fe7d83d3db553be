CONSTANTS
  ByteBits = 2
  BitAnd <- MCBitAnd
  StackWords = 2
  HeapSize = 8
  CodeMax = 60
  RegionSize = 64
  Regs <- MCRegs
  Instrs <- LoadInstrs
  StrayInstrs <- MCStray
  Programs <- LoadPrograms
  MaxLoads = 1
  MaxCalls = 1
  T = 8
  Constants <- MCConstants
SPECIFICATION Spec
INVARIANT LoadsConstant
CHECK_DEADLOCK FALSE
