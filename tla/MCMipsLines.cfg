CONSTANTS
  ByteBits = 2
  BitAnd <- MCBitAnd
  StackWords = 2
  HeapSize = 8
  CodeMax = 60
  RegionSize = 64
  Regs <- MCRegs
  Instrs <- MCInstrs
  StrayInstrs <- MCStray
  Programs <- MCPrograms
  SourceLines <- MCSourceLines
  Labels <- MCLabels
  LineAddr <- MCLineAddr
  MaxLoads = 1
  MaxCalls = 1
SPECIFICATION Spec
INVARIANT TypeOK
INVARIANT FetchStaysInBinary
PROPERTY FlatMemory
PROPERTY LoadsReadBytes
PROPERTY HiLoExact
PROPERTY SbrkExact
 
CHECK_DEADLOCK FALSE
