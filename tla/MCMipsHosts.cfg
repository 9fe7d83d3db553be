CONSTANTS
  ByteBits = 2
  BitAnd <- MCBitAnd
  StackWords = 2
  HeapSize = 8
  CodeMax = 24
  RegionSize = 64
  Regs <- MCRegs
  Instrs <- HostsInstrs
  StrayInstrs <- MCStray
  Programs <- HostsPrograms
  MaxLoads = 2
  MaxCalls = 2
  MaxBreakpoints = 2
  BreakAddrs <- MCBreakAddrs
  StepCounts <- MCStepCounts
  DebugPrograms <- MCDebugPrograms
  ElfFiles <- MCElfFiles
  ZeroInstr <- Nop
SPECIFICATION FairHostSpec
INVARIANT DbgTypeOK
INVARIANT StepsExactly
INVARIANT ImageExact
PROPERTY PreciseFaults
PROPERTY ForwardRunsEnd
PROPERTY BreakpointsHonoured
PROPERTY SteppingEnds
CHECK_DEADLOCK FALSE
