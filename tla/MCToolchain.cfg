CONSTANTS
  CodeMax = 14
  LabelsMax = 2
  HalfBase = 8
  Origin = 0
  Names <- MCNames
  Lines <- MCLines
  Sources <- MCSources
  Written <- MCSources
  Generated <- MCGenerated
  SampleWords <- MCWords
  SampleTexts <- MCTexts
  SampleAddrs <- MCAddrs
  LastLabel = 262400
SPECIFICATION ToolchainSpec
INVARIANT TypeOK
INVARIANT BackwardResolved
INVARIANT SteadyResolved
INVARIANT RefusedExactly
INVARIANT FreshBinary
INVARIANT NamesAgree
PROPERTY CommandsEnd
CHECK_DEADLOCK FALSE
