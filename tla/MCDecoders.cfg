CONSTANTS
  Group = 7
  W32 = 10
  Width = 10
  W33 = 11
  W64 = 12
  MaxLocals = 3
  Files <- AllFiles
  Modules <- TheModules
  Noise <- TheNoise
  Spliced <- TheSpliced
  SpliceLen = 3
  IntBytes <- TheIntBytes
  IntLen = 3
SPECIFICATION PairSpec
INVARIANTS DecodesExactly WellFormed FrozenScopeReadsTheSame LebExact FrozenReadsTheSame
CHECK_DEADLOCK FALSE
