CONSTANTS
  n1 = n1
  n2 = n2
  x1 = x1
  Names <- MCNames
  Aliases <- MCAliases
  NoName = NoName
  NoInst = NoInst
  MaxFiles = 2
  MaxCommands = 4
  MaxRun = 4
  MaxImports = 1
SPECIFICATION MCSpec
INVARIANTS Bookkeeping ChainVerdict LiveAsCounted
PROPERTY ImplementsEnv
SYMMETRY NameSymmetry
CHECK_DEADLOCK FALSE
