CONSTANTS
  n1 = n1
  n2 = n2
  x1 = x1
  Names <- MCNames
  Aliases <- MCAliases
  NoName = NoName
  NoInst = NoInst
  MaxFiles = 1
  MaxCommands = 3
  MaxRun = 3
  MaxImports = 1
SPECIFICATION MCSpec
INVARIANT FailChainsThroughImports
CHECK_DEADLOCK FALSE
