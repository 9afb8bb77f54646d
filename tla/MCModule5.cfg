CONSTANTS
  Modules <- AllModules
  Objects <- Supplied
  MaxPages = 2
  NoMax = NoMax
  NoStart = NoStart
SPECIFICATION Spec
INVARIANTS NoIndexError IndexSpaces GlobalsKeepTheirWord FrozenSameVerdict
CHECK_DEADLOCK FALSE
