CONSTANTS
  Unknown = Unknown
  ValTypes <- TwoTypes
  FuncResults <- OneI32
  Instructions <- AllInstructions
  MaxBody = 6
  Short = 6
  MaxChoices = 4
  MaxAgain = 4
SPECIFICATION MCSpec
INVARIANT WildOperands
CHECK_DEADLOCK FALSE
