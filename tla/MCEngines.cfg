CONSTANTS
  Unknown = Unknown
  ValTypes <- TwoTypes
  FuncResults <- OneI32
  Instructions <- AllInstructions
  MaxBody = 8
  Short = 6
  MaxChoices = 4
  MaxAgain = 4
SPECIFICATION MCSpec
INVARIANTS StackDiscipline RunsAsValidated SameJudgement ParsesTheBody FrozenRunsTheSame
CHECK_DEADLOCK FALSE
