CONSTANTS
  Files = 2
  MaxCommands = 4
  None = None
  EXPECTED_INCLUDED = 2
  EXPECTED_UNSUPPORTED = 1
  EXPECTED_CATEGORIES = {"type mismatch", "unknown label"}
  Categories = {"type mismatch", "unknown label", "deferred"}
  TypeMismatch = "type mismatch"
  UnknownLabel = "unknown label"
  MaxAssertions = 4
SPECIFICATION RunnersSpec
INVARIANTS OracleRun CurationRun IncludedStayWithin EnumeratesAll
CHECK_DEADLOCK FALSE
