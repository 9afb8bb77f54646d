CONSTANTS
  Plans <- ThePlans
  NoFile = NoFile
SPECIFICATION Spec
INVARIANTS NoPartialInventory GateRuns SweepExaminesAll
CHECK_DEADLOCK FALSE
