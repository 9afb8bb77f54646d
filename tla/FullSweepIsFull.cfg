CONSTANTS
  Plans <- JustSweep
  NoFile = NoFile
SPECIFICATION Spec
INVARIANT FullSweepIsFull
CHECK_DEADLOCK FALSE
