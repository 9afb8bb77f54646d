CONSTANTS
  P1 = 3
  E1 = 5
  P2 = 8
  E2 = 6
  W32 = 5
  W64 = 10
  I32Bits = 4
SPECIFICATION NumericSpec
INVARIANTS IntegersExact FrozenSame RoundsOnce SpecialValues ToIntegers
CHECK_DEADLOCK FALSE
