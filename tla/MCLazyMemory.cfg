CONSTANTS
  PageSize = 2
  MaxPages = 3
  MinPages = 1
  NoMax = NoMax
  Declared = NoMax
  Byte <- MCByte
  Address <- MCAddress
  Lengths <- MCLengths
  Deltas <- MCDeltas
SPECIFICATION FairSpec
INVARIANT Consistent
PROPERTIES ImplementsFlat CallsReturn
