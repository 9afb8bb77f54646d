CONSTANTS
  a = a
  NoMax = NoMax
  Aliases <- MCAliases
  FuncTypes <- MCFuncTypes
  Modules <- MCModules
  MaxPages = 3
  FrameCap = 3
  MaxInst = 3
SPECIFICATION FairSpec
INVARIANTS TypeOK DeclaredLimits CalledAsTyped
PROPERTIES ConstantsStay TrapsWriteNothing Confined CallsEnd
