CONSTANTS
  Names <- MCNames
  BuiltinConsts <- MCBuiltinConsts
  BuiltinFns <- MCBuiltinFns
  BuiltinEvents <- MCBuiltinEvents
  LlNames <- MCLlNames
  Private <- MCPrivate
  Families <- MCFamilies
SPECIFICATION Spec
INVARIANTS
  ScopesMatchBlocks
  NamesAreLexical
  CallsAreGlobal
  JumpsStayInside
  UnusedAreUnused
  AcceptedIsWellFormed
PROPERTY DrivesTable
CHECK_DEADLOCK FALSE
