CONSTANTS
  IntBits = 4
  BuiltinConsts <- MCBuiltinConsts
  BuiltinFns <- MCBuiltinFns
  LlNames <- MCLlNames
  NumberOf <- MCNumberOf
  Scripts <- MCScripts
  MaxParams = 2
SPECIFICATION Spec
INVARIANTS
  AcceptedIsTyped
  OnlyVariablesWritten
  FoldKeepsType
  FoldKeepsValue
  ConstantsOnly
  CallsFit
CHECK_DEADLOCK FALSE
