CONSTANTS
  Exprs <- MCExprs
  Stmts <- MCStmts
  Scripts <- MCScripts
  Byte <- MCByte
SPECIFICATION Spec
INVARIANTS
  PoolComplete
  FileIsTheScript
CHECK_DEADLOCK FALSE
