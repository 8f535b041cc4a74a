\* 31 open conditionals, the number the code has frames for, and what follows.
CONSTANTS
  Sources <- DeepSources
  MainLength = 2
  Main <- Main0
  IncludeDirs <- MCIncludeDirs
  Cwd = "."
  Predefined <- MCPredefined
  Werror = FALSE
  MaxIncludeDepth = 3
  PathLength <- MCPathLength
  TmpSize = 512
  MaxFrames = 31
SPECIFICATION Spec
INVARIANTS
  ActiveAtAnyDepth
CHECK_DEADLOCK FALSE
