\* Every main file of four lines over three alphabets, with headers that guard themselves,
\* include themselves or each other, or close, reverse or leave open the conditionals of
\* their includer; three files deep, three frames: pushes are lost.
CONSTANTS
  Sources <- MCSources
  MainLength = 4
  Main <- Main0
  IncludeDirs <- MCIncludeDirs
  Cwd = "."
  Predefined <- MCPredefined
  Werror = FALSE
  MaxIncludeDepth = 3
  PathLength <- MCPathLength
  TmpSize = 512
  MaxFrames = 3
SPECIFICATION FairSpec
INVARIANTS
  BranchSelection
  ParentIsOuter
  CallChain
  IncludeKeepsConditionals
  GuardedOnce
PROPERTIES
  NoSecondBranch
  SkippedOnlyCopies
  CondSpec
  Termination
CHECK_DEADLOCK FALSE
