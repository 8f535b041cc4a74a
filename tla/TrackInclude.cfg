\* Text after an #include.
CONSTANTS
  Sources <- IncludeSources
  MainLength = 3
  Main <- Main0
  IncludeDirs <- MCIncludeDirs
  Cwd = "."
  Predefined <- MCPredefined
  Werror = FALSE
  MaxIncludeDepth = 3
  PathLength <- MCPathLength
  TmpSize = 512
  MaxFrames = 31
  MaxInterned = 256
  NameSize = 1024
  CutNames <- MCCutNames
  CutLines = 1
  EarlierNames <- MCEarlierNames
SPECIFICATION TrackSpec
INVARIANTS
  AttributedExactly
CHECK_DEADLOCK FALSE
