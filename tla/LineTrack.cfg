\* Every main file of four lines over includes, markers, pragmas and lines that open
\* or close comments and strings; three file names fit in the table.
CONSTANTS
  Sources <- MCTrackSources
  MainLength = 4
  Main <- Main0
  IncludeDirs <- MCIncludeDirs
  Cwd = "."
  Predefined <- MCPredefined
  Werror = FALSE
  MaxIncludeDepth = 3
  PathLength <- MCPathLength
  TmpSize = 512
  MaxFrames = 31
  MaxInterned = 3
  NameSize = 1024
  CutNames <- MCCutNames
  CutLines = 1
  EarlierNames <- MCEarlierNames
SPECIFICATION TrackSpec
INVARIANTS
  AttributedUpToOne
  WrongFileHasACause
CHECK_DEADLOCK FALSE
