\* Every batch of one or two files of the ten kinds, under six combinations of options and three limits.
CONSTANTS
  MaxBatch = 2
  Limits = {0, 1, 4}
  OptionSets <- MCOptionSets
  Batches <- MCBatches
  ScriptSets <- MCScriptSets
  LongPaths <- MCLongPaths
  MaxCascade = 1
SPECIFICATION Spec
INVARIANTS
  ZeroMeansFaultless
  VerdictsAreTheirOwn
  BytecodeOfFaultless
  OutputsApart
CHECK_DEADLOCK FALSE
