SPECIFICATION FairSpec
CONSTANTS
  Unit <- MCUnit
  Samples <- MCSamples
  PlayTime <- MCPlayTime
  Gop = 3
  Fast = 2
  Times <- MCTimes
  Indices <- MCIndices
  MaxStarts = 2
  Unset <- MCUnset
INVARIANTS TypeOK RunsOffOnlyPastEnd
PROPERTIES StartsAtNextKey EndIsNoticed
CHECK_DEADLOCK FALSE
