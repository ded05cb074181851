SPECIFICATION Spec
CONSTANTS
  MaxPackets = 4
  FrontCounts = {2}
  RearCounts = {0, 1}
  Lengths = {2}
  StaleLengths = {9}
  MaxClientBuffer = 2
INVARIANTS
  NoReadAfterReclaim
CHECK_DEADLOCK FALSE
