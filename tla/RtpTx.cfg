SPECIFICATION FairSpec
CONSTANTS
  MaxPackets = 4
  FrontCounts = {1}
  RearCounts = {0, 2}
  Lengths = {2}
  StaleLengths = {9}
  MaxClientBuffer = 2
INVARIANTS
  TypeOK
  NoDanglingPacket
  RefCountCovers
  AccountingExact
  ClientBufferBound
PROPERTIES
  ImplementsChannel
  QueueDrains
  TransmittedReclaimed
CHECK_DEADLOCK FALSE
