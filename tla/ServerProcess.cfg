SPECIFICATION FairSpec
CONSTANTS
  Sessions = {s1, s2}
  MaxSignals = 1
  Nobody = Nobody
INVARIANTS TypeOK RecordsSaved ServerOutlivesRecords
PROPERTY SignalEndsProcess
CHECK_DEADLOCK FALSE
