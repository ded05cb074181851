SPECIFICATION Spec
CONSTANTS
  Limit = 35
  MaxDelay = 4
  MaxLag = 1
  MaxError = 40
  Skews <- MCSkews
  Readers = {r1}
  Poller = Poller
  Nobody = Nobody
INVARIANTS TypeOK ReadsWholePair Synced
PROPERTIES StepsAreSmall LostForGood
CHECK_DEADLOCK FALSE
