SPECIFICATION Spec
CONSTANTS
  MaxPlays = 2
  MaxSwitches = 1
  FastReads = 1
  Nobody = Nobody
  Request = Request
  NoStep = NoStep
INVARIANTS TypeOK RunningIsScheduled LateAtMostOnce LateReadAtMostOne SoleReaders
CHECK_DEADLOCK FALSE
