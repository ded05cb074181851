SPECIFICATION Spec
CONSTANTS
  MaxTeardowns = 2
  Bitrate = Bitrate
  Nobody = Nobody
  NoStep = NoStep
INVARIANT DeletedAfterTasks
CHECK_DEADLOCK FALSE
