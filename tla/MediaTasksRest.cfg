SPECIFICATION FairSpec
CONSTANTS
  MaxPlays = 1
  MaxSwitches = 1
  FastReads = 1
  Nobody = Nobody
  Request = Request
  NoStep = NoStep
PROPERTIES StoppedTasksRest
CHECK_DEADLOCK FALSE
