SPECIFICATION FairSpec
CONSTANTS
  MaxTeardowns = 1
  Bitrate = Bitrate
  Nobody = Nobody
  NoStep = NoStep
PROPERTY LostClientShutDown
CHECK_DEADLOCK FALSE
