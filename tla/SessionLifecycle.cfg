SPECIFICATION FairSpec
CONSTANTS
  MaxTeardowns = 2
  Bitrate = Bitrate
  Nobody = Nobody
  NoStep = NoStep
INVARIANTS TypeOK OwnedUntilClosed
PROPERTIES TornDownIsDestroyed LostClientTornDown
CHECK_DEADLOCK FALSE
