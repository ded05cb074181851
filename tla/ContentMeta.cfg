SPECIFICATION Spec
CONSTANTS
  ByteBase = 4
  OffsetLimit = 8
  Names <- MCNames
  RefNames <- MCRefNames
  Contents <- MCContents
  Missing = Missing
INVARIANTS PacketsFound AudioFound KeysWhereSessionsLook OpenHasReference
CHECK_DEADLOCK FALSE
