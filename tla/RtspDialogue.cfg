SPECIFICATION Spec
CONSTANTS
  MaxCSeq = 7
  OneSample = FALSE
INVARIANTS TypeOK PreparedInOrder SetUpNamesContent SwitchingEnds
PROPERTIES ImplementsStages
CHECK_DEADLOCK FALSE
