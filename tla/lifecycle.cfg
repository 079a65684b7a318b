SPECIFICATION FairSpec
CONSTANTS
  ImuTimeout = 2
  CommandTimeout = 1
  Old = 4
INVARIANTS TypeOK DeactivationStops StopsInTime AlarmIsTrue
PROPERTIES CorrectionSpansNothing StraightIsCorrected
