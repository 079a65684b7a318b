SPECIFICATION FairSpec
CONSTANTS
  JumpWindow = 0
  ImuTimeout = 1
  CommandTimeout = 1
  RelockDelays <- MCRelockDelays
  Old = 2
  ResetOverlaps = FALSE
INVARIANT TypeOK
PROPERTIES CorrectionSpansNothing StraightIsCorrected LostCommandStops
