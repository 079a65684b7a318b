SPECIFICATION Spec
CONSTANTS
  NaN = NaN
  Configs <- MCConfigs
  Differences <- MCDifferences
  Rates <- MCRates
  YawRates <- MCYawRates
  Steps <- MCSteps
  Bases = {40}
  FullSpeed = 60
  ILimit = 30
INVARIANTS TypeOK LeftIsRight ResetForgets
PROPERTY OutputIsLimited
