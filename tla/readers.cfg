SPECIFICATION FairSpec
CONSTANTS
  app = app
  Callers = {app}
  AutoCalibration = TRUE
  GpioMayFail = TRUE
  MaxStarts = 4
INVARIANTS TypeOK StoppedIsQuiet OnlyTheGpioThreadIsAbandoned
PROPERTIES CallbackInUseIsKept EveryCallReturns
