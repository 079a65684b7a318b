SPECIFICATION Spec
CONSTANTS
  app = app
  poller = poller
  NoCaller = NoCaller
  Callers = {app}
  Retries = 3
  BurstRetries = 5
  mode = mode
  status = status
  v1 = v1
  v2 = v2
  Registers <- MCRegisters
  Values <- MCValues
  BurstLength = 6
  MaxSpoilt = 0
  MaxLine = 12
  MaxWire = 3
PROPERTY ReadsAnswerTheirRequest
