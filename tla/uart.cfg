SPECIFICATION FairSpec
CONSTANTS
  app = app
  poller = poller
  NoCaller = NoCaller
  Callers = {app}
  Retries = 2
  BurstRetries = 3
  mode = mode
  status = status
  v1 = v1
  v2 = v2
  Registers <- OneRegister
  Values <- HeaderValues
  BurstLength = 2
  MaxSpoilt = 1
  MaxLine = 5
  MaxWire = 1
INVARIANT TypeOK
PROPERTIES ServesUntilTorn OpeningResynchronises EveryAttemptEnds
