SPECIFICATION FairSpec
CONSTANTS
  app = app
  poller = poller
  ndof = ndof
  remap = remap
  calib = calib
  NoThread = NoThread
  Threads = {app, poller}
  FusionModes = {ndof}
  RemappedAxes = {remap}
  RemappedSigns = {remap}
  Profiles = {calib}
  Startup <- AmgStart
  Workload <- RestartAndSet
  Retries = 1
  BurstRetries = 1
  PollBudget = 2
  AutoLoad = FALSE
  PriorChips <- FreshChip
  MaxCalls = 2
  MaxOutages = 1
  MaxPowerCycles = 0
PROPERTIES EveryCallReturns EveryStepCounts
VIEW Control
