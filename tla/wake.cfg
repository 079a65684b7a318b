SPECIFICATION Spec
CONSTANTS
  app = app
  poller = poller
  ndof = ndof
  remap = remap
  calib = calib
  NoThread = NoThread
  Threads = {app}
  FusionModes = {ndof}
  RemappedAxes = {remap}
  RemappedSigns = {remap}
  Profiles = {calib}
  Startup <- NdofStart
  Workload <- SuspendAndWake
  Retries = 1
  BurstRetries = 1
  PollBudget = 1
  AutoLoad = FALSE
  PriorChips <- FreshChip
  MaxCalls = 3
  MaxOutages = 0
  MaxPowerCycles = 0
PROPERTY WakeRestoresMode
