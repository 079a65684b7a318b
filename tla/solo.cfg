SPECIFICATION Spec
CONSTANTS
  app = app
  poller = poller
  ndof = ndof
  remap = remap
  calib = calib
  NoThread = NoThread
  Threads = {app}
  FusionModes = {ndof}
  RemappedAxes = {remap}
  RemappedSigns = {remap}
  Profiles = {calib}
  Startup <- AnyStart
  Workload <- ConfigureAlone
  Retries = 2
  BurstRetries = 2
  PollBudget = 2
  AutoLoad = TRUE
  PriorChips <- LeftRunning
  MaxCalls = 3
  MaxOutages = 1
  MaxPowerCycles = 1
INVARIANT Synced
PROPERTY ConfigWritesLand
VIEW Control
