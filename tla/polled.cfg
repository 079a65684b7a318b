SPECIFICATION Spec
CONSTANTS
  app = app
  poller = poller
  ndof = ndof
  remap = remap
  calib = calib
  NoThread = NoThread
  Threads = {app, poller}
  FusionModes = {ndof}
  RemappedAxes = {remap}
  RemappedSigns = {remap}
  Profiles = {calib}
  Startup <- NdofStart
  Workload <- ConfigureAndPoll
  Retries = 1
  BurstRetries = 1
  PollBudget = 1
  AutoLoad = FALSE
  PriorChips <- LeftRunning
  MaxCalls = 3
  MaxOutages = 2
  MaxPowerCycles = 1
INVARIANTS TypeOK Synced ModeKept
PROPERTY ConfigWritesLand
VIEW Control
