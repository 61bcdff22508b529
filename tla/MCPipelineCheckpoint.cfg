SPECIFICATION Spec
CONSTANTS
  Processes <- MCProcesses
  Destinations = {d1, d2}
  Builds <- MCBuilds
  None = None
  Damaged = Damaged
  MaxCaptures = 2
  MaxCrashes = 1
  MaxLosses = 1
  MaxRemovals = 1
INVARIANTS
  LoadedIsOneCapture
  LoadedFromLikePipeline
  StraysExplained
PROPERTIES
  ImplementsStore
CHECK_DEADLOCK FALSE
