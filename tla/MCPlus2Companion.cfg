SPECIFICATION CompanionSpec
CONSTANTS
  Modes <- MCModes
  Origins = {o1}
  Sources = {s1, s2}
  Steps <- MCSteps
  ConfiguredSteps <- MCConfiguredSteps
  Paths = {f1, f2}
  None = None
  Raw = Raw
  Mixed = Mixed
  MaxTime = 2
  MaxRestarts = 2
  MaxForeign = 1
CHECK_DEADLOCK FALSE
SYMMETRY Symmetry
INVARIANTS
  LatchIsCompanionTime
  SavedByOneAuthority
  ConcurrentStaysPaired
