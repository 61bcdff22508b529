SPECIFICATION FairSpec
CONSTANTS
  Policies <- MCPolicies
  StepLength = 2
  Horizon = 3
  LegSteps = {1, 2}
  Schedules <- MCSchedules
  Directories = {d1}
  MaxLegs = 3
INVARIANTS
  RestartEquivalence
  WaveformCoversCheckpoints
PROPERTY RunEnds
CHECK_DEADLOCK FALSE
