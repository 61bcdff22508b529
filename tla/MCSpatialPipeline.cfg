SPECIFICATION Spec
CONSTANTS
  Policies <- MCPolicies
  TimeSteps <- MCTimeSteps
  MaxTime = 5
INVARIANTS
  StagesSeeOneLatch
  ForcedFromActivationOn
  GateCountsAcceptedStates
PROPERTIES
  ImplementsLatch
