CONSTANTS
  Modes <- MCModes
  Parents <- MCParents
  Targets <- MCTargets
  Policies <- MCPolicies
  TimeSteps <- MCTimeSteps
  MaxTime = 2
SPECIFICATION Spec
INVARIANTS
  OneWayCoupling
  BandsStayClosed
  ClassicalStages
  ForcedAsLatched
PROPERTIES
  EvaluationIsOfItsStage
  ReadsAreOfTheState
