CONSTANTS
  Modes <- MCModes
  Boundaries <- MCBoundaries
  FaultyFields <- MCFaultyFields
  MaxGeneration = 5
  MaxLives = 2
  MaxFaults = 2
  MaxSerial = 6
SPECIFICATION Spec
INVARIANTS
  WholeStageOrNone
PROPERTIES
  ClosureIsOfItsStage
  CommonStages
  GenerationsIncrease
CHECK_DEADLOCK FALSE
