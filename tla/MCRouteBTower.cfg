CONSTANTS
  Modes <- MCModes
  Supported <- MCSupported
  MaxStages = 2
SPECIFICATION Spec
INVARIANTS
  LevelsWholeOrEmpty
  LevelIsItsTimeDerivative
  AngularReadsInBand
  GoodStagesGetThrough
PROPERTIES
  PromiseKept
CHECK_DEADLOCK FALSE
