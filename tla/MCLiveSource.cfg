CONSTANTS
  Modes <- MCModes
  Parents <- MCParents
  Targets <- MCTargets
  Generations <- MCGenerations
  Heights <- MCHeights
  FlawedModes <- MCFlawedModes
  Overflows <- MCOverflows
  MaxStages = 2
SPECIFICATION Spec
INVARIANTS
  ForcingWholeOrZero
  SoundStageIsForced
  OrdersKept
  ModesSelected
  LinearPsiIsOfItsStage
CHECK_DEADLOCK FALSE
