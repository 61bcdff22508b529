SPECIFICATION GateSpec
CONSTANT Lines <- MCLines
INVARIANTS
  OffBandLineRejected
CHECK_DEADLOCK FALSE
