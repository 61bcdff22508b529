CONSTANTS
  Processes = {p1, p2}
  Builds <- MCBuilds
  Contents = {s1, s2}
  NotFinite = NotFinite
  LastGeneration = 5
  MaxChanges = 3
  MaxNodes = 2
  None = None
SYMMETRY MCSymmetry
SPECIFICATION FilesSpec
INVARIANTS
  LoadedIsOneCapture
CHECK_DEADLOCK FALSE
