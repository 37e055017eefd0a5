CONSTANTS
  Self = s
  Client = {c, d}
  Lead = 1
  Durations = {1, 2}
  Timeout = 1
  Late = 1
  MaxSeq = 3
  MaxClears = 1
SYMMETRY ClientSymmetry
SPECIFICATION Spec
CHECK_DEADLOCK FALSE
INVARIANTS TypeOK SameUnlessCleared TasksBounded
PROPERTIES CutOnlyByLatePlay
