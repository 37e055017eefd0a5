CONSTANTS
  Client = {c, d}
  Workers = 2
  Lead = 1
  Durations = {2}
  Timeout = 2
  MaxSeq = 2
  MaxClears = 1
SPECIFICATION FairSpec
CHECK_DEADLOCK FALSE
INVARIANTS TypeOK 
PROPERTIES  RoundEnds
