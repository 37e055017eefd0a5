CONSTANTS
  Msg = {a, b, c}
  Blank = Blank
  MAX_SENT_STRINGS = 2
  Ceilings = {1, 2}
  Configured <- MCConfigured
  MaxCeiling = 99
  DeleteRequests <- MCDeleteRequests
  MaxCalls = 2
SPECIFICATION FairSpec
CHECK_DEADLOCK FALSE
INVARIANTS TypeOK Compact CountsHonest
PROPERTIES EveryMessageShown PassEnds
