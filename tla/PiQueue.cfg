CONSTANTS
  Msg = {a, b, c}
  MAX_SENT_STRINGS = 2
  Plays = {1, 2}
  DeleteRequests <- MCDeleteRequests
  Thread = {t, u}
  MaxCalls = 2
SPECIFICATION QueueFairSpec
CHECK_DEADLOCK FALSE
INVARIANTS QueueTypeOK CountsExact StoredUnlessOverlap
PROPERTIES TurnsKept EveryMessagePlayed
