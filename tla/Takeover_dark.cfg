CONSTANTS
  Node = {1, 2}
  Pi = {1}
  M = 6
  Phase <- Phases
  Lead = 1
  Length = 1
  Grace = 1
  Banner = 1
  MaxTrip = 1
  Samples = 2
  MaxDelay = 1
  MaxSeq = 2
  MaxFaults = 1
SPECIFICATION Spec
INVARIANT PromotedInReach
