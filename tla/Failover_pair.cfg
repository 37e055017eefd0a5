CONSTANTS
  Node = {1, 2}
  NoAP = NoAP
  Slot <- MCSlot
  JoinGraceCold = 2
  JoinGraceWarm = 3
  GraceCold = 2
  GraceFail = 4
  Jitter = 1
  ScanInterval = 1
  ServerScanInterval = 3
  AbdicationWindow = 8
  PromotionCooldown = 5
  BlipWindow = 2
  Announce = 3
  ScanLag = 1
  SetupTime = 3
  MaxAge = 8
  MaxFaults = 2
  MaxMissed = 4
SPECIFICATION FairSpec
INVARIANTS IInv SplitBrainBounded DeferredToLower
PROPERTIES EstablishedNotContested AbdicationKeepsService Leads Settles
