CONSTANTS
  Msg = {1, 2}
  None = None
  At <- MCAt
  Length <- MCLength
  Lead = 2
  MaxTime = 9
  MaxPanel = 2
SPECIFICATION FairSpec
CHECK_DEADLOCK FALSE
INVARIANTS TypeOK
PROPERTIES UntouchedPassHonest SkipIsSafe PanelGoesDark
