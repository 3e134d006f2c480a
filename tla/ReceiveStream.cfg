SPECIFICATION FairSpec
CONSTANTS
  None = None
  NumSeqs = 4
  ReadCount = 2
  SockSize = 3
  TsSize = 2
  BufSize = 7
  Loads = {2}
  Multicast = FALSE
  MaxDatagrams = 2
  MaxTrouble = 2
CHECK_DEADLOCK FALSE
INVARIANTS TypeOK NoStall LatestReport JumpsCounted InOrder NothingVanishes DamageContained LentStays
PROPERTY Drained
