SPECIFICATION Spec
CONSTANTS
  None = None
  NumSeqs = 4
  ReadCount = 2
  SockSize = 3
  TsSize = 2
  BufSize = 7
  Loads = {2}
  Multicast = TRUE
  MaxDatagrams = 2
  MaxTrouble = 2
CHECK_DEADLOCK FALSE
INVARIANT LatestReport
