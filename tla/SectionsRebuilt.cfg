SPECIFICATION Spec
CONSTANTS
  None = None
  NumSections = 3
  Lengths = {2, 4, 5}
  Payloads = {3, 4}
  HeaderSize = 2
  MaxSection = 5
  FeedSize = 9
  CcMod = 3
  RingSize = 2
  Misread = {2, 4}
  Unwanted = {2}
  MaxLost = 2
  MaxUpsets = 1
CHECK_DEADLOCK FALSE
INVARIANTS TypeOK Genuine NothingMissed InOrder
