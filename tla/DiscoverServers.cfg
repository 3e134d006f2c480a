SPECIFICATION Spec
CONSTANTS
  host1 = host1
  host2 = host2
  Hosts <- TwoHosts
  Parts <- OneAndTwo
  Interval = 2
  Timeout = 4
  MaxChanges = 2
  MaxLost = 1
  MaxScans = 1
CHECK_DEADLOCK FALSE
INVARIANTS TypeOK ListedOnce
PROPERTIES SeenStays Converges
