SPECIFICATION Spec
CONSTANTS
  d1 = d1
  d2 = d2
  None = None
  Devices <- TwoDevices
  NumServers = 1
  NumSystems = 1
  Count <- OneFrontend
  Channels <- TwoSat
  MaxZaps = 2
  MaxUpsets = 0
CHECK_DEADLOCK FALSE
PROPERTY NoMarkStolen
