SPECIFICATION Spec
CONSTANTS
  d1 = d1
  d2 = d2
  None = None
  Devices <- TwoDevices
  NumServers = 2
  NumSystems = 2
  Count <- Terrestrial
  Channels <- ThreeTerr
  MaxZaps = 4
  MaxUpsets = 1
SYMMETRY Symmetry
CHECK_DEADLOCK FALSE
INVARIANTS TypeOK NoOverbooking TunedIsMarked
