SPECIFICATION Spec
CONSTANTS
  g1 = g1
  g2 = g2
  g3 = g3
  None = None
  NumDevices = 1
  Word = 16
  Ranges <- TwoPorts
  Taken <- OnlyNone
  Ephemeral <- KernelPorts
  GroupPort <- ThreeGroups
  MaxSetups = 1
  MaxUpsets = 1
SYMMETRY SamePort
CHECK_DEADLOCK FALSE
INVARIANT MinimumServed
