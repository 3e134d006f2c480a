SPECIFICATION Spec
CONSTANTS
  g1 = g1
  g2 = g2
  g3 = g3
  None = None
  NumDevices = 2
  Word = 16
  Ranges <- SomeRanges
  Taken <- NoneOrFirst
  Ephemeral <- KernelPorts
  GroupPort <- ThreeGroups
  MaxSetups = 2
  MaxUpsets = 1
SYMMETRY SamePort
CHECK_DEADLOCK FALSE
INVARIANTS TypeOK EveryoneServed ListensOtherwise NothingWaits NoneDestroyed
