SPECIFICATION FairSpec
CONSTANTS
  a = a
  b = b
  None = None
  Servers <- TwoServers
  Params = {p, q}
  Pids = {p1}
  TearAndPlay <- OnlyB
  PlayPids <- OnlyB
  ForceLock <- OnlyB
  CiServers <- OnlyB
  IdleReports <- AnyIdle
  Forbids = TRUE
  StrictHost = TRUE
  MaxRequests = 2
  MaxUpsets = 2
INVARIANTS TypeOK StreamIsAddressable IdleHasNoStream ConnectKnowsServer AttachedIsCurrent PidListsAgree NoPidMissing
PROPERTIES ImplementsLease Settles PidServed
