SPECIFICATION Spec
CONSTANTS
  a = a
  b = b
  None = None
  Servers <- OneServer
  Params = {p}
  Pids = {}
  TearAndPlay <- NoServers
  PlayPids <- NoServers
  ForceLock <- NoServers
  CiServers <- NoServers
  IdleReports <- NoIdle
  Forbids = FALSE
  StrictHost = TRUE
  MaxRequests = 1
  MaxUpsets = 1
INVARIANT ServerOptionsUsed
