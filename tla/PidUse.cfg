SPECIFICATION Spec
CONSTANTS
  p = p
  q = q
  t = t
  u = u
  f = f
  g = g
  None = None
  Pids = {p, q}
  Tables = {t, u}
  Disabled <- OneDisabled
  Tapped = {p}
  Fds = {f, g}
  NumSlots = 3
  MaxUsed = 3
INVARIANTS TypeOK HandlesAreSlots NeededIsAsked AskedIsNeeded
