CONSTANTS
  Ips = {i1, i2}
  NoIp = NoIp
  Lls = {l1, l2}
  NullLl = NullLl
  MaxNeighbors = 2
  MaxQueued = 2
  MaxSolicit = 3
SPECIFICATION Spec
INVARIANT QueuedIsHeld
