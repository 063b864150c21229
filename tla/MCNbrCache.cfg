CONSTANTS
  Ips = {i1, i2}
  NoIp = NoIp
  Lls = {l1, l2}
  NullLl = NullLl
  MaxNeighbors = 2
  MaxQueued = 1
  MaxSolicit = 2
SPECIFICATION FairSpec
INVARIANTS TypeOK OneKeyPerLladdr OneEntryPerAddress
PROPERTIES GivenUpUnanswered ProbeEnds
