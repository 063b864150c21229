CONSTANTS
  Node = {n1, n2}
  NoVersion = NoVersion
  MaxValue = 15
  Circular = 7
  Window = 3
SPECIFICATION FairSpec
INVARIANTS StoredIsAhead
PROPERTIES Settles
CHECK_DEADLOCK FALSE
