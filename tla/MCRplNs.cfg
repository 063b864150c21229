CONSTANTS
  NodeId = {r, n1, n2}
  Root = r
  NoId = NoId
  MaxNodes = 3
  NsMaxLifetime = 1
  NsNoPathDelay = 1
SPECIFICATION NsSpec
CHECK_DEADLOCK FALSE
INVARIANTS ParentsListed
