CONSTANTS
  h1 = h1
  h2 = h2
  net = net
  Dest = {h1, h2, net}
  Host = {h1, h2}
  Covers <- MCCovers
  Length <- MCLength
  Mortal = {h1}
  Ip = {i1, i2}
  Ll = {l1, l2}
  NoIp = NoIp
  NoLl = NoLl
  MaxRoutes = 2
  MaxLifetime = 2
  NoPathDelay = 2
  NodeId = {r, h1, h2, n3}
  Root = r
  NoId = NoId
  MaxNodes = 3
  NsMaxLifetime = 1
  NsNoPathDelay = 1
SPECIFICATION FairSpec
INVARIANTS TypeOK TablesAgree OneEntryPerDestination OthersKeepRoutes AcknowledgedIsRouted DaoKeepsReachable
PROPERTIES SilentIsForgotten
CHECK_DEADLOCK FALSE
