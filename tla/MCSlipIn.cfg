CONSTANTS
  d1 = d1
  None = None
  Device = {d1}
  Traffic <- MCTraffic
  InbufSize = 3
  MaxLost = 2
SPECIFICATION FairSpec
INVARIANTS TypeOK NoOverrun Resynchronises InOrder
PROPERTIES HandledUnlessCrcError
CHECK_DEADLOCK FALSE
