CONSTANTS
  d1 = d1
  d2 = d2
  r1 = r1
  Free = Free
  MaxCallbacks = 3
  Device = {d1, d2}
  Request = {r1}
  Retransmit <- MCRetransmit
SPECIFICATION FairSpec
INVARIANTS TypeOK CountIsUsed TimerIsUsed
PROPERTIES NoImmediateReuse SessionEnds
