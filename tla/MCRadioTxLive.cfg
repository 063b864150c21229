CONSTANTS
  p1 = p1
  p2 = p2
  p3 = p3
  d1 = d1
  d2 = d2
  Packet = {p1, p2}
  Addr = {a1, bc}
  NoAddr = NoAddr
  Slot = {n1, n2}
  MaxPacketPerNeighbor = 2
  MaxQueuedPackets = 2
  MaxBackoff = 0
  MaxTransmissions = {2}
  RadioStatus = {"OK", "NOACK", "COLLISION"}
  NumTx = {1}
  SeqnoMod = 2
  MaxCallbacks = 2
  Device = {d1, d2}
  Retransmit <- MCRetransmit
  Free = Free
  Unknown = Unknown
  Broadcast = bc
  FramerFails = FALSE
  RxAttributes = TRUE
  LateAnswers = FALSE
  MaxJobs = 2
SPECIFICATION FairSpec
INVARIANTS SessionsWithinQueues NoFalseOk
PROPERTIES KeepsPromise
CHECK_DEADLOCK FALSE
