CONSTANTS
  p1 = p1
  p2 = p2
  p3 = p3
  d1 = d1
  d2 = d2
  Packet = {p1, p2}
  Addr = {a1, bc}
  NoAddr = NoAddr
  Slot = {n1}
  MaxPacketPerNeighbor = 2
  MaxQueuedPackets = 2
  MaxBackoff = 0
  MaxTransmissions = {2}
  RadioStatus = {"OK"}
  NumTx = {1}
  SeqnoMod = 3
  MaxCallbacks = 2
  Device = {d1}
  Retransmit <- NoRetransmit
  Free = Free
  Unknown = Unknown
  Broadcast = bc
  FramerFails = TRUE
  RxAttributes = TRUE
  LateAnswers = FALSE
  MaxJobs = 1
SPECIFICATION Spec
PROPERTIES FatalIsReported
CHECK_DEADLOCK FALSE
