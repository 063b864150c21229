CONSTANTS
  p1 = p1
  p2 = p2
  p3 = p3
  d1 = d1
  d2 = d2
  Packet = {p1, p2, p3}
  Addr = {a1, bc}
  NoAddr = NoAddr
  Slot = {n1, n2}
  MaxPacketPerNeighbor = 2
  MaxQueuedPackets = 2
  MaxBackoff = 0
  MaxTransmissions = {2}
  RadioStatus = {"OK"}
  NumTx = {1}
  SeqnoMod = 3
  MaxCallbacks = 1
  Device = {d1, d2}
  Retransmit <- NoRetransmit
  Free = Free
  Unknown = Unknown
  Broadcast = bc
  FramerFails = TRUE
  RxAttributes = FALSE
  LateAnswers = TRUE
  MaxJobs = 1
SYMMETRY Symmetry
SPECIFICATION Spec
PROPERTIES ImplementsCsma
CHECK_DEADLOCK FALSE
