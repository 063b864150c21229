CONSTANTS
  p1 = p1
  p2 = p2
  p3 = p3
  Packet = {p1, p2, p3}
  Addr = {a1, a2, a3}
  NoAddr = NoAddr
  Ifindex = {i1}
  Slot = {n1, n2}
  MaxPacketPerNeighbor = 2
  MaxQueuedPackets = 2
  MaxBackoff = 1
  MaxTransmissions = {2}
  RdcStatus = {"OK", "NOACK", "COLLISION"}
  NumTx = {1, 2}
  SeqnoMod = 2
SPECIFICATION FairSpec
INVARIANTS TypeOK OneQueuePerAddr OneTrigger InFlightIsHead QueuedOrReported
PROPERTIES Implements
CHECK_DEADLOCK FALSE
