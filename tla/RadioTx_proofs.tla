--------------------------- MODULE RadioTx_proofs --------------------------
(* For any number of packets, queues, radios and sessions, and whatever the *)
(* radios answer and the lines lose: what the session table and the queues  *)
(* are proved to keep on their own (NativeRdc_proofs, Csma_proofs), they    *)
(* keep when they run against each other.                                   *)
EXTENDS RadioTx, FiniteSetTheorems, TLAPS

(* The two layers with what is proved of them. Their assumptions are those  *)
(* of RadioTx: MacAssumption and RdcAssumption.                             *)
MacP == INSTANCE Csma_proofs WITH Ifindex <- Device, rdc <- Pending \cup lost,
                     RdcStatus <- RadioStatus \cup {"NOACK"}, NumTx <- NumTx \cup {1}
RdcP == INSTANCE NativeRdc_proofs WITH Request <- Frame

LEMMA MacAssumptions ==
  /\ NoAddr \notin Addr
  /\ MaxPacketPerNeighbor \in Nat \ {0} /\ MaxQueuedPackets \in Nat
  /\ MaxBackoff \in Nat /\ SeqnoMod \in Nat \ {0}
  /\ MaxTransmissions \subseteq 1 .. 255 /\ NumTx \cup {1} \subseteq 1 .. 255
  /\ RadioStatus \cup {"NOACK"} \subseteq MacP!Status
BY MacAssumption DEF MacP!Status

LEMMA RdcAssumptions ==
  /\ MaxCallbacks \in Nat \ {0} /\ Retransmit \in [Device -> Nat]
  /\ Free \notin RdcP!Session
BY RdcAssumption DEF RdcP!Session, Rdc!Session

(* The steps of the layers, under either name.                              *)
LEMMA MacSame ==
  /\ Mac!Allocated = MacP!Allocated
  /\ \A n : Mac!HeadFrame(n) = MacP!HeadFrame(n) /\ (Mac!Fires(n) <=> MacP!Fires(n))
  /\ \A n, seqno, input : /\ Mac!Matches(n, seqno, input) = MacP!Matches(n, seqno, input)
                          /\ Mac!First(n, seqno, input) = MacP!First(n, seqno, input)
BY DEF Mac!Allocated, MacP!Allocated, Mac!HeadFrame, MacP!HeadFrame, Mac!Fires, MacP!Fires,
       Mac!Matches, MacP!Matches, Mac!First, MacP!First

LEMMA MacInitSame == Mac!Init <=> MacP!Init
BY DEF Mac!Init, MacP!Init, Mac!Seqno, MacP!Seqno

LEMMA QueuedSame == Mac!Queued = MacP!Queued
BY DEF Mac!Queued, MacP!Queued, Mac!FoldFunction, MacP!FoldFunction, Mac!FoldFunctionOnSet,
       MacP!FoldFunctionOnSet, Mac!MapThenFoldSet, MacP!MapThenFoldSet

LEMMA SendPacketSame ==
  ASSUME NEW p, NEW a, NEW i, NEW max, NEW n, Mac!SendPacket(p, a, i, max, n)
  PROVE  MacP!SendPacket(p, a, i, max, n)
BY QueuedSame DEF Mac!SendPacket, MacP!SendPacket, Mac!Take, MacP!Take, Mac!Known, MacP!Known,
                  Mac!New, MacP!New, Mac!ListAdd, MacP!ListAdd

LEMMA SendPacketRefusedSame ==
  ASSUME NEW p, NEW a, Mac!SendPacketRefused(p, a)
  PROVE  MacP!SendPacketRefused(p, a)
BY QueuedSame DEF Mac!SendPacketRefused, MacP!SendPacketRefused, Mac!Take, MacP!Take,
                  Mac!Known, MacP!Known, Mac!nbr, MacP!nbr

LEMMA TransmitSame ==
  ASSUME NEW n, Mac!TransmitPacketList(n)
  PROVE  MacP!TransmitPacketList(n)
BY DEF Mac!TransmitPacketList, MacP!TransmitPacketList, Mac!Fires, MacP!Fires, Mac!nbr, MacP!nbr,
       Mac!up, MacP!up

LEMMA PacketSentSame ==
  ASSUME NEW n, NEW seqno, NEW input, NEW status, NEW ntx, NEW armed,
         Mac!PacketSent(n, seqno, input, status, ntx, armed)
  PROVE  MacP!PacketSent(n, seqno, input, status, ntx, armed)
<1>1. \A k, st, t : Mac!TxDone(n, k, st, t) <=> MacP!TxDone(n, k, st, t)
  BY DEF Mac!TxDone, MacP!TxDone, Mac!RemoveAt, MacP!RemoveAt
<1>2. \A tx, coll, t : Mac!Rexmit(n, tx, coll, t) <=> MacP!Rexmit(n, tx, coll, t)
  BY DEF Mac!Rexmit, MacP!Rexmit, Mac!up, MacP!up
<1>3. Mac!AfterCollision(n, ntx) = MacP!AfterCollision(n, ntx)
  BY DEF Mac!AfterCollision, MacP!AfterCollision
<1> QED
  BY <1>1, <1>2, <1>3, MacSame, Zenon DEF Mac!PacketSent, MacP!PacketSent

LEMMA RdcSame ==
  /\ Rdc!Used = RdcP!Used /\ Rdc!Sid = RdcP!Sid /\ Rdc!Session = RdcP!Session
  /\ Rdc!NextSid = RdcP!NextSid
BY DEF Rdc!Used, RdcP!Used, Rdc!Sid, RdcP!Sid, Rdc!Session, RdcP!Session,
       Rdc!NextSid, RdcP!NextSid, Rdc!Distance, RdcP!Distance

LEMMA CardinalitySame ==
  \A S : Rdc!Cardinality(S) = Cardinality(S) /\ RdcP!Cardinality(S) = Cardinality(S)
BY DEF Rdc!Cardinality, RdcP!Cardinality, Cardinality

LEMMA UsedSame == Rdc!Used' = RdcP!Used'
BY DEF Rdc!Used, RdcP!Used, Rdc!Sid, RdcP!Sid

LEMMA RdcStepsSame ==
  /\ Rdc!Init <=> RdcP!Init
  /\ \A dev, req : Rdc!SendPacket(dev, req) => RdcP!SendPacket(dev, req)
  /\ \A s : (Rdc!PacketSent(s) \/ Rdc!PacketTimeout(s)) => RdcP!Release(s)
  /\ \A s : Rdc!PacketRetransmit(s) => RdcP!PacketRetransmit(s)
BY RdcSame DEF Rdc!Init, RdcP!Init, Rdc!SendPacket, RdcP!SendPacket, Rdc!PacketSent,
               Rdc!PacketTimeout, Rdc!Release, RdcP!Release, Rdc!PacketRetransmit,
               RdcP!PacketRetransmit, Rdc!Sid, RdcP!Sid
-----------------------------------------------------------------------------
(* What each step keeps.  The layers keep what they keep on their own; what *)
(* ties them together is that a session belongs to one queue and to the     *)
(* interface its frame leaves by, and that a frame csma will not hear of    *)
(* again has none: that makes the end of a session one callback for csma.   *)
Sessions ==
  /\ \A s \in Rdc!Used : callbacks[s].slip_device = callbacks[s].req.ifindex
  /\ \A r, s \in Rdc!Used : callbacks[r].req.ptr = callbacks[s].req.ptr => r = s
  /\ \A f \in lost, s \in Rdc!Used : f.ptr # callbacks[s].req.ptr

Inv == MacP!IInv /\ RdcP!IInv /\ Sessions

(* What a session holds.                                                    *)
LEMMA SessionIs ==
  ASSUME Inv, NEW s \in Rdc!Used
  PROVE  /\ s \in Rdc!Sid /\ callbacks[s].req \in Frame /\ callbacks[s].req \in Pending
         /\ callbacks[s].slip_device = callbacks[s].req.ifindex
         /\ callbacks[s].req.ptr \in Slot /\ callbacks[s].req.ifindex \in Device
<1>1. s \in Rdc!Sid /\ callbacks[s] # Free
  BY DEF Rdc!Used
<1>2. callbacks[s] \in Rdc!Session
  BY <1>1, RdcSame DEF Inv, RdcP!IInv, RdcP!TypeOK
<1>3. callbacks[s].req \in Frame
  BY <1>2 DEF Rdc!Session
<1> QED
  BY <1>1, <1>3 DEF Inv, Sessions, Pending, Frame

(* The driver takes a frame of a queue that has none with it.               *)
LEMMA TakenIsPending ==
  ASSUME Inv, NEW f \in Frame, Rdc!SendPacket(f.ifindex, f), lost' = lost,
         \A g \in Pending \cup lost : g.ptr # f.ptr
  PROVE  /\ RdcP!IInv' /\ Sessions' /\ Pending' = Pending \cup {f}
         /\ Rdc!NextSid \notin Rdc!Used /\ Rdc!Used' = Rdc!Used \cup {Rdc!NextSid}
         /\ callbacks'[Rdc!NextSid].req = f
         /\ \A s \in Rdc!Used : callbacks'[s].req = callbacks[s].req
<1> DEFINE new == [req |-> f, slip_device |-> f.ifindex, retransmit |-> Retransmit[f.ifindex]]
           sid == Rdc!NextSid
<1>1. f.ifindex \in Device
  BY DEF Frame
<1>2. RdcP!SendPacket(f.ifindex, f)
  BY RdcStepsSame
<1>3. RdcP!IInv' /\ sid \in Rdc!Sid \ Rdc!Used /\ Rdc!Used' = Rdc!Used \cup {sid}
  <2>1. RdcP!IInv /\ f \in Frame /\ f.ifindex \in Device
    BY <1>1 DEF Inv
  <2>2. /\ RdcP!IInv' /\ RdcP!NextSid \in RdcP!Sid \ RdcP!Used
        /\ RdcP!Used' = RdcP!Used \cup {RdcP!NextSid}
    BY <2>1, <1>2, RdcP!SendKeepsIInv, RdcAssumptions
  <2> QED
    BY <2>2, RdcSame, UsedSame
<1>4. callbacks' = [callbacks EXCEPT ![sid] = new]
  BY DEF Rdc!SendPacket
<1>5. callbacks \in [Rdc!Sid -> Rdc!Session \cup {Free}]
  BY RdcSame DEF Inv, RdcP!IInv, RdcP!TypeOK
<1>6. callbacks'[sid] = new /\ \A s \in Rdc!Used : callbacks'[s] = callbacks[s] /\ s # sid
  BY <1>3, <1>4, <1>5 DEF Rdc!Used
<1>7. callbacks'[sid].req = f /\ callbacks'[sid].slip_device = f.ifindex
  BY <1>6
<1> HIDE DEF new, sid
<1>8. Pending' = Pending \cup {f}
  BY <1>3, <1>6, <1>7 DEF Pending
<1>9. \A s \in Rdc!Used : callbacks[s].req \in Pending
  BY DEF Pending
<1>10. Sessions'
  BY <1>3, <1>6, <1>7, <1>9 DEF Inv, Sessions
<1> QED
  BY <1>3, <1>6, <1>7, <1>8, <1>10 DEF sid

(* A session ends: csma hears of its frame, or never will.                  *)
LEMMA ReleasedIsNotPending ==
  ASSUME Inv, NEW s \in Rdc!Used, RdcP!Release(s),
         lost' = lost \/ lost' = lost \cup {callbacks[s].req}
  PROVE  /\ RdcP!IInv' /\ Sessions'
         /\ Rdc!Used' = Rdc!Used \ {s}
         /\ \A r \in Rdc!Used \ {s} : callbacks'[r].req = callbacks[r].req
         /\ lost' = lost =>
              (Pending \cup lost)' = {g \in Pending \cup lost : g.ptr # callbacks[s].req.ptr}
         /\ lost' = lost \cup {callbacks[s].req} => (Pending \cup lost)' = Pending \cup lost
<1> DEFINE f == callbacks[s].req
<1>1. s \in RdcP!Used
  BY RdcSame
<1>2. RdcP!IInv' /\ RdcP!Used' = RdcP!Used \ {s}
  <2>1. RdcP!IInv
    BY DEF Inv
  <2> QED
    BY <1>1, <2>1, RdcP!ReleaseKeepsIInv, RdcAssumptions
<1>3. Rdc!Used' = Rdc!Used \ {s}
  BY <1>2, RdcSame, UsedSame
<1>4. callbacks' = [callbacks EXCEPT ![s] = Free]
  BY DEF RdcP!Release
<1>5. callbacks \in [Rdc!Sid -> Rdc!Session \cup {Free}]
  BY RdcSame DEF Inv, RdcP!IInv, RdcP!TypeOK
<1>6. \A r \in Rdc!Used \ {s} : callbacks'[r] = callbacks[r] /\ r \in Rdc!Used
  BY <1>4, <1>5 DEF Rdc!Used
<1>7. \A r \in Rdc!Used \ {s} : callbacks[r].req.ptr # f.ptr
  BY DEF Inv, Sessions
<1> HIDE DEF f
<1>8. Pending' = {callbacks[r].req : r \in Rdc!Used \ {s}}
  BY <1>3, <1>6 DEF Pending
<1>9. Pending = Pending' \cup {f}
  BY <1>8 DEF Pending, f
<1>10. \A g \in Pending' : g.ptr # f.ptr
  BY <1>7, <1>8
<1>11. \A g \in lost : g.ptr # f.ptr
  BY DEF Inv, Sessions, f
<1>12. Sessions'
  BY <1>3, <1>6, <1>7 DEF Inv, Sessions, f
<1> QED
  BY <1>2, <1>3, <1>6, <1>9, <1>10, <1>11, <1>12 DEF f

(* A frame that is sent again stays with its session.                       *)
LEMMA SentAgainIsPending ==
  ASSUME Inv, NEW s \in Rdc!Sid, Rdc!PacketRetransmit(s), lost' = lost
  PROVE  /\ RdcP!IInv' /\ Sessions' /\ Pending' = Pending /\ Rdc!Used' = Rdc!Used
         /\ \A r \in Rdc!Used : callbacks'[r].req = callbacks[r].req
<1>1. s \in RdcP!Sid /\ RdcP!PacketRetransmit(s)
  BY RdcSame, RdcStepsSame
<1>2. RdcP!IInv' /\ RdcP!Used' = RdcP!Used
  <2>1. RdcP!IInv
    BY DEF Inv
  <2> QED
    BY <1>1, <2>1, RdcP!RetransmitKeepsIInv, RdcAssumptions
<1>3. Rdc!Used' = Rdc!Used
  BY <1>2, RdcSame, UsedSame
<1>4. callbacks' = [callbacks EXCEPT ![s].retransmit = @ - 1] /\ s \in Rdc!Used
  BY DEF Rdc!PacketRetransmit
<1>5. callbacks \in [Rdc!Sid -> Rdc!Session \cup {Free}]
  BY RdcSame DEF Inv, RdcP!IInv, RdcP!TypeOK
<1>6. ASSUME NEW r \in Rdc!Used
      PROVE  /\ callbacks'[r].req = callbacks[r].req
             /\ callbacks'[r].slip_device = callbacks[r].slip_device
  <2>1. r \in Rdc!Sid /\ callbacks[r] \in Rdc!Session
    BY <1>5 DEF Rdc!Used
  <2> QED
    BY <1>4, <1>5, <2>1 DEF Rdc!Session
<1>7. Pending' = Pending
  BY <1>3, <1>6 DEF Pending
<1>8. Sessions'
  BY <1>3, <1>6 DEF Inv, Sessions
<1> QED
  BY <1>2, <1>3, <1>6, <1>7, <1>8
-----------------------------------------------------------------------------
(* What a step is for csma: one of its own, except that a callback may name *)
(* another interface than the frame left by; csma then looks for another    *)
(* packet of the same queue.                                                *)
Waiting == Pending \cup lost

CalledUnderTimer(n) ==
  /\ Mac!Fires(n) /\ Waiting' = Waiting /\ mac_dsn' = mac_dsn
  /\ \E status \in {"NOACK", "ERR_FATAL"} :
       Mac!PacketSent(n, Mac!HeadFrame(n).seqno, multi_radio_input_ifindex, status, 1,
                      transmit_timer \ {n})

CalledFor(f) ==
  /\ Waiting' = Waiting \ {f} /\ mac_dsn' = mac_dsn
  /\ \E input : \E status \in RadioStatus \cup {"NOACK"}, ntx \in NumTx \cup {1} :
       Mac!PacketSent(f.ptr, f.seqno, input, status, ntx, transmit_timer)

CsmaStep ==
  \/ Mac!Send
  \/ \E n \in Slot : Mac!RdcTakes(n) \/ CalledUnderTimer(n)
  \/ \E f \in Waiting : CalledFor(f)
  \/ UNCHANGED Mac!vars

(* The head of a queue whose timer fires is under way for no one else.      *)
LEMMA HeadIsNotWaiting ==
  ASSUME Inv, NEW n \in Slot, Mac!Fires(n)
  PROVE  /\ Mac!HeadFrame(n) \in Frame /\ Mac!HeadFrame(n).ptr = n
         /\ \A g \in Waiting : g.ptr # n
<1>1. MacP!IInv /\ MacP!Fires(n)
  BY MacSame DEF Inv
<1>2. /\ MacP!HeadFrame(n) \in MacP!Frame
      /\ Waiting = {f \in Waiting : f.ptr # n}
  BY <1>1, MacP!FiresIsHead, MacAssumptions DEF Waiting
<1>3. MacP!HeadFrame(n) \in Frame
  BY <1>2 DEF MacP!Frame, MacP!Seqno, Frame
<1>4. MacP!HeadFrame(n).ptr = n
  BY DEF MacP!HeadFrame
<1>5. Mac!HeadFrame(n) = MacP!HeadFrame(n)
  BY MacSame
<1>6. \A g \in Waiting : g.ptr # n
  BY <1>2
<1> QED
  BY <1>3, <1>4, <1>5, <1>6

(* What is under way is the head of its queue.                              *)
LEMMA WaitingIsHead ==
  ASSUME Inv, NEW f \in Waiting
  PROVE  /\ f.ptr \in Slot /\ queued_packet_list[f.ptr] # <<>> /\ f = Mac!HeadFrame(f.ptr)
         /\ Waiting \ {f} = {g \in Waiting : g.ptr # f.ptr}
         /\ transmit_timer = transmit_timer \ {f.ptr}
<1>1. MacP!IInv /\ f \in Pending \cup lost
  BY DEF Inv, Waiting
<1>2. /\ f.ptr \in Slot /\ queued_packet_list[f.ptr] # <<>>
      /\ Waiting \ {f} = {g \in Waiting : g.ptr # f.ptr}
      /\ transmit_timer = transmit_timer \ {f.ptr}
  BY <1>1, MacP!ReportIsHead, MacAssumptions DEF Waiting
<1>3. f = MacP!HeadFrame(f.ptr)
  BY <1>1 DEF MacP!IInv, MacP!InFlightIsHead
<1> QED
  BY <1>2, <1>3, MacSame

LEMMA TransmitStep ==
  ASSUME Inv, NEW n \in Slot, Transmit(n)
  PROVE  RdcP!IInv' /\ Sessions' /\ Mac!RdcTakes(n)
<1> DEFINE f == Mac!HeadFrame(n)
<1>1. /\ Mac!Fires(n) /\ Mac!TransmitPacketList(n) /\ lost' = lost
      /\ Rdc!SendPacket(f.ifindex, f)
  BY DEF Transmit, Mac!TransmitPacketList
<1>2. f \in Frame /\ f.ptr = n /\ \A g \in Waiting : g.ptr # n
  BY <1>1, HeadIsNotWaiting
<1> HIDE DEF f
<1>3. \A g \in Pending \cup lost : g.ptr # f.ptr
  BY <1>2 DEF Waiting
<1>4. RdcP!IInv' /\ Sessions' /\ Pending' = Pending \cup {f}
  BY <1>1, <1>2, <1>3, TakenIsPending
<1> QED
  BY <1>1, <1>4 DEF Mac!RdcTakes, f

LEMMA CalledBackAtOnceStep ==
  ASSUME Inv, NEW n \in Slot, NEW status \in {"NOACK", "ERR_FATAL"},
         CalledBackAtOnce(n, status), UNCHANGED rdcVars
  PROVE  RdcP!IInv' /\ Sessions' /\ (Mac!RdcTakes(n) \/ CalledUnderTimer(n))
<1> DEFINE f == Mac!HeadFrame(n)
<1>1. Mac!Fires(n) /\ mac_dsn' = mac_dsn
  BY DEF CalledBackAtOnce, Callback
<1>2. \/ /\ Mac!PacketSent(f.ptr, f.seqno, multi_radio_input_ifindex, status, 1,
                           transmit_timer \ {n})
         /\ lost' = lost
      \/ /\ Mac!NotFound(f.ptr, f.seqno, multi_radio_input_ifindex, transmit_timer \ {n})
         /\ lost' = lost \cup {f}
  BY DEF CalledBackAtOnce, Callback
<1>3. f \in Frame /\ f.ptr = n /\ \A g \in Waiting : g.ptr # n
  BY <1>1, HeadIsNotWaiting
<1> HIDE DEF f
<1>4. /\ callbacks' = callbacks /\ callback_pos' = callback_pos
      /\ callback_count' = callback_count /\ timeout' = timeout
  BY DEF rdcVars
<1>5. Rdc!Used' = Rdc!Used
  BY <1>4 DEF Rdc!Used
<1>6. Pending' = Pending /\ \A s \in Rdc!Used : callbacks[s].req.ptr # n
  BY <1>3, <1>4, <1>5 DEF Pending, Waiting
<1>7. RdcP!IInv'
  BY <1>4 DEF Inv, RdcP!IInv, RdcP!TypeOK, RdcP!CountIsUsed, RdcP!TimerIsUsed, RdcP!Used
<1>8. Sessions'
  BY <1>2, <1>3, <1>4, <1>5, <1>6 DEF Inv, Sessions
<1>9. Mac!RdcTakes(n) \/ CalledUnderTimer(n)
  <2>1. CASE lost' = lost /\ Mac!PacketSent(f.ptr, f.seqno, multi_radio_input_ifindex, status,
                                            1, transmit_timer \ {n})
    BY <1>1, <1>3, <1>6, <2>1 DEF CalledUnderTimer, Waiting, f
  <2>2. CASE /\ lost' = lost \cup {f}
             /\ Mac!NotFound(f.ptr, f.seqno, multi_radio_input_ifindex, transmit_timer \ {n})
    <3>1. Mac!TransmitPacketList(n)
      BY <1>1, <2>2 DEF Mac!NotFound, Mac!TransmitPacketList
    <3> QED
      BY <1>6, <2>2, <3>1 DEF Mac!RdcTakes, f
  <2> QED
    BY <1>2, <2>1, <2>2
<1> QED
  BY <1>7, <1>8, <1>9

LEMMA ReleaseStep ==
  ASSUME Inv, NEW s \in Rdc!Used, RdcP!Release(s),
         NEW input, NEW status \in RadioStatus \cup {"NOACK"},
         NEW ntx \in NumTx \cup {1}, NEW left,
         Callback(callbacks[s].req, input, status, ntx, transmit_timer, left)
  PROVE  /\ RdcP!IInv' /\ Sessions'
         /\ UNCHANGED Mac!vars \/ \E f \in Waiting : CalledFor(f)
<1> DEFINE f == callbacks[s].req
<1>1. /\ mac_dsn' = mac_dsn
      /\ \/ Mac!PacketSent(f.ptr, f.seqno, input, status, ntx, transmit_timer) /\ lost' = lost
         \/ Mac!NotFound(f.ptr, f.seqno, input, transmit_timer) /\ lost' = lost \cup {f}
  BY DEF Callback
<1>2. f \in Waiting
  BY SessionIs DEF Waiting
<1>3. /\ RdcP!IInv' /\ Sessions'
      /\ lost' = lost => Waiting' = {g \in Waiting : g.ptr # f.ptr}
      /\ lost' = lost \cup {f} => Waiting' = Waiting
  BY <1>1, ReleasedIsNotPending DEF Waiting
<1> HIDE DEF f
<1>4. CASE /\ lost' = lost
           /\ Mac!PacketSent(f.ptr, f.seqno, input, status, ntx, transmit_timer)
  <2>1. Waiting' = Waiting \ {f}
    BY <1>2, <1>3, <1>4, WaitingIsHead
  <2> QED
    BY <1>1, <1>2, <1>3, <1>4, <2>1 DEF CalledFor
<1>5. CASE lost' = lost \cup {f} /\ Mac!NotFound(f.ptr, f.seqno, input, transmit_timer)
  BY <1>1, <1>3, <1>5 DEF Mac!NotFound, Mac!vars, Waiting
<1> QED
  BY <1>1, <1>4, <1>5

(* A step of any actor is one of csma's steps, and keeps the sessions.      *)
LEMMA NextIsCsmaStep == Inv /\ [Next]_vars => RdcP!IInv' /\ Sessions' /\ CsmaStep
<1> SUFFICES ASSUME Inv, [Next]_vars PROVE RdcP!IInv' /\ Sessions' /\ CsmaStep
  OBVIOUS
<1> DEFINE Same == callbacks' = callbacks /\ callback_pos' = callback_pos
                   /\ callback_count' = callback_count /\ timeout' = timeout /\ lost' = lost
<1>same. ASSUME Same PROVE RdcP!IInv' /\ Sessions' /\ Waiting' = Waiting
  <2>1. Rdc!Used' = Rdc!Used
    BY <1>same DEF Rdc!Used
  <2>2. Pending' = Pending
    BY <1>same, <2>1 DEF Pending
  <2> QED
    BY <1>same, <2>1, <2>2 DEF Inv, RdcP!IInv, RdcP!TypeOK, RdcP!CountIsUsed,
                               RdcP!TimerIsUsed, RdcP!Used, Sessions, Waiting
<1>env. ASSUME Same, UNCHANGED macVars PROVE RdcP!IInv' /\ Sessions' /\ CsmaStep
  BY <1>same, <1>env DEF CsmaStep, Mac!vars, Mac!nbr, Mac!up, macVars, Waiting
<1>1. ASSUME NEW p \in Packet, NEW a \in Addr,
             \/ \E i \in Device, max \in MaxTransmissions, n \in Slot : SendPacket(p, a, i, max, n)
             \/ SendPacketRefused(p, a)
      PROVE  RdcP!IInv' /\ Sessions' /\ CsmaStep
  <2>1. /\ Same
        /\ \/ \E i \in Device, max \in MaxTransmissions, n \in Slot : Mac!SendPacket(p, a, i, max, n)
           \/ Mac!SendPacketRefused(p, a)
    BY <1>1 DEF SendPacket, SendPacketRefused, rdcVars
  <2>2. RdcP!IInv' /\ Sessions' /\ Waiting' = Waiting
    BY <1>same, <2>1
  <2>3. Mac!Send
    BY <2>1, <2>2 DEF Mac!Send, Waiting
  <2> QED
    BY <2>2, <2>3 DEF CsmaStep
<1>2. ASSUME NEW dev \in Device, IllegalAttributes(dev) \/ \E a \in Addr : PacketInput(dev, a)
      PROVE  RdcP!IInv' /\ Sessions' /\ CsmaStep
  BY <1>2, <1>env DEF IllegalAttributes, PacketInput, rdcVars
<1>3. ASSUME NEW n \in Slot, Transmit(n) PROVE RdcP!IInv' /\ Sessions' /\ CsmaStep
  BY <1>3, TransmitStep DEF CsmaStep
<1>4. ASSUME NEW n \in Slot, FramerFailed(n) \/ QueueFull(n)
      PROVE  RdcP!IInv' /\ Sessions' /\ CsmaStep
  <2>1. UNCHANGED rdcVars /\ \E status \in {"NOACK", "ERR_FATAL"} : CalledBackAtOnce(n, status)
    BY <1>4 DEF FramerFailed, QueueFull, rdcVars, Rdc!QueueFull, Rdc!vars
  <2> QED
    BY <2>1, CalledBackAtOnceStep DEF CsmaStep
<1>5. ASSUME NEW j, Lose(j) PROVE RdcP!IInv' /\ Sessions' /\ CsmaStep
  BY <1>5, <1>env DEF Lose, rdcVars
<1>6. ASSUME NEW j, NEW status \in RadioStatus, NEW ntx \in NumTx, Answer(j, status, ntx)
      PROVE  RdcP!IInv' /\ Sessions' /\ CsmaStep
  <2>1. CASE /\ Rdc!PacketSent(j.sid)
             /\ Callback(callbacks[j.sid].req, j.dev, status, ntx, transmit_timer, Unknown)
    <3>1. j.sid \in Rdc!Used /\ RdcP!Release(j.sid)
      BY <2>1, RdcStepsSame DEF Rdc!PacketSent
    <3>2. status \in RadioStatus \cup {"NOACK"} /\ ntx \in NumTx \cup {1}
      OBVIOUS
    <3> QED
      BY <2>1, <3>1, <3>2, ReleaseStep DEF CsmaStep
  <2>2. CASE Rdc!PacketSentUnknown(j.sid) /\ UNCHANGED <<macVars, lost>>
    BY <2>2, <1>env DEF Rdc!PacketSentUnknown, Rdc!vars
  <2> QED
    BY <1>6, <2>1, <2>2 DEF Answer
<1>7. ASSUME NEW s \in Rdc!Sid, Retransmission(s) PROVE RdcP!IInv' /\ Sessions' /\ CsmaStep
  <2>1. Rdc!PacketRetransmit(s) /\ lost' = lost /\ UNCHANGED macVars
    BY <1>7 DEF Retransmission
  <2>2. RdcP!IInv' /\ Sessions' /\ Pending' = Pending
    BY <2>1, SentAgainIsPending
  <2> QED
    BY <2>1, <2>2 DEF CsmaStep, Mac!vars, Mac!nbr, Mac!up, macVars
<1>8. ASSUME NEW s \in Rdc!Sid, Timeout(s) PROVE RdcP!IInv' /\ Sessions' /\ CsmaStep
  <2>1. /\ s \in Rdc!Used /\ RdcP!Release(s)
        /\ Callback(callbacks[s].req, callbacks[s].slip_device, "NOACK", 1, transmit_timer,
                    callbacks[s].slip_device)
    BY <1>8, RdcStepsSame DEF Timeout, Rdc!PacketTimeout
  <2>2. "NOACK" \in RadioStatus \cup {"NOACK"} /\ 1 \in NumTx \cup {1}
    OBVIOUS
  <2> QED
    BY <2>1, <2>2, ReleaseStep DEF CsmaStep
<1>9. CASE UNCHANGED vars
  BY <1>9, <1>env DEF vars, rdcVars
<1> QED
  BY <1>1, <1>2, <1>3, <1>4, <1>5, <1>6, <1>7, <1>8, <1>9 DEF Next

(* A callback under a timer or for a frame under way is a packet_sent for a *)
(* queue nothing else moves on.                                             *)
LEMMA CalledForQueue ==
  ASSUME Inv, (\E n \in Slot : CalledUnderTimer(n)) \/ (\E f \in Waiting : CalledFor(f))
  PROVE  \E n \in Slot, status \in MacP!Status, ntx \in Nat : \E input :
           /\ MacP!PacketSent(n, MacP!HeadFrame(n).seqno, input, status, ntx, transmit_timer \ {n})
           /\ (Pending \cup lost)' = {g \in Pending \cup lost : g.ptr # n}
           /\ mac_dsn' = mac_dsn
<1>1. ASSUME NEW n \in Slot, CalledUnderTimer(n)
      PROVE  \E status \in MacP!Status, ntx \in Nat : \E input :
           /\ MacP!PacketSent(n, MacP!HeadFrame(n).seqno, input, status, ntx, transmit_timer \ {n})
           /\ (Pending \cup lost)' = {g \in Pending \cup lost : g.ptr # n}
           /\ mac_dsn' = mac_dsn
  <2>1. PICK status \in {"NOACK", "ERR_FATAL"} :
          MacP!PacketSent(n, Mac!HeadFrame(n).seqno, multi_radio_input_ifindex, status, 1,
                          transmit_timer \ {n})
    BY <1>1, PacketSentSame DEF CalledUnderTimer
  <2>2. status \in MacP!Status /\ 1 \in Nat
    BY DEF MacP!Status
  <2>3. Mac!HeadFrame(n) = MacP!HeadFrame(n)
    BY MacSame
  <2>4. Waiting' = {g \in Waiting : g.ptr # n} /\ mac_dsn' = mac_dsn
    BY <1>1, HeadIsNotWaiting DEF CalledUnderTimer
  <2> QED
    BY <2>1, <2>2, <2>3, <2>4 DEF Waiting
<1>2. ASSUME NEW f \in Waiting, CalledFor(f)
      PROVE  \E n \in Slot, status \in MacP!Status, ntx \in Nat : \E input :
           /\ MacP!PacketSent(n, MacP!HeadFrame(n).seqno, input, status, ntx, transmit_timer \ {n})
           /\ (Pending \cup lost)' = {g \in Pending \cup lost : g.ptr # n}
           /\ mac_dsn' = mac_dsn
  <2>1. /\ f.ptr \in Slot /\ f = MacP!HeadFrame(f.ptr)
        /\ transmit_timer = transmit_timer \ {f.ptr}
        /\ Waiting' = {g \in Waiting : g.ptr # f.ptr} /\ mac_dsn' = mac_dsn
    BY <1>2, WaitingIsHead, MacSame DEF CalledFor
  <2>2. PICK input : \E status \in RadioStatus \cup {"NOACK"}, ntx \in NumTx \cup {1} :
          Mac!PacketSent(f.ptr, f.seqno, input, status, ntx, transmit_timer)
    BY <1>2 DEF CalledFor
  <2>3. PICK status \in RadioStatus \cup {"NOACK"}, ntx \in NumTx \cup {1} :
          Mac!PacketSent(f.ptr, f.seqno, input, status, ntx, transmit_timer)
    BY <2>2
  <2>4. MacP!PacketSent(f.ptr, f.seqno, input, status, ntx, transmit_timer)
    BY <2>3, PacketSentSame
  <2>5. status \in MacP!Status /\ ntx \in Nat
    BY MacAssumptions
  <2> QED
    BY <2>1, <2>4, <2>5 DEF Waiting
<1> QED
  BY <1>1, <1>2

LEMMA NextKeepsInv == Inv /\ [Next]_vars => Inv'
<1> SUFFICES ASSUME Inv, [Next]_vars PROVE Inv'
  OBVIOUS
<1>1. RdcP!IInv' /\ Sessions' /\ CsmaStep
  BY NextIsCsmaStep
<1>inv. MacP!IInv
  BY DEF Inv
<1>2. CASE Mac!Send
  <2>1. PICK p \in Packet, a \in Addr :
          \/ \E i \in Device, max \in MaxTransmissions, n \in Slot : Mac!SendPacket(p, a, i, max, n)
          \/ Mac!SendPacketRefused(p, a)
    BY <1>2 DEF Mac!Send
  <2>2. (Pending \cup lost)' = Pending \cup lost
    BY <1>2 DEF Mac!Send
  <2>3. \/ \E i \in Device, max \in MaxTransmissions, n \in Slot : MacP!SendPacket(p, a, i, max, n)
        \/ MacP!SendPacketRefused(p, a)
    BY <2>1, SendPacketSame, SendPacketRefusedSame
  <2>4. MacP!IInv'
    BY <1>inv, <2>2, <2>3, MacP!SendPacketKeepsIInv, MacP!SendPacketRefusedKeepsIInv,
       MacAssumptions
  <2> QED
    BY <1>1, <2>4 DEF Inv
<1>3. ASSUME NEW n \in Slot, Mac!RdcTakes(n) PROVE Inv'
  <2>1. MacP!RdcTakes(n)
    BY <1>3, TransmitSame, MacSame DEF Mac!RdcTakes, MacP!RdcTakes
  <2>2. MacP!IInv'
    BY <1>inv, <2>1, MacP!RdcTakesKeepsIInv, MacAssumptions
  <2> QED
    BY <1>1, <2>2 DEF Inv
<1>4. CASE (\E n \in Slot : CalledUnderTimer(n)) \/ (\E f \in Waiting : CalledFor(f))
  <2>1. PICK n \in Slot, status \in MacP!Status, ntx \in Nat : \E input :
           /\ MacP!PacketSent(n, MacP!HeadFrame(n).seqno, input, status, ntx, transmit_timer \ {n})
           /\ (Pending \cup lost)' = {g \in Pending \cup lost : g.ptr # n}
           /\ mac_dsn' = mac_dsn
    BY <1>4, CalledForQueue
  <2>2. MacP!IInv'
    BY <1>inv, <2>1, MacP!PacketSentKeepsIInv, MacAssumptions
  <2> QED
    BY <1>1, <2>2 DEF Inv
<1>5. CASE UNCHANGED Mac!vars
  <2>1. UNCHANGED MacP!vars
    BY <1>5 DEF Mac!vars, MacP!vars, Mac!nbr, MacP!nbr, Mac!up, MacP!up
  <2>2. MacP!IInv'
    BY <1>inv, <2>1, MacP!NextKeepsIInv, MacAssumptions
  <2> QED
    BY <1>1, <2>2 DEF Inv
<1> QED
  BY <1>1, <1>2, <1>3, <1>4, <1>5 DEF CsmaStep

LEMMA InitInv == Init => Inv
<1> SUFFICES ASSUME Init PROVE Inv
  OBVIOUS
<1>1. Rdc!Init /\ RdcP!Init
  BY RdcStepsSame DEF Init
<1>2. RdcP!IInv
  BY <1>1, RdcP!InitIInv, RdcAssumptions
<1>3. Rdc!Used = {} /\ lost = {}
  BY <1>1 DEF Init, Rdc!Init, Rdc!Used
<1>4. Sessions /\ Pending \cup lost = {}
  BY <1>3 DEF Sessions, Pending
<1>5. Mac!Init
  BY <1>4 DEF Init, Mac!Init, Mac!Seqno
<1>6. MacP!IInv
  BY <1>5, MacInitSame, MacP!InitIInv, MacAssumptions
<1> QED
  BY <1>2, <1>4, <1>6 DEF Inv

LEMMA SpecInv == Spec => []Inv
<1>1. Init => Inv
  BY InitInv
<1>2. Inv /\ [Next]_vars => Inv'
  BY NextKeepsInv
<1> QED
  BY <1>1, <1>2, PTL DEF Spec
-----------------------------------------------------------------------------
(* csma.c over native-rdc.c keeps what it keeps over a driver of which less *)
(* is known: whatever the radios answer, and however late, a queue has one  *)
(* thing that moves it on, its frame under way is its head, and no packet   *)
(* is dropped in silence or reported on twice.                              *)
THEOREM SpecQueuesKept ==
  Spec => [](Mac!OneQueuePerAddr /\ Mac!OneTrigger /\ Mac!InFlightIsHead /\ Mac!QueuedOrReported)
<1>1. Inv => Mac!OneQueuePerAddr /\ Mac!OneTrigger /\ Mac!InFlightIsHead /\ Mac!QueuedOrReported
  BY MacSame DEF Inv, MacP!IInv, Mac!OneQueuePerAddr, MacP!OneQueuePerAddr, Mac!OneTrigger,
                 MacP!OneTrigger, Mac!InFlight, MacP!InFlight, Mac!InFlightIsHead,
                 MacP!InFlightIsHead, Mac!QueuedOrReported, MacP!QueuedOrReported
<1> QED
  BY <1>1, SpecInv, PTL

(* The session table keeps what it keeps for any caller (setup_callback's   *)
(* count, its search and the timers of its sessions).                       *)
THEOREM SpecSessionTableKept == Spec => [](Rdc!CountIsUsed /\ Rdc!TimerIsUsed)
<1>1. Inv => Rdc!CountIsUsed /\ Rdc!TimerIsUsed
  <2>1. Rdc!Cardinality(Rdc!Used) = RdcP!Cardinality(RdcP!Used) /\ Rdc!Used = RdcP!Used
    BY RdcSame, CardinalitySame
  <2> QED
    BY <2>1 DEF Inv, RdcP!IInv, Rdc!CountIsUsed, RdcP!CountIsUsed, Rdc!TimerIsUsed, RdcP!TimerIsUsed
<1> QED
  BY <1>1, SpecInv, PTL

(* What a step of csma changes for the layers above, it may change.         *)
LEMMA NextReports == Inv /\ [Next]_vars => [Promise!Next]_<<submitted, reports>>
<1> SUFFICES ASSUME Inv, [Next]_vars PROVE [Promise!Next]_<<submitted, reports>>
  OBVIOUS
<1>1. CsmaStep
  BY NextIsCsmaStep
<1>inv. MacP!IInv
  BY DEF Inv
<1>2. MacP!Promise!Next => Promise!Next
  BY DEF MacP!Promise!Next, Promise!Next, MacP!Promise!Submit, Promise!Submit,
         MacP!Promise!Refuse, Promise!Refuse, MacP!Promise!Report, Promise!Report,
         MacP!Status, Mac!Status
<1>3. CASE Mac!Send
  <2>1. PICK p \in Packet, a \in Addr :
          \/ \E i \in Device, max \in MaxTransmissions, n \in Slot : Mac!SendPacket(p, a, i, max, n)
          \/ Mac!SendPacketRefused(p, a)
    BY <1>3 DEF Mac!Send
  <2>2. \/ \E i \in Device, max \in MaxTransmissions, n \in Slot : MacP!SendPacket(p, a, i, max, n)
        \/ MacP!SendPacketRefused(p, a)
    BY <2>1, SendPacketSame, SendPacketRefusedSame
  <2>3. MacP!Promise!Next
    BY <1>inv, <2>2, MacP!SendReports, MacAssumptions
  <2> QED
    BY <1>2, <2>3
<1>4. ASSUME NEW n \in Slot, Mac!RdcTakes(n) PROVE UNCHANGED <<submitted, reports>>
  BY <1>4 DEF Mac!RdcTakes, Mac!TransmitPacketList, Mac!up
<1>5. CASE (\E n \in Slot : CalledUnderTimer(n)) \/ (\E f \in Waiting : CalledFor(f))
  <2>1. PICK n \in Slot, status \in MacP!Status, ntx \in Nat : \E input :
          MacP!PacketSent(n, MacP!HeadFrame(n).seqno, input, status, ntx, transmit_timer \ {n})
    BY <1>5, CalledForQueue
  <2>2. [MacP!Promise!Next]_(MacP!up)
    BY <1>inv, <2>1, MacP!PacketSentReports, MacAssumptions
  <2> QED
    BY <1>2, <2>2 DEF MacP!up
<1>6. CASE UNCHANGED Mac!vars
  BY <1>6 DEF Mac!vars, Mac!up
<1> QED
  BY <1>1, <1>3, <1>4, <1>5, <1>6 DEF CsmaStep

(* What the layers above see: every packet sent is refused at once or       *)
(* reported on later, once, whatever the radios do (the safety part of      *)
(* KeepsPromise: send_packet and packet_sent of csma.c and native-rdc.c).   *)
THEOREM SpecKeepsPromise == Spec => Promise!Spec
<1>1. Init => Promise!Init
  BY DEF Init, Promise!Init
<1>2. Inv /\ [Next]_vars => [Promise!Next]_(Promise!vars)
  BY NextReports DEF Promise!vars
<1> QED
  BY <1>1, <1>2, SpecInv, PTL DEF Spec, Promise!Spec

(* While no packet has the number of the head of its queue, a callback that *)
(* names the wrong interface is about no packet, and the driver is one that *)
(* names the interface each frame left by, as csma assumes.                 *)
LEMMA HeadOrNone ==
  ASSUME Inv, HeadNumberUnique, NEW n \in Slot, queued_packet_list[n] # <<>>,
         NEW input, Mac!Matches(n, Mac!HeadFrame(n).seqno, input) # {}
  PROVE  input = Mac!HeadFrame(n).ifindex
<1> DEFINE q == queued_packet_list[n]
<1>1. Len(q) \in Nat \ {0} /\ DOMAIN q = 1 .. Len(q) /\ Head(q) = q[1]
  BY DEF Inv, MacP!IInv, MacP!TypeOK
<1>2. PICK k \in DOMAIN q : q[k].seqno = Mac!HeadFrame(n).seqno /\ q[k].ifindex = input
  BY DEF Mac!Matches
<1>3. /\ Mac!HeadFrame(n).seqno = q[1].seqno /\ Mac!HeadFrame(n).ifindex = q[1].ifindex
  BY <1>1 DEF Mac!HeadFrame
<1>4. k = 1
  BY <1>1, <1>2, <1>3 DEF HeadNumberUnique
<1> QED
  BY <1>2, <1>3, <1>4

LEMMA StepRefinesCsma ==
  ASSUME Inv, HeadNumberUnique, [Next]_vars
  PROVE  [Mac!Next]_(Mac!vars)
<1>1. CsmaStep
  BY NextIsCsmaStep
<1>2. ASSUME NEW n \in Slot, CalledUnderTimer(n) PROVE Mac!RdcRefuses(n)
  <2>1. PICK status \in {"NOACK", "ERR_FATAL"} :
          Mac!PacketSent(n, Mac!HeadFrame(n).seqno, multi_radio_input_ifindex, status, 1,
                         transmit_timer \ {n})
    BY <1>2 DEF CalledUnderTimer
  <2>2. queued_packet_list[n] # <<>> /\ Mac!Fires(n)
    BY <1>2 DEF CalledUnderTimer, Mac!Fires
  <2>3. Mac!Matches(n, Mac!HeadFrame(n).seqno, multi_radio_input_ifindex) # {}
    BY <2>1 DEF Mac!PacketSent
  <2>4. multi_radio_input_ifindex = Mac!HeadFrame(n).ifindex
    BY <2>2, <2>3, HeadOrNone
  <2>5. Mac!TransmitFailed(n, Mac!HeadFrame(n).ifindex, status)
    BY <1>2, <2>1, <2>2, <2>4 DEF CalledUnderTimer, Mac!TransmitFailed
  <2> QED
    BY <1>2, <2>5 DEF CalledUnderTimer, Mac!RdcRefuses, Waiting
<1>3. ASSUME NEW f \in Waiting, CalledFor(f) PROVE f \in Waiting /\ Mac!RdcReports(f)
  <2>1. PICK input : \E status \in RadioStatus \cup {"NOACK"}, ntx \in NumTx \cup {1} :
          Mac!PacketSent(f.ptr, f.seqno, input, status, ntx, transmit_timer)
    BY <1>3 DEF CalledFor
  <2>2. f.ptr \in Slot /\ queued_packet_list[f.ptr] # <<>> /\ f = Mac!HeadFrame(f.ptr)
    BY WaitingIsHead
  <2>3. Mac!Matches(f.ptr, Mac!HeadFrame(f.ptr).seqno, input) # {}
    BY <2>1, <2>2 DEF Mac!PacketSent
  <2>4. input = f.ifindex
    <3>1. input = Mac!HeadFrame(f.ptr).ifindex
      BY <2>2, <2>3, HeadOrNone
    <3> QED
      BY <2>2, <3>1
  <2> QED
    BY <1>3, <2>1, <2>4 DEF CalledFor, Mac!RdcReports, Waiting
<1> QED
  BY <1>1, <1>2, <1>3 DEF CsmaStep, Mac!Next, Waiting

(* As long as no packet of a queue has the number of its head, the session  *)
(* table, multi-radio and the lines are the driver that csma.c is written   *)
(* for: each callback is for the frame a queue has under way (native-rdc.c).*)
THEOREM SpecImplementsCsma == Spec /\ []HeadNumberUnique => ImplementsCsma
<1>1. Init => Mac!Init
  <2> SUFFICES ASSUME Init PROVE Mac!Init
    OBVIOUS
  <2>1. Rdc!Used = {} /\ lost = {}
    BY DEF Init, Rdc!Init, Rdc!Used
  <2>2. Pending \cup lost = {}
    BY <2>1 DEF Pending
  <2> QED
    BY <2>2 DEF Init, Mac!Init, Mac!Seqno
<1>2. Inv /\ HeadNumberUnique /\ [Next]_vars => [Mac!Next]_(Mac!vars)
  BY StepRefinesCsma
<1> QED
  BY <1>1, <1>2, SpecInv, PTL DEF Spec, ImplementsCsma, Mac!Spec
-----------------------------------------------------------------------------
(* Sessions and queues.  A session holds the frame of a queue that is not   *)
(* empty, and no two of them that of the same queue.                        *)
LEMMA SessionOfQueue ==
  ASSUME Inv, NEW s \in Rdc!Used
  PROVE  callbacks[s].req.ptr \in Mac!Allocated /\ ~ Mac!Fires(callbacks[s].req.ptr)
<1>1. callbacks[s].req \in Waiting
  BY SessionIs DEF Waiting
<1>2. callbacks[s].req.ptr \in Slot /\ queued_packet_list[callbacks[s].req.ptr] # <<>>
  BY <1>1, WaitingIsHead
<1>3. ~ Mac!Fires(callbacks[s].req.ptr)
  BY <1>1, <1>2, HeadIsNotWaiting
<1> QED
  BY <1>2, <1>3 DEF Inv, MacP!IInv, MacP!OneQueuePerAddr, Mac!Allocated

LEMMA FewerSessionsThan ==
  ASSUME Inv, NEW T \in SUBSET Slot, \A s \in Rdc!Used : callbacks[s].req.ptr \in T
  PROVE  callback_count <= Cardinality(T) /\ IsFiniteSet(T)
<1> DEFINE ptr == [s \in Rdc!Used |-> callbacks[s].req.ptr]
<1>1. ptr \in [Rdc!Used -> T] /\ \A r, s \in Rdc!Used : ptr[r] = ptr[s] => r = s
  BY DEF Inv, Sessions
<1>2. IsFiniteSet(T)
  BY SlotAssumption, FS_Subset
<1>3. IsFiniteSet(Rdc!Used)
  <2>1. IsFiniteSet(Rdc!Sid)
    BY RdcAssumption, FS_Interval DEF Rdc!Sid
  <2>2. Rdc!Used \in SUBSET Rdc!Sid
    BY DEF Rdc!Used
  <2> QED
    BY <2>1, <2>2, FS_Subset
<1> HIDE DEF ptr
<1>4. Cardinality(Rdc!Used) \in Nat /\ Cardinality(T) \in Nat
  BY <1>2, <1>3, FS_CardinalityType
<1>5. ~ (Cardinality(T) < Cardinality(Rdc!Used))
  BY <1>1, <1>2, <1>3, FS_PigeonHole
<1>6. callback_count = Cardinality(Rdc!Used)
  BY CardinalitySame, RdcSame DEF Inv, RdcP!IInv, RdcP!CountIsUsed
<1> QED
  BY <1>2, <1>4, <1>5, <1>6

(* Every session holds the pointer of a neighbor queue in use, each that of *)
(* another, whatever the radios do and however late: no session outlives    *)
(* its queue (native-rdc.c, setup_callback; csma.c, free_packet).           *)
THEOREM SpecSessionsWithinQueues == Spec => []SessionsWithinQueues
<1>1. ASSUME Inv PROVE SessionsWithinQueues
  <2>1. Mac!Allocated \in SUBSET Slot
    BY DEF Mac!Allocated
  <2> QED
    BY <1>1, <2>1, SessionOfQueue, FewerSessionsThan DEF SessionsWithinQueues, Inv, Sessions
<1> QED
  BY <1>1, SpecInv, PTL

(* So as many sessions as neighbor queues are enough: the driver never      *)
(* finds its session table full (native-rdc.c, "callback queue full").      *)
THEOREM SpecNoQueueFull ==
  ASSUME Cardinality(Slot) <= MaxCallbacks
  PROVE  Spec => [][\A n \in Slot : ~ QueueFull(n)]_vars
<1>1. ASSUME Inv, NEW n \in Slot, QueueFull(n) PROVE FALSE
  <2>1. Mac!Fires(n) /\ callback_count >= MaxCallbacks
    BY <1>1 DEF QueueFull, CalledBackAtOnce, Rdc!QueueFull
  <2>2. Slot \ {n} \in SUBSET Slot /\ \A s \in Rdc!Used : callbacks[s].req.ptr \in Slot \ {n}
    BY <1>1, <2>1, SessionOfQueue DEF Mac!Allocated
  <2>3. callback_count <= Cardinality(Slot \ {n})
    BY <1>1, <2>2, FewerSessionsThan
  <2>4. /\ Cardinality(Slot \ {n}) = Cardinality(Slot) - 1
        /\ Cardinality(Slot) \in Nat
    BY SlotAssumption, FS_RemoveElement, FS_CardinalityType
  <2>5. callback_count \in Int /\ MaxCallbacks \in Nat
    BY <1>1, RdcAssumption DEF Inv, RdcP!IInv, RdcP!TypeOK
  <2> QED
    BY <2>1, <2>3, <2>4, <2>5
<1>2. Inv /\ [Next]_vars => [\A n \in Slot : ~ QueueFull(n)]_vars
  BY <1>1
<1> QED
  BY <1>2, SpecInv, PTL DEF Spec
-----------------------------------------------------------------------------
(* What the radios have.  As long as they do not answer after the slip      *)
(* timeout, each frame they have is that of a session, once.                *)
JobsOfSessions ==
  \A j \in BagToSet(radio) :
    radio[j] = 1 /\ j.sid \in Rdc!Used /\ j = Job(j.sid, callbacks[j.sid].req)

LEMMA BagWithout ==
  ASSUME \A k \in BagToSet(radio) : radio[k] = 1, NEW j \in BagToSet(radio),
         radio' = radio (-) SetToBag({j})
  PROVE  BagToSet(radio)' = BagToSet(radio) \ {j} /\ \A k \in BagToSet(radio)' : radio'[k] = 1
BY DEF (-), BagToSet, SetToBag

LEMMA BagWith ==
  ASSUME \A k \in BagToSet(radio) : radio[k] = 1, NEW j, j \notin BagToSet(radio),
         radio' = Written(j)
  PROVE  /\ BagToSet(radio)' \subseteq BagToSet(radio) \cup {j}
         /\ \A k \in BagToSet(radio)' : radio'[k] = 1
<1>1. CASE radio' = radio
  BY <1>1
<1>2. CASE radio' = radio (+) SetToBag({j})
  BY <1>2 DEF (+), BagToSet, SetToBag
<1> QED
  BY <1>1, <1>2 DEF Written

(* What packet_sent reports, and on which packet.                           *)
ReportedAs(p, status) == reports' = [reports EXCEPT ![p] = <<status>>]

LEMMA ReportIs ==
  ASSUME Inv, NEW n \in Slot, NEW seqno, NEW input, NEW status \in MacP!Status,
         NEW ntx \in Nat, NEW armed, MacP!PacketSent(n, seqno, input, status, ntx, armed)
  PROVE  \/ reports' = reports
         \/ \E p \in Packet :
              /\ ReportedAs(p, status)
              /\ (seqno = MacP!HeadFrame(n).seqno /\ input = MacP!HeadFrame(n).ifindex)
                   => p = MacP!HeadFrame(n).id
<1> DEFINE k == MacP!First(n, seqno, input)
           q == queued_packet_list[n]
<1>inv. MacP!TypeOK /\ MacP!QueuedOrReported
  BY DEF Inv, MacP!IInv
<1>1. /\ q # <<>> /\ k \in DOMAIN q
      /\ \/ MacP!TxDone(n, k, status, armed)
         \/ \E tx, coll \in 0 .. 255 : MacP!Rexmit(n, tx, coll, armed)
  BY <1>inv, MacP!PacketSentIsTxDoneOrRexmit, MacAssumptions
<1>2. seqno = MacP!HeadFrame(n).seqno /\ input = MacP!HeadFrame(n).ifindex => k = 1
  BY <1>inv, <1>1, MacP!HeadIsFound, MacAssumptions
<1> HIDE DEF k
<1>3. CASE \E tx, coll \in 0 .. 255 : MacP!Rexmit(n, tx, coll, armed)
  BY <1>3 DEF MacP!Rexmit, MacP!up
<1>4. CASE MacP!TxDone(n, k, status, armed)
  <2>1. reports' = [reports EXCEPT ![q[k].id] = Append(reports[q[k].id], status)]
    BY <1>4, Zenon DEF MacP!TxDone
  <2>2. q[k] \in MacP!Entry /\ Head(q) = q[1]
    <3>1. q \in Seq(MacP!Entry)
      BY <1>inv DEF MacP!TypeOK
    <3>2. \A r \in Seq(MacP!Entry) : Head(r) = r[1] /\ \A j \in DOMAIN r : r[j] \in MacP!Entry
      OBVIOUS
    <3> QED
      BY <1>1, <3>1, <3>2
  <2>3. q[k].id \in Packet
    BY <2>2 DEF MacP!Entry
  <2>4. reports[q[k].id] = <<>>
    BY <1>inv, <1>1, <2>3 DEF MacP!QueuedOrReported
  <2>5. reports' = [reports EXCEPT ![q[k].id] = <<status>>]
    BY <2>1, <2>4
  <2>6. k = 1 => q[k].id = MacP!HeadFrame(n).id
    BY <2>2 DEF MacP!HeadFrame
  <2> QED
    BY <1>2, <2>3, <2>5, <2>6 DEF ReportedAs
<1> QED
  BY <1>1, <1>3, <1>4

(* A frame is written only for a session that has none with the radios, and *)
(* a session is ended by the answer to its frame or when it has none.       *)
LEMMA NextKeepsJobs ==
  ASSUME ~ LateAnswers, Inv, JobsOfSessions, [Next]_vars
  PROVE  JobsOfSessions'
<1>one. \A k \in BagToSet(radio) : radio[k] = 1
  BY DEF JobsOfSessions
<1>job. \A s, f : Job(s, f).sid = s
  BY DEF Job
<1>same. ASSUME callbacks' = callbacks, BagToSet(radio)' \subseteq BagToSet(radio),
                \A k \in BagToSet(radio)' : radio'[k] = 1
         PROVE  JobsOfSessions'
  <2>1. Rdc!Used' = Rdc!Used
    BY <1>same DEF Rdc!Used
  <2> QED
    BY <1>same, <2>1 DEF JobsOfSessions, Job
<1>still. ASSUME callbacks' = callbacks, radio' = radio PROVE JobsOfSessions'
  BY <1>still, <1>same, <1>one
<1>1. ASSUME NEW p \in Packet, NEW a \in Addr,
             \/ \E i \in Device, max \in MaxTransmissions, n \in Slot : SendPacket(p, a, i, max, n)
             \/ SendPacketRefused(p, a)
      PROVE  JobsOfSessions'
  BY <1>1, <1>still DEF SendPacket, SendPacketRefused, rdcVars, envVars
<1>2. ASSUME NEW dev \in Device, IllegalAttributes(dev) \/ \E a \in Addr : PacketInput(dev, a)
      PROVE  JobsOfSessions'
  BY <1>2, <1>still DEF IllegalAttributes, PacketInput, rdcVars, envVars
<1>3. ASSUME NEW n \in Slot, Transmit(n) PROVE JobsOfSessions'
  <2> DEFINE f == Mac!HeadFrame(n)
             j == Job(Rdc!NextSid, f)
  <2>1. /\ Mac!Fires(n) /\ Rdc!SendPacket(f.ifindex, f) /\ lost' = lost /\ radio' = Written(j)
    BY <1>3 DEF Transmit, Mac!TransmitPacketList
  <2>2. f \in Frame /\ f.ptr = n /\ \A g \in Waiting : g.ptr # n
    BY <2>1, HeadIsNotWaiting
  <2> HIDE DEF f
  <2>3. \A g \in Pending \cup lost : g.ptr # f.ptr
    BY <2>2 DEF Waiting
  <2>4. /\ Rdc!NextSid \notin Rdc!Used /\ Rdc!Used' = Rdc!Used \cup {Rdc!NextSid}
        /\ callbacks'[Rdc!NextSid].req = f
        /\ \A s \in Rdc!Used : callbacks'[s].req = callbacks[s].req
    BY <2>1, <2>2, <2>3, TakenIsPending
  <2>5. j.sid = Rdc!NextSid
    BY <1>job
  <2>6. j \notin BagToSet(radio)
    BY <2>4, <2>5 DEF JobsOfSessions
  <2> HIDE DEF j
  <2>7. /\ BagToSet(radio)' \subseteq BagToSet(radio) \cup {j}
        /\ \A k \in BagToSet(radio)' : radio'[k] = 1
    BY <1>one, <2>1, <2>6, BagWith
  <2>8. j = Job(j.sid, callbacks'[j.sid].req)
    BY <2>4, <2>5 DEF j
  <2>9. ASSUME NEW k \in BagToSet(radio)
        PROVE  k.sid \in Rdc!Used /\ k = Job(k.sid, callbacks'[k.sid].req)
    BY <2>4 DEF JobsOfSessions
  <2> QED
    BY <2>4, <2>5, <2>7, <2>8, <2>9 DEF JobsOfSessions, Job
<1>4. ASSUME NEW n \in Slot, FramerFailed(n) \/ QueueFull(n) PROVE JobsOfSessions'
  BY <1>4, <1>still DEF FramerFailed, QueueFull, CalledBackAtOnce, Rdc!QueueFull, Rdc!vars,
                        rdcVars, envVars
<1>5. ASSUME NEW j \in BagToSet(radio), Lose(j) PROVE JobsOfSessions'
  <2>1. radio' = radio (-) SetToBag({j}) /\ callbacks' = callbacks
    BY <1>5 DEF Lose, rdcVars
  <2>2. /\ BagToSet(radio)' = BagToSet(radio) \ {j}
        /\ \A k \in BagToSet(radio)' : radio'[k] = 1
    BY <1>one, <2>1, BagWithout
  <2> QED
    BY <1>same, <2>1, <2>2
<1>ended. ASSUME NEW s \in Rdc!Used, RdcP!Release(s),
                 lost' = lost \/ lost' = lost \cup {callbacks[s].req},
                 \A k \in BagToSet(radio)' : /\ radio'[k] = 1 /\ k \in BagToSet(radio)
                                             /\ k.sid # s
          PROVE  JobsOfSessions'
  <2>1. /\ Rdc!Used' = Rdc!Used \ {s}
        /\ \A r \in Rdc!Used \ {s} : callbacks'[r].req = callbacks[r].req
    BY <1>ended, ReleasedIsNotPending
  <2> QED
    BY <1>ended, <2>1 DEF JobsOfSessions, Job
<1>6. ASSUME NEW j \in BagToSet(radio), NEW status \in RadioStatus, NEW ntx \in NumTx,
             Answer(j, status, ntx)
      PROVE  JobsOfSessions'
  <2>1. j.sid \in Rdc!Used /\ radio' = radio (-) SetToBag({j})
    BY <1>6 DEF Answer, JobsOfSessions
  <2>2. /\ RdcP!Release(j.sid)
        /\ lost' = lost \/ lost' = lost \cup {callbacks[j.sid].req}
    BY <1>6, <2>1, RdcStepsSame DEF Answer, Callback, Rdc!PacketSentUnknown
  <2>3. /\ BagToSet(radio)' = BagToSet(radio) \ {j}
        /\ \A k \in BagToSet(radio)' : radio'[k] = 1
    BY <1>one, <2>1, BagWithout
  <2>4. \A k \in BagToSet(radio) \ {j} : k.sid # j.sid
    BY DEF JobsOfSessions
  <2> QED
    BY <1>ended, <2>1, <2>2, <2>3, <2>4
<1>7. ASSUME NEW s \in Rdc!Sid, Retransmission(s) PROVE JobsOfSessions'
  <2> DEFINE j == Job(s, callbacks[s].req)
  <2>1. /\ Rdc!PacketRetransmit(s) /\ lost' = lost /\ radio' = Written(j)
        /\ \A k \in BagToSet(radio) : k.sid # s
    BY <1>7 DEF Retransmission, InTime, TooLate
  <2>2. /\ Rdc!Used' = Rdc!Used /\ s \in Rdc!Used
        /\ \A r \in Rdc!Used : callbacks'[r].req = callbacks[r].req
    BY <2>1, SentAgainIsPending DEF Rdc!PacketRetransmit
  <2>3. j.sid = s
    BY <1>job
  <2>4. j \notin BagToSet(radio)
    BY <2>1, <2>3
  <2> HIDE DEF j
  <2>5. /\ BagToSet(radio)' \subseteq BagToSet(radio) \cup {j}
        /\ \A k \in BagToSet(radio)' : radio'[k] = 1
    BY <1>one, <2>1, <2>4, BagWith
  <2>6. j = Job(j.sid, callbacks'[j.sid].req)
    BY <2>2, <2>3 DEF j
  <2> QED
    BY <2>2, <2>3, <2>5, <2>6 DEF JobsOfSessions, Job
<1>8. ASSUME NEW s \in Rdc!Sid, Timeout(s) PROVE JobsOfSessions'
  <2>1. /\ s \in Rdc!Used /\ RdcP!Release(s) /\ radio' = radio
        /\ lost' = lost \/ lost' = lost \cup {callbacks[s].req}
        /\ \A k \in BagToSet(radio) : k.sid # s
    BY <1>8, RdcStepsSame DEF Timeout, Rdc!PacketTimeout, Callback, InTime, TooLate, envVars
  <2> QED
    BY <1>ended, <1>one, <2>1
<1>9. CASE UNCHANGED vars
  BY <1>9, <1>still DEF vars, rdcVars, envVars
<1> QED
  BY <1>1, <1>2, <1>3, <1>4, <1>5, <1>6, <1>7, <1>8, <1>9 DEF Next

(* What a callback about the frame at the head of its queue reports.        *)
LEMMA CallbackReports ==
  ASSUME Inv, NEW n \in Slot, queued_packet_list[n] # <<>>, NEW input,
         NEW status \in MacP!Status, NEW ntx \in Nat, NEW armed, NEW left,
         Callback(Mac!HeadFrame(n), input, status, ntx, armed, left)
  PROVE  \/ reports' = reports
         \/ \E p \in Packet : /\ ReportedAs(p, status)
                              /\ input = Mac!HeadFrame(n).ifindex => p = Mac!HeadFrame(n).id
<1> DEFINE f == Mac!HeadFrame(n)
<1>1. f = MacP!HeadFrame(n) /\ f.ptr = n
  BY MacSame DEF Mac!HeadFrame
<1>2. \/ Mac!PacketSent(f.ptr, f.seqno, input, status, ntx, armed)
      \/ Mac!NotFound(f.ptr, f.seqno, input, armed)
  BY DEF Callback
<1> HIDE DEF f
<1>3. CASE Mac!NotFound(f.ptr, f.seqno, input, armed)
  BY <1>3 DEF Mac!NotFound, Mac!up
<1>4. CASE Mac!PacketSent(f.ptr, f.seqno, input, status, ntx, armed)
  <2> PICK seqno : seqno = f.seqno
    OBVIOUS
  <2>1. MacP!PacketSent(n, seqno, input, status, ntx, armed)
    BY <1>1, <1>4, PacketSentSame
  <2>2. \/ reports' = reports
        \/ \E p \in Packet :
             /\ ReportedAs(p, status)
             /\ (seqno = MacP!HeadFrame(n).seqno /\ input = MacP!HeadFrame(n).ifindex)
                  => p = MacP!HeadFrame(n).id
    BY <2>1, ReportIs
  <2> QED
    BY <1>1, <2>2 DEF f
<1> QED
  BY <1>2, <1>3, <1>4

LEMMA NextKeepsNoFalseOk ==
  ASSUME Inv, JobsOfSessions, NoFalseOk, [Next]_vars
  PROVE  NoFalseOk'
<1>type. reports \in [Packet -> Seq(MacP!Status)]
  BY DEF Inv, MacP!IInv, MacP!TypeOK
<1>1. delivered \subseteq delivered'
  BY DEF Next, SendPacket, SendPacketRefused, IllegalAttributes, PacketInput, Transmit,
         FramerFailed, QueueFull, CalledBackAtOnce, Lose, Answer, Retransmission, Timeout,
         envVars, vars
<1>same. ASSUME reports' = reports PROVE NoFalseOk'
  BY <1>1, <1>same DEF NoFalseOk
<1>report. ASSUME NEW p \in Packet, NEW status, ReportedAs(p, status),
                  status = "OK" => p \in delivered'
           PROVE  NoFalseOk'
  <2>1. \A r \in Packet : reports'[r] = IF r = p THEN <<status>> ELSE reports[r]
    BY <1>type, <1>report DEF ReportedAs
  <2>2. <<status>> = <<"OK">> => status = "OK"
    OBVIOUS
  <2> QED
    BY <1>1, <1>report, <2>1, <2>2 DEF NoFalseOk
<1>2. ASSUME NEW p \in Packet, NEW a \in Addr,
             \/ \E i \in Device, max \in MaxTransmissions, n \in Slot : SendPacket(p, a, i, max, n)
             \/ SendPacketRefused(p, a)
      PROVE  NoFalseOk'
  <2>1. CASE SendPacketRefused(p, a)
    <3>1. /\ p \notin submitted
          /\ reports' = [reports EXCEPT ![p] = Append(reports[p], "ERR")]
      BY <2>1, Zenon DEF SendPacketRefused, Mac!SendPacketRefused, Mac!Take
    <3>2. reports[p] = <<>>
      BY <3>1 DEF Inv, MacP!IInv, MacP!QueuedOrReported
    <3>3. reports' = [reports EXCEPT ![p] = <<"ERR">>]
      BY <3>1, <3>2
    <3> QED
      BY <3>3, <1>report DEF ReportedAs
  <2>2. CASE \E i \in Device, max \in MaxTransmissions, n \in Slot : SendPacket(p, a, i, max, n)
    <3>1. reports' = reports
      BY <2>2, Zenon DEF SendPacket, Mac!SendPacket
    <3> QED
      BY <3>1, <1>same
  <2> QED
    BY <1>2, <2>1, <2>2
<1>3. ASSUME NEW n \in Slot, FramerFailed(n) \/ QueueFull(n) PROVE NoFalseOk'
  <2>1. PICK status \in {"NOACK", "ERR_FATAL"} : CalledBackAtOnce(n, status)
    BY <1>3 DEF FramerFailed, QueueFull
  <2>2. /\ queued_packet_list[n] # <<>> /\ status \in MacP!Status /\ 1 \in Nat /\ status # "OK"
        /\ Callback(Mac!HeadFrame(n), multi_radio_input_ifindex, status, 1,
                    transmit_timer \ {n}, multi_radio_input_ifindex)
    BY <2>1 DEF CalledBackAtOnce, Mac!Fires, MacP!Status
  <2>3. reports' = reports \/ \E p \in Packet : ReportedAs(p, status)
    BY <2>2, CallbackReports
  <2> QED
    BY <2>2, <2>3, <1>same, <1>report
<1>head. ASSUME NEW s \in Rdc!Used
         PROVE  /\ callbacks[s].req.ptr \in Slot /\ queued_packet_list[callbacks[s].req.ptr] # <<>>
                /\ callbacks[s].req = Mac!HeadFrame(callbacks[s].req.ptr)
  <2>1. callbacks[s].req \in Waiting
    BY SessionIs DEF Waiting
  <2> QED
    BY <2>1, WaitingIsHead
<1>4. ASSUME NEW j \in BagToSet(radio), NEW status \in RadioStatus, NEW ntx \in NumTx,
             Answer(j, status, ntx)
      PROVE  NoFalseOk'
  <2> DEFINE f == callbacks[j.sid].req
  <2>1. /\ j.sid \in Rdc!Used /\ j = Job(j.sid, f)
        /\ status = "OK" => j.id \in delivered'
        /\ Callback(f, j.dev, status, ntx, transmit_timer, Unknown)
    BY <1>4 DEF Answer, JobsOfSessions, Rdc!PacketSentUnknown
  <2>2. j.dev = f.ifindex /\ j.id = f.id
    BY <2>1 DEF Job
  <2>3. f.ptr \in Slot /\ queued_packet_list[f.ptr] # <<>> /\ f = Mac!HeadFrame(f.ptr)
    BY <2>1, <1>head
  <2>4. status \in MacP!Status /\ ntx \in Nat
    BY MacAssumptions
  <2> HIDE DEF f
  <2>5. Callback(Mac!HeadFrame(f.ptr), j.dev, status, ntx, transmit_timer, Unknown)
    BY <2>1, <2>3
  <2>6. \/ reports' = reports
        \/ \E p \in Packet : /\ ReportedAs(p, status)
                             /\ j.dev = Mac!HeadFrame(f.ptr).ifindex
                                  => p = Mac!HeadFrame(f.ptr).id
    BY <2>3, <2>4, <2>5, CallbackReports
  <2>7. Mac!HeadFrame(f.ptr).ifindex = j.dev /\ Mac!HeadFrame(f.ptr).id = j.id
    BY <2>2, <2>3
  <2>8. ASSUME NEW p \in Packet, ReportedAs(p, status), p = j.id
        PROVE  NoFalseOk'
    BY <2>1, <2>8, <1>report
  <2> QED
    BY <2>6, <2>7, <2>8, <1>same
<1>5. ASSUME NEW s \in Rdc!Sid, Timeout(s) PROVE NoFalseOk'
  <2> DEFINE f == callbacks[s].req
  <2>1. /\ s \in Rdc!Used
        /\ Callback(f, callbacks[s].slip_device, "NOACK", 1, transmit_timer,
                    callbacks[s].slip_device)
    BY <1>5 DEF Timeout, Rdc!PacketTimeout
  <2>2. f.ptr \in Slot /\ queued_packet_list[f.ptr] # <<>> /\ f = Mac!HeadFrame(f.ptr)
    BY <2>1, <1>head
  <2>3. "NOACK" \in MacP!Status /\ 1 \in Nat
    BY DEF MacP!Status
  <2> HIDE DEF f
  <2>4. Callback(Mac!HeadFrame(f.ptr), callbacks[s].slip_device, "NOACK", 1, transmit_timer,
                 callbacks[s].slip_device)
    BY <2>1, <2>2
  <2>5. reports' = reports \/ \E p \in Packet : ReportedAs(p, "NOACK")
    BY <2>2, <2>3, <2>4, CallbackReports
  <2> QED
    BY <2>5, <1>same, <1>report
<1>6. ASSUME UNCHANGED reports PROVE NoFalseOk'
  BY <1>6, <1>same
<1>7. ASSUME NEW dev \in Device, IllegalAttributes(dev) \/ \E a \in Addr : PacketInput(dev, a)
      PROVE  NoFalseOk'
  BY <1>6, <1>7 DEF IllegalAttributes, PacketInput, macVars
<1>8. ASSUME NEW n \in Slot, Transmit(n) PROVE NoFalseOk'
  BY <1>6, <1>8 DEF Transmit, Mac!TransmitPacketList, Mac!up
<1>9. ASSUME NEW j, Lose(j) PROVE NoFalseOk'
  BY <1>6, <1>9 DEF Lose, macVars
<1>10. ASSUME NEW s, Retransmission(s) PROVE NoFalseOk'
  BY <1>6, <1>10 DEF Retransmission, macVars
<1>11. CASE UNCHANGED vars
  BY <1>6, <1>11 DEF vars, macVars
<1> QED
  BY <1>2, <1>3, <1>4, <1>5, <1>7, <1>8, <1>9, <1>10, <1>11 DEF Next

(* As long as radios do not answer after the slip timeout, MAC_TX_OK is     *)
(* reported only of a packet that a radio said it had sent: the session id  *)
(* is all an answer is matched by, and it is enough (native-rdc.c).         *)
THEOREM SpecNoFalseOk == ASSUME ~ LateAnswers PROVE Spec => []NoFalseOk
<1>1. Init => Inv /\ JobsOfSessions /\ NoFalseOk
  <2> SUFFICES ASSUME Init PROVE JobsOfSessions /\ NoFalseOk
    BY InitInv
  <2>1. BagToSet(radio) = {}
    BY DEF Init, BagToSet, EmptyBag, SetToBag
  <2>2. \A p \in Packet : reports[p] = <<>>
    BY DEF Init
  <2> QED
    BY <2>1, <2>2 DEF JobsOfSessions, NoFalseOk
<1>2. (Inv /\ JobsOfSessions /\ NoFalseOk) /\ [Next]_vars => (Inv /\ JobsOfSessions /\ NoFalseOk)'
  BY NextKeepsInv, NextKeepsJobs, NextKeepsNoFalseOk
<1> QED
  BY <1>1, <1>2, PTL DEF Spec

=============================================================================
