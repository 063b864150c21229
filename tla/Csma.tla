-------------------------------- MODULE Csma --------------------------------
(* The neighbor queues of the CSMA layer, core/net/mac/csma.c, over a radio *)
(* driver that calls back once for every frame it is given.                 *)
(*                                                                          *)
(* Only the head of a queue is ever on its way: what moves a queue on is    *)
(* either its transmit timer or the callback of the frame it has given to   *)
(* the radio driver, and it must never have both and never have none.       *)
(*                                                                          *)
(* The size of an 8-bit field is 256.  Backoff delays are not modelled: a   *)
(* timer that is set may fire at any later time.                            *)
EXTENDS Naturals, Sequences, FiniteSets, SequencesExt

CONSTANTS
  Packet,               \* the packets the layer above sends, each once
  Addr,                 \* receiver addresses
  NoAddr,               \* the address of a neighbor entry not allocated
  Ifindex,              \* the interfaces a packet may leave by
  Slot,                 \* neighbor_memb: CSMA_MAX_NEIGHBOR_QUEUES entries
  MaxPacketPerNeighbor, \* CSMA_MAX_PACKET_PER_NEIGHBOR
  MaxQueuedPackets,     \* MAX_QUEUED_PACKETS: packet_memb and the queuebufs
  MaxBackoff,           \* CSMA_MAX_BACKOFF
  MaxTransmissions,     \* the values of max_transmissions packets ask for
  RdcStatus,            \* the statuses a radio driver may report
  NumTx,                \* and the numbers of transmissions
  SeqnoMod              \* mac_dsn counts modulo this (256)

ASSUME NoAddrAssumption == NoAddr \notin Addr
ASSUME BoundsAssumption ==
  /\ MaxPacketPerNeighbor \in Nat \ {0} /\ MaxQueuedPackets \in Nat
  /\ MaxBackoff \in Nat /\ SeqnoMod \in Nat \ {0}
  /\ MaxTransmissions \subseteq 1 .. 255
  /\ NumTx \subseteq 1 .. 255

Seqno  == 0 .. SeqnoMod - 1
Entry  == [id : Packet, seqno : Seqno, ifindex : Ifindex, max : MaxTransmissions]
Frame  == [ptr : Slot, seqno : Seqno, ifindex : Ifindex, id : Packet]
Status == {"OK", "COLLISION", "NOACK", "ERR", "ERR_FATAL"}

ASSUME StatusAssumption == RdcStatus \subseteq Status

VARIABLES
  addr,                 \* [Slot -> Addr \cup {NoAddr}]
  queued_packet_list,   \* [Slot -> Seq(Entry)]
  transmissions,        \* [Slot -> 0 .. 255]
  collisions,           \* [Slot -> 0 .. 255]
  transmit_timer,       \* the slots whose ctimer is set
  mac_dsn,              \* the next sequence number (framer-802154.c)
  rdc,                  \* the frames the radio driver will call back for
  submitted, reports    \* the packets sent by, and reported to, the layer above

nbr  == <<addr, queued_packet_list, transmissions, collisions>>
up   == <<submitted, reports>>
vars == <<nbr, transmit_timer, mac_dsn, rdc, up>>

Init ==
  /\ addr = [n \in Slot |-> NoAddr]
  /\ queued_packet_list = [n \in Slot |-> <<>>]
  /\ transmissions = [n \in Slot |-> 0]
  /\ collisions = [n \in Slot |-> 0]
  /\ transmit_timer = {}
  /\ mac_dsn \in Seqno
  /\ rdc = {}
  /\ submitted = {}
  /\ reports = [p \in Packet |-> <<>>]
-----------------------------------------------------------------------------
(* send_packet                                                              *)

Allocated == {n \in Slot : addr[n] # NoAddr}
Queued    == FoldFunction(LAMBDA q, k : Len(q) + k, 0, queued_packet_list)

(* neighbor_queue_from_addr, and when there is none the entry allocated.    *)
Known(n, a) == addr[n] = a
NewUnchecked(n, a) == addr[n] = NoAddr       \* faulty: the list is not searched
New(n, a)   == addr[n] = NoAddr /\ \A m \in Slot : addr[m] # a

(* Faulty: the sequence number is not kept to 8 bits.                       *)
TakeUnbounded(p) ==
  /\ p \notin submitted
  /\ submitted' = submitted \cup {p}
  /\ mac_dsn' = mac_dsn + 1

(* llsec numbers the packet (framer_802154_set_seqno) and sends it down.    *)
Take(p) ==
  /\ p \notin submitted
  /\ submitted' = submitted \cup {p}
  /\ mac_dsn' = (mac_dsn + 1) % SeqnoMod

(* The packet joins the end of the queue.  Faulty: its front.               *)
ListPush(n, e) == <<e>> \o queued_packet_list[n]
ListAdd(n, e)  == Append(queued_packet_list[n], e)

SendPacket(p, a, i, max, n) ==
  /\ Take(p)
  /\ Known(n, a) \/ New(n, a)
  /\ Len(queued_packet_list[n]) < MaxPacketPerNeighbor
  /\ Queued < MaxQueuedPackets
  /\ addr' = [addr EXCEPT ![n] = a]
  /\ queued_packet_list' = [queued_packet_list EXCEPT ![n] =
       ListAdd(n, [id |-> p, seqno |-> mac_dsn, ifindex |-> i, max |-> max])]
  /\ transmissions' = IF New(n, a) THEN [transmissions EXCEPT ![n] = 0] ELSE transmissions
  /\ collisions' = IF New(n, a) THEN [collisions EXCEPT ![n] = 0] ELSE collisions
  /\ transmit_timer' =
       IF queued_packet_list[n] = <<>> THEN transmit_timer \cup {n} ELSE transmit_timer
  /\ UNCHANGED reports

(* Faulty: the layer above is not told.                                     *)
SendPacketDropped(p, a) ==
  /\ Take(p)
  /\ \A n \in Slot : addr[n] # a /\ addr[n] # NoAddr
  /\ UNCHANGED <<nbr, transmit_timer, reports>>

(* A queue, the packet pool or the neighbor pool is full: MAC_TX_ERR.  A    *)
(* neighbor entry just allocated for the packet is freed again.             *)
SendPacketRefused(p, a) ==
  /\ Take(p)
  /\ \/ \E n \in Slot : Known(n, a) /\ Len(queued_packet_list[n]) >= MaxPacketPerNeighbor
     \/ Queued >= MaxQueuedPackets
     \/ \A n \in Slot : addr[n] # a /\ addr[n] # NoAddr
  /\ reports' = [reports EXCEPT ![p] = Append(@, "ERR")]
  /\ UNCHANGED <<nbr, transmit_timer>>
-----------------------------------------------------------------------------
(* packet_sent, the callback of the radio driver.  armed is the set of      *)
(* transmit timers on entry, input the value of multi_radio_input_ifindex.  *)

Matches(n, seqno, input) ==
  {k \in DOMAIN queued_packet_list[n] :
     /\ queued_packet_list[n][k].seqno = seqno
     /\ queued_packet_list[n][k].ifindex = input}

First(n, seqno, input) ==
  CHOOSE k \in Matches(n, seqno, input) :
    \A j \in Matches(n, seqno, input) : k <= j

(* No packet of the queue is meant: packet_sent returns.                    *)
NotFound(n, seqno, input, armed) ==
  /\ Matches(n, seqno, input) = {}
  /\ transmit_timer' = armed
  /\ UNCHANGED <<nbr, up>>

(* tx_done and free_packet: the entry is freed and reported, then the next  *)
(* one is scheduled or, if there is none, the neighbor is freed.  (The      *)
(* counters of a freed entry are not read before they are set: 0 here.)     *)
TxDone(n, k, status, armed) ==
  /\ queued_packet_list' = [queued_packet_list EXCEPT ![n] = RemoveAt(@, k)]
  /\ reports' = [reports EXCEPT ![queued_packet_list[n][k].id] = Append(@, status)]
  /\ transmissions' = [transmissions EXCEPT ![n] = 0]
  /\ collisions' = [collisions EXCEPT ![n] = 0]
  /\ IF Len(queued_packet_list[n]) > 1
       THEN transmit_timer' = armed \cup {n} /\ UNCHANGED addr
       ELSE transmit_timer' = armed \ {n} /\ addr' = [addr EXCEPT ![n] = NoAddr]
  /\ UNCHANGED submitted

(* Faulty: the queue is not scheduled again.                                *)
RexmitUnscheduled(n, tx, coll, armed) ==
  /\ transmissions' = [transmissions EXCEPT ![n] = tx]
  /\ collisions' = [collisions EXCEPT ![n] = coll]
  /\ transmit_timer' = armed
  /\ UNCHANGED <<addr, queued_packet_list, up>>

(* rexmit: the queue is scheduled again with the counters as updated.       *)
Rexmit(n, tx, coll, armed) ==
  /\ transmissions' = [transmissions EXCEPT ![n] = tx]
  /\ collisions' = [collisions EXCEPT ![n] = coll]
  /\ transmit_timer' = armed \cup {n}
  /\ UNCHANGED <<addr, queued_packet_list, up>>

(* The counters of a queue after a collision: past MaxBackoff it starts     *)
(* over and counts as one transmission.                                     *)
AfterCollision(n, ntx) ==
  LET c == (collisions[n] + ntx) % 256
  IN  IF c > MaxBackoff
        THEN [coll |-> 0, tx |-> (transmissions[n] + 1) % 256]
        ELSE [coll |-> c, tx |-> transmissions[n]]

(* MAC_TX_DEFERRED changes nothing here; no driver reports it to csma.      *)
PacketSent(n, seqno, input, status, ntx, armed) ==
  LET k     == First(n, seqno, input)
      max   == queued_packet_list[n][k].max
      noack == (transmissions[n] + ntx) % 256
      coll  == AfterCollision(n, ntx)
  IN  /\ Matches(n, seqno, input) # {}
      /\ \/ status \in {"OK", "ERR", "ERR_FATAL"} /\ TxDone(n, k, status, armed)
         \/ status = "NOACK" /\ noack >= max /\ TxDone(n, k, status, armed)
         \/ status = "NOACK" /\ noack < max /\ Rexmit(n, noack, 0, armed)
         \/ status = "COLLISION" /\ coll.tx >= max /\ TxDone(n, k, status, armed)
         \/ status = "COLLISION" /\ coll.tx < max /\ Rexmit(n, coll.tx, coll.coll, armed)
-----------------------------------------------------------------------------
(* transmit_packet_list: the timer of n fires and the head of its queue is  *)
(* given to the radio driver with the interface kept in its metadata.       *)
HeadFrame(n) ==
  LET q == Head(queued_packet_list[n])
  IN  [ptr |-> n, seqno |-> q.seqno, ifindex |-> q.ifindex, id |-> q.id]

Fires(n) == n \in transmit_timer /\ queued_packet_list[n] # <<>>

(* Faulty: the timer stays set.                                             *)
TransmitPacketListRearmed(n) ==
  Fires(n) /\ UNCHANGED <<nbr, transmit_timer, mac_dsn, up>>

(* The driver takes the frame.                                              *)
TransmitPacketList(n) ==
  /\ Fires(n)
  /\ transmit_timer' = transmit_timer \ {n}
  /\ UNCHANGED <<nbr, mac_dsn, up>>

(* The driver cannot take it and calls back before send returns.            *)
TransmitFailed(n, input, status) ==
  /\ Fires(n)
  /\ PacketSent(n, HeadFrame(n).seqno, input, status, 1, transmit_timer \ {n})
  /\ UNCHANGED mac_dsn
-----------------------------------------------------------------------------
(* The layer over a radio driver that keeps the frames it takes in rdc and  *)
(* calls back once for each, naming the interface the frame left by.        *)

Send ==
  /\ \E p \in Packet, a \in Addr :
       \/ \E i \in Ifindex, max \in MaxTransmissions, n \in Slot : SendPacket(p, a, i, max, n)
       \/ SendPacketRefused(p, a)
  /\ UNCHANGED rdc

RdcTakes(n)   == TransmitPacketList(n) /\ rdc' = rdc \cup {HeadFrame(n)}
RdcRefuses(n) ==
  /\ \E status \in {"NOACK", "ERR_FATAL"} : TransmitFailed(n, HeadFrame(n).ifindex, status)
  /\ UNCHANGED rdc
RdcReports(f) ==
  /\ f \in rdc
  /\ rdc' = rdc \ {f}
  /\ \E status \in RdcStatus, ntx \in NumTx :
       PacketSent(f.ptr, f.seqno, f.ifindex, status, ntx, transmit_timer)
  /\ UNCHANGED mac_dsn

Next ==
  \/ Send
  \/ \E n \in Slot : RdcTakes(n) \/ RdcRefuses(n)
  \/ \E f \in rdc : RdcReports(f)

(* Timers fire, and the driver calls back for every frame.                  *)
Fairness ==
  \A n \in Slot :
    /\ WF_vars(RdcTakes(n) \/ RdcRefuses(n))
    /\ WF_vars(\E f \in rdc : f.ptr = n /\ RdcReports(f))

Spec     == Init /\ [][Next]_vars
FairSpec == Spec /\ Fairness
-----------------------------------------------------------------------------
TypeOK ==
  /\ addr \in [Slot -> Addr \cup {NoAddr}]
  /\ queued_packet_list \in [Slot -> Seq(Entry)]
  /\ transmissions \in [Slot -> 0 .. 255]
  /\ collisions \in [Slot -> 0 .. 255]
  /\ transmit_timer \subseteq Slot
  /\ mac_dsn \in Seqno
  /\ rdc \subseteq Frame
  /\ submitted \subseteq Packet
  /\ reports \in [Packet -> Seq(Status)]

(* An entry is allocated exactly while its queue holds a packet, and no     *)
(* address has two: packets to one address cannot overtake each other.      *)
OneQueuePerAddr ==
  /\ \A n \in Slot : addr[n] = NoAddr <=> queued_packet_list[n] = <<>>
  /\ \A m, n \in Slot : addr[m] = addr[n] /\ addr[m] # NoAddr => m = n

InFlight(n) == \E f \in rdc : f.ptr = n

(* A queue that holds a packet has its timer set or a frame on its way,     *)
(* never neither (it would be stuck) and never both (the head would be sent *)
(* twice at once); an empty one has neither.                                *)
OneTrigger ==
  /\ \A n \in Slot : queued_packet_list[n] # <<>> <=> n \in transmit_timer \/ InFlight(n)
  /\ \A n \in Slot : ~ (n \in transmit_timer /\ InFlight(n))
  /\ \A f, g \in rdc : f.ptr = g.ptr => f = g

(* The frame on its way is the head of its queue, so the callback that      *)
(* compares sequence numbers finds that packet first even when a sequence   *)
(* number has come round again.                                             *)
InFlightIsHead ==
  \A f \in rdc : queued_packet_list[f.ptr] # <<>> /\ f = HeadFrame(f.ptr)

(* A packet that was submitted and not reported on is in one place of one   *)
(* queue, and nothing else is queued: none is dropped in silence, sent on   *)
(* after it was reported on, or reported on twice.                          *)
QueuedOrReported ==
  LET q == queued_packet_list
  IN  \A p \in Packet :
        /\ p \in submitted /\ reports[p] = <<>>
             <=> \E n \in Slot : \E k \in DOMAIN q[n] : q[n][k].id = p
        /\ \A m, n \in Slot : \A j \in DOMAIN q[m], k \in DOMAIN q[n] :
             q[m][j].id = p /\ q[n][k].id = p => m = n /\ j = k
        /\ reports[p] # <<>> => p \in submitted /\ Len(reports[p]) = 1

(* The csma layer keeps the promise of a MAC driver.                        *)
Promise == INSTANCE SentOnce
Implements == Promise!FairSpec
=============================================================================
