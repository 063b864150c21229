---------------------------- MODULE Csma_proofs ----------------------------
(* For any number of packets, addresses, interfaces, queues and retries:    *)
(* over a driver that calls back for each frame, a neighbor queue always    *)
(* has exactly one thing that moves it on, the frame under way is the head  *)
(* of its queue, and every packet sent is reported on at most once.         *)
EXTENDS Csma, SequenceTheorems, WellFoundedInduction, TLAPS

(* What each step keeps.  None of the parts is kept on its own: that a      *)
(* callback finds the packet it is for needs InFlightIsHead, which needs    *)
(* OneTrigger, and that a packet reported on was not reported on before     *)
(* needs QueuedOrReported.                                                  *)
IInv ==
  /\ TypeOK
  /\ OneQueuePerAddr
  /\ OneTrigger
  /\ InFlightIsHead
  /\ QueuedOrReported

(* list_remove of the k-th entry of a queue: those behind it move up.       *)
LEMMA RemoveKth ==
  ASSUME NEW S, NEW q \in Seq(S), NEW k \in 1 .. Len(q)
  PROVE  /\ RemoveAt(q, k) \in Seq(S) /\ Len(RemoveAt(q, k)) = Len(q) - 1
         /\ \A j \in 1 .. Len(q) - 1 : RemoveAt(q, k)[j] = q[IF j < k THEN j ELSE j + 1]
         /\ DOMAIN RemoveAt(q, k) = 1 .. Len(q) - 1
<1> DEFINE a == SubSeq(q, 1, k - 1)
           b == SubSeq(q, k + 1, Len(q))
<1>1. Len(q) \in Nat /\ \A j \in 1 .. Len(q) : q[j] \in S
  OBVIOUS
<1>2. /\ a \in Seq(S) /\ Len(a) = k - 1
      /\ \A j \in 1 .. k - 1 : a[j] = q[j]
  <2>1. 1 \in Int /\ k - 1 \in Int /\ \A j \in 1 .. k - 1 : q[j] \in S
    BY <1>1
  <2> QED
    BY <1>1, <2>1, SubSeqProperties
<1>3. /\ b \in Seq(S) /\ Len(b) = Len(q) - k
      /\ \A j \in 1 .. Len(q) - k : b[j] = q[k + j]
  <2>1. k + 1 \in Int /\ Len(q) \in Int /\ \A j \in k + 1 .. Len(q) : q[j] \in S
    BY <1>1
  <2>2. /\ b \in Seq(S)
        /\ Len(b) = IF k + 1 <= Len(q) THEN Len(q) - (k + 1) + 1 ELSE 0
        /\ \A j \in 1 .. Len(q) - (k + 1) + 1 : b[j] = q[(k + 1) + j - 1]
    BY <2>1, SubSeqProperties
  <2> QED
    BY <1>1, <2>2
<1> HIDE DEF a, b
<1>4. /\ a \o b \in Seq(S) /\ Len(a \o b) = Len(a) + Len(b)
      /\ \A j \in 1 .. Len(a) + Len(b) :
           (a \o b)[j] = IF j <= Len(a) THEN a[j] ELSE b[j - Len(a)]
  BY <1>2, <1>3, ConcatProperties
<1>5. RemoveAt(q, k) = a \o b
  BY DEF RemoveAt, a, b
<1>6. Len(a \o b) = Len(q) - 1 /\ DOMAIN (a \o b) = 1 .. Len(q) - 1
  BY <1>1, <1>2, <1>3, <1>4
<1>7. ASSUME NEW j \in 1 .. Len(q) - 1
      PROVE  (a \o b)[j] = q[IF j < k THEN j ELSE j + 1]
  <2>1. (a \o b)[j] = IF j <= k - 1 THEN a[j] ELSE b[j - (k - 1)]
    BY <1>1, <1>2, <1>3, <1>4
  <2>2. CASE j < k
    BY <1>2, <2>1, <2>2
  <2>3. CASE ~ (j < k)
    <3>1. j - (k - 1) \in 1 .. Len(q) - k /\ k + (j - (k - 1)) = j + 1
      BY <1>1, <2>3
    <3> QED
      BY <1>3, <2>1, <2>3, <3>1
  <2> QED
    BY <2>2, <2>3
<1> QED
  BY <1>4, <1>5, <1>6, <1>7

(* A set of numbers that is not empty has a least one.                      *)
LEMMA LeastIndex ==
  ASSUME NEW T \in SUBSET Nat, T # {}
  PROVE  \E x \in T : \A y \in T : x <= y
<1>1. PICK x \in T : \A y \in T : ~ (<<y, x>> \in OpToRel(<, Nat))
  BY NatLessThanWellFounded, WFMin
<1>2. ASSUME NEW y \in T PROVE x <= y
  <2>1. ~ (y < x)
    BY <1>1 DEF OpToRel
  <2> QED
    BY <2>1
<1> QED
  BY <1>2

(* The loop of packet_sent stops at a packet with that number and           *)
(* interface.                                                               *)
LEMMA FirstMatches ==
  ASSUME TypeOK, NEW n \in Slot, NEW seqno, NEW input, Matches(n, seqno, input) # {}
  PROVE  First(n, seqno, input) \in Matches(n, seqno, input)
<1> DEFINE M == Matches(n, seqno, input)
<1>1. M \in SUBSET Nat
  BY DEF Matches, TypeOK
<1> HIDE DEF M
<1>2. M # {}
  BY DEF M
<1>3. \E k \in M : \A j \in M : k <= j
  BY <1>1, <1>2, LeastIndex
<1> QED
  BY <1>3 DEF First, M

(* packet_sent finds the head of a queue when it is called for it.          *)
LEMMA HeadIsFound ==
  ASSUME TypeOK, NEW n \in Slot, queued_packet_list[n] # <<>>
  PROVE  First(n, HeadFrame(n).seqno, HeadFrame(n).ifindex) = 1
<1> DEFINE q == queued_packet_list[n]
           M == Matches(n, HeadFrame(n).seqno, HeadFrame(n).ifindex)
<1>1. q \in Seq(Entry) /\ Len(q) \in Nat \ {0} /\ Head(q) = q[1] /\ DOMAIN q = 1 .. Len(q)
  BY DEF TypeOK
<1>2. 1 \in M
  BY <1>1 DEF Matches, HeadFrame
<1>3. M \subseteq Nat \ {0}
  BY <1>1 DEF Matches
<1>4. \A k \in M : (\A j \in M : k <= j) <=> k = 1
  BY <1>2, <1>3
<1> QED
  BY <1>2, <1>4 DEF First
-----------------------------------------------------------------------------
(* The two ways a callback for a packet of queue n ends, be it the head or  *)
(* not.  Both are stated for the state in which nothing is on its way for n *)
(* any more: its timer has fired or was not set, and its frame, if any,     *)
(* leaves rdc.                                                              *)

LEMMA TxDoneKeepsIInv ==
  ASSUME IInv, NEW n \in Slot, NEW k \in DOMAIN queued_packet_list[n],
         NEW status \in Status,
         TxDone(n, k, status, transmit_timer \ {n}),
         rdc' = {f \in rdc : f.ptr # n}, mac_dsn' = mac_dsn
  PROVE  IInv'
<1> DEFINE q == queued_packet_list[n]
           h == q[k]
           r == RemoveAt(q, k)
<1>inv. TypeOK /\ OneQueuePerAddr /\ OneTrigger /\ InFlightIsHead /\ QueuedOrReported
  BY DEF IInv
<1>a. queued_packet_list' = [queued_packet_list EXCEPT ![n] = r]
  BY Zenon DEF TxDone
<1>b. reports' = [reports EXCEPT ![h.id] = Append(reports[h.id], status)]
  BY Zenon DEF TxDone
<1>c. /\ transmissions' = [transmissions EXCEPT ![n] = 0]
      /\ collisions' = [collisions EXCEPT ![n] = 0]
  BY Zenon DEF TxDone
<1>d. submitted' = submitted
  BY Zenon DEF TxDone
<1>e. queued_packet_list \in [Slot -> Seq(Entry)] /\ q \in Seq(Entry)
  BY <1>inv DEF TypeOK
<1>f. /\ transmissions \in [Slot -> 0 .. 255]
      /\ collisions \in [Slot -> 0 .. 255]
  BY <1>inv DEF TypeOK
<1>1. /\ q \in Seq(Entry) /\ Len(q) \in Nat \ {0} /\ DOMAIN q = 1 .. Len(q)
      /\ Len(q) > 1 \/ Len(q) = 1
      /\ k \in 1 .. Len(q) /\ h \in Entry /\ h.id \in Packet
  <2>1. Len(q) \in Nat \ {0} /\ DOMAIN q = 1 .. Len(q) /\ k \in 1 .. Len(q)
    BY <1>e
  <2>2. h \in Entry
    BY <1>e, <2>1
  <2> QED
    BY <1>e, <2>1, <2>2 DEF Entry
<1>2. /\ r \in Seq(Entry) /\ DOMAIN r = 1 .. Len(q) - 1
      /\ \A j \in 1 .. Len(q) - 1 : r[j] = q[IF j < k THEN j ELSE j + 1]
      /\ r = <<>> <=> Len(q) = 1
  <2>1. /\ r \in Seq(Entry) /\ Len(r) = Len(q) - 1 /\ DOMAIN r = 1 .. Len(q) - 1
        /\ \A j \in 1 .. Len(q) - 1 : r[j] = q[IF j < k THEN j ELSE j + 1]
    BY <1>1, RemoveKth
  <2>2. r = <<>> <=> Len(r) = 0
    BY <2>1, EmptySeq
  <2> QED
    BY <1>1, <2>1, <2>2
<1> HIDE DEF r
<1>3. queued_packet_list' = [queued_packet_list EXCEPT ![n] = r]
  BY <1>a
<1>4. reports' = [reports EXCEPT ![h.id] = <<status>>]
  <2>1. h.id \in submitted /\ reports[h.id] = <<>>
    BY <1>inv, <1>1 DEF QueuedOrReported
  <2>2. Append(reports[h.id], status) = <<status>>
    BY <2>1
  <2> QED
    BY <1>b, <2>2
<1>5. TypeOK'
  <2>1. queued_packet_list' \in [Slot -> Seq(Entry)]
    BY <1>inv, <1>2, <1>3 DEF TypeOK
  <2>2. reports' \in [Packet -> Seq(Status)]
    BY <1>inv, <1>1, <1>4 DEF TypeOK
  <2>3. addr' \in [Slot -> Addr \cup {NoAddr}] /\ transmit_timer' \subseteq Slot
    BY <1>inv DEF TypeOK, TxDone
  <2>4. transmissions' \in [Slot -> 0 .. 255] /\ collisions' \in [Slot -> 0 .. 255]
    <3>1. 0 \in 0 .. 255
      OBVIOUS
    <3> QED
      BY <1>c, <1>f, <3>1, Zenon
  <2> QED
    BY <1>inv, <2>1, <2>2, <2>3, <2>4 DEF TypeOK, TxDone
<1>6. OneQueuePerAddr'
  <2>1. CASE Len(q) > 1
    <3>1. addr' = addr
      BY <2>1 DEF TxDone
    <3>2. \A m \in Slot : queued_packet_list'[m] = <<>> <=> queued_packet_list[m] = <<>>
      BY <1>inv, <1>1, <1>2, <1>3, <2>1 DEF TypeOK
    <3> QED
      BY <1>inv, <3>1, <3>2 DEF OneQueuePerAddr
  <2>2. CASE Len(q) = 1
    <3>1. addr' = [addr EXCEPT ![n] = NoAddr]
      BY <2>2 DEF TxDone
    <3>2. queued_packet_list'[n] = <<>>
      BY <1>inv, <1>2, <1>3, <2>2 DEF TypeOK
    <3>3. \A m \in Slot \ {n} : queued_packet_list'[m] = queued_packet_list[m]
      BY <1>inv, <1>3 DEF TypeOK
    <3> QED
      BY <1>inv, <3>1, <3>2, <3>3 DEF OneQueuePerAddr, TypeOK
  <2> QED
    BY <1>1, <2>1, <2>2
<1>7. /\ ~ InFlight(n)'
      /\ \A m \in Slot \ {n} : InFlight(m)' <=> InFlight(m)
  BY DEF InFlight
<1>8. OneTrigger'
  <2>1. \A m \in Slot \ {n} : queued_packet_list'[m] = queued_packet_list[m]
                              /\ (m \in transmit_timer' <=> m \in transmit_timer)
    BY <1>inv, <1>3 DEF TypeOK, TxDone
  <2>2. queued_packet_list'[n] # <<>> <=> n \in transmit_timer'
    BY <1>inv, <1>1, <1>2, <1>3 DEF TypeOK, TxDone
  <2> QED
    BY <1>inv, <1>7, <2>1, <2>2 DEF OneTrigger
<1>9. InFlightIsHead'
  <2>1. \A f \in rdc' : f \in rdc /\ f.ptr \in Slot \ {n}
    BY <1>inv DEF TypeOK, Frame
  <2>2. \A m \in Slot \ {n} : queued_packet_list'[m] = queued_packet_list[m]
    BY <1>inv, <1>3 DEF TypeOK
  <2> QED
    BY <1>inv, <2>1, <2>2 DEF InFlightIsHead, HeadFrame
<1>10. QueuedOrReported'
  <2> DEFINE Q == queued_packet_list'
  <2> SUFFICES ASSUME NEW p \in Packet
               PROVE  /\ p \in submitted' /\ reports'[p] = <<>>
                           <=> \E m \in Slot : \E j \in DOMAIN Q[m] : Q[m][j].id = p
                      /\ \A l, m \in Slot : \A i \in DOMAIN Q[l], j \in DOMAIN Q[m] :
                           Q[l][i].id = p /\ Q[m][j].id = p => l = m /\ i = j
                      /\ reports'[p] # <<>> => p \in submitted' /\ Len(reports'[p]) = 1
    BY <1>inv DEF QueuedOrReported
  <2>1. submitted' = submitted
    BY <1>d
  <2>2. Q[n] = r /\ \A m \in Slot \ {n} : Q[m] = queued_packet_list[m]
    BY <1>inv, <1>3 DEF TypeOK
  <2> DEFINE old(j) == IF j < k THEN j ELSE j + 1
             new(j) == IF j < k THEN j ELSE j - 1
  <2>3. /\ \A j \in DOMAIN Q[n] : /\ old(j) \in DOMAIN q /\ old(j) # k
                                  /\ Q[n][j].id = q[old(j)].id
        /\ \A i, j \in DOMAIN Q[n] : old(i) = old(j) => i = j
    BY <1>1, <1>2, <2>2
  <2>4. \A j \in DOMAIN q : j # k => new(j) \in DOMAIN Q[n] /\ Q[n][new(j)].id = q[j].id
    BY <1>1, <1>2, <2>2
  <2> HIDE DEF old, new
  <2>5. \A l, m \in Slot : \A i \in DOMAIN Q[l], j \in DOMAIN Q[m] :
          Q[l][i].id = p /\ Q[m][j].id = p => l = m /\ i = j
    <3> SUFFICES ASSUME NEW l \in Slot, NEW m \in Slot,
                        NEW i \in DOMAIN Q[l], NEW j \in DOMAIN Q[m],
                        Q[l][i].id = p, Q[m][j].id = p
                 PROVE  l = m /\ i = j
      OBVIOUS
    <3> DEFINE ii == IF l = n THEN old(i) ELSE i
               jj == IF m = n THEN old(j) ELSE j
    <3>1. ii \in DOMAIN queued_packet_list[l] /\ queued_packet_list[l][ii].id = p
      BY <2>2, <2>3
    <3>2. jj \in DOMAIN queued_packet_list[m] /\ queued_packet_list[m][jj].id = p
      BY <2>2, <2>3
    <3>3. l = m /\ ii = jj
      BY <1>inv, <3>1, <3>2 DEF QueuedOrReported
    <3> QED
      BY <3>3, <2>3
  <2>6. CASE p = h.id
    <3>1. \A m \in Slot : \A j \in DOMAIN Q[m] : Q[m][j].id # p
      <4> SUFFICES ASSUME NEW m \in Slot, NEW j \in DOMAIN Q[m], Q[m][j].id = p PROVE FALSE
        OBVIOUS
      <4> DEFINE jj == IF m = n THEN old(j) ELSE j
      <4>1. jj \in DOMAIN queued_packet_list[m] /\ queued_packet_list[m][jj].id = p
        BY <2>2, <2>3
      <4>2. m = n /\ jj = k
        BY <1>inv, <1>1, <2>6, <4>1 DEF QueuedOrReported
      <4> QED
        BY <2>3, <4>2
    <3>2. p \in submitted /\ reports[p] = <<>>
      BY <1>inv, <1>1, <2>6 DEF QueuedOrReported
    <3>3. reports'[p] = <<status>>
      BY <1>inv, <1>1, <1>4, <2>6 DEF TypeOK
    <3> QED
      BY <2>1, <2>5, <3>1, <3>2, <3>3
  <2>7. CASE p # h.id
    <3>1. reports'[p] = reports[p]
      BY <1>inv, <1>4, <2>7 DEF TypeOK
    <3>2. (\E m \in Slot : \E j \in DOMAIN Q[m] : Q[m][j].id = p)
            => \E m \in Slot : \E j \in DOMAIN queued_packet_list[m] : queued_packet_list[m][j].id = p
      BY <2>2, <2>3
    <3>3. (\E m \in Slot : \E j \in DOMAIN queued_packet_list[m] : queued_packet_list[m][j].id = p)
            => \E m \in Slot : \E j \in DOMAIN Q[m] : Q[m][j].id = p
      <4> SUFFICES ASSUME NEW m \in Slot, NEW i \in DOMAIN queued_packet_list[m],
                          queued_packet_list[m][i].id = p
                   PROVE  \E l \in Slot : \E j \in DOMAIN Q[l] : Q[l][j].id = p
        OBVIOUS
      <4>1. CASE m = n
        BY <4>1, <2>4, <2>7
      <4>2. CASE m # n
        BY <4>2, <2>2
      <4> QED
        BY <4>1, <4>2
    <3> QED
      BY <1>inv, <2>1, <2>5, <3>1, <3>2, <3>3 DEF QueuedOrReported
  <2> QED
    BY <2>6, <2>7
<1> QED
  BY <1>5, <1>6, <1>8, <1>9, <1>10 DEF IInv

LEMMA RexmitKeepsIInv ==
  ASSUME IInv, NEW n \in Slot, queued_packet_list[n] # <<>>,
         NEW tx \in 0 .. 255, NEW coll \in 0 .. 255,
         Rexmit(n, tx, coll, transmit_timer \ {n}),
         rdc' = {f \in rdc : f.ptr # n}, mac_dsn' = mac_dsn
  PROVE  IInv'
<1>inv. TypeOK /\ OneQueuePerAddr /\ OneTrigger /\ InFlightIsHead /\ QueuedOrReported
  BY DEF IInv
<1>a. /\ transmissions' = [transmissions EXCEPT ![n] = tx]
      /\ collisions' = [collisions EXCEPT ![n] = coll]
      /\ transmit_timer' = (transmit_timer \ {n}) \cup {n}
      /\ addr' = addr /\ queued_packet_list' = queued_packet_list
      /\ submitted' = submitted /\ reports' = reports
  BY DEF Rexmit, up
<1>1. TypeOK'
  BY <1>a, <1>inv DEF TypeOK
<1>2. OneQueuePerAddr'
  BY <1>a, <1>inv DEF OneQueuePerAddr
<1>3. OneTrigger'
  <2>1. /\ ~ InFlight(n)'
        /\ \A m \in Slot \ {n} : InFlight(m)' <=> InFlight(m)
    BY DEF InFlight
  <2> QED
    BY <1>a, <1>inv, <2>1 DEF OneTrigger
<1>4. InFlightIsHead'
  BY <1>a, <1>inv DEF InFlightIsHead, HeadFrame
<1>5. QueuedOrReported'
  BY <1>a, <1>inv DEF QueuedOrReported
<1> QED
  BY <1>1, <1>2, <1>3, <1>4, <1>5 DEF IInv

(* The counters of a queue are 8 bits wide.                                 *)
LEMMA EightBits ==
  ASSUME NEW x \in 0 .. 255, NEW y \in Nat
  PROVE  (x + y) % 256 \in 0 .. 255
  OBVIOUS

(* packet_sent for the packet it finds in queue n, whatever the driver says *)
(* of it.                                                                   *)
LEMMA PacketSentIsTxDoneOrRexmit ==
  ASSUME TypeOK, NEW n \in Slot, NEW seqno, NEW input,
         NEW status \in Status, NEW ntx \in Nat, NEW armed,
         PacketSent(n, seqno, input, status, ntx, armed)
  PROVE  /\ queued_packet_list[n] # <<>>
         /\ First(n, seqno, input) \in DOMAIN queued_packet_list[n]
         /\ \/ TxDone(n, First(n, seqno, input), status, armed)
            \/ \E tx, coll \in 0 .. 255 : Rexmit(n, tx, coll, armed)
<1> DEFINE noack == (transmissions[n] + ntx) % 256
           c     == (collisions[n] + ntx) % 256
           one   == (transmissions[n] + 1) % 256
<1>1. First(n, seqno, input) \in Matches(n, seqno, input)
  BY FirstMatches DEF PacketSent
<1>2. transmissions[n] \in 0 .. 255 /\ collisions[n] \in 0 .. 255
  BY DEF TypeOK
<1>3. noack \in 0 .. 255 /\ c \in 0 .. 255 /\ one \in 0 .. 255 /\ 0 \in 0 .. 255
  <2>1. 1 \in Nat /\ 0 \in 0 .. 255
    OBVIOUS
  <2> QED
    BY <1>2, <2>1, EightBits, Zenon
<1>4. AfterCollision(n, ntx).tx \in 0 .. 255 /\ AfterCollision(n, ntx).coll \in 0 .. 255
  <2> HIDE DEF noack
  <2>1. CASE c > MaxBackoff
    BY <1>3, <2>1 DEF AfterCollision
  <2>2. CASE ~ (c > MaxBackoff)
    BY <1>2, <1>3, <2>2 DEF AfterCollision
  <2> QED
    BY <2>1, <2>2
<1>5. \/ TxDone(n, First(n, seqno, input), status, armed)
      \/ Rexmit(n, noack, 0, armed)
      \/ Rexmit(n, AfterCollision(n, ntx).tx, AfterCollision(n, ntx).coll, armed)
  BY Zenon DEF PacketSent
<1> HIDE DEF noack, c, one
<1>6. queued_packet_list[n] # <<>> /\ First(n, seqno, input) \in DOMAIN queued_packet_list[n]
  BY <1>1 DEF Matches, TypeOK
<1> QED
  BY <1>3, <1>4, <1>5, <1>6

LEMMA PacketSentKeepsIInv ==
  ASSUME IInv, NEW n \in Slot, NEW seqno, NEW input,
         NEW status \in Status, NEW ntx \in Nat,
         PacketSent(n, seqno, input, status, ntx, transmit_timer \ {n}),
         rdc' = {f \in rdc : f.ptr # n}, mac_dsn' = mac_dsn
  PROVE  IInv'
<1> DEFINE k == First(n, seqno, input)
<1>1. /\ queued_packet_list[n] # <<>> /\ k \in DOMAIN queued_packet_list[n]
      /\ \/ TxDone(n, k, status, transmit_timer \ {n})
         \/ \E tx, coll \in 0 .. 255 : Rexmit(n, tx, coll, transmit_timer \ {n})
  BY PacketSentIsTxDoneOrRexmit DEF IInv
<1> HIDE DEF k
<1>2. CASE TxDone(n, k, status, transmit_timer \ {n})
  BY <1>1, <1>2, TxDoneKeepsIInv
<1>3. CASE \E tx, coll \in 0 .. 255 : Rexmit(n, tx, coll, transmit_timer \ {n})
  BY <1>1, <1>3, RexmitKeepsIInv
<1> QED
  BY <1>1, <1>2, <1>3
-----------------------------------------------------------------------------
(* A packet is refused: it is reported on and queued nowhere.               *)
LEMMA SendPacketRefusedKeepsIInv ==
  ASSUME IInv, NEW p \in Packet, NEW a \in Addr, SendPacketRefused(p, a), rdc' = rdc
  PROVE  IInv'
<1>inv. TypeOK /\ OneQueuePerAddr /\ OneTrigger /\ InFlightIsHead /\ QueuedOrReported
  BY DEF IInv
<1>a. /\ p \notin submitted /\ submitted' = submitted \cup {p}
      /\ mac_dsn' = (mac_dsn + 1) % SeqnoMod
      /\ reports' = [reports EXCEPT ![p] = Append(reports[p], "ERR")]
  BY Zenon DEF SendPacketRefused, Take
<1>b. /\ addr' = addr /\ queued_packet_list' = queued_packet_list
      /\ transmissions' = transmissions /\ collisions' = collisions
      /\ transmit_timer' = transmit_timer
  BY DEF SendPacketRefused, nbr
<1>c. reports[p] = <<>>
  BY <1>a, <1>inv DEF QueuedOrReported
<1>d. reports' = [reports EXCEPT ![p] = <<"ERR">>]
  BY <1>a, <1>c
<1>1. TypeOK'
  <2>1. mac_dsn' \in Seqno
    BY <1>a, <1>inv, BoundsAssumption DEF TypeOK, Seqno
  <2>2. reports' \in [Packet -> Seq(Status)]
    BY <1>d, <1>inv DEF TypeOK, Status
  <2> QED
    BY <1>a, <1>b, <1>inv, <2>1, <2>2 DEF TypeOK
<1>2. OneQueuePerAddr'
  BY <1>b, <1>inv DEF OneQueuePerAddr
<1>3. OneTrigger'
  BY <1>b, <1>inv DEF OneTrigger, InFlight
<1>4. InFlightIsHead'
  BY <1>b, <1>inv DEF InFlightIsHead, HeadFrame
<1>5. QueuedOrReported'
  <2>1. reports'[p] = <<"ERR">> /\ \A r \in Packet \ {p} : reports'[r] = reports[r]
    BY <1>d, <1>inv DEF TypeOK
  <2>2. Len(reports'[p]) = 1 /\ reports'[p] # <<>>
    BY <2>1
  <2> QED
    BY <1>a, <1>b, <1>inv, <2>1, <2>2 DEF QueuedOrReported
<1> QED
  BY <1>1, <1>2, <1>3, <1>4, <1>5 DEF IInv

(* A packet joins the queue of its address, which is scheduled if it was    *)
(* empty.                                                                   *)
LEMMA SendPacketKeepsIInv ==
  ASSUME IInv, NEW p \in Packet, NEW a \in Addr, NEW i \in Ifindex,
         NEW max \in MaxTransmissions, NEW n \in Slot,
         SendPacket(p, a, i, max, n), rdc' = rdc
  PROVE  IInv'
<1> DEFINE q == queued_packet_list[n]
           Q == queued_packet_list'
           e == [id |-> p, seqno |-> mac_dsn, ifindex |-> i, max |-> max]
<1>inv. TypeOK /\ OneQueuePerAddr /\ OneTrigger /\ InFlightIsHead /\ QueuedOrReported
  BY DEF IInv
<1>a. /\ p \notin submitted /\ submitted' = submitted \cup {p}
      /\ mac_dsn' = (mac_dsn + 1) % SeqnoMod
      /\ reports' = reports
  BY Zenon DEF SendPacket, Take
<1>b. Known(n, a) \/ New(n, a)
  BY Zenon DEF SendPacket
<1>c. addr' = [addr EXCEPT ![n] = a]
  BY Zenon DEF SendPacket
<1>d. queued_packet_list' = [queued_packet_list EXCEPT ![n] = Append(q, e)]
  BY Zenon DEF SendPacket, ListAdd
<1>e. /\ transmissions' = IF New(n, a) THEN [transmissions EXCEPT ![n] = 0] ELSE transmissions
      /\ collisions' = IF New(n, a) THEN [collisions EXCEPT ![n] = 0] ELSE collisions
  BY Zenon DEF SendPacket
<1>f. transmit_timer' = IF q = <<>> THEN transmit_timer \cup {n} ELSE transmit_timer
  BY Zenon DEF SendPacket
<1>1. e \in Entry /\ q \in Seq(Entry)
  BY <1>inv DEF TypeOK, Entry
<1>2. /\ Append(q, e) \in Seq(Entry) /\ Append(q, e) # <<>>
      /\ DOMAIN q = 1 .. Len(q) /\ Len(q) \in Nat
      /\ DOMAIN Append(q, e) = 1 .. Len(q) + 1
      /\ Append(q, e)[Len(q) + 1] = e
      /\ \A k \in 1 .. Len(q) : Append(q, e)[k] = q[k]
  <2> HIDE DEF e, q
  <2> QED
    BY <1>1, AppendProperties
<1>3. Q[n] = Append(q, e) /\ \A m \in Slot \ {n} : Q[m] = queued_packet_list[m]
  BY <1>d, <1>inv DEF TypeOK
<1>4. TypeOK'
  <2>1. addr' \in [Slot -> Addr \cup {NoAddr}]
    BY <1>c, <1>inv DEF TypeOK
  <2>2. queued_packet_list' \in [Slot -> Seq(Entry)]
    BY <1>2, <1>d, <1>inv, Zenon DEF TypeOK
  <2>3. transmissions' \in [Slot -> 0 .. 255] /\ collisions' \in [Slot -> 0 .. 255]
    <3>1. 0 \in 0 .. 255
      OBVIOUS
    <3>2. transmissions \in [Slot -> 0 .. 255] /\ collisions \in [Slot -> 0 .. 255]
      BY <1>inv DEF TypeOK
    <3> QED
      BY <1>e, <3>1, <3>2, Zenon
  <2>4. transmit_timer' \subseteq Slot
    BY <1>f, <1>inv DEF TypeOK
  <2>5. mac_dsn' \in Seqno
    BY <1>a, <1>inv, BoundsAssumption DEF TypeOK, Seqno
  <2>6. rdc' \subseteq Frame /\ submitted' \subseteq Packet /\ reports' \in [Packet -> Seq(Status)]
    BY <1>a, <1>inv DEF TypeOK
  <2> QED
    BY <2>1, <2>2, <2>3, <2>4, <2>5, <2>6 DEF TypeOK
<1>5. OneQueuePerAddr'
  <2>1. addr'[n] = a /\ \A m \in Slot \ {n} : addr'[m] = addr[m] /\ addr[m] # a
    BY <1>b, <1>c, <1>inv, NoAddrAssumption DEF TypeOK, Known, New, OneQueuePerAddr
  <2>2. Q[n] # <<>>
    BY <1>2, <1>3
  <2> QED
    BY <1>3, <1>inv, <2>1, <2>2, NoAddrAssumption DEF OneQueuePerAddr
<1>6. OneTrigger'
  <2>1. \A m \in Slot : InFlight(m)' <=> InFlight(m)
    BY DEF InFlight
  <2>2. Q[n] # <<>>
    BY <1>2, <1>3
  <2>3. /\ n \in transmit_timer' \/ InFlight(n)
        /\ ~ (n \in transmit_timer' /\ InFlight(n))
    BY <1>f, <1>inv DEF OneTrigger
  <2>4. \A m \in Slot \ {n} : m \in transmit_timer' <=> m \in transmit_timer
    BY <1>f
  <2> QED
    BY <1>3, <1>inv, <2>1, <2>2, <2>3, <2>4 DEF OneTrigger
<1>7. InFlightIsHead'
  <2> SUFFICES ASSUME NEW f \in rdc'
               PROVE  Q[f.ptr] # <<>> /\ f = HeadFrame(f.ptr)'
    BY DEF InFlightIsHead
  <2>1. f.ptr \in Slot /\ queued_packet_list[f.ptr] # <<>> /\ f = HeadFrame(f.ptr)
    BY <1>inv DEF TypeOK, Frame, InFlightIsHead
  <2>2. CASE f.ptr # n
    BY <1>3, <2>1, <2>2 DEF HeadFrame
  <2>3. CASE f.ptr = n
    <3>1. 1 \in 1 .. Len(q) /\ 1 \in 1 .. Len(q) + 1
      BY <1>1, <1>2, <2>1, <2>3
    <3>2. Head(Q[n]) = Head(q) /\ Q[n] # <<>>
      BY <1>2, <1>3, <3>1
    <3> QED
      BY <2>1, <2>3, <3>2 DEF HeadFrame
  <2> QED
    BY <2>2, <2>3
<1>8. QueuedOrReported'
  <2>1. Len(q) + 1 \in DOMAIN Q[n] /\ Q[n][Len(q) + 1].id = p
    BY <1>2, <1>3
  <2>2. \A k \in DOMAIN Q[n] : k # Len(q) + 1 => k \in DOMAIN q /\ Q[n][k].id = q[k].id
    BY <1>2, <1>3
  <2>3. \A k \in DOMAIN q : k \in DOMAIN Q[n] /\ Q[n][k].id = q[k].id
    BY <1>2, <1>3
  <2>4. \A m \in Slot : \A k \in DOMAIN queued_packet_list[m] : queued_packet_list[m][k].id # p
    BY <1>a, <1>inv DEF QueuedOrReported
  <2>5. \A m \in Slot : \A k \in DOMAIN Q[m] :
          IF m = n /\ k = Len(q) + 1
            THEN Q[m][k].id = p
            ELSE /\ k \in DOMAIN queued_packet_list[m]
                 /\ Q[m][k].id = queued_packet_list[m][k].id
                 /\ Q[m][k].id # p
    BY <1>3, <2>1, <2>2, <2>4
  <2>6. \A m \in Slot : \A k \in DOMAIN queued_packet_list[m] :
          k \in DOMAIN Q[m] /\ Q[m][k].id = queued_packet_list[m][k].id
    BY <1>3, <2>3
  <2> SUFFICES ASSUME NEW r \in Packet
               PROVE  /\ r \in submitted' /\ reports'[r] = <<>>
                           <=> \E m \in Slot : \E k \in DOMAIN Q[m] : Q[m][k].id = r
                      /\ \A l, m \in Slot : \A j \in DOMAIN Q[l], k \in DOMAIN Q[m] :
                           Q[l][j].id = r /\ Q[m][k].id = r => l = m /\ j = k
                      /\ reports'[r] # <<>> => r \in submitted' /\ Len(reports'[r]) = 1
    BY DEF QueuedOrReported
  <2>7. CASE r = p
    <3>1. r \in submitted' /\ reports'[r] = <<>>
      BY <1>a, <1>inv, <2>7 DEF QueuedOrReported
    <3>2. \E m \in Slot : \E k \in DOMAIN Q[m] : Q[m][k].id = r
      BY <2>1, <2>7
    <3>3. \A l, m \in Slot : \A j \in DOMAIN Q[l], k \in DOMAIN Q[m] :
            Q[l][j].id = r /\ Q[m][k].id = r => l = m /\ j = k
      BY <2>5, <2>7
    <3> QED
      BY <3>1, <3>2, <3>3
  <2>8. CASE r # p
    <3>1. reports'[r] = reports[r] /\ (r \in submitted' <=> r \in submitted)
      BY <1>a, <2>8
    <3>2. (\E m \in Slot : \E k \in DOMAIN Q[m] : Q[m][k].id = r)
            <=> \E m \in Slot : \E k \in DOMAIN queued_packet_list[m] : queued_packet_list[m][k].id = r
      BY <2>5, <2>6, <2>8
    <3>3. \A l, m \in Slot : \A j \in DOMAIN Q[l], k \in DOMAIN Q[m] :
            Q[l][j].id = r /\ Q[m][k].id = r => l = m /\ j = k
      BY <1>inv, <2>5, <2>8 DEF QueuedOrReported
    <3> QED
      BY <1>inv, <3>1, <3>2, <3>3 DEF QueuedOrReported
  <2> QED
    BY <2>7, <2>8
<1> QED
  BY <1>4, <1>5, <1>6, <1>7, <1>8 DEF IInv
-----------------------------------------------------------------------------
(* A timer that fires belongs to a queue with nothing on its way, and the   *)
(* frame a callback is for is the only one of its queue.                    *)

LEMMA FiresIsHead ==
  ASSUME IInv, NEW n \in Slot, Fires(n)
  PROVE  /\ queued_packet_list[n] # <<>>
         /\ HeadFrame(n) \in Frame
         /\ rdc = {f \in rdc : f.ptr # n}
<1>inv. TypeOK /\ OneTrigger
  BY DEF IInv
<1>1. n \in transmit_timer /\ queued_packet_list[n] # <<>>
  BY DEF Fires
<1>2. Head(queued_packet_list[n]) \in Entry
  BY <1>1, <1>inv DEF TypeOK
<1>3. HeadFrame(n) \in Frame
  BY <1>2 DEF HeadFrame, Entry, Frame
<1>4. \A f \in rdc : f.ptr # n
  BY <1>1, <1>inv DEF OneTrigger, InFlight
<1> QED
  BY <1>1, <1>3, <1>4

LEMMA ReportIsHead ==
  ASSUME IInv, NEW f \in rdc
  PROVE  /\ f.ptr \in Slot /\ queued_packet_list[f.ptr] # <<>>
         /\ f.seqno = HeadFrame(f.ptr).seqno /\ f.ifindex = HeadFrame(f.ptr).ifindex
         /\ rdc \ {f} = {g \in rdc : g.ptr # f.ptr}
         /\ transmit_timer = transmit_timer \ {f.ptr}
<1>inv. TypeOK /\ OneTrigger /\ InFlightIsHead
  BY DEF IInv
<1>1. f.ptr \in Slot
  BY <1>inv DEF TypeOK, Frame
<1>2. queued_packet_list[f.ptr] # <<>> /\ f = HeadFrame(f.ptr)
  BY <1>inv DEF InFlightIsHead
<1>3. \A g \in rdc : g.ptr = f.ptr => g = f
  BY <1>inv DEF OneTrigger
<1>4. f.ptr \notin transmit_timer
  BY <1>1, <1>inv DEF OneTrigger, InFlight
<1> QED
  BY <1>1, <1>2, <1>3, <1>4

LEMMA RdcTakesKeepsIInv ==
  ASSUME IInv, NEW n \in Slot, RdcTakes(n)
  PROVE  IInv'
<1>inv. TypeOK /\ OneQueuePerAddr /\ OneTrigger /\ InFlightIsHead /\ QueuedOrReported
  BY DEF IInv
<1>a. /\ addr' = addr /\ queued_packet_list' = queued_packet_list
      /\ transmissions' = transmissions /\ collisions' = collisions
      /\ mac_dsn' = mac_dsn /\ submitted' = submitted /\ reports' = reports
      /\ transmit_timer' = transmit_timer \ {n} /\ rdc' = rdc \cup {HeadFrame(n)}
      /\ Fires(n)
  BY DEF RdcTakes, TransmitPacketList, nbr, up
<1>b. /\ queued_packet_list[n] # <<>> /\ HeadFrame(n) \in Frame
      /\ \A f \in rdc : f.ptr # n
  BY <1>a, FiresIsHead
<1>c. HeadFrame(n).ptr = n
  BY DEF HeadFrame
<1>1. TypeOK'
  BY <1>a, <1>b, <1>inv DEF TypeOK
<1>2. OneQueuePerAddr'
  BY <1>a, <1>inv DEF OneQueuePerAddr
<1>3. OneTrigger'
  <2>1. \A m \in Slot : InFlight(m)' <=> InFlight(m) \/ m = n
    BY <1>a, <1>c DEF InFlight
  <2>2. \A f, g \in rdc' : f.ptr = g.ptr => f = g
    BY <1>a, <1>b, <1>c, <1>inv DEF OneTrigger
  <2> QED
    BY <1>a, <1>b, <1>inv, <2>1, <2>2 DEF OneTrigger, Fires
<1>4. InFlightIsHead'
  <2>1. \A m \in Slot : HeadFrame(m)' = HeadFrame(m)
    BY <1>a DEF HeadFrame
  <2>2. \A f \in rdc' : f.ptr \in Slot /\ queued_packet_list[f.ptr] # <<>> /\ f = HeadFrame(f.ptr)
    BY <1>a, <1>b, <1>c, <1>inv DEF InFlightIsHead, TypeOK, Frame
  <2> QED
    BY <1>a, <2>1, <2>2 DEF InFlightIsHead
<1>5. QueuedOrReported'
  BY <1>a, <1>inv DEF QueuedOrReported
<1> QED
  BY <1>1, <1>2, <1>3, <1>4, <1>5 DEF IInv

LEMMA RdcRefusesKeepsIInv ==
  ASSUME IInv, NEW n \in Slot, RdcRefuses(n)
  PROVE  IInv'
<1>1. PICK status \in {"NOACK", "ERR_FATAL"} : TransmitFailed(n, HeadFrame(n).ifindex, status)
  BY DEF RdcRefuses
<1>2. /\ Fires(n) /\ mac_dsn' = mac_dsn /\ rdc' = rdc /\ status \in Status /\ 1 \in Nat
      /\ PacketSent(n, HeadFrame(n).seqno, HeadFrame(n).ifindex, status, 1,
                    transmit_timer \ {n})
  BY <1>1 DEF TransmitFailed, RdcRefuses, Status
<1> QED
  BY <1>2, FiresIsHead, PacketSentKeepsIInv

LEMMA RdcReportsKeepsIInv ==
  ASSUME IInv, NEW f \in rdc, RdcReports(f)
  PROVE  IInv'
<1>1. PICK status \in RdcStatus, ntx \in NumTx :
        PacketSent(f.ptr, f.seqno, f.ifindex, status, ntx, transmit_timer)
  BY DEF RdcReports
<1>2. /\ mac_dsn' = mac_dsn /\ rdc' = rdc \ {f} /\ status \in Status /\ ntx \in Nat
  BY BoundsAssumption, StatusAssumption DEF RdcReports
<1>3. PacketSent(f.ptr, HeadFrame(f.ptr).seqno, HeadFrame(f.ptr).ifindex, status, ntx,
                 transmit_timer \ {f.ptr})
  BY <1>1, ReportIsHead
<1> QED
  BY <1>2, <1>3, ReportIsHead, PacketSentKeepsIInv

LEMMA InitIInv == Init => IInv
<1> SUFFICES ASSUME Init PROVE IInv
  OBVIOUS
<1>1. TypeOK
  BY DEF Init, TypeOK
<1>2. OneQueuePerAddr /\ InFlightIsHead
  BY DEF Init, OneQueuePerAddr, InFlightIsHead
<1>3. OneTrigger
  BY DEF Init, OneTrigger, InFlight
<1>4. QueuedOrReported
  <2>1. /\ submitted = {} /\ \A p \in Packet : reports[p] = <<>>
        /\ \A n \in Slot : DOMAIN queued_packet_list[n] = {}
    BY DEF Init
  <2> QED
    BY <2>1 DEF QueuedOrReported
<1> QED
  BY <1>1, <1>2, <1>3, <1>4 DEF IInv

LEMMA NextKeepsIInv == IInv /\ [Next]_vars => IInv'
<1> SUFFICES ASSUME IInv, [Next]_vars PROVE IInv'
  OBVIOUS
<1>1. CASE Send
  <2>1. PICK p \in Packet, a \in Addr :
          \/ \E i \in Ifindex, max \in MaxTransmissions, n \in Slot : SendPacket(p, a, i, max, n)
          \/ SendPacketRefused(p, a)
    BY <1>1 DEF Send
  <2>2. rdc' = rdc
    BY <1>1 DEF Send
  <2> QED
    BY <2>1, <2>2, SendPacketKeepsIInv, SendPacketRefusedKeepsIInv
<1>2. ASSUME NEW n \in Slot, RdcTakes(n) PROVE IInv'
  BY <1>2, RdcTakesKeepsIInv
<1>3. ASSUME NEW n \in Slot, RdcRefuses(n) PROVE IInv'
  BY <1>3, RdcRefusesKeepsIInv
<1>4. ASSUME NEW f \in rdc, RdcReports(f) PROVE IInv'
  BY <1>4, RdcReportsKeepsIInv
<1>5. CASE UNCHANGED vars
  <2>1. /\ addr' = addr /\ queued_packet_list' = queued_packet_list
        /\ transmissions' = transmissions /\ collisions' = collisions
        /\ transmit_timer' = transmit_timer /\ mac_dsn' = mac_dsn /\ rdc' = rdc
        /\ submitted' = submitted /\ reports' = reports
    BY <1>5 DEF vars, nbr, up
  <2> QED
    BY <2>1 DEF IInv, TypeOK, OneQueuePerAddr, OneTrigger, InFlight, InFlightIsHead,
                HeadFrame, QueuedOrReported
<1> QED
  BY <1>1, <1>2, <1>3, <1>4, <1>5 DEF Next

LEMMA SpecIInv == Spec => []IInv
<1>1. Init => IInv
  BY InitIInv
<1>2. IInv /\ [Next]_vars => IInv'
  BY NextKeepsIInv
<1> QED
  BY <1>1, <1>2, PTL DEF Spec

(* The queues, timers and counters of csma.c stay of their types: no 8-bit  *)
(* counter overflows and no list_remove is done on an empty queue.          *)
THEOREM SpecTypeOK == Spec => []TypeOK
<1>1. IInv => TypeOK
  BY DEF IInv
<1> QED
  BY <1>1, SpecIInv, PTL

(* neighbor_queue_from_addr finds at most one entry for an address, and     *)
(* free_packet frees an entry exactly when its queue becomes empty.         *)
THEOREM SpecOneQueuePerAddr == Spec => []OneQueuePerAddr
<1>1. IInv => OneQueuePerAddr
  BY DEF IInv
<1> QED
  BY <1>1, SpecIInv, PTL

(* However packets, timers and callbacks interleave, a queue of csma.c that *)
(* holds a packet has exactly one thing that will move it on.               *)
THEOREM SpecOneTrigger == Spec => []OneTrigger
<1>1. IInv => OneTrigger
  BY DEF IInv
<1> QED
  BY <1>1, SpecIInv, PTL

(* The callback of packet_sent is always for the packet it finds, whatever  *)
(* sequence numbers the queue holds.                                        *)
THEOREM SpecInFlightIsHead == Spec => []InFlightIsHead
<1>1. IInv => InFlightIsHead
  BY DEF IInv
<1> QED
  BY <1>1, SpecIInv, PTL

(* No packet is dropped in silence by csma.c, nor reported on twice.        *)
THEOREM SpecQueuedOrReported == Spec => []QueuedOrReported
<1>1. IInv => QueuedOrReported
  BY DEF IInv
<1> QED
  BY <1>1, SpecIInv, PTL
-----------------------------------------------------------------------------
(* What the layer above sees of each step.                                  *)

LEMMA PacketSentReports ==
  ASSUME IInv, NEW n \in Slot, NEW seqno, NEW input,
         NEW status \in Status, NEW ntx \in Nat, NEW armed,
         PacketSent(n, seqno, input, status, ntx, armed)
  PROVE  [Promise!Next]_up
<1> DEFINE k == First(n, seqno, input)
           h == queued_packet_list[n][k]
<1>inv. TypeOK /\ QueuedOrReported
  BY DEF IInv
<1>k. /\ k \in DOMAIN queued_packet_list[n]
      /\ TxDone(n, k, status, armed) \/ \E tx, coll \in 0 .. 255 : Rexmit(n, tx, coll, armed)
  BY <1>inv, PacketSentIsTxDoneOrRexmit
<1> HIDE DEF k
<1>1. CASE TxDone(n, k, status, armed)
  <2>1. reports' = [reports EXCEPT ![h.id] = Append(reports[h.id], status)] /\ submitted' = submitted
    BY <1>1, Zenon DEF TxDone
  <2>2. h.id \in Packet
    <3>1. queued_packet_list[n] \in Seq(Entry)
      BY <1>inv DEF TypeOK
    <3>2. \A q \in Seq(Entry) : \A j \in DOMAIN q : q[j] \in Entry
      OBVIOUS
    <3>3. h \in Entry
      BY <1>k, <3>1, <3>2
    <3> QED
      BY <3>3 DEF Entry
  <2>3. h.id \in submitted /\ reports[h.id] = <<>>
    BY <1>inv, <1>k, <2>2 DEF QueuedOrReported
  <2>4. reports' = [reports EXCEPT ![h.id] = <<status>>]
    BY <2>1, <2>3
  <2>5. Promise!Report(h.id)
    BY <2>1, <2>3, <2>4 DEF Promise!Report
  <2> QED
    BY <2>2, <2>5 DEF Promise!Next
<1>2. CASE \E tx, coll \in 0 .. 255 : Rexmit(n, tx, coll, armed)
  BY <1>2 DEF Rexmit, up
<1> QED
  BY <1>k, <1>1, <1>2

LEMMA SendReports ==
  ASSUME IInv, NEW p \in Packet, NEW a \in Addr,
         \/ \E i \in Ifindex, max \in MaxTransmissions, n \in Slot : SendPacket(p, a, i, max, n)
         \/ SendPacketRefused(p, a)
  PROVE  Promise!Next
<1>inv. QueuedOrReported
  BY DEF IInv
<1>1. CASE \E i \in Ifindex, max \in MaxTransmissions, n \in Slot : SendPacket(p, a, i, max, n)
  <2>1. Promise!Submit(p)
    BY <1>1, Zenon DEF SendPacket, Take, Promise!Submit
  <2> QED
    BY <2>1 DEF Promise!Next
<1>2. CASE SendPacketRefused(p, a)
  <2>1. /\ p \notin submitted /\ submitted' = submitted \cup {p}
        /\ reports' = [reports EXCEPT ![p] = Append(reports[p], "ERR")]
    BY <1>2, Zenon DEF SendPacketRefused, Take
  <2>2. reports[p] = <<>>
    BY <1>inv, <2>1 DEF QueuedOrReported
  <2>3. reports' = [reports EXCEPT ![p] = <<"ERR">>] /\ "ERR" \in Status
    BY <2>1, <2>2 DEF Status
  <2>4. Promise!Refuse(p)
    BY <2>1, <2>3 DEF Promise!Refuse
  <2> QED
    BY <2>4 DEF Promise!Next
<1> QED
  BY <1>1, <1>2

LEMMA NextReports == IInv /\ [Next]_vars => [Promise!Next]_up
<1> SUFFICES ASSUME IInv, [Next]_vars PROVE [Promise!Next]_up
  OBVIOUS
<1>1. CASE Send
  BY <1>1, SendReports DEF Send
<1>2. ASSUME NEW n \in Slot, RdcTakes(n) PROVE [Promise!Next]_up
  BY <1>2 DEF RdcTakes, TransmitPacketList
<1>3. ASSUME NEW n \in Slot, RdcRefuses(n) PROVE [Promise!Next]_up
  <2>1. PICK status \in {"NOACK", "ERR_FATAL"} : TransmitFailed(n, HeadFrame(n).ifindex, status)
    BY <1>3 DEF RdcRefuses
  <2>2. /\ Fires(n) /\ status \in Status /\ 1 \in Nat
        /\ PacketSent(n, HeadFrame(n).seqno, HeadFrame(n).ifindex, status, 1,
                      transmit_timer \ {n})
    BY <2>1 DEF TransmitFailed, Status
  <2> QED
    BY <2>2, FiresIsHead, PacketSentReports
<1>4. ASSUME NEW f \in rdc, RdcReports(f) PROVE [Promise!Next]_up
  <2>1. PICK status \in RdcStatus, ntx \in NumTx :
          PacketSent(f.ptr, f.seqno, f.ifindex, status, ntx, transmit_timer)
    BY <1>4 DEF RdcReports
  <2>2. status \in Status /\ ntx \in Nat
    BY BoundsAssumption, StatusAssumption
  <2>3. PacketSent(f.ptr, HeadFrame(f.ptr).seqno, HeadFrame(f.ptr).ifindex, status, ntx,
                   transmit_timer \ {f.ptr})
    BY <2>1, ReportIsHead
  <2> QED
    BY <2>2, <2>3, ReportIsHead, PacketSentReports
<1>5. CASE UNCHANGED vars
  BY <1>5 DEF vars
<1> QED
  BY <1>1, <1>2, <1>3, <1>4, <1>5 DEF Next

(* To the layer above, csma.c behaves as a MAC driver may: a packet is      *)
(* refused at once, or taken and reported on later, and never both.         *)
THEOREM SpecImplementsPromise == Spec => Promise!Spec
<1>1. Init => Promise!Init
  BY DEF Init, Promise!Init
<1>2. IInv /\ [Next]_vars => [Promise!Next]_(Promise!vars)
  BY NextReports DEF up, Promise!vars
<1> QED
  BY <1>1, <1>2, SpecIInv, PTL DEF Spec, Promise!Spec
=============================================================================
