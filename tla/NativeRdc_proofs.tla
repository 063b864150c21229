-------------------------- MODULE NativeRdc_proofs --------------------------
(* For any number of session ids, devices and retransmissions: the session  *)
(* table stays well formed, its counter and its timers agree with the ids   *)
(* in use, and the id given out last is not the next one while another is   *)
(* free.                                                                    *)
EXTENDS NativeRdc, FiniteSetTheorems, WellFoundedInduction, TLAPS

(* What each step keeps.                                                    *)
IInv == TypeOK /\ CountIsUsed /\ TimerIsUsed

LEMMA SidFinite ==
  /\ IsFiniteSet(Sid) /\ Cardinality(Sid) = MaxCallbacks
  /\ IsFiniteSet(Used) /\ Cardinality(Used) \in Nat /\ Cardinality(Used) <= MaxCallbacks
<1>1. IsFiniteSet(Sid) /\ Cardinality(Sid) = MaxCallbacks
  BY FS_Interval, MaxCallbacksAssumption DEF Sid
<1>2. Used \in SUBSET Sid
  BY DEF Used
<1>3. IsFiniteSet(Used) /\ Cardinality(Used) <= MaxCallbacks
  BY <1>1, <1>2, FS_Subset
<1> QED
  BY <1>1, <1>3, FS_CardinalityType

(* The search of setup_callback is entered only when it can end.            *)
LEMMA SearchFinds ==
  ASSUME CountIsUsed, callback_count < MaxCallbacks
  PROVE  Sid \ Used # {}
<1>1. SUFFICES ASSUME Sid \subseteq Used PROVE FALSE
  OBVIOUS
<1>2. Sid = Used
  BY <1>1 DEF Used
<1> QED
  BY <1>2, SidFinite, MaxCallbacksAssumption DEF CountIsUsed

(* What it finds is a free id, and none is nearer.                          *)
LEMMA NextSidIsNearest ==
  ASSUME TypeOK, Sid \ Used # {}
  PROVE  /\ NextSid \in Sid \ Used
         /\ \A t \in Sid \ Used : Distance(NextSid) <= Distance(t)
<1> DEFINE D == {Distance(t) : t \in Sid \ Used}
<1>1. \A t \in Sid : Distance(t) \in Nat
  BY MaxCallbacksAssumption DEF TypeOK, Sid, Distance
<1>2. D \in SUBSET Nat /\ D # {}
  BY <1>1
<1>3. PICK m \in D : \A k \in D : m <= k
  <2>1. PICK m \in D : \A k \in D : ~ (<<k, m>> \in OpToRel(<, Nat))
    BY <1>2, NatLessThanWellFounded, WFMin
  <2>2. \A k \in D : ~ (k < m)
    BY <1>2, <2>1 DEF OpToRel
  <2> QED
    BY <1>2, <2>2
<1>4. PICK s \in Sid \ Used : m = Distance(s)
  OBVIOUS
<1>5. \A t \in Sid \ Used : Distance(s) <= Distance(t)
  BY <1>3, <1>4
<1> QED
  BY <1>5 DEF NextSid
LEMMA InitIInv == Init => IInv
<1> SUFFICES ASSUME Init PROVE IInv
  OBVIOUS
<1>1. TypeOK
  BY MaxCallbacksAssumption DEF Init, TypeOK, Sid
<1>2. Used = {}
  BY DEF Init, Used
<1>3. CountIsUsed
  BY <1>2, FS_EmptySet DEF Init, CountIsUsed
<1>4. TimerIsUsed
  BY <1>2 DEF Init, TimerIsUsed
<1> QED
  BY <1>1, <1>3, <1>4 DEF IInv

(* setup_callback: one more session, one more timer.                        *)
LEMMA SendKeepsIInv ==
  ASSUME IInv, NEW dev \in Device, NEW req \in Request, SendPacket(dev, req)
  PROVE  IInv' /\ NextSid \in Sid \ Used /\ Used' = Used \cup {NextSid}
<1> USE DEF IInv
<1>1. NextSid \in Sid \ Used
  BY SearchFinds, NextSidIsNearest DEF SendPacket
<1> DEFINE new == [req |-> req, slip_device |-> dev, retransmit |-> Retransmit[dev]]
<1>2. new \in Session
  BY RetransmitAssumption DEF Session
<1>3. callbacks' = [callbacks EXCEPT ![NextSid] = new]
  BY DEF SendPacket
<1>4. TypeOK'
  BY <1>1, <1>2, <1>3 DEF TypeOK, SendPacket
<1>5. Used' = Used \cup {NextSid}
  BY <1>1, <1>2, <1>3, FreeAssumption DEF TypeOK, Used
<1>6. CountIsUsed'
  <2>1. Cardinality(Used') = Cardinality(Used) + 1
    BY <1>1, <1>5, SidFinite, FS_AddElement
  <2> QED
    BY <2>1 DEF CountIsUsed, SendPacket
<1>7. TimerIsUsed'
  BY <1>5 DEF TimerIsUsed, SendPacket
<1> QED
  BY <1>1, <1>4, <1>5, <1>6, <1>7

(* A session ended by a report or by its timer: one less of each.           *)
LEMMA ReleaseKeepsIInv ==
  ASSUME IInv, NEW s \in Used, Release(s)
  PROVE  IInv' /\ Used' = Used \ {s}
<1> USE DEF IInv
<1>1. s \in Sid
  BY DEF Used
<1>2. TypeOK'
  BY <1>1 DEF TypeOK, Release
<1>3. Used' = Used \ {s}
  BY <1>1 DEF TypeOK, Used, Release
<1>4. CountIsUsed'
  <2>1. Cardinality(Used') = Cardinality(Used) - 1
    BY <1>3, SidFinite, FS_RemoveElement
  <2> QED
    BY <2>1 DEF CountIsUsed, Release
<1>5. TimerIsUsed'
  BY <1>3 DEF TimerIsUsed, Release
<1> QED
  BY <1>2, <1>3, <1>4, <1>5

(* A retransmission keeps the session and its timer.                        *)
LEMMA RetransmitKeepsIInv ==
  ASSUME IInv, NEW s \in Sid, PacketRetransmit(s)
  PROVE  IInv' /\ Used' = Used
<1> USE DEF IInv
<1> DEFINE again == [callbacks[s] EXCEPT !.retransmit = @ - 1]
<1>1. callbacks[s] \in Session /\ callbacks[s].retransmit > 0
  BY DEF PacketRetransmit, Used, TypeOK
<1>2. again \in Session
  BY <1>1 DEF Session
<1>3. callbacks' = [callbacks EXCEPT ![s] = again]
  BY DEF PacketRetransmit
<1>4. TypeOK'
  BY <1>2, <1>3 DEF TypeOK, PacketRetransmit
<1>5. Used' = Used
  BY <1>2, <1>3, FreeAssumption DEF TypeOK, Used, PacketRetransmit
<1> QED
  BY <1>4, <1>5 DEF CountIsUsed, TimerIsUsed, PacketRetransmit

LEMMA NextKeepsIInv == IInv /\ [Next]_vars => IInv'
<1> SUFFICES ASSUME IInv, [Next]_vars PROVE IInv'
  OBVIOUS
<1>1. ASSUME NEW dev \in Device, NEW req \in Request, SendPacket(dev, req) PROVE IInv'
  BY <1>1, SendKeepsIInv
<1>2. ASSUME NEW s \in Sid, PacketSent(s) PROVE IInv'
  BY <1>2, ReleaseKeepsIInv DEF PacketSent
<1>3. ASSUME NEW s \in Sid, PacketRetransmit(s) PROVE IInv'
  BY <1>3, RetransmitKeepsIInv
<1>4. ASSUME NEW s \in Sid, PacketTimeout(s) PROVE IInv'
  BY <1>4, ReleaseKeepsIInv DEF PacketTimeout
<1>5. CASE UNCHANGED vars
  BY <1>5 DEF vars, IInv, TypeOK, CountIsUsed, TimerIsUsed, Used
<1> QED
  BY <1>1, <1>2, <1>3, <1>4, <1>5 DEF Next

LEMMA SpecIInv == Spec => []IInv
<1>1. Init => IInv
  BY InitIInv
<1>2. IInv /\ [Next]_vars => IInv'
  BY NextKeepsIInv
<1> QED
  BY <1>1, <1>2, PTL DEF Spec

(* The variables keep their types whatever the radios answer and whenever   *)
(* (native-rdc.c, callbacks, callback_pos, callback_count).                 *)
THEOREM SpecTypeOK == Spec => []TypeOK
<1>1. IInv => TypeOK
  BY DEF IInv
<1> QED
  BY <1>1, SpecIInv, PTL

(* callback_count is the number of sessions in use: the search loop of      *)
(* setup_callback always ends (native-rdc.c, setup_callback).               *)
THEOREM SpecCountIsUsed == Spec => [](CountIsUsed /\ SearchEnds)
<1>1. IInv => CountIsUsed /\ SearchEnds
  BY SearchFinds DEF IInv, SearchEnds
<1> QED
  BY <1>1, SpecIInv, PTL

(* The timers that are set are those of the sessions in use: none can be    *)
(* left waiting for ever (native-rdc.c, packet_sent and packet_timeout).    *)
THEOREM SpecTimerIsUsed == Spec => []TimerIsUsed
<1>1. IInv => TimerIsUsed
  BY DEF IInv
<1> QED
  BY <1>1, SpecIInv, PTL

(* A session id is not given to two sends in a row while another is free,   *)
(* for any table size (native-rdc.c, setup_callback).                       *)
THEOREM SpecNoImmediateReuse == Spec => NoImmediateReuse
<1> DEFINE A == \A s \in Sid :
                  s = callback_pos /\ s \notin Used /\ s \in Used'
                    => Sid \ {s} \subseteq Used
<1>1. IInv /\ [Next]_vars => [A]_vars
  <2> SUFFICES ASSUME IInv, Next, NEW s \in Sid,
                      s = callback_pos, s \notin Used, s \in Used',
                      NEW t \in Sid \ {s}, t \notin Used
               PROVE  FALSE
    OBVIOUS
  <2>1. PICK dev \in Device, req \in Request : SendPacket(dev, req)
    <3>1. ASSUME NEW u \in Sid, PacketSent(u) \/ PacketTimeout(u) PROVE FALSE
      BY <3>1, ReleaseKeepsIInv DEF PacketSent, PacketTimeout
    <3>2. ASSUME NEW u \in Sid, PacketRetransmit(u) PROVE FALSE
      BY <3>2, RetransmitKeepsIInv
    <3> QED
      BY <3>1, <3>2 DEF Next
  <2>2. s = NextSid
    BY <2>1, SendKeepsIInv
  <2>3. Distance(s) <= Distance(t)
    BY <2>2, NextSidIsNearest DEF IInv
  <2> QED
    BY <2>3, MaxCallbacksAssumption DEF IInv, TypeOK, Sid, Distance
<1>2. Spec => [][A]_vars
  BY <1>1, SpecIInv, PTL DEF Spec
<1> QED
  BY <1>2 DEF NoImmediateReuse
=============================================================================
