----------------------------- MODULE NativeRdc -----------------------------
(* The session table of the border router's radio driver,                   *)
(* examples/6lbr/platform/native/native-rdc.c.                              *)
(*                                                                          *)
(* A frame handed to a slip radio is remembered in callbacks[sid] until the *)
(* radio reports on it ("!R sid status tx") or the session's ctimer runs    *)
(* out of retransmissions.  The reader of the serial line trusts the byte   *)
(* sid alone: nothing else ties a report to the frame it is about.          *)
(*                                                                          *)
(* A request is what the caller leaves with the driver: the callback, its   *)
(* pointer, the packet attributes and the bytes of the frame.               *)
EXTENDS Integers, FiniteSets

CONSTANTS
  MaxCallbacks,    \* MAX_CALLBACKS
  Device,          \* the slip devices
  Request,         \* what a caller may ask to send
  Retransmit,      \* slip_descr_t.retransmit, for each device
  Free             \* what an entry of callbacks holds when isused = 0

ASSUME MaxCallbacksAssumption == MaxCallbacks \in Nat \ {0}
ASSUME RetransmitAssumption   == Retransmit \in [Device -> Nat]

Sid     == 0 .. MaxCallbacks - 1
Session == [req : Request, slip_device : Device, retransmit : Nat]

ASSUME FreeAssumption == Free \notin Session

VARIABLES
  callbacks,       \* [Sid -> Session \cup {Free}]
  callback_pos,    \* the session id given out last
  callback_count,  \* how many sessions are in use, as the code counts them
  timeout          \* the session ids whose ctimer is set

vars == <<callbacks, callback_pos, callback_count, timeout>>

Used == {s \in Sid : callbacks[s] # Free}

Init ==
  /\ callbacks = [s \in Sid |-> Free]
  /\ callback_pos = 0
  /\ callback_count = 0
  /\ timeout = {}

(* How far the search loop of setup_callback goes from callback_pos, round  *)
(* the table, to reach s; the last id it reaches is callback_pos itself.    *)
Distance(s) ==
  IF s > callback_pos THEN s - callback_pos ELSE s - callback_pos + MaxCallbacks

(* Faulty searches: from the start of the table, and without a look at      *)
(* isused.                                                                  *)
NextSidFromZero == CHOOSE s \in Sid \ Used : \A t \in Sid \ Used : s <= t
NextSidBlind    == (callback_pos + 1) % MaxCallbacks

(* The first id it finds that is not in use.                                *)
NextSid ==
  CHOOSE s \in Sid \ Used : \A t \in Sid \ Used : Distance(s) <= Distance(t)

(* setup_callback, then the frame "!S sid ..." is written to the device.    *)
SendPacket(dev, req) ==
  /\ callback_count < MaxCallbacks
  /\ callback_pos' = NextSid
  /\ callback_count' = callback_count + 1
  /\ callbacks' = [callbacks EXCEPT ![NextSid] =
       [req |-> req, slip_device |-> dev, retransmit |-> Retransmit[dev]]]
  /\ timeout' = timeout \cup {NextSid}

(* No session is left: the caller is told MAC_TX_NOACK at once.             *)
QueueFull ==
  /\ callback_count >= MaxCallbacks
  /\ UNCHANGED vars

(* Faulty ends of a session: ctimer_stop, or the count, is forgotten.       *)
ReleaseKeepsTimer(s) ==
  /\ callback_count' = callback_count - 1
  /\ callbacks' = [callbacks EXCEPT ![s] = Free]
  /\ UNCHANGED <<callback_pos, timeout>>

ReleaseKeepsCount(s) ==
  /\ callbacks' = [callbacks EXCEPT ![s] = Free]
  /\ timeout' = timeout \ {s}
  /\ UNCHANGED <<callback_pos, callback_count>>

(* A session is over: count, mark and timer, in the order of the code.      *)
Release(s) ==
  /\ callback_count' = callback_count - 1
  /\ callbacks' = [callbacks EXCEPT ![s] = Free]
  /\ timeout' = timeout \ {s}
  /\ UNCHANGED callback_pos

(* Faulty: the callback is made but isused stays 1.                         *)
PacketSentKeepsSession(s) == s \in Used /\ UNCHANGED vars

(* packet_sent: a report for session s, whichever radio it comes from.      *)
PacketSent(s) == s \in Used /\ Release(s)

(* packet_sent for an id that is too high or not in use: logged only.       *)
PacketSentUnknown(s) == s \notin Used /\ UNCHANGED vars

(* Faulty: retransmissions are not counted, or the count is not looked at.  *)
PacketRetransmitEndless(s) ==
  s \in timeout /\ s \in Used /\ callbacks[s].retransmit > 0 /\ UNCHANGED vars

PacketRetransmitUnguarded(s) ==
  /\ s \in timeout /\ s \in Used
  /\ callbacks' = [callbacks EXCEPT ![s].retransmit = @ - 1]
  /\ UNCHANGED <<callback_pos, callback_count, timeout>>

(* packet_timeout with retransmissions left: the same frame goes out again  *)
(* under the same session id.                                               *)
PacketRetransmit(s) ==
  /\ s \in timeout /\ s \in Used
  /\ callbacks[s].retransmit > 0
  /\ callbacks' = [callbacks EXCEPT ![s].retransmit = @ - 1]
  /\ UNCHANGED <<callback_pos, callback_count, timeout>>

(* Faulty: the caller is told but the session stays in use.                 *)
PacketTimeoutKeepsSession(s) ==
  /\ s \in timeout /\ s \in Used
  /\ callbacks[s].retransmit = 0
  /\ timeout' = timeout \ {s}
  /\ UNCHANGED <<callbacks, callback_pos, callback_count>>

(* packet_timeout with none left: the caller is told MAC_TX_NOACK.          *)
PacketTimeout(s) ==
  /\ s \in timeout /\ s \in Used
  /\ callbacks[s].retransmit = 0
  /\ Release(s)

Next ==
  \/ \E dev \in Device, req \in Request : SendPacket(dev, req)
  \/ \E s \in Sid : PacketSent(s) \/ PacketRetransmit(s) \/ PacketTimeout(s)

(* Timers run whatever the radio does.                                      *)
Fairness == \A s \in Sid : WF_vars(PacketRetransmit(s) \/ PacketTimeout(s))

Spec     == Init /\ [][Next]_vars
FairSpec == Spec /\ Fairness
-----------------------------------------------------------------------------
TypeOK ==
  /\ callbacks \in [Sid -> Session \cup {Free}]
  /\ callback_pos \in Sid
  /\ callback_count \in Int
  /\ timeout \subseteq Sid

(* The counter that guards setup_callback agrees with the marks its search  *)
(* loop reads: were it ever too low, the loop would never end.              *)
CountIsUsed == callback_count = Cardinality(Used)

(* A session in use has its timer set and no other timer is: no session can *)
(* be left waiting for a report that will not come, and no timer can end a  *)
(* session it was not set for.                                              *)
TimerIsUsed == timeout = Used

(* The search loop of setup_callback ends: it is entered only when some id  *)
(* is free.                                                                 *)
SearchEnds == callback_count < MaxCallbacks => \E s \in Sid : s \notin Used

(* The id given out last is given out again only if every other one is in   *)
(* use: a late report on a frame cannot be taken for one on the next frame  *)
(* as long as another session id was free.                                  *)
NoImmediateReuse ==
  [][ \A s \in Sid :
        s = callback_pos /\ s \notin Used /\ s \in Used'
          => Sid \ {s} \subseteq Used ]_vars

(* Every session ends, even if the radio never answers.                     *)
SessionEnds == \A s \in Sid : s \in Used ~> s \notin Used
=============================================================================
