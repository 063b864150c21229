------------------------------ MODULE RadioTx ------------------------------
(* The transmit path of the border router: llsec, multi-radio               *)
(* (examples/6lbr/6lbr/multi-radio.c), csma, native-rdc and the slip radios *)
(* at the far end of the serial lines.  The queues are those of Csma, the   *)
(* sessions those of NativeRdc; here they run against each other.           *)
(*                                                                          *)
(* The interface a callback is about travels in one global variable,        *)
(* multi_radio_input_ifindex, which the reader of the serial line and       *)
(* packet_timeout set and multi-radio resets to -1.  csma compares it with  *)
(* the interface kept in the metadata of a packet, so a callback made while *)
(* it holds another value is about no packet csma knows.                    *)
EXTENDS Integers, Sequences, FiniteSets, Bags

CONSTANTS
  Packet, Addr, NoAddr, Slot, MaxPacketPerNeighbor, MaxQueuedPackets,
  MaxBackoff, MaxTransmissions, NumTx, SeqnoMod,             \* see Csma
  MaxCallbacks, Device, Retransmit, Free,                    \* see NativeRdc
  RadioStatus,     \* the statuses a radio may answer with
  Unknown,         \* NETWORK_ITF_UNKNOWN, (uint8_t)-1
  Broadcast,       \* the null address, which is never learnt
  FramerFails,     \* whether NETSTACK_FRAMER.create may fail (PAN id 0xffff)
  RxAttributes,    \* deserialize_rx_attrs
  LateAnswers,     \* whether a radio may answer after the slip timeout
  MaxJobs          \* frames a radio keeps: more are lost

ASSUME UnknownAssumption == Unknown \notin Device
ASSUME SlotAssumption    == IsFiniteSet(Slot)
ASSUME MacAssumption     ==     \* see Csma
  /\ NoAddr \notin Addr
  /\ MaxPacketPerNeighbor \in Nat \ {0} /\ MaxQueuedPackets \in Nat
  /\ MaxBackoff \in Nat /\ SeqnoMod \in Nat \ {0}
  /\ MaxTransmissions \subseteq 1 .. 255 /\ NumTx \subseteq 1 .. 255
  /\ RadioStatus \subseteq {"OK", "COLLISION", "NOACK", "ERR", "ERR_FATAL"}

VARIABLES
  addr, queued_packet_list, transmissions, collisions, transmit_timer, mac_dsn,
  submitted, reports,                                   \* the csma layer
  callbacks, callback_pos, callback_count, timeout,     \* native-rdc
  multi_radio_input_ifindex,
  nbr_ifindex,     \* uip_ds6_nbr_t.ifindex: where an address was heard last
  radio,           \* a bag: the frames the radios have not answered yet
  lost,            \* the frames whose callback csma could not attribute
  delivered        \* the packets a radio reported as sent, whatever came of it

Frame == [ptr : Slot, seqno : 0 .. SeqnoMod - 1, ifindex : Device, id : Packet]

Rdc == INSTANCE NativeRdc WITH Request <- Frame

ASSUME RdcAssumption ==         \* see NativeRdc
  /\ MaxCallbacks \in Nat \ {0}
  /\ Retransmit \in [Device -> Nat]
  /\ Free \notin Rdc!Session

(* What csma may still be called back for: the sessions in use, and the     *)
(* frames it will never hear of again.                                      *)
Pending == {callbacks[s].req : s \in Rdc!Used}
Mac == INSTANCE Csma WITH Ifindex <- Device, rdc <- Pending \cup lost,
                     RdcStatus <- RadioStatus \cup {"NOACK"}, NumTx <- NumTx \cup {1}

rdcVars == <<callbacks, callback_pos, callback_count, timeout>>
macVars == <<addr, queued_packet_list, transmissions, collisions, transmit_timer,
             mac_dsn, submitted, reports>>
envVars == <<radio, delivered>>
vars == <<macVars, rdcVars, multi_radio_input_ifindex, nbr_ifindex, envVars, lost>>

Init ==
  /\ addr = [n \in Slot |-> NoAddr]
  /\ queued_packet_list = [n \in Slot |-> <<>>]
  /\ transmissions = [n \in Slot |-> 0]
  /\ collisions = [n \in Slot |-> 0]
  /\ transmit_timer = {}
  /\ mac_dsn \in 0 .. SeqnoMod - 1
  /\ submitted = {}
  /\ reports = [p \in Packet |-> <<>>]
  /\ Rdc!Init
  /\ multi_radio_input_ifindex = Unknown
  /\ nbr_ifindex = [a \in Addr |-> Unknown]
  /\ radio = EmptyBag
  /\ lost = {}
  /\ delivered = {}
-----------------------------------------------------------------------------
(* The layers above.  wireless_output sends a packet by the interface its   *)
(* receiver was heard on or, when there is none, by each of them.           *)

SendPacket(p, a, i, max, n) ==
  /\ nbr_ifindex[a] \in {i, Unknown}
  /\ Mac!SendPacket(p, a, i, max, n)
  /\ UNCHANGED <<rdcVars, multi_radio_input_ifindex, nbr_ifindex, envVars, lost>>

(* csma cannot take it: multi-radio's packet_sent reports MAC_TX_ERR.       *)
SendPacketRefused(p, a) ==
  /\ Mac!SendPacketRefused(p, a)
  /\ multi_radio_input_ifindex' = Unknown
  /\ UNCHANGED <<rdcVars, nbr_ifindex, envVars, lost>>

(* multi-radio's packet_input: the sender of a received frame is learnt.    *)
PacketInput(dev, a) ==
  /\ nbr_ifindex' = IF a = Broadcast THEN nbr_ifindex ELSE [nbr_ifindex EXCEPT ![a] = dev]
  /\ multi_radio_input_ifindex' = Unknown
  /\ UNCHANGED <<macVars, rdcVars, envVars, lost>>

(* slip_packet_input returns early from a frame with illegal attributes: it *)
(* has set the interface and does not reset it.                             *)
IllegalAttributes(dev) ==
  /\ RxAttributes
  /\ multi_radio_input_ifindex' = dev
  /\ UNCHANGED <<macVars, rdcVars, nbr_ifindex, envVars, lost>>
-----------------------------------------------------------------------------
(* A callback from the radio driver to csma, on to multi-radio's            *)
(* packet_sent and up, made while multi_radio_input_ifindex is input.  Only *)
(* a callback that reaches multi-radio learns the interface and resets the  *)
(* variable; left is its value otherwise.                                   *)
Reported == reports' # reports

Callback(f, input, status, ntx, armed, left) ==
  /\ \/ Mac!PacketSent(f.ptr, f.seqno, input, status, ntx, armed) /\ UNCHANGED lost
     \/ Mac!NotFound(f.ptr, f.seqno, input, armed) /\ lost' = lost \cup {f}
  /\ nbr_ifindex' =
       IF Reported /\ status = "OK" /\ input # Unknown /\ addr[f.ptr] # Broadcast
         THEN [nbr_ifindex EXCEPT ![addr[f.ptr]] = input] ELSE nbr_ifindex
  /\ multi_radio_input_ifindex' = IF Reported THEN Unknown ELSE left
  /\ UNCHANGED mac_dsn

(* A transmit timer fires and the driver takes the head of the queue.       *)
Job(sid, f) == [dev |-> f.ifindex, sid |-> sid, id |-> f.id]
Written(j)  == IF BagCardinality(radio) < MaxJobs THEN radio (+) SetToBag({j}) ELSE radio

Transmit(n) ==
  /\ Mac!TransmitPacketList(n)
  /\ Rdc!SendPacket(Mac!HeadFrame(n).ifindex, Mac!HeadFrame(n))
  /\ radio' = Written(Job(Rdc!NextSid, Mac!HeadFrame(n)))
  /\ UNCHANGED <<multi_radio_input_ifindex, nbr_ifindex, lost, delivered>>

(* The framer fails, or every session is in use: the driver calls back      *)
(* under the timer, when no interface is set unless a timeout left one.     *)
CalledBackAtOnce(n, status) ==
  /\ Mac!Fires(n)
  /\ Callback(Mac!HeadFrame(n), multi_radio_input_ifindex, status, 1,
              transmit_timer \ {n}, multi_radio_input_ifindex)
  /\ UNCHANGED envVars

FramerFailed(n) ==
  /\ FramerFails
  /\ CalledBackAtOnce(n, "ERR_FATAL")
  /\ UNCHANGED rdcVars

QueueFull(n) ==
  /\ CalledBackAtOnce(n, "NOACK")
  /\ Rdc!QueueFull

(* A report "!R sid status tx" is read from the line of the radio that sent *)
(* it: the session is ended, if it is in use, for whichever frame it holds. *)
Answer(j, status, ntx) ==
  /\ BagIn(j, radio)
  /\ radio' = radio (-) SetToBag({j})
  /\ delivered' = IF status = "OK" THEN delivered \cup {j.id} ELSE delivered
  /\ \/ /\ Rdc!PacketSent(j.sid)
        /\ Callback(callbacks[j.sid].req, j.dev, status, ntx, transmit_timer, Unknown)
     \/ /\ Rdc!PacketSentUnknown(j.sid)
        /\ multi_radio_input_ifindex' = Unknown
        /\ UNCHANGED <<macVars, nbr_ifindex, lost>>

(* The line or the air loses a frame or its answer, or the radio restarts.  *)
Lose(j) ==
  /\ BagIn(j, radio)
  /\ radio' = radio (-) SetToBag({j})
  /\ UNCHANGED <<macVars, rdcVars, multi_radio_input_ifindex, nbr_ifindex, delivered, lost>>

(* packet_timeout.  When answers are never late, the frame and its answer   *)
(* are lost by now.                                                         *)
TooLate(s) == \A j \in BagToSet(radio) : j.sid # s
InTime(s)  == LateAnswers \/ TooLate(s)

Retransmission(s) ==
  /\ Rdc!PacketRetransmit(s) /\ InTime(s)
  /\ radio' = Written(Job(s, callbacks[s].req))
  /\ UNCHANGED <<macVars, multi_radio_input_ifindex, nbr_ifindex, lost, delivered>>

Timeout(s) ==
  /\ Rdc!PacketTimeout(s) /\ InTime(s)
  /\ Callback(callbacks[s].req, callbacks[s].slip_device, "NOACK", 1,
              transmit_timer, callbacks[s].slip_device)
  /\ UNCHANGED envVars
-----------------------------------------------------------------------------
Next ==
  \/ \E p \in Packet, a \in Addr :
       \/ \E i \in Device, max \in MaxTransmissions, n \in Slot : SendPacket(p, a, i, max, n)
       \/ SendPacketRefused(p, a)
  \/ \E dev \in Device : IllegalAttributes(dev) \/ \E a \in Addr : PacketInput(dev, a)
  \/ \E n \in Slot : Transmit(n) \/ FramerFailed(n) \/ QueueFull(n)
  \/ \E j \in BagToSet(radio) :
       Lose(j) \/ \E status \in RadioStatus, ntx \in NumTx : Answer(j, status, ntx)
  \/ \E s \in Rdc!Sid : Retransmission(s) \/ Timeout(s)

(* Timers run; frames that will not be answered in time are lost in the end.*)
Fairness ==
  /\ \A n \in Slot : WF_vars(Transmit(n) \/ FramerFailed(n) \/ QueueFull(n))
  /\ \A s \in Rdc!Sid : WF_vars(Retransmission(s) \/ Timeout(s))
  /\ WF_vars(\E j \in BagToSet(radio) : Lose(j))

Spec     == Init /\ [][Next]_vars
FairSpec == Spec /\ Fairness
-----------------------------------------------------------------------------
(* The session table and the serial line give csma what it relies on: every *)
(* callback that reaches a queue is for the frame that queue has under way. *)
(* What goes wrong is only that a callback is lost: its frame then stays    *)
(* under way for ever. This is so while no packet has the number of the one *)
(* at the head of its queue: a callback that names the wrong interface may  *)
(* be taken for one about the packet behind it with the same number.        *)
ImplementsCsma == Mac!Spec

HeadNumberUnique ==
  \A n \in Slot : \A k \in DOMAIN queued_packet_list[n] :
    k > 1 => queued_packet_list[n][k].seqno # queued_packet_list[n][1].seqno

(* A session holds the pointer of a neighbor queue that is in use, and no   *)
(* two sessions that of one queue: setup_callback keeps a bare pointer, and *)
(* csma frees the queue with its last packet and gives it to another        *)
(* address. So there are never more sessions than queues in use.            *)
SessionsWithinQueues ==
  /\ \A s \in Rdc!Used : callbacks[s].req.ptr \in Mac!Allocated
  /\ \A r, s \in Rdc!Used : callbacks[r].req.ptr = callbacks[s].req.ptr => r = s
  /\ callback_count <= Cardinality(Mac!Allocated)

(* A packet is reported as sent only if a radio has said so of that packet, *)
(* as long as radios do not answer after the slip timeout.                  *)
NoFalseOk == \A p \in Packet : reports[p] = <<"OK">> => p \in delivered

(* Every packet sent is reported on once, and in the end it is.             *)
Promise == INSTANCE SentOnce WITH Status <- Mac!Status
KeepsPromise == Promise!FairSpec

(* A fatal error of the driver ends the transmission: the packet is         *)
(* reported on, as nothing else will be done about it.                      *)
FatalIsReported ==
  [][ \A n \in Slot :
        FramerFailed(n) => reports'[Mac!HeadFrame(n).id] = <<"ERR_FATAL">> ]_vars
=============================================================================
