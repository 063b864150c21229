------------------------------ MODULE SlipOut ------------------------------
(* The output buffer of a slip device, examples/6lbr/platform/native/       *)
(* slip-dev.c: write_to_slip appends whole packets, slip_flushbuf gives the *)
(* descriptor at most one packet at a time, as much of it as it will take,  *)
(* and then moves what is left to the front of the buffer.                  *)
(*                                                                          *)
(* A byte is END or the number of the payload byte, so that two bytes are   *)
(* never confused; escapes and the CRC only make a packet longer.           *)
EXTENDS Integers, Sequences, FiniteSets

CONSTANTS
  BufSize,     \* sizeof(slip_buf)
  PacketLen,   \* lengths of packets as written: escaped, with CRC, without END
  SendDelay,   \* whether send_delay > 0
  MaxBytes     \* bound on the bytes accepted over a run

ASSUME BufSizeAssumption == BufSize \in Nat \ {0}
ASSUME PacketLenAssumption == PacketLen \subseteq Nat \ {0}
ASSUME SendDelayAssumption == SendDelay \in BOOLEAN

END  == 0
Byte == Nat

VARIABLES
  slip_buf,            \* its first slip_end bytes
  slip_begin, slip_packet_end, slip_packet_count,
  send_delay_timer,    \* whether it still runs
  exited,              \* slip_send overflow: the process has called exit(1)
  sent,                \* every byte slip_send accepted
  written,             \* every byte the descriptor took
  overlapped           \* whether a memcpy between overlapping areas went wrong

device == <<slip_buf, slip_begin, slip_packet_end, slip_packet_count, send_delay_timer>>
vars   == <<device, exited, sent, written, overlapped>>

slip_end == Len(slip_buf)

(* slip_init_dev opens the line and sends one END.                          *)
Init ==
  /\ slip_buf = <<END>>
  /\ slip_begin = 0 /\ slip_packet_end = 1 /\ slip_packet_count = 1
  /\ send_delay_timer = FALSE
  /\ exited = FALSE
  /\ sent = <<END>> /\ written = <<>>
  /\ overlapped = FALSE
-----------------------------------------------------------------------------
(* write_to_slip: the bytes of a packet, then END, through slip_send.       *)
PacketBytes(len) == [k \in 1 .. len + 1 |-> IF k = len + 1 THEN END ELSE Len(sent) + k]

(* Faulty: the last byte of the buffer is not left out.                     *)
RoomOffByOne(len) == slip_end + len <= BufSize
Room(len) == slip_end + len + 1 <= BufSize

Accept(len, end, count) ==
  /\ Room(len)
  /\ slip_buf' = slip_buf \o PacketBytes(len)
  /\ sent' = sent \o PacketBytes(len)
  /\ slip_packet_end' = end
  /\ slip_packet_count' = count
  /\ UNCHANGED <<slip_begin, send_delay_timer, exited, written, overlapped>>

FirstEnd(len) == IF slip_packet_end = 0 THEN slip_end + len + 1 ELSE slip_packet_end

(* Faulty: the end of the last packet is kept; only the first is counted.   *)
WriteToSlipLast(len) == Accept(len, slip_end + len + 1, slip_packet_count + 1)
WriteToSlipOnce(len) ==
  Accept(len, FirstEnd(len), IF slip_packet_end = 0 THEN slip_packet_count + 1 ELSE slip_packet_count)

WriteToSlip(len) == Accept(len, FirstEnd(len), slip_packet_count + 1)

(* There is no room for it: slip_send gives up, and the process with it.    *)
Overflow(len) ==
  /\ ~ Room(len)
  /\ exited' = TRUE
  /\ UNCHANGED <<device, sent, written, overlapped>>
-----------------------------------------------------------------------------
(* slip_flushbuf, called when the descriptor can be written to.  memcpy is  *)
(* called for areas that overlap when the rest is longer than the packet    *)
(* that left: it may copy from either end.                                  *)
Rest(buf, n)       == SubSeq(buf, n + 1, Len(buf))
Overlaps(n)        == slip_end - n > n
CopiedFromBack(buf, n) ==
  [i \in 1 .. Len(buf) - n |-> buf[Len(buf) - ((Len(buf) - i) % n)]]

(* Where the first packet of buf ends.  The search begins at buf[1].        *)
Ends(buf) == {k \in 2 .. Len(buf) : buf[k] = END}
NextEndLast(buf) ==                          \* faulty: the last packet
  IF Ends(buf) = {} THEN 0 ELSE CHOOSE k \in Ends(buf) : \A j \in Ends(buf) : j <= k
NextEndNone(buf) == 0                        \* faulty: no search
NextEnd(buf) ==
  IF Ends(buf) = {} THEN 0 ELSE CHOOSE k \in Ends(buf) : \A j \in Ends(buf) : k <= j

Ready == slip_packet_end # 0 /\ ~ send_delay_timer

Written(n) ==
  written' = written \o SubSeq(slip_buf, slip_begin + 1, slip_begin + n)

(* Faulty: slip_begin is not moved.                                         *)
FlushPartAgain(n) ==
  Ready /\ slip_begin + n < slip_packet_end /\ Written(n)
  /\ UNCHANGED <<device, exited, sent, overlapped>>

(* The descriptor takes a part of the packet.                               *)
FlushPart(n) ==
  /\ Ready
  /\ slip_begin + n < slip_packet_end
  /\ Written(n)
  /\ slip_begin' = slip_begin + n
  /\ UNCHANGED <<slip_buf, slip_packet_end, slip_packet_count, send_delay_timer,
                 exited, sent, overlapped>>

(* It takes all that was left of the packet.                                *)
FlushPacket ==
  /\ Ready
  /\ Written(slip_packet_end - slip_begin)
  /\ slip_packet_count' = slip_packet_count - 1
  /\ \/ slip_buf' = Rest(slip_buf, slip_packet_end) /\ UNCHANGED overlapped
     \/ /\ Overlaps(slip_packet_end)
        /\ slip_buf' = CopiedFromBack(slip_buf, slip_packet_end)
        /\ overlapped' = TRUE
  /\ slip_begin' = 0
  /\ slip_packet_end' = NextEnd(slip_buf')
  /\ send_delay_timer' = (SendDelay /\ slip_buf' # <<>>)
  /\ UNCHANGED <<exited, sent>>

(* write() fails: so does the process.                                      *)
WriteFails ==
  /\ Ready
  /\ exited' = TRUE
  /\ UNCHANGED <<device, sent, written, overlapped>>

DelayExpires ==
  /\ send_delay_timer
  /\ send_delay_timer' = FALSE
  /\ UNCHANGED <<slip_buf, slip_begin, slip_packet_end, slip_packet_count,
                 exited, sent, written, overlapped>>

Next ==
  /\ ~ exited
  /\ \/ \E len \in PacketLen :
          Len(sent) + len < MaxBytes /\ (WriteToSlip(len) \/ Overflow(len))
     \/ \E n \in 1 .. slip_end : FlushPart(n)
     \/ FlushPacket
     \/ WriteFails
     \/ DelayExpires

(* The radio keeps reading its line.                                        *)
Fairness == WF_vars(~ exited /\ FlushPacket) /\ WF_vars(~ exited /\ DelayExpires)

Spec     == Init /\ [][Next]_vars
FairSpec == Spec /\ Fairness
-----------------------------------------------------------------------------
TypeOK ==
  /\ slip_buf \in Seq(Byte) /\ slip_end <= BufSize
  /\ slip_begin \in Nat
  /\ slip_packet_end \in 0 .. slip_end
  /\ slip_packet_count \in Int
  /\ send_delay_timer \in BOOLEAN /\ exited \in BOOLEAN /\ overlapped \in BOOLEAN
  /\ sent \in Seq(Byte) /\ written \in Seq(Byte)

(* Nothing is lost, repeated or moved: what the radio was given and what is *)
(* still in the buffer make up what was sent, however the writes were cut,  *)
(* unless memcpy was given overlapping areas and copied from the back.      *)
InOrder == ~ overlapped => written \o Rest(slip_buf, slip_begin) = sent

(* slip_packet_end is the end of the first packet of the buffer, and 0 only *)
(* if there is none: select is asked to wait for the device just when a     *)
(* whole packet is there to be written.                                     *)
EndIsFirst ==
  ~ overlapped =>
    /\ slip_packet_end = 0 => slip_buf = <<>> /\ slip_begin = 0
    /\ slip_packet_end # 0 =>
         /\ slip_begin < slip_packet_end
         /\ slip_buf[slip_packet_end] = END
         /\ \A k \in 1 .. slip_packet_end - 1 : slip_buf[k] # END

(* slip_packet_count counts the packets in the buffer.                      *)
CountIsPackets ==
  ~ overlapped =>
    slip_packet_count = Cardinality({k \in 1 .. slip_end : slip_buf[k] = END})

(* No write goes past the end of a packet, and with send_delay set the next *)
(* packet is not begun before the timer has run out.                        *)
OnePacketPerDelay ==
  [][ (SendDelay /\ ~ overlapped /\ Len(written') > Len(written))
        => /\ ~ send_delay_timer
           /\ \A k \in Len(written) + 1 .. Len(written') - 1 : written'[k] # END
           /\ written'[Len(written')] = END /\ slip_buf' # <<>> => send_delay_timer' ]_vars

(* Every byte accepted is written in the end.                               *)
AllWritten ==
  \A n \in 1 .. MaxBytes :
    Len(sent) >= n ~> (Len(written) >= n \/ exited \/ overlapped)
=============================================================================
