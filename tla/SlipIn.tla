------------------------------- MODULE SlipIn -------------------------------
(* The reader of the slip devices, serial_input of                          *)
(* examples/6lbr/platform/native/slip-dev.c.                                *)
(*                                                                          *)
(* select calls it when a descriptor has bytes; it then reads one byte at a *)
(* time through stdio until fread finds nothing.  inbuf and inbufptr are    *)
(* static: there is one buffer for all devices.  What is not read yet is    *)
(* in the descriptor (line) or already in the FILE (stdio), and select      *)
(* looks at the former only.                                                *)
(*                                                                          *)
(* A byte is known by the message it belongs to, so that it can be told     *)
(* where the bytes of a packet come from.  The CRC is taken to catch every  *)
(* packet that is not a whole message as it was sent.                       *)
EXTENDS Integers, Sequences, FiniteSets, SequencesExt

CONSTANTS
  Device,      \* the slip devices
  Traffic,     \* what each device sends: messages, in order
  InbufSize,   \* sizeof(inbuf)
  MaxLost,     \* bound on the bytes the lines lose
  None         \* no device is being read

Message == [text : BOOLEAN,            \* a debug line, which has no CRC
            ok   : BOOLEAN,            \* not damaged on the line
            escaped : Seq(BOOLEAN)]    \* its bytes: is each written with ESC?

ASSUME TrafficAssumption == Traffic \in [Device -> Seq(Message)]
ASSUME SizeAssumption    == InbufSize \in Nat \ {0} /\ MaxLost \in Nat
ASSUME DeviceAssumption  == None \notin Device

VARIABLES
  crc8,      \* the devices with crc8 set, by the configuration
  out,       \* [Device -> Seq]: what the device has still to send
  line,      \* [Device -> Seq]: the bytes in the descriptor
  stdio,     \* [Device -> Seq]: the bytes in the FILE
  inbuf,     \* its first inbufptr bytes
  reading,   \* the device serial_input was called for, or None
  handled,   \* the packets passed on: [dev, bytes], in order
  crc_errors,\* [Device -> Nat]: the packets found damaged
  lost       \* the bytes the lines lost

lines == <<out, line, stdio>>
done  == <<handled, crc_errors, crc8>>
vars  == <<lines, inbuf, reading, done, lost>>

(* The bytes of message m of device d, and what is written for it: an END   *)
(* in front and one behind, and a byte that is END or ESC as ESC and a code.*)
Sym(s, d, m, k) == [s |-> s, dev |-> d, msg |-> m, pos |-> k]
Bytes(d, m) == [k \in DOMAIN Traffic[d][m].escaped |-> Sym("byte", d, m, k)]
Wire(d, m)  ==
  LET esc(k) == IF Traffic[d][m].escaped[k]
                  THEN <<Sym("esc", d, m, k), Sym("code", d, m, k)>>
                  ELSE <<Sym("byte", d, m, k)>>
  IN  <<Sym("end", d, m, 0)>> \o FlattenSeq([k \in DOMAIN Bytes(d, m) |-> esc(k)])
        \o <<Sym("end", d, m, Len(Bytes(d, m)) + 1)>>
Written == [d \in Device |-> FlattenSeq([m \in DOMAIN Traffic[d] |-> Wire(d, m)])]

Init ==
  /\ crc8 \in SUBSET Device
  /\ crc_errors = [d \in Device |-> 0]
  /\ out = Written
  /\ line = [d \in Device |-> <<>>]
  /\ stdio = [d \in Device |-> <<>>]
  /\ inbuf = <<>>
  /\ reading = None
  /\ handled = <<>>
  /\ lost = {}
-----------------------------------------------------------------------------
(* The line: bytes arrive one by one, or are lost.                          *)
Arrive(d) ==
  /\ out[d] # <<>>
  /\ line' = [line EXCEPT ![d] = Append(@, Head(out[d]))]
  /\ out' = [out EXCEPT ![d] = Tail(@)]
  /\ UNCHANGED <<stdio, inbuf, reading, done, lost>>

Lose(d) ==
  /\ out[d] # <<>> /\ Cardinality(lost) < MaxLost
  /\ lost' = lost \cup {Head(out[d])}
  /\ out' = [out EXCEPT ![d] = Tail(@)]
  /\ UNCHANGED <<line, stdio, inbuf, reading, done>>

(* select finds the descriptor readable.                                    *)
SerialInput(d) ==
  /\ reading = None /\ line[d] # <<>>
  /\ reading' = d
  /\ UNCHANGED <<lines, inbuf, done, lost>>
-----------------------------------------------------------------------------
(* One turn of the loop of serial_input for device d.                       *)

(* The next bytes fread returns: from the FILE, filled again when empty.    *)
Filled(d) == IF stdio[d] = <<>> THEN line[d] ELSE stdio[d]
Fread(d, rest) ==
  /\ stdio' = [stdio EXCEPT ![d] = rest]
  /\ line' = IF stdio[d] = <<>> THEN [line EXCEPT ![d] = <<>>] ELSE line
  /\ UNCHANGED out

(* A packet that fills the buffer is dropped.  Faulty: it is not, or only   *)
(* when it is too late.                                                     *)
Unchecked       == inbuf
CheckedTooLate  == IF Len(inbuf) > InbufSize THEN <<>> ELSE inbuf
Checked   == IF Len(inbuf) >= InbufSize THEN <<>> ELSE inbuf

(* Nothing is left to read: what was read of a packet stays in inbuf.       *)
NothingLeft(d) ==
  /\ Filled(d) = <<>>
  /\ inbuf' = Checked
  /\ reading' = None
  /\ UNCHANGED <<lines, done, lost>>

(* A byte, or an ESC and what follows it.                                   *)
Decoded(x) == IF x.s = "code" THEN [x EXCEPT !.s = "byte"] ELSE x

Byte(d) ==
  /\ Filled(d) # <<>> /\ Head(Filled(d)).s \in {"byte", "code"}
  /\ Fread(d, Tail(Filled(d)))
  /\ inbuf' = Append(Checked, Head(Filled(d)))
  /\ UNCHANGED <<reading, done, lost>>

Escape(d) ==
  /\ Len(Filled(d)) > 1 /\ Head(Filled(d)).s = "esc"
  /\ Fread(d, Tail(Tail(Filled(d))))
  /\ inbuf' = Append(Checked, Decoded(Filled(d)[2]))
  /\ UNCHANGED <<reading, done, lost>>

(* The ESC is the last byte there is and the next one has come meanwhile,   *)
(* or has not: then it is put back.                                         *)
EscapeRefilled(d) ==
  /\ Len(stdio[d]) = 1 /\ Head(stdio[d]).s = "esc" /\ line[d] # <<>>
  /\ stdio' = [stdio EXCEPT ![d] = Tail(line[d])]
  /\ line' = [line EXCEPT ![d] = <<>>]
  /\ inbuf' = Append(Checked, Decoded(Head(line[d])))
  /\ UNCHANGED <<out, reading, done, lost>>

(* Faulty: the ESC is not put back.                                         *)
EscapeForgotten(d) ==
  /\ Len(Filled(d)) = 1 /\ Head(Filled(d)).s = "esc"
  /\ stdio[d] = <<>> \/ line[d] = <<>>
  /\ Fread(d, <<>>)
  /\ inbuf' = Checked
  /\ reading' = None
  /\ UNCHANGED <<done, lost>>

EscapeAlone(d) ==
  /\ Len(Filled(d)) = 1 /\ Head(Filled(d)).s = "esc"
  /\ stdio[d] = <<>> \/ line[d] = <<>>
  /\ Fread(d, Filled(d))
  /\ inbuf' = Checked
  /\ reading' = None
  /\ UNCHANGED <<done, lost>>

(* END: the packet is passed on, or its CRC is wrong, and then serial_input *)
(* returns whatever fread has still to give.                                *)
Sound(buf) ==
  \/ Traffic[buf[1].dev][buf[1].msg].text
  \/ /\ Traffic[buf[1].dev][buf[1].msg].ok
     /\ buf = Bytes(buf[1].dev, buf[1].msg)

AtEnd(d) ==
  /\ Filled(d) # <<>> /\ Head(Filled(d)).s = "end"
  /\ Fread(d, Tail(Filled(d)))
  /\ UNCHANGED <<lost, crc8>>

PassOn(d, buf) ==
  /\ buf # <<>>
  /\ d \in crc8 => Sound(buf)
  /\ handled' = Append(handled, [dev |-> d, bytes |-> buf])
  /\ UNCHANGED crc_errors

EmptyPacket(d) ==
  /\ AtEnd(d)
  /\ Checked = <<>>
  /\ inbuf' = <<>>
  /\ UNCHANGED <<reading, handled, crc_errors>>

(* Faulty: inbufptr is not set back, or the loop is left.                   *)
PacketKept(d)    == AtEnd(d) /\ PassOn(d, Checked) /\ inbuf' = Checked /\ UNCHANGED reading
PacketReturns(d) == AtEnd(d) /\ PassOn(d, Checked) /\ inbuf' = <<>> /\ reading' = None

Packet(d) ==
  /\ AtEnd(d)
  /\ PassOn(d, Checked)
  /\ inbuf' = <<>>
  /\ UNCHANGED reading

CrcError(d) ==
  /\ AtEnd(d)
  /\ Checked # <<>>
  /\ d \in crc8 /\ ~ Sound(Checked)
  /\ crc_errors' = [crc_errors EXCEPT ![d] = @ + 1]
  /\ inbuf' = <<>>
  /\ reading' = None
  /\ UNCHANGED handled

Turn(d) ==
  /\ reading = d
  /\ \/ NothingLeft(d) \/ Byte(d) \/ Escape(d) \/ EscapeRefilled(d) \/ EscapeAlone(d)
     \/ EmptyPacket(d) \/ Packet(d) \/ CrcError(d)

Next ==
  \E d \in Device : Arrive(d) \/ Lose(d) \/ SerialInput(d) \/ Turn(d)

(* The bytes sent arrive, unless they are lost, and the main loop reads.    *)
Fairness == \A d \in Device : WF_vars(Arrive(d)) /\ WF_vars(SerialInput(d)) /\ WF_vars(Turn(d))

Spec     == Init /\ [][Next]_vars
FairSpec == Spec /\ Fairness
-----------------------------------------------------------------------------
AnySym == [s : {"byte", "esc", "code", "end"}, dev : Device, msg : Nat, pos : Nat]

TypeOK ==
  /\ out \in [Device -> Seq(AnySym)]
  /\ line \in [Device -> Seq(AnySym)]
  /\ stdio \in [Device -> Seq(AnySym)]
  /\ inbuf \in Seq(AnySym) /\ Len(inbuf) <= InbufSize
  /\ reading \in Device \cup {None}
  /\ crc8 \subseteq Device /\ crc_errors \in [Device -> Nat]
  /\ handled \in Seq([dev : Device, bytes : Seq(AnySym)])
  /\ lost \subseteq AnySym

(* There is room for a byte whenever serial_input returns: on Linux its     *)
(* first byte is stored with no check made before.                          *)
NoOverrun == reading = None => Len(inbuf) < InbufSize

(* A message reached the reader whole if nothing of it was lost, it fits,   *)
(* its CRC is right and the END in front of it was read as such: it did not *)
(* come right after an ESC, with all that was written in between lost.      *)
EscapeLeft(d, m) ==
  LET w == Written[d]
  IN  \E i \in DOMAIN w :
        /\ w[i].s = "esc" /\ w[i] \notin lost
        /\ \E j \in i + 1 .. Len(w) :
             w[j] = Sym("end", d, m, 0) /\ \A k \in i + 1 .. j - 1 : w[k] \in lost

Whole(d, m) ==
  /\ \A x \in lost : ~ (x.dev = d /\ x.msg = m)
  /\ ~ EscapeLeft(d, m)
  /\ Len(Bytes(d, m)) \in 1 .. InbufSize - 1
  /\ Traffic[d][m].ok

PassedOn(d, m) ==
  {i \in DOMAIN handled : handled[i] = [dev |-> d, bytes |-> Bytes(d, m)]}

Read(d, m) == \A s \in {out[d], line[d], stdio[d]} : \A k \in DOMAIN s : s[k].msg > m

(* Whatever was lost before it, a message that reached the reader whole is  *)
(* passed on as it was sent, once.                                          *)
Resynchronises ==
  \A d \in Device : \A m \in DOMAIN Traffic[d] :
    Read(d, m) /\ Whole(d, m) =>
      Cardinality(PassedOn(d, m)) = 1

(* The messages of a device are passed on in the order they were sent, and  *)
(* no byte is passed on twice.                                              *)
InOrder ==
  \A i, j \in DOMAIN handled :
    i < j /\ handled[i].dev = handled[j].dev =>
      Last(handled[i].bytes).msg < Head(handled[j].bytes).msg

(* A message that reaches the reader whole is passed on in the end, as long *)
(* as no packet of its device was found damaged.                            *)
HandledUnlessCrcError ==
  \A d \in Device : \A m \in DOMAIN Traffic[d] :
    <>(~ Whole(d, m) \/ PassedOn(d, m) # {} \/ crc_errors[d] > 0)
=============================================================================
