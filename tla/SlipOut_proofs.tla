--------------------------- MODULE SlipOut_proofs ---------------------------
(* For any size of the buffer, any packets and any cut of the writes: the   *)
(* bookkeeping of the output buffer is right, no byte is lost, repeated or  *)
(* moved, and packets leave one at a time.                                  *)
EXTENDS SlipOut, FiniteSetTheorems, FunctionTheorems, SequenceTheorems, WellFoundedInduction, TLAPS

(* What has left of the first packet is less than all of it.                *)
Bounds ==
  /\ slip_begin <= slip_packet_end
  /\ slip_packet_end # 0 => slip_begin < slip_packet_end

(* The buffer ends with a whole packet, and no packet in it is empty: the   *)
(* search for the next END may leave out the first byte.                    *)
WholePackets ==
  ~ overlapped =>
    /\ slip_buf # <<>> => slip_buf[slip_end] = END
    /\ \A k \in 1 .. slip_end - 1 : slip_buf[k] = END => slip_buf[k + 1] # END

(* Where the packets of buf end.                                            *)
EndsOf(buf) == {k \in 1 .. Len(buf) : buf[k] = END}

IInv == TypeOK /\ Bounds /\ WholePackets /\ InOrder /\ EndIsFirst /\ CountIsPackets

USE DEF slip_end
-----------------------------------------------------------------------------
(* What is written for a packet: bytes that are not END, then END.          *)
LEMMA PacketBytesEnd ==
  ASSUME TypeOK, NEW len \in PacketLen
  PROVE  /\ len \in Nat \ {0}
         /\ PacketBytes(len) \in Seq(Byte)
         /\ Len(PacketBytes(len)) = len + 1
         /\ PacketBytes(len)[len + 1] = END
         /\ \A k \in 1 .. len : PacketBytes(len)[k] # END
<1>1. len \in Nat \ {0}
  BY PacketLenAssumption
<1>2. Len(sent) \in Nat
  BY LenProperties DEF TypeOK
<1> DEFINE p == PacketBytes(len)
<1>3. p \in [1 .. len + 1 -> Byte]
  BY <1>1, <1>2 DEF PacketBytes, END, Byte
<1>4. p \in Seq(Byte)
  BY <1>1, <1>3, SeqDef
<1>5. Len(p) = len + 1
  BY <1>1, <1>3, <1>4
<1>6. p[len + 1] = END
  BY <1>1 DEF PacketBytes
<1>7. \A k \in 1 .. len : p[k] # END
  BY <1>1, <1>2 DEF PacketBytes, END
<1> QED
  BY <1>1, <1>4, <1>5, <1>6, <1>7

(* The rest of a buffer, byte by byte.                                      *)
LEMMA RestProperties ==
  ASSUME NEW buf \in Seq(Byte), NEW n \in 0 .. Len(buf)
  PROVE  /\ Rest(buf, n) \in Seq(Byte)
         /\ Len(Rest(buf, n)) = Len(buf) - n
         /\ \A k \in 1 .. Len(buf) - n : Rest(buf, n)[k] = buf[k + n]
<1>1. Len(buf) \in Nat /\ n \in Nat
  BY LenProperties
<1>2. \A i \in n + 1 .. Len(buf) : buf[i] \in Byte
  BY <1>1, ElementOfSeq
<1>3. /\ SubSeq(buf, n + 1, Len(buf)) \in Seq(Byte)
      /\ Len(SubSeq(buf, n + 1, Len(buf))) = IF n + 1 <= Len(buf) THEN Len(buf) - (n + 1) + 1 ELSE 0
      /\ \A i \in 1 .. Len(buf) - (n + 1) + 1 : SubSeq(buf, n + 1, Len(buf))[i] = buf[(n + 1) + i - 1]
  BY <1>1, <1>2, SubSeqProperties
<1> QED
  BY <1>1, <1>3 DEF Rest

(* A remainder is less than its divisor.                                    *)
LEMMA ModRange == \A a \in Nat, n \in Nat \ {0} : a % n \in 0 .. n - 1
  OBVIOUS

(* Copying from the back yields bytes of the buffer, whichever they are.    *)
LEMMA CopiedFromBackType ==
  ASSUME NEW buf \in Seq(Byte), NEW n \in 1 .. Len(buf)
  PROVE  /\ CopiedFromBack(buf, n) \in Seq(Byte)
         /\ Len(CopiedFromBack(buf, n)) = Len(buf) - n
<1>1. Len(buf) \in Nat /\ n \in Nat \ {0}
  BY LenProperties
<1> DEFINE c == CopiedFromBack(buf, n)
<1>2. ASSUME NEW i \in 1 .. Len(buf) - n
      PROVE  Len(buf) - ((Len(buf) - i) % n) \in 1 .. Len(buf)
  <2>1. Len(buf) - i \in Nat
    BY <1>1
  <2>2. (Len(buf) - i) % n \in 0 .. n - 1
    BY <1>1, <2>1, ModRange
  <2> QED
    BY <1>1, <2>2
<1>3. \A i \in 1 .. Len(buf) - n : buf[Len(buf) - ((Len(buf) - i) % n)] \in Byte
  BY <1>2, ElementOfSeq
<1>4. c \in [1 .. Len(buf) - n -> Byte]
  BY <1>3 DEF CopiedFromBack
<1>5. c \in Seq(Byte)
  BY <1>1, <1>4, SeqDef
<1>6. Len(c) = Len(buf) - n
  BY <1>1, <1>4, <1>5
<1> QED
  BY <1>5, <1>6

(* What comes before the first of a range, the first byte left out.         *)
LEMMA BeforeFirst ==
  \A q, m \in Nat : \A k \in 1 .. q - 1 : q <= m /\ k # 1 => k \in 2 .. m /\ ~ (q <= k)
  OBVIOUS

(* The search finds the first END from the second byte on, if there is one. *)
LEMMA NextEndIsFirst ==
  ASSUME NEW buf \in Seq(Byte)
  PROVE  \/ Ends(buf) = {} /\ NextEnd(buf) = 0
         \/ /\ NextEnd(buf) \in Ends(buf)
            /\ \A j \in Ends(buf) : NextEnd(buf) <= j
<1>1. Len(buf) \in Nat
  BY LenProperties
<1>2. CASE Ends(buf) = {}
  BY <1>2 DEF NextEnd
<1>3. CASE Ends(buf) # {}
  <2>1. Ends(buf) \in SUBSET Nat
    BY <1>1 DEF Ends
  <2>2. PICK m \in Ends(buf) : \A j \in Ends(buf) : ~ (<<j, m>> \in OpToRel(<, Nat))
    BY <1>3, <2>1, NatLessThanWellFounded, WFMin
  <2>3. \A j \in Ends(buf) : ~ (j < m)
    BY <2>1, <2>2 DEF OpToRel
  <2>4. \A j \in Ends(buf) : m <= j
    BY <2>1, <2>3
  <2> QED
    BY <1>3, <2>4 DEF NextEnd
<1> QED
  BY <1>2, <1>3
(* Taking bytes from the front of what is left and writing them: the two    *)
(* together are the same bytes in the same order.                           *)
LEMMA WrittenAndRest ==
  ASSUME NEW buf \in Seq(Byte), NEW w \in Seq(Byte),
         NEW b \in 0 .. Len(buf), NEW e \in b .. Len(buf)
  PROVE  /\ w \o SubSeq(buf, b + 1, e) \in Seq(Byte)
         /\ (w \o SubSeq(buf, b + 1, e)) \o Rest(buf, e) = w \o Rest(buf, b)
<1>1. Len(buf) \in Nat /\ b \in Nat /\ e \in Nat /\ b <= e /\ e <= Len(buf)
  BY LenProperties
<1>2. \A i \in b + 1 .. e : buf[i] \in Byte
  BY <1>1, ElementOfSeq
<1>3. b + 1 \in Int /\ e \in Int
  BY <1>1
<1> DEFINE out == SubSeq(buf, b + 1, e)
<1>4. out \in Seq(Byte)
  BY <1>2, <1>3, SubSeqProperties
<1>5. Rest(buf, e) \in Seq(Byte)
  BY <1>1, RestProperties
<1>6. out \o Rest(buf, e) = Rest(buf, b)
  <2>1. /\ b + 1 \in 1 .. Len(buf) + 1 /\ e \in (b + 1) - 1 .. Len(buf)
        /\ Len(buf) \in e .. Len(buf)
    BY <1>1
  <2>2. SubSeq(buf, b + 1, e) \o SubSeq(buf, e + 1, Len(buf)) = SubSeq(buf, b + 1, Len(buf))
    BY <2>1, ConcatAdjacentSubSeq
  <2> QED
    BY <2>2 DEF Rest
<1> HIDE DEF out
<1>7. (w \o out) \o Rest(buf, e) = w \o (out \o Rest(buf, e))
  <2> DEFINE r == Rest(buf, e)
  <2>1. r \in Seq(Byte)
    BY <1>5
  <2> HIDE DEF r
  <2>2. (w \o out) \o r = w \o (out \o r)
    BY <1>4, <2>1, ConcatAssociative
  <2> QED
    BY <2>2 DEF r
<1>8. w \o out \in Seq(Byte)
  BY <1>4, ConcatProperties
<1> QED
  BY <1>6, <1>7, <1>8 DEF out

(* When the first packet has gone, one END less is in the buffer.           *)
LEMMA RestHasOneEndLess ==
  ASSUME NEW buf \in Seq(Byte), NEW n \in 1 .. Len(buf),
         buf[n] = END, \A k \in 1 .. n - 1 : buf[k] # END
  PROVE  Cardinality(EndsOf(Rest(buf, n))) = Cardinality(EndsOf(buf)) - 1
<1>1. Len(buf) \in Nat /\ n \in Nat /\ n \in 0 .. Len(buf)
  BY LenProperties
<1>2. /\ Len(Rest(buf, n)) = Len(buf) - n
      /\ \A k \in 1 .. Len(buf) - n : Rest(buf, n)[k] = buf[k + n]
  BY <1>1, RestProperties
<1> DEFINE E == EndsOf(buf)
           F == EndsOf(Rest(buf, n))
           shift == [k \in F |-> k + n]
<1>3. IsFiniteSet(E) /\ n \in E
  <2>1. IsFiniteSet(1 .. Len(buf))
    BY <1>1, FS_Interval
  <2>2. E \in SUBSET (1 .. Len(buf)) /\ n \in E
    BY DEF EndsOf
  <2> HIDE DEF E
  <2> QED
    BY <2>1, <2>2, FS_Subset
<1>4. \A k \in F : k \in 1 .. Len(buf) - n /\ buf[k + n] = END
  BY <1>2 DEF EndsOf
<1>5. \A k : k \in 1 .. Len(buf) - n /\ buf[k + n] = END => k \in F
  BY <1>2 DEF EndsOf
<1>6. \A e \in E \ {n} : e \in 1 .. Len(buf) /\ e > n /\ buf[e] = END
  BY <1>1 DEF EndsOf
<1>7. shift \in [F -> E \ {n}]
  <2> SUFFICES ASSUME NEW k \in F PROVE k + n \in E \ {n}
    OBVIOUS
  <2> QED
    BY <1>1, <1>4 DEF EndsOf
<1>8. \A a, b \in F : shift[a] = shift[b] => a = b
  BY <1>1, <1>4
<1>9. \A e \in E \ {n} : \E k \in F : shift[k] = e
  <2> TAKE e \in E \ {n}
  <2>1. e \in 1 .. Len(buf) /\ e > n /\ buf[e] = END
    BY <1>6
  <2>2. e - n \in 1 .. Len(buf) - n /\ (e - n) + n = e
    BY <1>1, <2>1
  <2>3. e - n \in F
    BY <1>5, <2>1, <2>2
  <2> WITNESS e - n \in F
  <2> QED
    BY <2>2, <2>3
<1>10. ExistsBijection(F, E \ {n})
  <2> HIDE DEF E, F, shift
  <2>1. shift \in Bijection(F, E \ {n})
    BY <1>7, <1>8, <1>9, Fun_IsBij
  <2> QED
    BY <2>1, Fun_ExistsBij
<1>11. IsFiniteSet(E \ {n}) /\ Cardinality(E \ {n}) = Cardinality(E) - 1
  <2> HIDE DEF E
  <2> QED
    BY <1>3, FS_RemoveElement
<1>12. Cardinality(F) = Cardinality(E \ {n})
  <2> HIDE DEF E, F
  <2>1. ExistsBijection(E \ {n}, F)
    BY <1>10, Fun_ExistsBijSymmetric
  <2> QED
    BY <1>11, <2>1, FS_Bijection
<1> QED
  BY <1>11, <1>12

-----------------------------------------------------------------------------
(* slip_init_dev leaves one END in the buffer, a packet of its own.         *)
LEMMA InitIInv == Init => IInv
<1> SUFFICES ASSUME Init PROVE IInv
  OBVIOUS
<1>1. /\ slip_buf = <<END>> /\ slip_begin = 0 /\ slip_packet_end = 1
      /\ slip_packet_count = 1 /\ send_delay_timer = FALSE /\ exited = FALSE
      /\ sent = <<END>> /\ written = <<>> /\ overlapped = FALSE
  BY DEF Init
<1>2. END \in Byte /\ Len(<<END>>) = 1 /\ <<END>>[1] = END /\ <<END>> \in Seq(Byte)
  BY DEF END, Byte
<1>3. slip_end = 1
  BY <1>1, <1>2 DEF slip_end
<1>4. TypeOK
  <2>1. 1 <= BufSize
    BY BufSizeAssumption
  <2>2. slip_packet_end \in 0 .. slip_end
    BY <1>1, <1>2
  <2>3. written \in Seq(Byte) /\ sent \in Seq(Byte) /\ slip_buf \in Seq(Byte)
    BY <1>1, <1>2, EmptySeq
  <2> QED
    <3>1. slip_end <= BufSize
      BY <1>3, <2>1
    <3>2. slip_begin \in Nat /\ slip_packet_count \in Int
      BY <1>1
    <3>3. send_delay_timer \in BOOLEAN /\ exited \in BOOLEAN /\ overlapped \in BOOLEAN
      BY <1>1
    <3> QED
      BY <2>2, <2>3, <3>1, <3>2, <3>3 DEF TypeOK
<1>5. Bounds /\ WholePackets
  BY <1>1, <1>2, <1>3 DEF Bounds, WholePackets
<1>6. InOrder
  <2>1. SubSeq(<<END>>, 1, Len(<<END>>)) = <<END>>
    BY ONLY <1>2, SubSeqFull
  <2>2. Rest(<<END>>, 0) = <<END>>
    BY <2>1 DEF Rest
  <2>3. Rest(slip_buf, slip_begin) = <<END>>
    BY <1>1, <2>2
  <2> QED
    BY <1>1, <1>2, <2>3, ConcatEmptySeq DEF InOrder
<1>7. EndIsFirst
  BY <1>1, <1>2 DEF EndIsFirst
<1>8. CountIsPackets
  <2>1. {k \in 1 .. slip_end : slip_buf[k] = END} = {1}
    BY <1>1, <1>2, <1>3
  <2> QED
    BY <1>1, <2>1, FS_Singleton DEF CountIsPackets
<1> QED
  BY <1>4, <1>5, <1>6, <1>7, <1>8 DEF IInv

(* write_to_slip: one more packet behind the others.                        *)
LEMMA WriteKeepsIInv ==
  ASSUME IInv, NEW len \in PacketLen, WriteToSlip(len)
  PROVE  IInv'
<1> DEFINE p == PacketBytes(len)
<1>inv. TypeOK /\ Bounds /\ WholePackets /\ InOrder /\ EndIsFirst /\ CountIsPackets
  BY DEF IInv
<1>acc. /\ slip_end + len + 1 <= BufSize
        /\ slip_buf' = slip_buf \o p
        /\ sent' = sent \o p
        /\ slip_packet_end' = FirstEnd(len)
        /\ slip_packet_count' = slip_packet_count + 1
        /\ UNCHANGED <<slip_begin, send_delay_timer, exited, written, overlapped>>
  BY DEF WriteToSlip, Accept, Room
<1>pkt. /\ len \in Nat \ {0} /\ p \in Seq(Byte) /\ Len(p) = len + 1
        /\ p[len + 1] = END /\ \A k \in 1 .. len : p[k] # END
  BY <1>inv, PacketBytesEnd
<1>typ. /\ slip_buf \in Seq(Byte) /\ slip_end \in Nat /\ slip_end = Len(slip_buf)
        /\ slip_begin \in Nat /\ slip_packet_end \in 0 .. slip_end /\ slip_packet_count \in Int
        /\ sent \in Seq(Byte) /\ written \in Seq(Byte)
  BY <1>inv, LenProperties DEF TypeOK, slip_end
<1> HIDE DEF p
<1>buf. /\ slip_buf' \in Seq(Byte)
        /\ slip_end' = slip_end + len + 1
        /\ \A i \in 1 .. slip_end + len + 1 :
             slip_buf'[i] = IF i <= slip_end THEN slip_buf[i] ELSE p[i - slip_end]
  <2>1. /\ slip_buf \o p \in Seq(Byte)
        /\ Len(slip_buf \o p) = Len(slip_buf) + Len(p)
        /\ \A i \in 1 .. Len(slip_buf) + Len(p) :
             (slip_buf \o p)[i] = IF i <= Len(slip_buf) THEN slip_buf[i] ELSE p[i - Len(slip_buf)]
    BY <1>pkt, <1>typ, ConcatProperties
  <2>2. Len(slip_buf) + Len(p) = slip_end + len + 1
    BY <1>pkt, <1>typ
  <2> QED
    BY <1>acc, <2>1, <2>2
<1>1. slip_packet_end' = IF slip_packet_end = 0 THEN slip_end + len + 1 ELSE slip_packet_end
  BY <1>acc DEF FirstEnd
<1>2. TypeOK'
  <2>1. sent' \in Seq(Byte)
    BY <1>acc, <1>pkt, <1>typ, ConcatProperties
  <2>2. slip_packet_end' \in 0 .. slip_end'
    BY <1>1, <1>buf, <1>pkt, <1>typ
  <2>3. slip_end' <= BufSize
    BY <1>acc, <1>buf
  <2>4. send_delay_timer' \in BOOLEAN /\ exited' \in BOOLEAN /\ overlapped' \in BOOLEAN
    BY <1>inv, <1>acc DEF TypeOK
  <2>5. slip_begin' \in Nat /\ slip_packet_count' \in Int /\ written' \in Seq(Byte)
    BY <1>typ, <1>acc
  <2> QED
    BY <1>buf, <2>1, <2>2, <2>3, <2>4, <2>5 DEF TypeOK
<1>3. Bounds'
  BY <1>1, <1>inv, <1>acc, <1>pkt, <1>typ DEF Bounds
<1>4. WholePackets'
  <2> SUFFICES ASSUME ~ overlapped'
               PROVE  /\ slip_buf'[slip_end'] = END
                      /\ \A k \in 1 .. slip_end' - 1 : slip_buf'[k] = END => slip_buf'[k + 1] # END
    BY DEF WholePackets
  <2>1. \A k \in 1 .. slip_end - 1 : slip_buf[k] = END => slip_buf[k + 1] # END
    BY <1>inv, <1>acc DEF WholePackets
  <2>2. slip_buf'[slip_end'] = END
    BY <1>buf, <1>pkt, <1>typ
  <2>3. ASSUME NEW k \in 1 .. slip_end' - 1, slip_buf'[k] = END
        PROVE  slip_buf'[k + 1] # END
    <3>1. CASE k < slip_end
      <4>1. /\ k \in 1 .. slip_end - 1
            /\ k \in 1 .. slip_end + len + 1 /\ k + 1 \in 1 .. slip_end + len + 1
            /\ k <= slip_end /\ k + 1 <= slip_end
        BY <3>1, <1>typ, <1>pkt
      <4>2. slip_buf'[k] = slip_buf[k]
        BY <4>1, <1>buf
      <4>3. slip_buf'[k + 1] = slip_buf[k + 1]
        BY <4>1, <1>buf
      <4> QED
        BY <4>1, <4>2, <4>3, <2>1, <2>3
    <3>2. CASE k >= slip_end
      <4>1. slip_buf'[k + 1] = p[k + 1 - slip_end]
        BY <3>2, <1>buf, <1>typ, <1>pkt
      <4>2. k = slip_end
        <5>1. k > slip_end => slip_buf'[k] = p[k - slip_end] /\ k - slip_end \in 1 .. len
          BY <1>buf, <1>typ, <1>pkt
        <5> QED
          BY <5>1, <3>2, <2>3, <1>typ, <1>pkt, <1>buf
      <4>3. k + 1 - slip_end = 1
        BY <4>2, <1>typ
      <4> QED
        BY <4>1, <4>3, <1>pkt
    <3> QED
      BY <3>1, <3>2, <1>typ, <1>buf, <1>pkt
  <2> QED
    BY <2>2, <2>3
<1>5. InOrder'
  <2> SUFFICES ASSUME ~ overlapped PROVE written \o Rest(slip_buf', slip_begin) = sent'
    BY <1>acc DEF InOrder
  <2>1. written \o Rest(slip_buf, slip_begin) = sent
    BY <1>inv DEF InOrder
  <2>2. slip_begin \in 0 .. slip_end
    BY <1>inv, <1>typ DEF Bounds
  <2>3. /\ Rest(slip_buf, slip_begin) \in Seq(Byte)
        /\ Len(Rest(slip_buf, slip_begin)) = slip_end - slip_begin
        /\ \A k \in 1 .. slip_end - slip_begin : Rest(slip_buf, slip_begin)[k] = slip_buf[k + slip_begin]
    BY <2>2, <1>typ, RestProperties
  <2>4. /\ Rest(slip_buf', slip_begin) \in Seq(Byte)
        /\ Len(Rest(slip_buf', slip_begin)) = (slip_end + len + 1) - slip_begin
        /\ \A k \in 1 .. (slip_end + len + 1) - slip_begin :
             Rest(slip_buf', slip_begin)[k] = slip_buf'[k + slip_begin]
    <3>1. Len(slip_buf') = slip_end + len + 1 /\ slip_begin \in 0 .. Len(slip_buf')
      BY <2>2, <1>buf, <1>typ, <1>pkt DEF slip_end
    <3> QED
      <4>1. /\ Rest(slip_buf', slip_begin) \in Seq(Byte)
            /\ Len(Rest(slip_buf', slip_begin)) = Len(slip_buf') - slip_begin
            /\ \A k \in 1 .. Len(slip_buf') - slip_begin :
                 Rest(slip_buf', slip_begin)[k] = slip_buf'[k + slip_begin]
        BY <3>1, <1>buf, RestProperties
      <4> QED
        BY <3>1, <4>1
  <2>5. Rest(slip_buf', slip_begin) = Rest(slip_buf, slip_begin) \o p
    <3> DEFINE r == Rest(slip_buf, slip_begin)
               s == Rest(slip_buf', slip_begin)
    <3>1. /\ r \o p \in Seq(Byte) /\ Len(r \o p) = Len(r) + Len(p)
          /\ \A i \in 1 .. Len(r) + Len(p) : (r \o p)[i] = IF i <= Len(r) THEN r[i] ELSE p[i - Len(r)]
      BY <2>3, <1>pkt, ConcatProperties
    <3> HIDE DEF r, s
    <3>2. /\ Len(r) = slip_end - slip_begin /\ Len(s) = (slip_end + len + 1) - slip_begin
          /\ \A k \in 1 .. slip_end - slip_begin : r[k] = slip_buf[k + slip_begin]
          /\ \A k \in 1 .. (slip_end + len + 1) - slip_begin : s[k] = slip_buf'[k + slip_begin]
          /\ r \in Seq(Byte) /\ s \in Seq(Byte)
      BY <2>3, <2>4 DEF r, s
    <3>3. Len(s) = Len(r \o p)
      BY <3>1, <3>2, <1>typ, <1>pkt
    <3>4. ASSUME NEW i \in 1 .. Len(s) PROVE s[i] = (r \o p)[i]
      <4>1. s[i] = slip_buf'[i + slip_begin] /\ i + slip_begin \in 1 .. slip_end + len + 1
        BY <3>2, <1>typ, <1>pkt
      <4>2. CASE i <= slip_end - slip_begin
        <5>1. slip_buf'[i + slip_begin] = slip_buf[i + slip_begin]
          BY <4>1, <4>2, <1>buf, <1>typ
        <5>2. (r \o p)[i] = r[i] /\ r[i] = slip_buf[i + slip_begin]
          BY <4>2, <3>1, <3>2, <1>typ, <1>pkt
        <5> QED
          BY <4>1, <5>1, <5>2
      <4>3. CASE i > slip_end - slip_begin
        <5>1. slip_buf'[i + slip_begin] = p[i + slip_begin - slip_end]
          BY <4>1, <4>3, <1>buf, <1>typ
        <5>2. (r \o p)[i] = p[i - (slip_end - slip_begin)]
          BY <4>3, <3>1, <3>2, <1>typ, <1>pkt
        <5>3. i - (slip_end - slip_begin) = i + slip_begin - slip_end
          BY <3>2, <1>typ
        <5> QED
          BY <4>1, <5>1, <5>2, <5>3
      <4> QED
        <5>1. i <= slip_end - slip_begin \/ i > slip_end - slip_begin
          BY <1>typ
        <5> QED
          BY <4>2, <4>3, <5>1
    <3>5. s = r \o p
      BY <3>1, <3>2, <3>3, <3>4, SeqEqual
    <3> QED
      BY <3>5 DEF r, s
  <2>6. (written \o Rest(slip_buf, slip_begin)) \o p = written \o (Rest(slip_buf, slip_begin) \o p)
    <3> DEFINE r == Rest(slip_buf, slip_begin)
    <3>1. r \in Seq(Byte) /\ written \in Seq(Byte) /\ p \in Seq(Byte)
      BY <2>3, <1>pkt, <1>typ
    <3> HIDE DEF r
    <3>2. (written \o r) \o p = written \o (r \o p)
      BY <3>1, ConcatAssociative
    <3> QED
      BY <3>2 DEF r
  <2> QED
    BY <2>1, <2>5, <2>6, <1>acc
<1>6. EndIsFirst'
  <2> SUFFICES ASSUME ~ overlapped
               PROVE  /\ slip_packet_end' = 0 => slip_buf' = <<>> /\ slip_begin' = 0
                      /\ slip_packet_end' # 0 =>
                           /\ slip_begin' < slip_packet_end'
                           /\ slip_buf'[slip_packet_end'] = END
                           /\ \A k \in 1 .. slip_packet_end' - 1 : slip_buf'[k] # END
    BY <1>acc DEF EndIsFirst
  <2>1. slip_packet_end' # 0
    BY <1>1, <1>typ, <1>pkt
  <2>2. slip_begin' < slip_packet_end'
    BY <1>3, <2>1 DEF Bounds
  <2>3. CASE slip_packet_end = 0
    <3>1. slip_end = 0 /\ slip_packet_end' = len + 1
      BY <2>3, <1>1, <1>inv, <1>typ, <1>pkt, EmptySeq DEF EndIsFirst
    <3>2. \A i \in 1 .. len + 1 : slip_buf'[i] = p[i]
      BY <3>1, <1>buf, <1>typ, <1>pkt
    <3> QED
      BY <2>1, <2>2, <3>1, <3>2, <1>pkt
  <2>4. CASE slip_packet_end # 0
    <3>1. slip_packet_end' = slip_packet_end
      BY <2>4, <1>1
    <3>2. slip_buf[slip_packet_end] = END /\ \A k \in 1 .. slip_packet_end - 1 : slip_buf[k] # END
      BY <2>4, <1>inv DEF EndIsFirst
    <3>3. \A k \in 1 .. slip_packet_end : slip_buf'[k] = slip_buf[k]
      BY <2>4, <1>buf, <1>typ, <1>pkt
    <3> QED
      BY <2>1, <2>2, <2>4, <3>1, <3>2, <3>3, <1>typ
  <2> QED
    BY <2>3, <2>4
<1>7. CountIsPackets'
  <2> SUFFICES ASSUME ~ overlapped
               PROVE  slip_packet_count' = Cardinality({k \in 1 .. slip_end' : slip_buf'[k] = END})
    BY <1>acc DEF CountIsPackets
  <2> DEFINE E == {k \in 1 .. slip_end : slip_buf[k] = END}
             F == {k \in 1 .. slip_end + len + 1 : slip_buf'[k] = END}
  <2>1. slip_packet_count = Cardinality(E)
    BY <1>inv DEF CountIsPackets
  <2>2. IsFiniteSet(E) /\ Cardinality(E) \in Nat
    <3>1. E \in SUBSET (1 .. slip_end)
      OBVIOUS
    <3> QED
      <4>1. IsFiniteSet(1 .. slip_end)
        BY <1>typ, FS_Interval
      <4> HIDE DEF E
      <4>2. IsFiniteSet(E)
        BY <3>1, <4>1, FS_Subset
      <4> QED
        BY <4>2, FS_CardinalityType
  <2>3. F = E \cup {slip_end + len + 1}
    <3>1. slip_buf'[slip_end + len + 1] = END
      BY <1>buf, <1>pkt, <1>typ
    <3>2. \A k \in slip_end + 1 .. slip_end + len : slip_buf'[k] # END
      <4> TAKE k \in slip_end + 1 .. slip_end + len
      <4>1. slip_buf'[k] = p[k - slip_end] /\ k - slip_end \in 1 .. len
        BY <1>buf, <1>pkt, <1>typ
      <4> QED
        BY <4>1, <1>pkt
    <3>3. \A k \in 1 .. slip_end : slip_buf'[k] = slip_buf[k]
      BY <1>buf, <1>pkt, <1>typ
    <3> QED
      <4>1. ASSUME NEW k PROVE k \in F <=> k \in E \cup {slip_end + len + 1}
        <5>1. CASE k \in 1 .. slip_end
          BY <5>1, <3>3, <1>typ, <1>pkt
        <5>2. CASE k \in slip_end + 1 .. slip_end + len
          BY <5>2, <3>2, <1>typ, <1>pkt
        <5>3. CASE k = slip_end + len + 1
          BY <5>3, <3>1, <1>typ, <1>pkt
        <5>4. CASE k \notin 1 .. slip_end + len + 1
          BY <5>4, <1>typ, <1>pkt
        <5> QED
          BY <5>1, <5>2, <5>3, <5>4, <1>typ, <1>pkt
      <4> QED
        BY <4>1
  <2>4. slip_end + len + 1 \notin E
    BY <1>typ, <1>pkt
  <2>5. Cardinality(F) = Cardinality(E) + 1
    BY <2>2, <2>3, <2>4, FS_AddElement
  <2> QED
    BY <2>1, <2>5, <1>acc, <1>buf
<1> QED
  BY <1>2, <1>3, <1>4, <1>5, <1>6, <1>7 DEF IInv

(* The descriptor takes a part of the packet.                               *)
LEMMA FlushPartKeepsIInv ==
  ASSUME IInv, NEW n \in 1 .. slip_end, FlushPart(n)
  PROVE  IInv'
<1>inv. TypeOK /\ Bounds /\ WholePackets /\ InOrder /\ EndIsFirst /\ CountIsPackets
  BY DEF IInv
<1>act. /\ slip_begin + n < slip_packet_end
        /\ written' = written \o SubSeq(slip_buf, slip_begin + 1, slip_begin + n)
        /\ slip_begin' = slip_begin + n
        /\ UNCHANGED <<slip_buf, slip_packet_end, slip_packet_count, send_delay_timer,
                       exited, sent, overlapped>>
  BY DEF FlushPart, Written
<1>typ. /\ slip_buf \in Seq(Byte) /\ slip_end \in Nat /\ n \in Nat \ {0}
        /\ slip_begin \in Nat /\ slip_packet_end \in 0 .. slip_end
        /\ sent \in Seq(Byte) /\ written \in Seq(Byte)
  BY <1>inv, LenProperties DEF TypeOK
<1>1. slip_begin \in 0 .. slip_end /\ slip_begin + n \in slip_begin .. slip_end
  BY <1>act, <1>typ
<1>2. /\ written' \in Seq(Byte)
      /\ written' \o Rest(slip_buf, slip_begin + n) = written \o Rest(slip_buf, slip_begin)
  BY <1>1, <1>act, <1>typ, WrittenAndRest
<1>3. TypeOK'
  <2>1. slip_begin' \in Nat
    BY <1>act, <1>typ
  <2> QED
    BY <2>1, <1>2, <1>inv, <1>act DEF TypeOK
<1>4. Bounds'
  BY <1>act, <1>typ DEF Bounds
<1>5. WholePackets'
  BY <1>inv, <1>act DEF WholePackets
<1>6. InOrder'
  BY <1>inv, <1>act, <1>2 DEF InOrder
<1>7. EndIsFirst'
  <2>1. slip_packet_end # 0
    BY <1>act, <1>typ
  <2> QED
    BY <2>1, <1>inv, <1>act DEF EndIsFirst
<1>8. CountIsPackets'
  BY <1>inv, <1>act DEF CountIsPackets
<1> QED
  BY <1>3, <1>4, <1>5, <1>6, <1>7, <1>8 DEF IInv

(* It takes the rest of the packet; the next one moves to the front.        *)
LEMMA FlushPacketKeepsIInv ==
  ASSUME IInv, FlushPacket
  PROVE  IInv'
<1> DEFINE pe == slip_packet_end
<1>inv. TypeOK /\ Bounds /\ WholePackets /\ InOrder /\ EndIsFirst /\ CountIsPackets
  BY DEF IInv
<1>act. /\ pe # 0
        /\ written' = written \o SubSeq(slip_buf, slip_begin + 1, slip_begin + (pe - slip_begin))
        /\ slip_packet_count' = slip_packet_count - 1
        /\ \/ slip_buf' = Rest(slip_buf, pe) /\ UNCHANGED overlapped
           \/ slip_buf' = CopiedFromBack(slip_buf, pe) /\ overlapped' = TRUE
        /\ slip_begin' = 0
        /\ slip_packet_end' = NextEnd(slip_buf')
        /\ send_delay_timer' = (SendDelay /\ slip_buf' # <<>>)
        /\ UNCHANGED <<exited, sent>>
  BY DEF FlushPacket, Written, Ready
<1>typ. /\ slip_buf \in Seq(Byte) /\ slip_end \in Nat /\ slip_end <= BufSize
        /\ slip_begin \in Nat /\ pe \in 1 .. slip_end /\ slip_begin < pe
        /\ sent \in Seq(Byte) /\ written \in Seq(Byte) /\ slip_packet_count \in Int
  BY <1>inv, <1>act, LenProperties DEF TypeOK, Bounds
<1> HIDE DEF pe
<1>1. slip_begin + (pe - slip_begin) = pe
  BY <1>typ
<1>2. slip_buf' \in Seq(Byte) /\ Len(slip_buf') = slip_end - pe
  <2>1. pe \in 0 .. Len(slip_buf)
    BY <1>typ
  <2> QED
    BY <2>1, <1>act, <1>typ, RestProperties, CopiedFromBackType
<1>3. \/ Ends(slip_buf') = {} /\ slip_packet_end' = 0
      \/ /\ slip_packet_end' \in Ends(slip_buf')
         /\ \A j \in Ends(slip_buf') : slip_packet_end' <= j
  BY <1>2, <1>act, NextEndIsFirst
<1>4. slip_packet_end' \in 0 .. Len(slip_buf') /\ slip_packet_end' # 1
  <2>1. Len(slip_buf') \in Nat
    BY <1>2, <1>typ
  <2> QED
    BY <2>1, <1>3 DEF Ends
<1>5. /\ written' \in Seq(Byte)
      /\ written' \o Rest(slip_buf, pe) = written \o Rest(slip_buf, slip_begin)
  <2>1. slip_begin \in 0 .. Len(slip_buf) /\ pe \in slip_begin .. Len(slip_buf)
    BY <1>typ
  <2>2. /\ written \o SubSeq(slip_buf, slip_begin + 1, pe) \in Seq(Byte)
        /\ (written \o SubSeq(slip_buf, slip_begin + 1, pe)) \o Rest(slip_buf, pe)
             = written \o Rest(slip_buf, slip_begin)
    BY <2>1, <1>typ, WrittenAndRest
  <2>3. written' = written \o SubSeq(slip_buf, slip_begin + 1, pe)
    BY <1>1, <1>act
  <2> QED
    BY <2>2, <2>3
<1>6. TypeOK'
  <2>1. Len(slip_buf') <= BufSize
    BY <1>2, <1>typ, BufSizeAssumption
  <2>2. slip_packet_count' \in Int /\ slip_begin' \in Nat /\ sent' \in Seq(Byte)
    BY <1>act, <1>typ
  <2>3. send_delay_timer' \in BOOLEAN /\ exited' \in BOOLEAN /\ overlapped' \in BOOLEAN
    BY <1>act, <1>inv, SendDelayAssumption DEF TypeOK
  <2> QED
    BY <1>2, <1>4, <1>5, <2>1, <2>2, <2>3 DEF TypeOK
<1>7. Bounds'
  BY <1>4, <1>act DEF Bounds
<1>8. ASSUME ~ overlapped'
      PROVE  /\ ~ overlapped
             /\ slip_buf' = Rest(slip_buf, pe)
             /\ \A k \in 1 .. slip_end - pe : slip_buf'[k] = slip_buf[k + pe]
             /\ slip_buf[pe] = END /\ \A k \in 1 .. pe - 1 : slip_buf[k] # END
             /\ slip_buf # <<>> /\ slip_buf[slip_end] = END
             /\ \A k \in 1 .. slip_end - 1 : slip_buf[k] = END => slip_buf[k + 1] # END
  <2>1. ~ overlapped /\ slip_buf' = Rest(slip_buf, pe)
    BY <1>8, <1>act
  <2>2. pe \in 0 .. Len(slip_buf)
    BY <1>typ
  <2>3. \A k \in 1 .. Len(slip_buf) - pe : Rest(slip_buf, pe)[k] = slip_buf[k + pe]
    BY <2>2, <1>typ, RestProperties
  <2>4. slip_buf[pe] = END /\ \A k \in 1 .. pe - 1 : slip_buf[k] # END
    BY <2>1, <1>inv, <1>act DEF EndIsFirst, pe
  <2>5. slip_buf # <<>>
    BY <1>typ, EmptySeq
  <2>6. slip_buf[slip_end] = END
    BY <2>1, <2>5, <1>inv DEF WholePackets
  <2>7. \A k \in 1 .. slip_end - 1 : slip_buf[k] = END => slip_buf[k + 1] # END
    BY <2>1, <1>inv DEF WholePackets
  <2> QED
    BY <2>1, <2>3, <2>4, <2>5, <2>6, <2>7
<1>9. WholePackets'
  <2> SUFFICES ASSUME ~ overlapped'
               PROVE  /\ slip_buf' # <<>> => slip_buf'[slip_end'] = END
                      /\ \A k \in 1 .. slip_end' - 1 : slip_buf'[k] = END => slip_buf'[k + 1] # END
    BY DEF WholePackets
  <2>1. ASSUME slip_buf' # <<>> PROVE slip_buf'[slip_end'] = END
    <3>1. Len(slip_buf') \in Nat \ {0}
      BY <1>2, <2>1, EmptySeq
    <3>2. slip_end - pe \in 1 .. slip_end - pe /\ (slip_end - pe) + pe = slip_end
      BY <3>1, <1>2, <1>typ
    <3>3. slip_buf'[slip_end - pe] = slip_buf[(slip_end - pe) + pe]
      BY <3>2, <1>8
    <3> QED
      BY <3>2, <3>3, <1>2, <1>8
  <2>2. ASSUME NEW k \in 1 .. slip_end' - 1, slip_buf'[k] = END
        PROVE  slip_buf'[k + 1] # END
    <3>1. k \in 1 .. (slip_end - pe) - 1
      BY <1>2
    <3>2. /\ k \in 1 .. slip_end - pe /\ k + 1 \in 1 .. slip_end - pe
          /\ k + pe \in 1 .. slip_end - 1 /\ (k + 1) + pe = (k + pe) + 1
      BY <3>1, <1>typ
    <3>3. slip_buf'[k] = slip_buf[k + pe] /\ slip_buf'[k + 1] = slip_buf[(k + 1) + pe]
      BY <3>2, <1>8
    <3> QED
      BY <2>2, <3>2, <3>3, <1>8
  <2> QED
    BY <2>1, <2>2
<1>10. InOrder'
  <2> SUFFICES ASSUME ~ overlapped' PROVE written' \o Rest(slip_buf', 0) = sent'
    BY <1>act DEF InOrder
  <2>1. Rest(slip_buf', 0) = slip_buf'
    <3>1. SubSeq(slip_buf', 1, Len(slip_buf')) = slip_buf'
      BY <1>2, SubSeqFull
    <3> QED
      BY <3>1 DEF Rest
  <2>2. written \o Rest(slip_buf, slip_begin) = sent
    BY <1>8, <1>inv DEF InOrder
  <2>3. slip_buf' = Rest(slip_buf, pe) /\ sent' = sent
    BY <1>8, <1>act
  <2>4. written' \o Rest(slip_buf', 0) = written' \o Rest(slip_buf, pe)
    BY <2>1, <2>3
  <2> QED
    BY <2>2, <2>3, <2>4, <1>5
<1>11. EndIsFirst'
  <2> SUFFICES ASSUME ~ overlapped'
               PROVE  /\ slip_packet_end' = 0 => slip_buf' = <<>>
                      /\ slip_packet_end' # 0 =>
                           /\ slip_buf'[slip_packet_end'] = END
                           /\ \A k \in 1 .. slip_packet_end' - 1 : slip_buf'[k] # END
    BY <1>7, <1>act DEF EndIsFirst, Bounds
  <2>1. ASSUME slip_buf' # <<>>
        PROVE  slip_buf'[1] # END /\ Len(slip_buf') \in Ends(slip_buf')
    <3>1. Len(slip_buf') \in Nat \ {0}
      BY <1>2, <2>1, EmptySeq
    <3>2. 1 \in 1 .. slip_end - pe /\ pe \in 1 .. slip_end - 1 /\ 1 + pe = pe + 1
      BY <3>1, <1>2, <1>typ
    <3>3. slip_buf'[1] = slip_buf[1 + pe]
      BY <3>2, <1>8
    <3>4. slip_buf'[1] # END
      BY <3>2, <3>3, <1>8
    <3>5. slip_buf'[Len(slip_buf')] = END
      BY <1>9, <2>1 DEF WholePackets
    <3>6. Len(slip_buf') # 1
      BY <3>4, <3>5
    <3> QED
      BY <3>1, <3>4, <3>5, <3>6 DEF Ends
  <2>2. CASE Ends(slip_buf') = {} /\ slip_packet_end' = 0
    BY <2>1, <2>2
  <2>3. CASE /\ slip_packet_end' \in Ends(slip_buf')
             /\ \A j \in Ends(slip_buf') : slip_packet_end' <= j
    <3>1. /\ slip_packet_end' \in 2 .. Len(slip_buf') /\ slip_buf'[slip_packet_end'] = END
      BY <2>3 DEF Ends
    <3>len. Len(slip_buf') \in Nat
      BY <1>2, LenProperties
    <3>end. slip_packet_end' \in Nat /\ 2 <= slip_packet_end' /\ slip_packet_end' <= Len(slip_buf')
      BY <3>1, <3>len
    <3>2. slip_buf' # <<>>
      BY <3>len, <3>end, EmptySeq
    <3>3. ASSUME NEW k \in 1 .. slip_packet_end' - 1
          PROVE  slip_buf'[k] # END
      <4>1. CASE k = 1
        BY <4>1, <3>2, <2>1
      <4>2. CASE k # 1
        <5>1. k \in 2 .. Len(slip_buf') /\ ~ (slip_packet_end' <= k)
          BY <4>2, <3>len, <3>end, BeforeFirst
        <5>2. k \notin Ends(slip_buf')
          BY <5>1, <2>3
        <5> QED
          BY <5>1, <5>2 DEF Ends
      <4> QED
        BY <4>1, <4>2
    <3> QED
      <4>1. slip_packet_end' # 0
        BY <3>end
      <4> QED
        BY <3>1, <4>1, <3>3, Zenon
  <2> QED
    BY <1>3, <2>2, <2>3
<1>12. CountIsPackets'
  <2> SUFFICES ASSUME ~ overlapped'
               PROVE  slip_packet_count' = Cardinality(EndsOf(slip_buf'))
    BY DEF CountIsPackets, EndsOf
  <2>1. slip_packet_count = Cardinality(EndsOf(slip_buf))
    BY <1>8, <1>inv DEF CountIsPackets, EndsOf
  <2>2. Cardinality(EndsOf(Rest(slip_buf, pe))) = Cardinality(EndsOf(slip_buf)) - 1
    BY <1>8, <1>typ, RestHasOneEndLess
  <2> QED
    BY <2>1, <2>2, <1>8, <1>act
<1> QED
  BY <1>6, <1>7, <1>9, <1>10, <1>11, <1>12 DEF IInv
-----------------------------------------------------------------------------
(* Every step keeps the invariant.                                          *)
LEMMA NextKeepsIInv == IInv /\ [Next]_vars => IInv'
<1> SUFFICES ASSUME IInv, [Next]_vars PROVE IInv'
  OBVIOUS
<1>1. ASSUME NEW len \in PacketLen, WriteToSlip(len) PROVE IInv'
  BY <1>1, WriteKeepsIInv
<1>2. ASSUME UNCHANGED <<device, sent, written, overlapped>>, exited' = TRUE \/ exited' = exited
      PROVE  IInv'
  BY <1>2 DEF IInv, TypeOK, Bounds, WholePackets, InOrder, EndIsFirst, CountIsPackets, device
<1>3. ASSUME NEW n \in 1 .. slip_end, FlushPart(n) PROVE IInv'
  BY <1>3, FlushPartKeepsIInv
<1>4. CASE FlushPacket
  BY <1>4, FlushPacketKeepsIInv
<1>5. CASE DelayExpires
  BY <1>5 DEF DelayExpires, IInv, TypeOK, Bounds, WholePackets, InOrder, EndIsFirst, CountIsPackets
<1> QED
  BY <1>1, <1>2, <1>3, <1>4, <1>5 DEF Next, Overflow, WriteFails, vars

(* The invariant holds in every state of the specification.                 *)
THEOREM SpecIInv == Spec => []IInv
  BY InitIInv, NextKeepsIInv, PTL DEF Spec

(* The variables keep their types and stay in their ranges: no packet ever  *)
(* runs past the end of the buffer, even after a memcpy went wrong.         *)
THEOREM SpecTypeOK == Spec => []TypeOK
  BY SpecIInv, PTL DEF IInv

(* What the radio was given, followed by what is in the buffer, is what     *)
(* slip_send accepted, however the writes were cut.                         *)
THEOREM SpecInOrder == Spec => []InOrder
  BY SpecIInv, PTL DEF IInv

(* slip_packet_end is the end of the first packet, and 0 only if the buffer *)
(* is empty: a packet is never left in it with nobody waiting to write it.  *)
THEOREM SpecEndIsFirst == Spec => []EndIsFirst
  BY SpecIInv, PTL DEF IInv

(* slip_packet_count is the number of packets in the buffer.                *)
THEOREM SpecCountIsPackets == Spec => []CountIsPackets
  BY SpecIInv, PTL DEF IInv
-----------------------------------------------------------------------------
(* The bytes a write appends are those of the buffer, from slip_begin on.   *)
LEMMA WrittenBytes ==
  ASSUME NEW buf \in Seq(Byte), NEW w \in Seq(Byte),
         NEW b \in 0 .. Len(buf), NEW e \in b .. Len(buf)
  PROVE  /\ Len(w \o SubSeq(buf, b + 1, e)) = Len(w) + (e - b)
         /\ \A k \in Len(w) + 1 .. Len(w) + (e - b) :
              /\ (w \o SubSeq(buf, b + 1, e))[k] = buf[b + (k - Len(w))]
              /\ b + (k - Len(w)) \in b + 1 .. e
<1>1. Len(buf) \in Nat /\ b \in Nat /\ e \in Nat /\ b <= e /\ e <= Len(buf) /\ Len(w) \in Nat
  BY LenProperties
<1>2. (\A i \in b + 1 .. e : buf[i] \in Byte) /\ b + 1 \in Int /\ e \in Int
  BY <1>1, ElementOfSeq
<1> DEFINE out == SubSeq(buf, b + 1, e)
<1>3. /\ out \in Seq(Byte)
      /\ Len(out) = IF b + 1 <= e THEN e - (b + 1) + 1 ELSE 0
      /\ \A i \in 1 .. e - (b + 1) + 1 : out[i] = buf[(b + 1) + i - 1]
  BY <1>2, SubSeqProperties
<1> HIDE DEF out
<1>4. Len(out) = e - b
  BY <1>1, <1>3
<1>5. /\ Len(w \o out) = Len(w) + Len(out)
      /\ \A i \in 1 .. Len(w) + Len(out) :
           (w \o out)[i] = IF i <= Len(w) THEN w[i] ELSE out[i - Len(w)]
  BY <1>3, ConcatProperties
<1>6. ASSUME NEW k \in Len(w) + 1 .. Len(w) + (e - b)
      PROVE  (w \o out)[k] = buf[b + (k - Len(w))] /\ b + (k - Len(w)) \in b + 1 .. e
  <2>1. /\ k \in 1 .. Len(w) + Len(out) /\ ~ (k <= Len(w))
        /\ k - Len(w) \in 1 .. e - (b + 1) + 1
        /\ (b + 1) + (k - Len(w)) - 1 = b + (k - Len(w))
        /\ b + (k - Len(w)) \in b + 1 .. e
    BY <1>1, <1>4
  <2>2. (w \o out)[k] = out[k - Len(w)]
    BY <2>1, <1>5
  <2>3. out[k - Len(w)] = buf[b + (k - Len(w))]
    BY <2>1, <1>3
  <2> QED
    BY <2>1, <2>2, <2>3
<1> QED
  BY <1>4, <1>5, <1>6 DEF out

(* A write of slip_begin + 1 .. e, within the first packet, meets its END   *)
(* at its last byte or not at all.                                          *)
LEMMA WriteWithinPacket ==
  ASSUME IInv, ~ overlapped, slip_packet_end # 0,
         NEW e \in slip_begin + 1 .. slip_packet_end,
         written' = written \o SubSeq(slip_buf, slip_begin + 1, e)
  PROVE  /\ \A k \in Len(written) + 1 .. Len(written') - 1 : written'[k] # END
         /\ e < slip_packet_end => written'[Len(written')] # END
<1>1. /\ slip_buf \in Seq(Byte) /\ written \in Seq(Byte) /\ slip_begin \in Nat
      /\ slip_packet_end \in 1 .. slip_end /\ slip_end \in Nat /\ Len(written) \in Nat
  BY LenProperties DEF IInv, TypeOK
<1>2. \A k \in 1 .. slip_packet_end - 1 : slip_buf[k] # END
  BY DEF IInv, EndIsFirst
<1>3. slip_begin \in 0 .. Len(slip_buf) /\ e \in slip_begin .. Len(slip_buf) /\ e \in Nat
  BY <1>1
<1>4. /\ Len(written') = Len(written) + (e - slip_begin)
      /\ \A k \in Len(written) + 1 .. Len(written) + (e - slip_begin) :
           /\ written'[k] = slip_buf[slip_begin + (k - Len(written))]
           /\ slip_begin + (k - Len(written)) \in slip_begin + 1 .. e
  BY <1>1, <1>3, WrittenBytes
<1>5. ASSUME NEW k \in Len(written) + 1 .. Len(written) + (e - slip_begin),
             k < Len(written) + (e - slip_begin) \/ e < slip_packet_end
      PROVE  written'[k] # END
  <2>1. slip_begin + (k - Len(written)) \in 1 .. slip_packet_end - 1
    BY <1>1, <1>3, <1>5
  <2> QED
    BY <2>1, <1>2, <1>4
<1>6. ASSUME NEW k \in Len(written) + 1 .. Len(written') - 1 PROVE written'[k] # END
  <2>1. /\ k \in Len(written) + 1 .. Len(written) + (e - slip_begin)
        /\ k < Len(written) + (e - slip_begin)
    BY <1>1, <1>3, <1>4
  <2> QED
    BY <2>1, <1>5
<1>7. ASSUME e < slip_packet_end PROVE written'[Len(written')] # END
  <2>1. Len(written') \in Len(written) + 1 .. Len(written) + (e - slip_begin)
    BY <1>1, <1>3, <1>4
  <2> QED
    BY <2>1, <1>5, <1>7
<1> QED
  BY <1>6, <1>7

(* A write stays within one packet, and after the last byte of a packet the *)
(* delay is running before the first of the next can be written.            *)
THEOREM SpecOnePacketPerDelay == Spec => OnePacketPerDelay
<1> DEFINE Step ==
      (SendDelay /\ ~ overlapped /\ Len(written') > Len(written))
        => /\ ~ send_delay_timer
           /\ \A k \in Len(written) + 1 .. Len(written') - 1 : written'[k] # END
           /\ written'[Len(written')] = END /\ slip_buf' # <<>> => send_delay_timer'
<1>1. IInv /\ [Next]_vars => [Step]_vars
  <2> SUFFICES ASSUME IInv, Next, SendDelay, ~ overlapped, Len(written') > Len(written)
               PROVE  /\ ~ send_delay_timer
                      /\ \A k \in Len(written) + 1 .. Len(written') - 1 : written'[k] # END
                      /\ written'[Len(written')] = END /\ slip_buf' # <<>> => send_delay_timer'
    OBVIOUS
  <2>1. written' # written
    <3>1. Len(written) \in Nat
      BY LenProperties DEF IInv, TypeOK
    <3> QED
      BY <3>1
  <2>2. slip_begin \in Nat /\ slip_packet_end \in Nat /\ slip_packet_end # 0 => slip_begin < slip_packet_end
    BY LenProperties DEF IInv, TypeOK, Bounds
  <2>typ. slip_begin \in Nat /\ slip_packet_end \in Nat
    BY LenProperties DEF IInv, TypeOK
  <2>3. CASE \E n \in 1 .. slip_end : FlushPart(n)
    <3> PICK n \in 1 .. slip_end : FlushPart(n)
      BY <2>3
    <3>1. /\ slip_packet_end # 0 /\ ~ send_delay_timer /\ slip_begin + n < slip_packet_end
          /\ written' = written \o SubSeq(slip_buf, slip_begin + 1, slip_begin + n)
      BY DEF FlushPart, Ready, Written
    <3>2. n \in Nat \ {0}
      BY LenProperties DEF IInv, TypeOK
    <3>3. slip_begin + n \in slip_begin + 1 .. slip_packet_end
      BY <3>1, <3>2, <2>typ
    <3>4. /\ \A k \in Len(written) + 1 .. Len(written') - 1 : written'[k] # END
          /\ written'[Len(written')] # END
      BY <3>1, <3>3, WriteWithinPacket
    <3> QED
      BY <3>1, <3>4
  <2>4. CASE FlushPacket
    <3>1. /\ slip_packet_end # 0 /\ ~ send_delay_timer
          /\ written' = written \o SubSeq(slip_buf, slip_begin + 1,
                                          slip_begin + (slip_packet_end - slip_begin))
          /\ send_delay_timer' = (SendDelay /\ slip_buf' # <<>>)
      BY <2>4 DEF FlushPacket, Ready, Written
    <3>2. slip_begin + (slip_packet_end - slip_begin) = slip_packet_end
      BY <2>typ
    <3>3. slip_packet_end \in slip_begin + 1 .. slip_packet_end
      BY <3>1, <2>2, <2>typ
    <3>4. \A k \in Len(written) + 1 .. Len(written') - 1 : written'[k] # END
      BY <3>1, <3>2, <3>3, WriteWithinPacket
    <3>5. slip_buf' # <<>> => send_delay_timer'
      BY <3>1
    <3> QED
      BY <3>1, <3>4, <3>5
  <2> QED
    BY <2>1, <2>3, <2>4 DEF Next, WriteToSlip, Accept, Overflow, WriteFails, DelayExpires
<1> QED
  BY <1>1, SpecIInv, PTL DEF Spec, OnePacketPerDelay
=============================================================================
