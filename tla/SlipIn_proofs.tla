---------------------------- MODULE SlipIn_proofs --------------------------
(* For any traffic, any buffer and any number of bytes lost: the reader of  *)
(* the slip devices keeps its types and its buffer; with one device, what   *)
(* it passes on is in order, and it finds the beginning of a packet again.  *)
EXTENDS SlipIn, SequenceTheorems, FiniteSetTheorems, WellFoundedInduction, TLAPS

LEMMA LeastNat ==
  ASSUME NEW T \in SUBSET Nat, T # {}
  PROVE  \E x \in T : \A y \in T : x <= y
<1>1. PICK x \in T : \A y \in T : ~ (<<y, x>> \in OpToRel(<, Nat))
  BY NatLessThanWellFounded, WFMin
<1>2. ASSUME NEW y \in T PROVE x <= y
  <2>1. ~ (y < x)
    BY <1>1 DEF OpToRel
  <2> QED
    BY <2>1
<1> QED
  BY <1>2

(* What is written for several messages is what is written for each, one    *)
(* after the other: f[i] for the first i of them.                           *)
IsFlatten(f, seqs, n) ==
  \A i \in 1 .. n : f[i] = IF i = 1 THEN seqs[i] ELSE f[i - 1] \o seqs[i]

LEMMA FlattenExists ==
  ASSUME NEW S, NEW n \in Nat \ {0}, NEW seqs \in [1 .. n -> Seq(S)]
  PROVE  \E f \in [1 .. n -> Seq(S)] : IsFlatten(f, seqs, n)
<1> DEFINE P(m) == \E f \in [1 .. m -> Seq(S)] : IsFlatten(f, seqs, m)
           T == {m \in 1 .. n : ~ P(m)}
<1>1. P(1)
  <2> DEFINE f == [i \in 1 .. 1 |-> seqs[1]]
  <2>1. f \in [1 .. 1 -> Seq(S)] /\ IsFlatten(f, seqs, 1)
    BY DEF IsFlatten
  <2> QED
    BY <2>1
<1>2. ASSUME NEW m \in 2 .. n, P(m - 1) PROVE P(m)
  <2>1. PICK f \in [1 .. m - 1 -> Seq(S)] : IsFlatten(f, seqs, m - 1)
    BY <1>2
  <2> DEFINE g == [i \in 1 .. m |-> IF i < m THEN f[i] ELSE f[m - 1] \o seqs[m]]
  <2>2. f[m - 1] \in Seq(S) /\ seqs[m] \in Seq(S)
    OBVIOUS
  <2>3. f[m - 1] \o seqs[m] \in Seq(S)
    BY <2>2
  <2>4. g \in [1 .. m -> Seq(S)]
    BY <2>3
  <2>a. /\ m \in Nat /\ m > 1 /\ m \in 1 .. m /\ m - 1 \in 1 .. m /\ ~ (m < m) /\ m - 1 < m
        /\ \A i \in 1 .. m - 1 : i \in 1 .. m /\ i < m /\ (i # 1 => i - 1 \in 1 .. m - 1)
        /\ \A i \in 1 .. m : i # m => i \in 1 .. m - 1
    OBVIOUS
  <2>5. /\ \A i \in 1 .. m - 1 : g[i] = f[i]
        /\ g[m] = g[m - 1] \o seqs[m]
    BY <2>a
  <2> HIDE DEF g
  <2>6. ASSUME NEW i \in 1 .. m
        PROVE  g[i] = IF i = 1 THEN seqs[i] ELSE g[i - 1] \o seqs[i]
    <3>1. CASE i = m
      BY <2>a, <2>5, <3>1
    <3>2. CASE i # m
      <4>1. i \in 1 .. m - 1 /\ (i # 1 => i - 1 \in 1 .. m - 1)
        BY <2>a, <3>2
      <4>2. f[i] = IF i = 1 THEN seqs[i] ELSE f[i - 1] \o seqs[i]
        BY <2>1, <4>1 DEF IsFlatten
      <4> QED
        BY <2>5, <4>1, <4>2
    <3> QED
      BY <3>1, <3>2
  <2>7. IsFlatten(g, seqs, m)
    BY <2>6 DEF IsFlatten
  <2> QED
    BY <2>4, <2>7
<1>3. SUFFICES ASSUME ~ P(n) PROVE FALSE
  OBVIOUS
<1> HIDE DEF P
<1>a. T \in SUBSET Nat /\ T # {}
  <2>1. n \in 1 .. n
    OBVIOUS
  <2>2. n \in T
    BY <1>3, <2>1, Zenon
  <2>3. \A m \in T : m \in 1 .. n
    BY Zenon
  <2> HIDE DEF T
  <2> QED
    BY <2>2, <2>3
<1>4. PICK m \in T : \A k \in T : m <= k
  BY <1>a, LeastNat
<1>5. m \in 2 .. n
  BY <1>1
<1>6. P(m - 1)
  BY <1>4, <1>5
<1> QED
  BY <1>2, <1>5, <1>6

LEMMA FlattenIs ==
  ASSUME NEW S, NEW n \in Nat \ {0}, NEW seqs \in [1 .. n -> Seq(S)]
  PROVE  \E f \in [1 .. n -> Seq(S)] : IsFlatten(f, seqs, n) /\ FlattenSeq(seqs) = f[n]
<1> DEFINE F(f) == [i \in 1 .. n |-> IF i = 1 THEN seqs[i] ELSE f[i - 1] \o seqs[i]]
           flatten == CHOOSE f : f = F(f)
<1>1. \E f : f = F(f)
  <2>1. PICK f \in [1 .. n -> Seq(S)] : IsFlatten(f, seqs, n)
    BY FlattenExists
  <2>2. f = F(f)
    BY <2>1 DEF IsFlatten
  <2> QED
    BY <2>2
<1>2. flatten = F(flatten)
  BY <1>1
<1>3. Len(seqs) = n
  OBVIOUS
<1>4. FlattenSeq(seqs) = flatten[n]
  BY <1>3 DEF FlattenSeq
<1> HIDE DEF flatten
<1>5. IsFlatten(flatten, seqs, n) /\ DOMAIN flatten = 1 .. n
  BY <1>2 DEF IsFlatten
<1>6. \A i \in 1 .. n : flatten[i] \in Seq(S)
  <2> DEFINE T == {i \in 1 .. n : flatten[i] \notin Seq(S)}
  <2>1. SUFFICES ASSUME T # {} PROVE FALSE
    OBVIOUS
  <2>a. T \in SUBSET Nat
    OBVIOUS
  <2>2. PICK i \in T : \A j \in T : i <= j
    BY <2>a, <2>1, LeastNat
  <2>3. i # 1
    BY <1>5 DEF IsFlatten
  <2>4. i - 1 \in 1 .. n /\ i - 1 \notin T
    BY <2>2, <2>3
  <2>5. flatten[i - 1] \in Seq(S) /\ seqs[i] \in Seq(S)
    BY <2>4
  <2>6. flatten[i] = flatten[i - 1] \o seqs[i]
    BY <1>5, <2>3 DEF IsFlatten
  <2>7. flatten[i - 1] \o seqs[i] \in Seq(S)
    BY <2>5
  <2> QED
    BY <2>6, <2>7
<1>7. flatten = [i \in 1 .. n |-> flatten[i]]
  BY <1>2
<1>8. flatten \in [1 .. n -> Seq(S)]
  BY <1>6, <1>7
<1> QED
  BY <1>4, <1>5, <1>8

LEMMA FlattenType ==
  ASSUME NEW S, NEW seqs \in Seq(Seq(S))
  PROVE  FlattenSeq(seqs) \in Seq(S)
<1>1. CASE Len(seqs) = 0
  <2>1. FlattenSeq(seqs) = seqs
    BY <1>1 DEF FlattenSeq
  <2>2. seqs = <<>>
    BY <1>1
  <2> QED
    BY <2>1, <2>2
<1>2. CASE Len(seqs) # 0
  <2>1. PICK n \in Nat \ {0} : seqs \in [1 .. n -> Seq(S)] /\ n = Len(seqs)
    BY <1>2
  <2>2. PICK f \in [1 .. n -> Seq(S)] : FlattenSeq(seqs) = f[n]
    BY <2>1, FlattenIs
  <2> QED
    BY <2>2
<1> QED
  BY <1>1, <1>2
-----------------------------------------------------------------------------
(* The order in which a device writes: by message, then by place, and an    *)
(* ESC before its code.                                                     *)
Before(x, y) ==
  \/ x.msg < y.msg
  \/ x.msg = y.msg /\ x.pos < y.pos
  \/ x.msg = y.msg /\ x.pos = y.pos /\ x.s = "esc" /\ y.s = "code"

Sorted(q) == \A i, j \in DOMAIN q : i < j => Before(q[i], q[j])

LEMMA BeforeOrder ==
  ASSUME NEW x \in AnySym, NEW y \in AnySym, NEW z \in AnySym
  PROVE  /\ ~ Before(x, x)
         /\ ~ (Before(x, y) /\ Before(y, x))
         /\ Before(x, y) /\ Before(y, z) => Before(x, z)
BY DEF Before, AnySym

LEMMA RangeConcat ==
  ASSUME NEW S, NEW p \in Seq(S), NEW q \in Seq(S)
  PROVE  Range(p \o q) = Range(p) \cup Range(q)
<1>1. ASSUME NEW i \in DOMAIN p PROVE p[i] \in Range(p \o q)
  <2>1. i \in DOMAIN (p \o q) /\ (p \o q)[i] = p[i]
    OBVIOUS
  <2> QED
    BY <2>1 DEF Range
<1>2. ASSUME NEW i \in DOMAIN q PROVE q[i] \in Range(p \o q)
  <2>1. Len(p) + i \in DOMAIN (p \o q) /\ (p \o q)[Len(p) + i] = q[i]
    OBVIOUS
  <2> QED
    BY <2>1 DEF Range
<1>3. ASSUME NEW i \in DOMAIN (p \o q) PROVE (p \o q)[i] \in Range(p) \cup Range(q)
  <2>1. CASE i <= Len(p)
    <3>1. i \in DOMAIN p /\ (p \o q)[i] = p[i]
      BY <2>1
    <3> QED
      BY <3>1 DEF Range
  <2>2. CASE ~ (i <= Len(p))
    <3>1. i - Len(p) \in DOMAIN q /\ (p \o q)[i] = q[i - Len(p)]
      BY <2>2
    <3> QED
      BY <3>1 DEF Range
  <2> QED
    BY <2>1, <2>2
<1> QED
  BY <1>1, <1>2, <1>3 DEF Range

LEMMA ConcatSorted ==
  ASSUME NEW S, NEW p \in Seq(S), NEW q \in Seq(S), Sorted(p), Sorted(q),
         \A x \in Range(p) : \A y \in Range(q) : Before(x, y)
  PROVE  Sorted(p \o q)
<1> SUFFICES ASSUME NEW i \in DOMAIN (p \o q), NEW j \in DOMAIN (p \o q), i < j
             PROVE  Before((p \o q)[i], (p \o q)[j])
  BY DEF Sorted
<1>1. CASE j <= Len(p)
  <2>1. /\ i \in DOMAIN p /\ j \in DOMAIN p
        /\ (p \o q)[i] = p[i] /\ (p \o q)[j] = p[j]
    BY <1>1
  <2> QED
    BY <2>1 DEF Sorted
<1>2. CASE i > Len(p)
  <2>1. /\ i - Len(p) \in DOMAIN q /\ j - Len(p) \in DOMAIN q /\ i - Len(p) < j - Len(p)
        /\ (p \o q)[i] = q[i - Len(p)] /\ (p \o q)[j] = q[j - Len(p)]
    BY <1>2
  <2> QED
    BY <2>1 DEF Sorted
<1>3. CASE i <= Len(p) /\ j > Len(p)
  <2>1. /\ i \in DOMAIN p /\ j - Len(p) \in DOMAIN q
        /\ (p \o q)[i] = p[i] /\ (p \o q)[j] = q[j - Len(p)]
    BY <1>3
  <2> QED
    BY <2>1 DEF Range
<1>4. i \in Nat /\ j \in Nat /\ Len(p) \in Nat
  OBVIOUS
<1> QED
  BY <1>1, <1>2, <1>3, <1>4

LEMMA SortedConcat ==
  ASSUME NEW S, NEW p \in Seq(S), NEW q \in Seq(S), Sorted(p \o q)
  PROVE  /\ Sorted(p) /\ Sorted(q)
         /\ \A x \in Range(p) : \A y \in Range(q) : Before(x, y)
<1>1. \A i \in DOMAIN p : i \in DOMAIN (p \o q) /\ (p \o q)[i] = p[i]
  OBVIOUS
<1>2. \A i \in DOMAIN q : Len(p) + i \in DOMAIN (p \o q) /\ (p \o q)[Len(p) + i] = q[i]
  OBVIOUS
<1>3. \A i, j \in DOMAIN q : i < j => Len(p) + i < Len(p) + j
  OBVIOUS
<1>4. \A i \in DOMAIN p : \A j \in DOMAIN q : i < Len(p) + j
  OBVIOUS
<1> QED
  BY <1>1, <1>2, <1>3, <1>4 DEF Sorted, Range

(* Sequences that are sorted, each before the next ones, are sorted when    *)
(* they are put together.                                                   *)
LEMMA FlattenSorted ==
  ASSUME NEW S, NEW seqs \in Seq(Seq(S)),
         \A i \in DOMAIN seqs : Sorted(seqs[i]),
         \A i, j \in DOMAIN seqs : i < j =>
           \A x \in Range(seqs[i]) : \A y \in Range(seqs[j]) : Before(x, y)
  PROVE  /\ Sorted(FlattenSeq(seqs))
         /\ \A x : x \in Range(FlattenSeq(seqs)) <=> \E i \in DOMAIN seqs : x \in Range(seqs[i])
<1>1. CASE Len(seqs) = 0
  <2>1. FlattenSeq(seqs) = seqs
    BY <1>1 DEF FlattenSeq
  <2>2. seqs = <<>> /\ DOMAIN seqs = {}
    BY <1>1
  <2> QED
    BY <2>1, <2>2 DEF Sorted, Range
<1>2. CASE Len(seqs) # 0
  <2>1. PICK n \in Nat \ {0} : seqs \in [1 .. n -> Seq(S)] /\ n = Len(seqs)
    BY <1>2
  <2>2. PICK f \in [1 .. n -> Seq(S)] : IsFlatten(f, seqs, n) /\ FlattenSeq(seqs) = f[n]
    BY <2>1, FlattenIs
  <2> DEFINE P(i) == /\ Sorted(f[i])
                     /\ \A x : x \in Range(f[i]) <=> \E j \in 1 .. i : x \in Range(seqs[j])
             T == {i \in 1 .. n : ~ P(i)}
  <2>3. P(1)
    <3>1. 1 \in 1 .. n /\ 1 \in 1 .. 1 /\ \A j \in 1 .. 1 : j = 1
      OBVIOUS
    <3>2. f[1] = seqs[1]
      BY <2>2, <3>1 DEF IsFlatten
    <3>3. Sorted(seqs[1])
      BY <2>1, <3>1
    <3> QED
      BY <3>1, <3>2, <3>3
  <2>4. ASSUME NEW i \in 2 .. n, P(i - 1) PROVE P(i)
    <3>1. /\ i \in 1 .. n /\ i # 1 /\ i - 1 \in 1 .. n /\ DOMAIN seqs = 1 .. n
          /\ \A j \in 1 .. i - 1 : j \in 1 .. n /\ j < i /\ j \in 1 .. i
          /\ \A j \in 1 .. i : j = i \/ j \in 1 .. i - 1
          /\ i \in 1 .. i
      BY <2>1
    <3>2. f[i] = f[i - 1] \o seqs[i]
      BY <2>2, <3>1 DEF IsFlatten
    <3>3. f[i - 1] \in Seq(S) /\ seqs[i] \in Seq(S)
      BY <2>1, <3>1
    <3>4. Range(f[i]) = Range(f[i - 1]) \cup Range(seqs[i])
      BY <3>2, <3>3, RangeConcat
    <3>5. \A x \in Range(f[i - 1]) : \A y \in Range(seqs[i]) : Before(x, y)
      BY <2>4, <3>1
    <3>6. Sorted(f[i - 1]) /\ Sorted(seqs[i])
      BY <2>4, <3>1
    <3>7. Sorted(f[i])
      BY <3>2, <3>3, <3>5, <3>6, ConcatSorted
    <3> QED
      BY <2>4, <3>1, <3>4, <3>7
  <2>5. n \in 1 .. n /\ T \in SUBSET Nat
    OBVIOUS
  <2>6. P(n)
    <3>1. SUFFICES ASSUME ~ P(n) PROVE FALSE
      OBVIOUS
    <3> HIDE DEF P
    <3>2. n \in T
      BY <2>5, <3>1, Zenon
    <3>3. PICK i \in T : \A k \in T : i <= k
      BY <2>5, <3>2, LeastNat
    <3>4. i \in 2 .. n
      BY <2>3
    <3>5. P(i - 1)
      BY <3>3, <3>4
    <3> QED
      BY <2>4, <3>4, <3>5
  <2> QED
    BY <2>1, <2>2, <2>6
<1> QED
  BY <1>1, <1>2
-----------------------------------------------------------------------------
(* What is written for message m of device d, and for all its messages.     *)
InWire(d, m, x) ==
  /\ x \in AnySym /\ x.dev = d /\ x.msg = m
  /\ \/ x.s = "end" /\ x.pos \in {0, Len(Bytes(d, m)) + 1}
     \/ /\ x.pos \in 1 .. Len(Bytes(d, m))
        /\ IF Traffic[d][m].escaped[x.pos] THEN x.s \in {"esc", "code"} ELSE x.s = "byte"

Formed(d, x) == x.msg \in DOMAIN Traffic[d] /\ InWire(d, x.msg, x)

LEMMA ShortSeqs ==
  ASSUME NEW S, NEW x \in S, NEW y \in S
  PROVE  /\ <<x>> \in Seq(S) /\ Range(<<x>>) = {x} /\ Sorted(<<x>>)
         /\ <<x, y>> \in Seq(S) /\ Range(<<x, y>>) = {x, y}
         /\ Before(x, y) => Sorted(<<x, y>>)
<1>1. <<x>> \in Seq(S) /\ DOMAIN <<x>> = {1} /\ <<x>>[1] = x
  OBVIOUS
<1>2. /\ <<x, y>> \in Seq(S) /\ DOMAIN <<x, y>> = {1, 2}
      /\ <<x, y>>[1] = x /\ <<x, y>>[2] = y
  OBVIOUS
<1>3. Range(<<x>>) = {x} /\ Range(<<x, y>>) = {x, y}
  BY <1>1, <1>2 DEF Range
<1>4. ~ (1 < 1) /\ ~ (2 < 1) /\ ~ (2 < 2)
  OBVIOUS
<1>5. Sorted(<<x>>) /\ (Before(x, y) => Sorted(<<x, y>>))
  BY <1>1, <1>2, <1>4 DEF Sorted
<1> QED
  BY <1>1, <1>2, <1>3, <1>5

LEMMA SymFields ==
  ASSUME NEW s \in {"byte", "esc", "code", "end"}, NEW d \in Device, NEW m \in Nat, NEW k \in Nat
  PROVE  /\ Sym(s, d, m, k) \in AnySym
         /\ Sym(s, d, m, k).s = s /\ Sym(s, d, m, k).dev = d
         /\ Sym(s, d, m, k).msg = m /\ Sym(s, d, m, k).pos = k
BY DEF Sym, AnySym

LEMMA SymIs ==
  ASSUME NEW x \in AnySym
  PROVE  x = Sym(x.s, x.dev, x.msg, x.pos)
BY DEF Sym, AnySym

LEMMA MessageType ==
  ASSUME NEW d \in Device, NEW m \in DOMAIN Traffic[d]
  PROVE  /\ m \in Nat \ {0} /\ Traffic[d][m] \in Message
         /\ Traffic[d][m].escaped \in Seq(BOOLEAN)
         /\ DOMAIN Bytes(d, m) = 1 .. Len(Traffic[d][m].escaped)
         /\ Len(Bytes(d, m)) = Len(Traffic[d][m].escaped)
         /\ Len(Bytes(d, m)) \in Nat
         /\ \A k \in 1 .. Len(Bytes(d, m)) : Bytes(d, m)[k] = Sym("byte", d, m, k)
<1>1. m \in Nat \ {0} /\ Traffic[d][m] \in Message
  <2>1. \A q \in Seq(Message) : \A k \in DOMAIN q : k \in Nat \ {0} /\ q[k] \in Message
    OBVIOUS
  <2>2. Traffic[d] \in Seq(Message)
    BY TrafficAssumption
  <2> QED
    BY <2>1, <2>2
<1>2. Traffic[d][m].escaped \in Seq(BOOLEAN)
  BY <1>1 DEF Message
<1>3. DOMAIN Bytes(d, m) = 1 .. Len(Traffic[d][m].escaped) /\ Len(Traffic[d][m].escaped) \in Nat
  BY <1>2 DEF Bytes
<1>4. Len(Bytes(d, m)) = Len(Traffic[d][m].escaped)
  BY <1>3 DEF Bytes
<1>5. \A k \in 1 .. Len(Bytes(d, m)) : Bytes(d, m)[k] = Sym("byte", d, m, k)
  BY <1>3, <1>4 DEF Bytes
<1> QED
  BY <1>1, <1>2, <1>3, <1>4, <1>5

LEMMA WireSorted ==
  ASSUME NEW d \in Device, NEW m \in DOMAIN Traffic[d]
  PROVE  /\ Wire(d, m) \in Seq(AnySym) /\ Sorted(Wire(d, m))
         /\ \A x : x \in Range(Wire(d, m)) <=> InWire(d, m, x)
<1> DEFINE e == Traffic[d][m].escaped
           esc(k) == IF e[k] THEN <<Sym("esc", d, m, k), Sym("code", d, m, k)>>
                     ELSE <<Sym("byte", d, m, k)>>
           seqs == [k \in DOMAIN Bytes(d, m) |-> esc(k)]
           a == Sym("end", d, m, 0)
           b == Sym("end", d, m, Len(Bytes(d, m)) + 1)
           inner(x) == /\ x \in AnySym /\ x.dev = d /\ x.msg = m
                       /\ x.pos \in 1 .. Len(Bytes(d, m))
                       /\ IF e[x.pos] THEN x.s \in {"esc", "code"} ELSE x.s = "byte"
<1>1. m \in Nat /\ Len(Bytes(d, m)) \in Nat /\ DOMAIN Bytes(d, m) = 1 .. Len(Bytes(d, m))
  <2>1. m \in Nat \ {0}
    BY MessageType, Zenon
  <2> QED
    BY <2>1, MessageType
<1>2. PICK n \in Nat : n = Len(Bytes(d, m))
  BY <1>1
<1>3. ASSUME NEW k \in 1 .. n
      PROVE  /\ esc(k) \in Seq(AnySym) /\ Sorted(esc(k))
             /\ \A x : x \in Range(esc(k)) <=> inner(x) /\ x.pos = k
  <2>1. k \in Nat
    OBVIOUS
  <2>2. /\ Sym("esc", d, m, k) \in AnySym /\ Sym("code", d, m, k) \in AnySym
        /\ Sym("byte", d, m, k) \in AnySym
    BY <1>1, <2>1, SymFields
  <2>3. CASE e[k]
    <3>1. esc(k) = <<Sym("esc", d, m, k), Sym("code", d, m, k)>>
      BY <2>3
    <3>2. Before(Sym("esc", d, m, k), Sym("code", d, m, k))
      BY <1>1, <2>1, SymFields DEF Before
    <3>3. /\ esc(k) \in Seq(AnySym) /\ Sorted(esc(k))
          /\ Range(esc(k)) = {Sym("esc", d, m, k), Sym("code", d, m, k)}
      BY <2>2, <3>1, <3>2, ShortSeqs
    <3>4. ASSUME NEW x, inner(x), x.pos = k
          PROVE  x \in {Sym("esc", d, m, k), Sym("code", d, m, k)}
      BY <2>3, <3>4, SymIs
    <3>5. inner(Sym("esc", d, m, k)) /\ inner(Sym("code", d, m, k))
      BY <1>1, <1>2, <2>1, <2>2, <2>3, SymFields
    <3> HIDE DEF inner, esc
    <3> QED
      BY <3>3, <3>4, <3>5, <2>1, <1>1, SymFields
  <2>4. CASE ~ e[k]
    <3>1. esc(k) = <<Sym("byte", d, m, k)>>
      BY <2>4
    <3>3. /\ esc(k) \in Seq(AnySym) /\ Sorted(esc(k))
          /\ Range(esc(k)) = {Sym("byte", d, m, k)}
      BY <2>2, <3>1, ShortSeqs
    <3>4. ASSUME NEW x, inner(x), x.pos = k
          PROVE  x = Sym("byte", d, m, k)
      BY <2>4, <3>4, SymIs
    <3>5. inner(Sym("byte", d, m, k))
      BY <1>1, <1>2, <2>1, <2>2, <2>4, SymFields
    <3> HIDE DEF inner, esc
    <3> QED
      BY <3>3, <3>4, <3>5, <2>1, <1>1, SymFields
  <2> QED
    BY <2>3, <2>4
<1> HIDE DEF esc
<1>4. /\ seqs \in Seq(Seq(AnySym)) /\ DOMAIN seqs = 1 .. n
      /\ \A k \in 1 .. n : seqs[k] = esc(k)
  BY <1>1, <1>2, <1>3
<1>5. \A i, j \in DOMAIN seqs : i < j =>
        \A x \in Range(seqs[i]) : \A y \in Range(seqs[j]) : Before(x, y)
  <2> SUFFICES ASSUME NEW i \in 1 .. n, NEW j \in 1 .. n, i < j,
                      NEW x \in Range(esc(i)), NEW y \in Range(esc(j))
               PROVE  Before(x, y)
    BY <1>4
  <2>1. x.msg = m /\ x.pos = i /\ y.msg = m /\ y.pos = j
    BY <1>3
  <2> QED
    BY <2>1 DEF Before
<1>6. PICK F : F = FlattenSeq(seqs)
  OBVIOUS
<1> HIDE DEF seqs
<1>7. \A i \in DOMAIN seqs : Sorted(seqs[i])
  BY <1>3, <1>4
<1>8. F \in Seq(AnySym) /\ Sorted(F) /\ \A x : x \in Range(F) <=> \E i \in 1 .. n : x \in Range(seqs[i])
  BY <1>4, <1>5, <1>6, <1>7, FlattenSorted, FlattenType
<1>9. \A x : x \in Range(F) <=> inner(x)
  <2>1. \A x : inner(x) => x.pos \in 1 .. n
    BY <1>2
  <2> HIDE DEF inner
  <2> QED
    BY <1>3, <1>4, <1>8, <2>1
<1>10. /\ a \in AnySym /\ b \in AnySym /\ a.msg = m /\ b.msg = m /\ a.pos = 0 /\ b.pos = n + 1
       /\ a.s = "end" /\ b.s = "end" /\ a.dev = d /\ b.dev = d
  <2>1. n + 1 \in Nat /\ 0 \in Nat
    OBVIOUS
  <2> QED
    BY <1>1, <1>2, <2>1, SymFields
<1>11. Wire(d, m) = (<<a>> \o F) \o <<b>>
  BY <1>6 DEF Wire, esc, seqs
<1>12. \A x \in Range(F) : x.msg = m /\ x.pos \in 1 .. n
  BY <1>2, <1>9
<1>13. \A x : InWire(d, m, x) <=> x \in {a, b} \/ inner(x)
  <2>1. ASSUME NEW x, InWire(d, m, x), x.s = "end" /\ x.pos \in {0, n + 1} PROVE x \in {a, b}
    BY <1>2, <2>1, SymIs DEF InWire
  <2>2. InWire(d, m, a) /\ InWire(d, m, b)
    BY <1>2, <1>10 DEF InWire
  <2>3. ASSUME NEW x PROVE InWire(d, m, x) <=>
          \/ InWire(d, m, x) /\ x.s = "end" /\ x.pos \in {0, n + 1}
          \/ inner(x)
    BY <1>2 DEF InWire
  <2> HIDE DEF inner
  <2> QED
    BY <2>1, <2>2, <2>3
<1> HIDE DEF a, b, inner
<1>14. PICK A, B : A = <<a>> /\ B = <<b>>
  OBVIOUS
<1>15. /\ A \in Seq(AnySym) /\ Range(A) = {a} /\ Sorted(A)
       /\ B \in Seq(AnySym) /\ Range(B) = {b} /\ Sorted(B)
  BY <1>10, <1>14, ShortSeqs
<1>16. PICK G : G = A \o F
  OBVIOUS
<1>17. \A x \in Range(A) : \A y \in Range(F) : Before(x, y)
  BY <1>10, <1>12, <1>15 DEF Before
<1>18. G \in Seq(AnySym) /\ Sorted(G) /\ Range(G) = {a} \cup Range(F)
  <2>1. Sorted(A \o F)
    BY <1>8, <1>15, <1>17, ConcatSorted
  <2>2. Range(A \o F) = Range(A) \cup Range(F)
    BY <1>8, <1>15, RangeConcat
  <2> QED
    BY <1>8, <1>15, <1>16, <2>1, <2>2
<1>19. \A x \in Range(G) : \A y \in Range(B) : Before(x, y)
  BY <1>10, <1>12, <1>15, <1>18 DEF Before
<1>20. Wire(d, m) \in Seq(AnySym) /\ Sorted(Wire(d, m)) /\ Range(Wire(d, m)) = Range(G) \cup {b}
  <2>1. Sorted(G \o B)
    BY <1>15, <1>18, <1>19, ConcatSorted
  <2>2. Range(G \o B) = Range(G) \cup Range(B)
    BY <1>15, <1>18, RangeConcat
  <2>3. Wire(d, m) = G \o B
    BY <1>11, <1>14, <1>16
  <2> QED
    BY <1>15, <1>18, <2>1, <2>2, <2>3
<1> QED
  BY <1>9, <1>13, <1>18, <1>20

LEMMA WrittenSorted ==
  ASSUME NEW d \in Device
  PROVE  /\ Written[d] \in Seq(AnySym) /\ Sorted(Written[d])
         /\ \A x : x \in Range(Written[d]) <=> Formed(d, x)
<1> DEFINE seqs == [m \in DOMAIN Traffic[d] |-> Wire(d, m)]
<1>1. DOMAIN Traffic[d] = 1 .. Len(Traffic[d]) /\ Len(Traffic[d]) \in Nat
  BY TrafficAssumption
<1>2. seqs \in Seq(Seq(AnySym))
  BY <1>1, WireSorted
<1>3. DOMAIN seqs = DOMAIN Traffic[d] /\ \A m \in DOMAIN Traffic[d] : seqs[m] = Wire(d, m)
  OBVIOUS
<1>4. Written[d] = FlattenSeq(seqs)
  BY DEF Written
<1> HIDE DEF seqs
<1>5. \A i \in DOMAIN seqs : Sorted(seqs[i])
  BY <1>3, WireSorted
<1>6. \A i, j \in DOMAIN seqs : i < j =>
        \A x \in Range(seqs[i]) : \A y \in Range(seqs[j]) : Before(x, y)
  BY <1>3, WireSorted DEF InWire, Before
<1>7. \A x : x \in Range(FlattenSeq(seqs)) <=> \E i \in DOMAIN seqs : x \in Range(seqs[i])
  BY <1>2, <1>5, <1>6, FlattenSorted
<1>8. \A x : (\E i \in DOMAIN seqs : x \in Range(seqs[i])) <=> Formed(d, x)
  BY <1>3, WireSorted DEF Formed, InWire
<1> QED
  BY <1>2, <1>4, <1>5, <1>6, <1>7, <1>8, FlattenSorted, FlattenType
-----------------------------------------------------------------------------
(* The buffer, and the types.                                               *)
BufInv == TypeOK /\ NoOverrun

LEMMA InitBufInv == Init => BufInv
<1> SUFFICES ASSUME Init PROVE BufInv
  OBVIOUS
<1>1. out \in [Device -> Seq(AnySym)]
  BY WrittenSorted DEF Init, Written
<1>2. <<>> \in Seq(AnySym) /\ Len(<<>>) = 0 /\ InbufSize > 0
  BY SizeAssumption
<1>3. handled \in Seq([dev : Device, bytes : Seq(AnySym)])
  BY DEF Init
<1> QED
  BY <1>1, <1>2, <1>3, SizeAssumption DEF Init, BufInv, TypeOK, NoOverrun

(* The check at the top of the loop leaves room for a byte.                 *)
LEMMA CheckedFits ==
  ASSUME TypeOK
  PROVE  Checked \in Seq(AnySym) /\ Len(Checked) < InbufSize
<1>1. <<>> \in Seq(AnySym) /\ Len(<<>>) = 0
  OBVIOUS
<1>2. Len(inbuf) \in Nat
  BY DEF TypeOK
<1> QED
  BY <1>1, <1>2, SizeAssumption DEF TypeOK, Checked

LEMMA AppendFits ==
  ASSUME TypeOK, NEW x \in AnySym
  PROVE  Append(Checked, x) \in Seq(AnySym) /\ Len(Append(Checked, x)) <= InbufSize
<1> PICK c : c = Checked
  OBVIOUS
<1>1. c \in Seq(AnySym) /\ Len(c) < InbufSize
  BY CheckedFits
<1>2. Append(c, x) \in Seq(AnySym) /\ Len(Append(c, x)) = Len(c) + 1 /\ Len(c) \in Nat
  BY <1>1
<1> QED
  BY <1>1, <1>2, SizeAssumption

LEMMA SeqParts ==
  ASSUME NEW S, NEW q \in Seq(S)
  PROVE  /\ q # <<>> => Head(q) \in S /\ Tail(q) \in Seq(S)
         /\ Len(q) > 1 => q[2] \in S /\ Tail(Tail(q)) \in Seq(S)
<1>1. q # <<>> => Head(q) \in S /\ Tail(q) \in Seq(S) /\ Len(Tail(q)) = Len(q) - 1
  OBVIOUS
<1>2. ASSUME Len(q) > 1 PROVE q[2] \in S /\ Tail(Tail(q)) \in Seq(S)
  <2>1. q # <<>> /\ 2 \in 1 .. Len(q)
    BY <1>2
  <2>2. Tail(q) \in Seq(S) /\ Len(Tail(q)) > 0
    BY <1>1, <1>2, <2>1
  <2>3. Tail(q) # <<>>
    <3> PICK t : t = Tail(q)
      OBVIOUS
    <3>1. t \in Seq(S) /\ Len(t) > 0
      BY <2>2
    <3>2. t # <<>>
      BY <3>1
    <3> QED
      BY <3>2
  <2>4. q[2] \in S
    BY <2>1
  <2>5. Tail(Tail(q)) \in Seq(S)
    BY <2>2, <2>3
  <2> QED
    BY <2>4, <2>5
<1> QED
  BY <1>1, <1>2

(* What fread has to give.                                                  *)
LEMMA FilledType ==
  ASSUME TypeOK, NEW d \in Device
  PROVE  /\ Filled(d) \in Seq(AnySym)
         /\ Filled(d) # <<>> => Head(Filled(d)) \in AnySym /\ Tail(Filled(d)) \in Seq(AnySym)
         /\ Len(Filled(d)) > 1 => Filled(d)[2] \in AnySym /\ Tail(Tail(Filled(d))) \in Seq(AnySym)
<1>1. Filled(d) \in Seq(AnySym)
  BY DEF TypeOK, Filled
<1> QED
  BY <1>1, SeqParts

LEMMA DecodedType ==
  ASSUME NEW x \in AnySym
  PROVE  Decoded(x) \in AnySym /\ Decoded(x).msg = x.msg
BY DEF Decoded, AnySym

LEMMA FreadType ==
  ASSUME TypeOK, NEW d \in Device, NEW rest \in Seq(AnySym), Fread(d, rest)
  PROVE  /\ out' \in [Device -> Seq(AnySym)] /\ line' \in [Device -> Seq(AnySym)]
         /\ stdio' \in [Device -> Seq(AnySym)]
BY DEF TypeOK, Fread

LEMMA NextKeepsBufInv == BufInv /\ [Next]_vars => BufInv'
<1> SUFFICES ASSUME BufInv, [Next]_vars PROVE BufInv'
  OBVIOUS
<1>inv. TypeOK /\ NoOverrun
  BY DEF BufInv
<1>keep. ASSUME /\ out' \in [Device -> Seq(AnySym)] /\ line' \in [Device -> Seq(AnySym)]
                /\ stdio' \in [Device -> Seq(AnySym)],
                inbuf' \in Seq(AnySym), Len(inbuf') <= InbufSize,
                reading' \in Device \cup {None}, reading' = None => Len(inbuf') < InbufSize,
                UNCHANGED <<done, lost>>
         PROVE  BufInv'
  BY <1>inv, <1>keep DEF BufInv, TypeOK, NoOverrun, done
<1>checked. Checked \in Seq(AnySym) /\ Len(Checked) < InbufSize /\ Len(Checked) <= InbufSize
  <2> PICK c : c = Checked
    OBVIOUS
  <2>1. c \in Seq(AnySym) /\ Len(c) < InbufSize
    BY <1>inv, CheckedFits
  <2>2. Len(c) <= InbufSize
    BY <2>1, SizeAssumption
  <2> QED
    BY <2>1, <2>2
<1>1. ASSUME NEW d \in Device, Arrive(d) \/ Lose(d) PROVE BufInv'
  <2>1. out[d] \in Seq(AnySym) /\ line[d] \in Seq(AnySym) /\ out[d] # <<>>
    BY <1>inv, <1>1 DEF TypeOK, Arrive, Lose
  <2>2. Head(out[d]) \in AnySym /\ Tail(out[d]) \in Seq(AnySym)
    BY <2>1
  <2>3. Append(line[d], Head(out[d])) \in Seq(AnySym)
    BY <2>1, <2>2
  <2>4. out' = [out EXCEPT ![d] = Tail(out[d])]
    BY <1>1 DEF Arrive, Lose
  <2>5. out' \in [Device -> Seq(AnySym)]
    BY <1>inv, <2>2, <2>4 DEF TypeOK
  <2>6. line' = line \/ line' = [line EXCEPT ![d] = Append(line[d], Head(out[d]))]
    BY <1>1 DEF Arrive, Lose
  <2>7. line' \in [Device -> Seq(AnySym)]
    BY <1>inv, <2>3, <2>6 DEF TypeOK
  <2>8. lost' \subseteq AnySym
    BY <1>inv, <1>1, <2>2 DEF TypeOK, Arrive, Lose
  <2> QED
    BY <1>inv, <1>1, <2>5, <2>7, <2>8 DEF BufInv, TypeOK, NoOverrun, Arrive, Lose, done
<1>2. ASSUME NEW d \in Device, SerialInput(d) PROVE BufInv'
  BY <1>inv, <1>2, DeviceAssumption DEF BufInv, TypeOK, NoOverrun, SerialInput, lines, done
<1>3. ASSUME NEW d \in Device, NothingLeft(d) PROVE BufInv'
  <2>1. UNCHANGED <<out, line, stdio, done, lost>> /\ inbuf' = Checked /\ reading' = None
    BY <1>3 DEF NothingLeft, lines
  <2> QED
    BY <1>inv, <1>keep, <1>checked, <2>1 DEF TypeOK
<1>4. ASSUME NEW d \in Device, reading = d, Byte(d) PROVE BufInv'
  <2>1. /\ Head(Filled(d)) \in AnySym /\ Tail(Filled(d)) \in Seq(AnySym)
    BY <1>inv, <1>4, FilledType DEF Byte
  <2>2. /\ Fread(d, Tail(Filled(d))) /\ inbuf' = Append(Checked, Head(Filled(d)))
        /\ UNCHANGED <<reading, done, lost>>
    BY <1>4 DEF Byte
  <2> QED
    BY <1>inv, <1>keep, <1>4, <2>1, <2>2, FreadType, AppendFits, DeviceAssumption
<1>5. ASSUME NEW d \in Device, reading = d, Escape(d) PROVE BufInv'
  <2>1. /\ Filled(d)[2] \in AnySym /\ Tail(Tail(Filled(d))) \in Seq(AnySym)
    BY <1>inv, <1>5, FilledType DEF Escape
  <2>2. /\ Fread(d, Tail(Tail(Filled(d)))) /\ inbuf' = Append(Checked, Decoded(Filled(d)[2]))
        /\ UNCHANGED <<reading, done, lost>>
    BY <1>5 DEF Escape
  <2>3. Decoded(Filled(d)[2]) \in AnySym
    BY <2>1, DecodedType
  <2> QED
    BY <1>inv, <1>keep, <1>5, <2>1, <2>2, <2>3, FreadType, AppendFits, DeviceAssumption
<1>6. ASSUME NEW d \in Device, reading = d, EscapeRefilled(d) PROVE BufInv'
  <2>1. line[d] \in Seq(AnySym) /\ line[d] # <<>> /\ <<>> \in Seq(AnySym)
    BY <1>inv, <1>6 DEF TypeOK, EscapeRefilled
  <2>2. Head(line[d]) \in AnySym /\ Tail(line[d]) \in Seq(AnySym)
    BY <2>1
  <2>3. /\ stdio' = [stdio EXCEPT ![d] = Tail(line[d])] /\ line' = [line EXCEPT ![d] = <<>>]
        /\ out' = out /\ inbuf' = Append(Checked, Decoded(Head(line[d])))
        /\ UNCHANGED <<reading, done, lost>>
    BY <1>6 DEF EscapeRefilled
  <2>4. Decoded(Head(line[d])) \in AnySym
    BY <2>2, DecodedType
  <2>5. /\ out' \in [Device -> Seq(AnySym)] /\ line' \in [Device -> Seq(AnySym)]
        /\ stdio' \in [Device -> Seq(AnySym)]
    BY <1>inv, <2>1, <2>2, <2>3 DEF TypeOK
  <2> QED
    BY <1>inv, <1>keep, <1>6, <2>3, <2>4, <2>5, AppendFits, DeviceAssumption
<1>7. ASSUME NEW d \in Device, reading = d, EscapeAlone(d) PROVE BufInv'
  <2>1. /\ Fread(d, Filled(d)) /\ inbuf' = Checked /\ reading' = None
        /\ UNCHANGED <<done, lost>>
    BY <1>7 DEF EscapeAlone
  <2> QED
    BY <1>inv, <1>keep, <1>checked, <2>1, FilledType, FreadType
<1>8. ASSUME NEW d \in Device, reading = d, EmptyPacket(d) \/ Packet(d) \/ CrcError(d)
      PROVE  BufInv'
  <2>1. /\ Filled(d) # <<>> /\ Fread(d, Tail(Filled(d))) /\ UNCHANGED <<lost, crc8>>
        /\ inbuf' = <<>> /\ reading' \in {reading, None}
    BY <1>8 DEF EmptyPacket, Packet, CrcError, AtEnd
  <2>2. /\ out' \in [Device -> Seq(AnySym)] /\ line' \in [Device -> Seq(AnySym)]
        /\ stdio' \in [Device -> Seq(AnySym)]
    BY <1>inv, <2>1, FilledType, FreadType
  <2>3. /\ inbuf' \in Seq(AnySym) /\ Len(inbuf') < InbufSize /\ Len(inbuf') <= InbufSize
    BY <2>1, SizeAssumption
  <2>4. handled' \in Seq([dev : Device, bytes : Seq(AnySym)])
    <3>1. handled' = handled \/ handled' = Append(handled, [dev |-> d, bytes |-> Checked])
      BY <1>8 DEF EmptyPacket, Packet, CrcError, PassOn
    <3> PICK h : h = [dev |-> d, bytes |-> Checked]
      OBVIOUS
    <3>2. h \in [dev : Device, bytes : Seq(AnySym)]
      BY <1>checked
    <3>3. handled \in Seq([dev : Device, bytes : Seq(AnySym)])
      BY <1>inv DEF TypeOK
    <3>4. Append(handled, h) \in Seq([dev : Device, bytes : Seq(AnySym)])
      BY <3>2, <3>3
    <3> QED
      BY <3>1, <3>3, <3>4
  <2>5. crc_errors' \in [Device -> Nat]
    <3>1. crc_errors' = crc_errors \/ crc_errors' = [crc_errors EXCEPT ![d] = crc_errors[d] + 1]
      BY <1>8 DEF EmptyPacket, Packet, CrcError, PassOn
    <3>2. crc_errors \in [Device -> Nat]
      BY <1>inv DEF TypeOK
    <3> QED
      BY <3>1, <3>2
  <2> QED
    BY <1>inv, <1>8, <2>1, <2>2, <2>3, <2>4, <2>5 DEF BufInv, TypeOK, NoOverrun
<1>9. CASE UNCHANGED vars
  BY <1>inv, <1>9 DEF BufInv, TypeOK, NoOverrun, vars, lines, done
<1> QED
  BY <1>1, <1>2, <1>3, <1>4, <1>5, <1>6, <1>7, <1>8, <1>9 DEF Next, Turn

LEMMA SpecBufInv == Spec => []BufInv
<1>1. Init => BufInv
  BY InitBufInv
<1>2. BufInv /\ [Next]_vars => BufInv'
  BY NextKeepsBufInv
<1> QED
  BY <1>1, <1>2, PTL DEF Spec

(* The buffer of serial_input is never overrun, whatever the lines deliver  *)
(* (inbuf and inbufptr of slip-dev.c, of its first Len(inbuf) bytes).       *)
THEOREM SpecTypeOK == Spec => []TypeOK
<1>1. BufInv => TypeOK
  BY DEF BufInv
<1> QED
  BY <1>1, SpecBufInv, PTL

(* Whenever serial_input returns there is room for a byte, which is stored  *)
(* with no check when it is called again on Linux (slip-dev.c, the goto     *)
(* after_fread).                                                            *)
THEOREM SpecNoOverrun == Spec => []NoOverrun
<1>1. BufInv => NoOverrun
  BY DEF BufInv
<1> QED
  BY <1>1, SpecBufInv, PTL
-----------------------------------------------------------------------------
(* What a device has sent that is not read yet, and what a step does to it  *)
(* when there is one device.                                                *)
Joined(s, l, o) == s \o l \o o
Stream(d) == Joined(stdio[d], line[d], out[d])
Unread(d) == Range(Stream(d))

Quiet(d) ==
  Stream(d)' = Stream(d) /\ inbuf' \in {inbuf, Checked} /\ UNCHANGED <<handled, lost>>

Dropped(d) ==
  \E p, r \in Seq(AnySym) : \E x \in AnySym :
    /\ Stream(d) = p \o (<<x>> \o r) /\ Stream(d)' = p \o r
    /\ lost' = lost \cup {x} /\ UNCHANGED <<inbuf, handled>>

ReadByte(d) ==
  /\ Stream(d) # <<>> /\ Stream(d)' = Tail(Stream(d))
  /\ Head(Stream(d)).s \in {"byte", "code"} /\ inbuf' = Append(Checked, Head(Stream(d)))
  /\ UNCHANGED <<handled, lost>>

ReadEscape(d) ==
  /\ Stream(d) # <<>> /\ Tail(Stream(d)) # <<>> /\ Stream(d)' = Tail(Tail(Stream(d)))
  /\ Head(Stream(d)).s = "esc" /\ inbuf' = Append(Checked, Decoded(Head(Tail(Stream(d)))))
  /\ UNCHANGED <<handled, lost>>

ReadEnd(d) ==
  /\ Stream(d) # <<>> /\ Stream(d)' = Tail(Stream(d))
  /\ Head(Stream(d)).s = "end" /\ inbuf' = <<>> /\ UNCHANGED lost
  /\ \/ Checked = <<>> /\ UNCHANGED handled
     \/ Checked # <<>> /\ handled' = Append(handled, [dev |-> d, bytes |-> Checked])
     \/ Checked # <<>> /\ ~ Sound(Checked) /\ UNCHANGED handled

LEMMA FirstHead ==
  ASSUME NEW S, NEW x \in S, NEW u \in Seq(S)
  PROVE  /\ <<x>> \o u \in Seq(S) /\ <<x>> \o u # <<>>
         /\ Head(<<x>> \o u) = x /\ Tail(<<x>> \o u) = u
<1>0. <<x>> \in Seq(S) /\ Len(<<x>>) = 1 /\ <<x>>[1] = x
  OBVIOUS
<1>1. PICK X \in Seq(S) : X = <<x>> /\ Len(X) = 1 /\ X[1] = x
  BY <1>0
<1>2. PICK v \in Seq(S) : v = X \o u
  BY ConcatProperties
<1>3. /\ Len(v) = 1 + Len(u) /\ Len(u) \in Nat /\ v[1] = x
      /\ \A i \in 1 .. Len(u) : v[i + 1] = u[i]
  BY <1>1, <1>2
<1>4. v # <<>> /\ Head(v) = x
  BY <1>3
<1>5. Tail(v) = u
  <2>1. /\ Tail(v) \in Seq(S) /\ Len(Tail(v)) = Len(v) - 1
        /\ \A i \in 1 .. Len(Tail(v)) : Tail(v)[i] = v[i + 1]
    BY <1>4, HeadTailProperties
  <2>2. Len(Tail(v)) = Len(u)
    BY <1>3, <2>1
  <2> QED
    BY <1>3, <2>1, <2>2, SeqEqual
<1> QED
  BY <1>1, <1>2, <1>4, <1>5

LEMMA HeadFirst ==
  ASSUME NEW S, NEW q \in Seq(S), q # <<>>
  PROVE  \E x \in S : \E t \in Seq(S) : q = <<x>> \o t /\ x = Head(q) /\ t = Tail(q)
<1>1. PICK x \in S, t \in Seq(S) : x = Head(q) /\ t = Tail(q)
  BY HeadTailProperties
<1>2. /\ Len(t) = Len(q) - 1 /\ Len(q) \in Nat \ {0} /\ x = q[1]
      /\ \A i \in 1 .. Len(t) : t[i] = q[i + 1]
  BY <1>1
<1>a. <<x>> \in Seq(S) /\ Len(<<x>>) = 1 /\ <<x>>[1] = x
  OBVIOUS
<1>3. PICK X \in Seq(S) : X = <<x>> /\ Len(X) = 1 /\ X[1] = x
  BY <1>a
<1>4. /\ X \o t \in Seq(S) /\ Len(X \o t) = 1 + Len(t)
      /\ \A i \in 1 .. 1 + Len(t) : (X \o t)[i] = IF i <= 1 THEN X[i] ELSE t[i - 1]
  BY <1>3, ConcatProperties
<1>5. PICK v \in Seq(S) : v = X \o t
  BY <1>4
<1>6. Len(v) = Len(q) /\ \A i \in 1 .. Len(q) : v[i] = q[i]
  <2>1. Len(v) = Len(q)
    BY <1>2, <1>4, <1>5
  <2>2. ASSUME NEW i \in 1 .. Len(q) PROVE v[i] = q[i]
    <3>1. CASE i = 1
      BY <1>2, <1>3, <1>4, <1>5, <3>1
    <3>2. CASE i # 1
      <4>1. i - 1 \in 1 .. Len(t) /\ (i - 1) + 1 = i /\ i \in 1 .. 1 + Len(t) /\ ~ (i <= 1)
        BY <1>2, <3>2
      <4>2. v[i] = t[i - 1]
        BY <1>4, <1>5, <4>1
      <4> QED
        BY <1>2, <4>1, <4>2
    <3> QED
      BY <3>1, <3>2
  <2> QED
    BY <2>1, <2>2
<1>7. v = q
  BY <1>6, SeqEqual
<1> QED
  BY <1>1, <1>3, <1>5, <1>7

LEMMA ConcatHead ==
  ASSUME NEW S, NEW p \in Seq(S), NEW q \in Seq(S), p # <<>>
  PROVE  /\ p \o q # <<>> /\ Head(p \o q) = Head(p) /\ Tail(p \o q) = Tail(p) \o q
         /\ Head(p) \in S /\ Tail(p) \in Seq(S)
<1>1. PICK x \in S, t \in Seq(S) : p = <<x>> \o t /\ x = Head(p) /\ t = Tail(p)
  BY HeadFirst
<1>a. <<x>> \in Seq(S)
  OBVIOUS
<1>2. PICK X \in Seq(S) : X = <<x>>
  BY <1>a
<1>3. PICK u \in Seq(S) : u = t \o q
  BY ConcatProperties
<1>4. p \o q = X \o u
  BY <1>1, <1>2, <1>3, ConcatAssociative
<1>5. X \o u # <<>> /\ Head(X \o u) = x /\ Tail(X \o u) = u
  BY <1>2, FirstHead
<1> QED
  BY <1>1, <1>3, <1>4, <1>5

LEMMA ConcatThree ==
  ASSUME NEW S, NEW s \in Seq(S), NEW l \in Seq(S), NEW o \in Seq(S)
  PROVE  s \o l \o o = s \o (l \o o)
BY ConcatAssociative

LEMMA JoinedArrive ==
  ASSUME NEW S, NEW s \in Seq(S), NEW l \in Seq(S), NEW x \in S, NEW t \in Seq(S)
  PROVE  Joined(s, Append(l, x), t) = Joined(s, l, <<x>> \o t)
<1>1. <<x>> \in Seq(S)
  OBVIOUS
<1>2. PICK X \in Seq(S) : X = <<x>>
  BY <1>1
<1>3. PICK sl \in Seq(S) : sl = s \o l
  BY ConcatProperties
<1>4. s \o (l \o X) = sl \o X
  BY <1>3, ConcatThree, SMTT(60)
<1>5. sl \o X \o t = sl \o (X \o t)
  BY ConcatThree, SMTT(60)
<1>6. Append(l, x) = l \o X
  BY <1>2, AppendIsConcat
<1>7. Joined(s, l \o X, t) = Joined(s, l, X \o t)
  BY <1>3, <1>4, <1>5 DEF Joined
<1> QED
  BY <1>2, <1>6, <1>7

LEMMA SingleIs ==
  ASSUME NEW S, NEW s \in Seq(S), Len(s) = 1
  PROVE  s # <<>> /\ Tail(s) = <<>>
<1>1. s # <<>>
  OBVIOUS
<1>2. Tail(s) \in Seq(S) /\ Len(Tail(s)) = 0
  BY <1>1, HeadTailProperties
<1> QED
  BY <1>1, <1>2, EmptySeq

LEMMA RefilledConcat ==
  ASSUME NEW S, NEW s \in Seq(S), NEW l \in Seq(S), NEW o \in Seq(S), Len(s) = 1
  PROVE  \E q \in Seq(S) :
           /\ q = Joined(s, l, o) /\ q # <<>> /\ Head(q) = Head(s)
           /\ l # <<>> => /\ Tail(q) # <<>> /\ Head(Tail(q)) = Head(l)
                          /\ Tail(Tail(q)) = Joined(Tail(l), <<>>, o)
<1>1. s # <<>> /\ Tail(s) = <<>>
  BY SingleIs
<1>2. PICK lo \in Seq(S) : lo = l \o o
  BY ConcatProperties
<1>3. PICK q \in Seq(S) : q = s \o lo
  BY ConcatProperties
<1>4. q = Joined(s, l, o)
  BY <1>2, <1>3, ConcatThree DEF Joined
<1>a. s # <<>>
  BY <1>1
<1>b. s \o lo # <<>> /\ Head(s \o lo) = Head(s) /\ Tail(s \o lo) = Tail(s) \o lo
  BY <1>a, ConcatHead
<1>5. q # <<>> /\ Head(q) = Head(s) /\ Tail(q) = <<>> \o lo
  BY <1>1, <1>3, <1>b
<1>6. Tail(q) = lo
  BY <1>5, ConcatEmptySeq
<1>7. ASSUME l # <<>>
      PROVE  lo # <<>> /\ Head(lo) = Head(l) /\ Tail(lo) = Joined(Tail(l), <<>>, o)
  <2>1. lo # <<>> /\ Head(lo) = Head(l) /\ Tail(lo) = Tail(l) \o o /\ Tail(l) \in Seq(S)
    BY <1>2, <1>7, ConcatHead
  <2>2. Tail(l) \o <<>> = Tail(l)
    BY <2>1, ConcatEmptySeq
  <2> QED
    BY <2>1, <2>2 DEF Joined
<1> QED
  BY <1>4, <1>5, <1>6, <1>7

LEMMA StreamType ==
  ASSUME TypeOK, NEW d \in Device
  PROVE  /\ stdio[d] \in Seq(AnySym) /\ line[d] \in Seq(AnySym) /\ out[d] \in Seq(AnySym)
         /\ Stream(d) \in Seq(AnySym)
BY DEF TypeOK, Stream, Joined

LEMMA StreamFilled ==
  ASSUME TypeOK, NEW d \in Device
  PROVE  \E R \in Seq(AnySym) :
           /\ Stream(d) = Filled(d) \o R
           /\ \A rest \in Seq(AnySym) : Fread(d, rest) => Stream(d)' = rest \o R
<1>1. PICK s \in Seq(AnySym), l \in Seq(AnySym), o \in Seq(AnySym) :
        s = stdio[d] /\ l = line[d] /\ o = out[d] /\ Stream(d) = Joined(s, l, o)
  BY StreamType DEF Stream
<1>2. CASE s = <<>>
  <2>1. Stream(d) = Filled(d) \o o
    BY <1>1, <1>2 DEF Filled, Joined
  <2>2. ASSUME NEW rest \in Seq(AnySym), Fread(d, rest) PROVE Stream(d)' = rest \o o
    <3>1. stdio'[d] = rest /\ line'[d] = <<>> /\ out'[d] = o
      BY <1>1, <1>2, <2>2 DEF Fread, TypeOK
    <3>2. Stream(d)' = rest \o <<>> \o o
      BY <3>1 DEF Stream, Joined
    <3>3. rest \o <<>> = rest
      OBVIOUS
    <3> QED
      BY <3>2, <3>3
  <2> QED
    BY <2>1, <2>2
<1>3. CASE s # <<>>
  <2>1. (s \o l) \o o = s \o (l \o o) /\ l \o o \in Seq(AnySym)
    BY ConcatAssociative
  <2>2. Stream(d) = Filled(d) \o (l \o o)
    BY <1>1, <1>3, <2>1 DEF Filled, Joined
  <2>3. ASSUME NEW rest \in Seq(AnySym), Fread(d, rest) PROVE Stream(d)' = rest \o (l \o o)
    <3>1. stdio'[d] = rest /\ line'[d] = l /\ out'[d] = o
      BY <1>1, <1>3, <2>3 DEF Fread, TypeOK
    <3>2. Stream(d)' = (rest \o l) \o o
      BY <3>1 DEF Stream, Joined
    <3> QED
      BY <3>2, ConcatAssociative
  <2> QED
    BY <2>1, <2>2, <2>3
<1> QED
  BY <1>2, <1>3

LEMMA StepIs ==
  ASSUME TypeOK, NEW d, Device = {d}, [Next]_vars
  PROVE  Quiet(d) \/ Dropped(d) \/ ReadByte(d) \/ ReadEscape(d) \/ ReadEnd(d)
<1>d. d \in Device
  OBVIOUS
<1>f. PICK F \in Seq(AnySym) : F = Filled(d)
  BY <1>d, FilledType
<1>r. PICK R \in Seq(AnySym) :
        /\ Stream(d) = F \o R
        /\ \A rest \in Seq(AnySym) : Fread(d, rest) => Stream(d)' = rest \o R
  BY <1>d, <1>f, StreamFilled
<1>h. ASSUME F # <<>>
      PROVE  /\ Stream(d) # <<>> /\ Head(Stream(d)) = Head(F) /\ Tail(Stream(d)) = Tail(F) \o R
             /\ Head(F) \in AnySym /\ Tail(F) \in Seq(AnySym)
  BY <1>h, <1>r, ConcatHead
<1>1. CASE Arrive(d) \/ Lose(d)
  <2>1. PICK s \in Seq(AnySym), l \in Seq(AnySym), o \in Seq(AnySym) :
          s = stdio[d] /\ l = line[d] /\ o = out[d] /\ Stream(d) = Joined(s, l, o)
    BY <1>d, StreamType DEF Stream
  <2>2. o # <<>>
    BY <1>1, <2>1 DEF Arrive, Lose
  <2>3. PICK x \in AnySym, t \in Seq(AnySym) : o = <<x>> \o t /\ x = Head(o) /\ t = Tail(o)
    BY <2>2, HeadFirst
  <2>4. out'[d] = t /\ stdio'[d] = s
    BY <1>1, <1>d, <2>1, <2>3 DEF Arrive, Lose, TypeOK
  <2>5. CASE Arrive(d)
    <3>1. line'[d] = Append(l, x)
      BY <2>5, <1>d, <2>1, <2>3 DEF Arrive, TypeOK
    <3>2. Stream(d)' = Joined(s, Append(l, x), t)
      BY <2>4, <3>1 DEF Stream
    <3>3. Joined(s, Append(l, x), t) = Joined(s, l, <<x>> \o t)
      BY JoinedArrive
    <3>4. UNCHANGED <<inbuf, handled, lost>>
      BY <2>5 DEF Arrive, done
    <3>5. Stream(d)' = Stream(d)
      BY <2>1, <2>3, <3>2, <3>3
    <3> QED
      BY <3>4, <3>5 DEF Quiet
  <2>6. CASE Lose(d)
    <3>1. line'[d] = l /\ lost' = lost \cup {x} /\ UNCHANGED <<inbuf, handled>>
      BY <2>6, <2>1, <2>3 DEF Lose, done
    <3>2. Stream(d)' = (s \o l) \o t /\ s \o l \in Seq(AnySym)
      BY <2>4, <3>1 DEF Stream, Joined
    <3>3. Stream(d) = (s \o l) \o (<<x>> \o t)
      BY <2>1, <2>3 DEF Joined
    <3> QED
      BY <3>1, <3>2, <3>3 DEF Dropped
  <2> QED
    BY <1>1, <2>5, <2>6
<1>2. CASE SerialInput(d) \/ NothingLeft(d) \/ UNCHANGED vars
  <2>1. UNCHANGED <<stdio, line, out, handled, lost>> /\ inbuf' \in {inbuf, Checked}
    BY <1>2 DEF SerialInput, NothingLeft, vars, lines, done
  <2> QED
    BY <2>1 DEF Quiet, Stream
<1>3. CASE Byte(d)
  <2>1. /\ F # <<>> /\ Head(F).s \in {"byte", "code"} /\ Fread(d, Tail(F))
        /\ inbuf' = Append(Checked, Head(F)) /\ UNCHANGED <<handled, lost>>
    BY <1>3, <1>f DEF Byte, done
  <2> QED
    BY <1>h, <1>r, <2>1 DEF ReadByte
<1>4. CASE Escape(d)
  <2>1. /\ Len(F) > 1 /\ Head(F).s = "esc" /\ Fread(d, Tail(Tail(F)))
        /\ inbuf' = Append(Checked, Decoded(F[2])) /\ UNCHANGED <<handled, lost>>
    BY <1>4, <1>f DEF Escape, done
  <2>2. F # <<>>
    BY <2>1
  <2>3. Len(Tail(F)) = Len(F) - 1 /\ Len(F) \in Nat
    BY <2>2
  <2>4. PICK T \in Seq(AnySym) : T = Tail(F)
    BY <1>h, <2>2
  <2>5. T # <<>>
    BY <2>1, <2>3, <2>4
  <2>6. Head(T) = F[2]
    BY <2>1, <2>2, <2>4
  <2>7. T \o R # <<>> /\ Head(T \o R) = Head(T) /\ Tail(T \o R) = Tail(T) \o R /\ Tail(T) \in Seq(AnySym)
    BY <2>5, ConcatHead
  <2>8. Stream(d)' = Tail(T) \o R
    BY <1>r, <2>1, <2>4, <2>7
  <2> QED
    BY <1>h, <2>1, <2>2, <2>4, <2>6, <2>7, <2>8 DEF ReadEscape
<1>5. CASE EscapeRefilled(d)
  <2>1. PICK s \in Seq(AnySym), l \in Seq(AnySym), o \in Seq(AnySym) :
          s = stdio[d] /\ l = line[d] /\ o = out[d] /\ Stream(d) = Joined(s, l, o)
    BY <1>d, StreamType DEF Stream
  <2>2. /\ Len(s) = 1 /\ Head(s).s = "esc" /\ l # <<>>
        /\ inbuf' = Append(Checked, Decoded(Head(l))) /\ UNCHANGED <<handled, lost>>
    BY <1>5, <2>1 DEF EscapeRefilled, done
  <2>3. stdio'[d] = Tail(l) /\ line'[d] = <<>> /\ out'[d] = o
    BY <1>5, <1>d, <2>1 DEF EscapeRefilled, TypeOK
  <2>4. Stream(d)' = Joined(Tail(l), <<>>, o)
    BY <2>3 DEF Stream
  <2>5. /\ Stream(d) # <<>> /\ Head(Stream(d)) = Head(s) /\ Tail(Stream(d)) # <<>>
        /\ Head(Tail(Stream(d))) = Head(l) /\ Tail(Tail(Stream(d))) = Joined(Tail(l), <<>>, o)
    <3>1. Len(s) = 1
      BY <2>2
    <3>2. PICK q \in Seq(AnySym) :
            /\ q = Joined(s, l, o) /\ q # <<>> /\ Head(q) = Head(s)
            /\ l # <<>> => /\ Tail(q) # <<>> /\ Head(Tail(q)) = Head(l)
                           /\ Tail(Tail(q)) = Joined(Tail(l), <<>>, o)
      BY <3>1, RefilledConcat
    <3>3. Stream(d) = q
      BY <2>1, <3>2
    <3> QED
      BY <2>2, <3>2, <3>3
  <2> QED
    BY <2>2, <2>4, <2>5 DEF ReadEscape
<1>6. CASE EscapeAlone(d)
  <2>1. Fread(d, F) /\ inbuf' = Checked /\ UNCHANGED <<handled, lost>>
    BY <1>6, <1>f DEF EscapeAlone, done
  <2> QED
    BY <1>r, <2>1 DEF Quiet
<1>7. CASE EmptyPacket(d) \/ Packet(d) \/ CrcError(d)
  <2>1. /\ F # <<>> /\ Head(F).s = "end" /\ Fread(d, Tail(F)) /\ UNCHANGED lost /\ inbuf' = <<>>
    BY <1>7, <1>f DEF EmptyPacket, Packet, CrcError, AtEnd
  <2>2. \/ Checked = <<>> /\ UNCHANGED handled
        \/ Checked # <<>> /\ handled' = Append(handled, [dev |-> d, bytes |-> Checked])
        \/ Checked # <<>> /\ ~ Sound(Checked) /\ UNCHANGED handled
    BY <1>7 DEF EmptyPacket, Packet, CrcError, PassOn
  <2> QED
    BY <1>h, <1>r, <2>1, <2>2 DEF ReadEnd
<1> QED
  BY <1>1, <1>2, <1>3, <1>4, <1>5, <1>6, <1>7 DEF Next, Turn
-----------------------------------------------------------------------------
(* What is not read yet is in the order in which it was written, and what   *)
(* is neither there nor lost has been read before it.                       *)
StreamInv(d) ==
  /\ Sorted(Stream(d))
  /\ \A x \in Unread(d) : Formed(d, x) /\ x \notin lost
  /\ \A z \in AnySym : Formed(d, z) /\ z \notin lost /\ z \notin Unread(d) =>
       \A y \in Unread(d) : Before(z, y)

LEMMA SortedHead ==
  ASSUME NEW q \in Seq(AnySym), q # <<>>, Sorted(q)
  PROVE  /\ Head(q) \in AnySym /\ Tail(q) \in Seq(AnySym) /\ Sorted(Tail(q))
         /\ Range(q) = {Head(q)} \cup Range(Tail(q))
         /\ \A y \in Range(Tail(q)) : Before(Head(q), y)
<1>1. PICK x \in AnySym, t \in Seq(AnySym) : q = <<x>> \o t /\ x = Head(q) /\ t = Tail(q)
  BY HeadFirst
<1>2. <<x>> \in Seq(AnySym) /\ Range(<<x>>) = {x}
  BY ShortSeqs
<1>3. PICK X \in Seq(AnySym) : X = <<x>>
  BY <1>2
<1>4. q = X \o t
  BY <1>1, <1>3
<1>5. Sorted(t) /\ \A u \in Range(X) : \A y \in Range(t) : Before(u, y)
  BY <1>4, SortedConcat
<1>6. Range(q) = Range(X) \cup Range(t)
  BY <1>4, RangeConcat
<1> QED
  BY <1>1, <1>2, <1>3, <1>5, <1>6

LEMMA RangeType ==
  ASSUME NEW S, NEW q \in Seq(S)
  PROVE  Range(q) \subseteq S
BY DEF Range

LEMMA DroppedIs ==
  ASSUME TypeOK, NEW d \in Device, Sorted(Stream(d)), Dropped(d)
  PROVE  \E x \in Unread(d) : /\ Unread(d)' = Unread(d) \ {x} /\ Sorted(Stream(d)')
                              /\ lost' = lost \cup {x} /\ UNCHANGED <<inbuf, handled>>
<1>1. PICK p \in Seq(AnySym), r \in Seq(AnySym), x \in AnySym :
        /\ Stream(d) = p \o (<<x>> \o r) /\ Stream(d)' = p \o r
        /\ lost' = lost \cup {x} /\ UNCHANGED <<inbuf, handled>>
  BY DEF Dropped
<1>2. <<x>> \in Seq(AnySym) /\ Range(<<x>>) = {x}
  BY ShortSeqs
<1>3. PICK X \in Seq(AnySym) : X = <<x>>
  BY <1>2
<1>4. PICK xr \in Seq(AnySym) : xr = X \o r
  BY ConcatProperties
<1>5. Stream(d) = p \o xr
  BY <1>1, <1>3, <1>4
<1>6. Sorted(p) /\ Sorted(xr) /\ \A u \in Range(p) : \A y \in Range(xr) : Before(u, y)
  BY <1>5, SortedConcat
<1>7. Sorted(r) /\ \A u \in Range(X) : \A y \in Range(r) : Before(u, y)
  BY <1>4, <1>6, SortedConcat
<1>8. Range(xr) = {x} \cup Range(r)
  <2>1. Range(X \o r) = Range(X) \cup Range(r)
    BY RangeConcat
  <2> QED
    BY <1>2, <1>3, <1>4, <2>1
<1>9. Unread(d) = Range(p) \cup {x} \cup Range(r)
  BY <1>5, <1>8, RangeConcat DEF Unread
<1>10. \A u \in Range(p) : \A y \in Range(r) : Before(u, y)
  BY <1>6, <1>8
<1>11. Sorted(Stream(d)') /\ Unread(d)' = Range(p) \cup Range(r)
  <2>1. Sorted(p \o r)
    BY <1>6, <1>7, <1>10, ConcatSorted
  <2>2. Range(p \o r) = Range(p) \cup Range(r)
    BY RangeConcat
  <2>3. Unread(d)' = Range(Stream(d)')
    BY DEF Unread
  <2> QED
    BY <1>1, <2>1, <2>2, <2>3
<1>12. x \notin Range(p) /\ x \notin Range(r)
  <2>1. x \in Range(xr) /\ x \in Range(X)
    BY <1>2, <1>3, <1>8
  <2> QED
    BY <1>6, <1>7, <2>1, BeforeOrder
<1> QED
  BY <1>1, <1>9, <1>11, <1>12

(* A step takes the first of what is not read, or the first two.            *)
LEMMA ReadIs ==
  ASSUME TypeOK, NEW d \in Device, Sorted(Stream(d)), Stream(d) # <<>>,
         Stream(d)' = Tail(Stream(d))
  PROVE  /\ Head(Stream(d)) \in Unread(d) /\ Head(Stream(d)) \in AnySym /\ Sorted(Stream(d)')
         /\ Unread(d) = {Head(Stream(d))} \cup Unread(d)'
         /\ \A y \in Unread(d)' : Before(Head(Stream(d)), y)
<1>1. Stream(d) \in Seq(AnySym)
  BY StreamType
<1>2. Unread(d)' = Range(Stream(d)')
  BY DEF Unread
<1> QED
  BY <1>1, <1>2, SortedHead DEF Unread

LEMMA ReadTwoIs ==
  ASSUME TypeOK, NEW d \in Device, Sorted(Stream(d)), Stream(d) # <<>>, Tail(Stream(d)) # <<>>,
         Stream(d)' = Tail(Tail(Stream(d)))
  PROVE  /\ Head(Stream(d)) \in AnySym /\ Head(Tail(Stream(d))) \in AnySym /\ Sorted(Stream(d)')
         /\ Unread(d) = {Head(Stream(d)), Head(Tail(Stream(d)))} \cup Unread(d)'
         /\ Before(Head(Stream(d)), Head(Tail(Stream(d))))
         /\ \A y \in Unread(d)' :
              Before(Head(Stream(d)), y) /\ Before(Head(Tail(Stream(d))), y)
<1>1. Stream(d) \in Seq(AnySym)
  BY StreamType
<1>2. Unread(d)' = Range(Stream(d)')
  BY DEF Unread
<1>3. PICK t : t = Tail(Stream(d))
  OBVIOUS
<1>4. /\ Head(Stream(d)) \in AnySym /\ t \in Seq(AnySym) /\ Sorted(t)
      /\ Unread(d) = {Head(Stream(d))} \cup Range(t)
      /\ \A y \in Range(t) : Before(Head(Stream(d)), y)
  BY <1>1, <1>3, SortedHead DEF Unread
<1>5. /\ Head(t) \in AnySym /\ Sorted(Tail(t))
      /\ Range(t) = {Head(t)} \cup Range(Tail(t))
      /\ \A y \in Range(Tail(t)) : Before(Head(t), y)
  BY <1>3, <1>4, SortedHead
<1> QED
  BY <1>2, <1>3, <1>4, <1>5

LEMMA InitStreamInv ==
  ASSUME Init, NEW d \in Device
  PROVE  StreamInv(d) /\ \A x : x \in Unread(d) <=> Formed(d, x)
<1>1. Stream(d) = Written[d]
  <2>1. Stream(d) = Joined(<<>>, <<>>, Written[d])
    BY DEF Init, Stream
  <2>2. Written[d] \in Seq(AnySym)
    BY WrittenSorted
  <2>3. Joined(<<>>, <<>>, Written[d]) = Written[d]
    BY <2>2 DEF Joined
  <2> QED
    BY <2>1, <2>3
<1>2. lost = {}
  BY DEF Init
<1> QED
  BY <1>1, <1>2, WrittenSorted DEF StreamInv, Unread

LEMMA NextKeepsStreamInv ==
  ASSUME TypeOK, NEW d, Device = {d}, StreamInv(d), [Next]_vars
  PROVE  StreamInv(d)'
<1>d. d \in Device
  OBVIOUS
<1>t. Unread(d) \subseteq AnySym
  BY <1>d, StreamType, RangeType DEF Unread
<1>inv. /\ Sorted(Stream(d))
        /\ \A x \in Unread(d) : Formed(d, x) /\ x \notin lost
        /\ \A z \in AnySym : Formed(d, z) /\ z \notin lost /\ z \notin Unread(d) =>
             \A y \in Unread(d) : Before(z, y)
  BY DEF StreamInv
<1>u. StreamInv(d)' <=>
        /\ Sorted(Stream(d)')
        /\ \A x \in Unread(d)' : Formed(d, x) /\ x \notin lost'
        /\ \A z \in AnySym : Formed(d, z) /\ z \notin lost' /\ z \notin Unread(d)' =>
             \A y \in Unread(d)' : Before(z, y)
  BY DEF StreamInv, Formed, InWire, AnySym, Bytes, Before, Sorted
<1>1. CASE Quiet(d)
  <2>1. Unread(d)' = Unread(d) /\ lost' = lost /\ Stream(d)' = Stream(d)
    BY <1>1 DEF Quiet, Unread
  <2> QED
    BY <1>inv, <1>u, <2>1
<1>2. CASE Dropped(d)
  <2>1. PICK x \in Unread(d) : /\ Unread(d)' = Unread(d) \ {x} /\ Sorted(Stream(d)')
                               /\ lost' = lost \cup {x}
    BY <1>2, <1>d, <1>inv, DroppedIs
  <2> QED
    BY <1>inv, <1>u, <2>1
<1>3. CASE ReadByte(d) \/ ReadEnd(d)
  <2>1. /\ Stream(d) # <<>> /\ Stream(d)' = Tail(Stream(d)) /\ lost' = lost
    BY <1>3 DEF ReadByte, ReadEnd
  <2>2. PICK x \in AnySym : /\ Sorted(Stream(d)') /\ Unread(d) = {x} \cup Unread(d)'
                            /\ \A y \in Unread(d)' : Before(x, y)
    BY <1>d, <1>inv, <2>1, ReadIs
  <2> QED
    BY <1>inv, <1>u, <2>1, <2>2
<1>4. CASE ReadEscape(d)
  <2>1. /\ Stream(d) # <<>> /\ Tail(Stream(d)) # <<>> /\ Stream(d)' = Tail(Tail(Stream(d)))
        /\ lost' = lost
    BY <1>4 DEF ReadEscape
  <2>2. PICK x \in AnySym, w \in AnySym :
           /\ Sorted(Stream(d)') /\ Unread(d) = {x, w} \cup Unread(d)'
           /\ \A y \in Unread(d)' : Before(x, y) /\ Before(w, y)
    BY <1>d, <1>inv, <2>1, ReadTwoIs
  <2> QED
    BY <1>inv, <1>u, <2>1, <2>2
<1> QED
  BY <1>1, <1>2, <1>3, <1>4, StepIs
-----------------------------------------------------------------------------
(* What is passed on is in order: what was passed on comes before what is   *)
(* in the buffer, and both before what is not read.                         *)
FrontEnd(y) == y.s = "end" /\ y.pos = 0

BufBehind(d) ==
  \A x \in Range(inbuf) : \A y \in Unread(d) :
    x.msg <= y.msg /\ (FrontEnd(y) => x.msg < y.msg)

HandledBehind(d) ==
  \A i \in DOMAIN handled : \A x \in Range(handled[i].bytes) :
    /\ \A y \in Unread(d) : x.msg < y.msg
    /\ \A y \in Range(inbuf) : x.msg < y.msg

HandledOrder ==
  \A i \in DOMAIN handled :
    /\ handled[i].bytes \in Seq(AnySym) /\ handled[i].bytes # <<>>
    /\ \A j \in DOMAIN handled : i < j =>
         \A x \in Range(handled[i].bytes) : \A y \in Range(handled[j].bytes) : x.msg < y.msg

OrderInv(d) == StreamInv(d) /\ BufBehind(d) /\ HandledBehind(d) /\ HandledOrder

(* What the order says of the messages.                                     *)
LEMMA BeforeMsg ==
  ASSUME NEW d \in Device, NEW x, Formed(d, x), NEW y, Formed(d, y), Before(x, y)
  PROVE  /\ x.msg <= y.msg
         /\ FrontEnd(y) => x.msg < y.msg
         /\ x.s = "end" /\ ~ FrontEnd(x) => x.msg < y.msg
<1>1. /\ x \in AnySym /\ y \in AnySym /\ Len(Bytes(d, x.msg)) \in Nat
      /\ x.msg \in DOMAIN Traffic[d]
  BY MessageType DEF Formed, InWire
<1>2. /\ x.msg \in Nat /\ y.msg \in Nat /\ x.pos \in Nat /\ y.pos \in Nat
  BY <1>1 DEF AnySym
<1>3. x.msg <= y.msg
  BY <1>2 DEF Before
<1>4. ASSUME FrontEnd(y) PROVE x.msg < y.msg
  BY <1>2, <1>4 DEF Before, FrontEnd
<1>5. ASSUME x.s = "end", ~ FrontEnd(x), x.msg = y.msg PROVE FALSE
  <2>1. x.pos = Len(Bytes(d, x.msg)) + 1
    BY <1>5 DEF Formed, InWire, FrontEnd
  <2>2. y.pos <= Len(Bytes(d, x.msg)) + 1
    BY <1>1, <1>5 DEF Formed, InWire
  <2>3. x.pos < y.pos
    BY <1>2, <1>5 DEF Before
  <2> QED
    BY <1>1, <1>2, <2>1, <2>2, <2>3
<1> QED
  BY <1>2, <1>3, <1>4, <1>5

LEMMA AppendRange ==
  ASSUME NEW S, NEW q \in Seq(S), NEW x \in S
  PROVE  Range(Append(q, x)) = Range(q) \cup {x}
<1>1. <<x>> \in Seq(S) /\ Range(<<x>>) = {x}
  BY ShortSeqs
<1>2. PICK X \in Seq(S) : X = <<x>>
  BY <1>1
<1>3. Append(q, x) = q \o X
  BY <1>2, AppendIsConcat
<1>4. Range(q \o X) = Range(q) \cup Range(X)
  BY RangeConcat
<1> QED
  BY <1>1, <1>2, <1>3, <1>4

LEMMA CheckedRange ==
  /\ Range(Checked) \subseteq Range(inbuf)
  /\ Checked # <<>> => Checked = inbuf
BY DEF Checked, Range

LEMMA NextKeepsOrderInv ==
  ASSUME TypeOK, NEW d, Device = {d}, OrderInv(d), [Next]_vars
  PROVE  OrderInv(d)'
<1>d. d \in Device
  OBVIOUS
<1>inv. /\ StreamInv(d) /\ HandledOrder /\ BufBehind(d) /\ HandledBehind(d)
        /\ Sorted(Stream(d)) /\ \A x \in Unread(d) : Formed(d, x)
  BY DEF OrderInv, StreamInv
<1>t. /\ \A x : Formed(d, x) => x \in AnySym /\ x.msg \in Nat
      /\ \A x \in Unread(d) : x \in AnySym /\ x.msg \in Nat
      /\ \A x \in Range(inbuf) : x \in AnySym /\ x.msg \in Nat
      /\ \A i \in DOMAIN handled : \A x \in Range(handled[i].bytes) : x \in AnySym /\ x.msg \in Nat
  <2>1. \A x \in AnySym : x.msg \in Nat
    BY DEF AnySym
  <2>2. inbuf \in Seq(AnySym)
    BY DEF TypeOK
  <2>3. \A i \in DOMAIN handled : handled[i].bytes \in Seq(AnySym)
    BY <1>inv DEF HandledOrder
  <2>4. \A x : Formed(d, x) => x \in AnySym
    BY DEF Formed, InWire
  <2> QED
    BY <1>inv, <2>1, <2>2, <2>3, <2>4, RangeType
<1>s. StreamInv(d)'
  BY <1>inv, NextKeepsStreamInv
<1>c. Checked \in Seq(AnySym)
  BY CheckedFits
<1>u. /\ BufBehind(d)' <=>
           \A x \in Range(inbuf') : \A y \in Unread(d)' :
             x.msg <= y.msg /\ (FrontEnd(y) => x.msg < y.msg)
      /\ HandledBehind(d)' <=>
           \A i \in DOMAIN handled' : \A x \in Range(handled'[i].bytes) :
             /\ \A y \in Unread(d)' : x.msg < y.msg
             /\ \A y \in Range(inbuf') : x.msg < y.msg
  BY DEF BufBehind, HandledBehind, FrontEnd, Range
<1>o. ASSUME handled' = handled PROVE HandledOrder'
  <2>1. HandledOrder' <=>
          \A i \in DOMAIN handled' :
            /\ handled'[i].bytes \in Seq(AnySym) /\ handled'[i].bytes # <<>>
            /\ \A j \in DOMAIN handled' : i < j =>
                 \A x \in Range(handled'[i].bytes) : \A y \in Range(handled'[j].bytes) : x.msg < y.msg
    BY DEF HandledOrder, AnySym, Range
  <2> QED
    BY <1>inv, <1>o, <2>1 DEF HandledOrder
<1>1. CASE Quiet(d)
  <2>1. Unread(d)' = Unread(d) /\ handled' = handled /\ inbuf' \in {inbuf, Checked}
    BY <1>1 DEF Quiet, Unread
  <2>2. Range(inbuf') \subseteq Range(inbuf)
    BY <2>1, CheckedRange
  <2>3. BufBehind(d)' /\ HandledBehind(d)'
    BY <1>inv, <1>u, <2>1, <2>2 DEF BufBehind, HandledBehind
  <2> QED
    BY <1>s, <1>o, <2>1, <2>3 DEF OrderInv
<1>2. CASE Dropped(d)
  <2>1. /\ Unread(d)' \subseteq Unread(d) /\ handled' = handled /\ inbuf' = inbuf
    BY <1>2, <1>d, <1>inv, DroppedIs
  <2>2. BufBehind(d)' /\ HandledBehind(d)'
    BY <1>inv, <1>u, <2>1 DEF BufBehind, HandledBehind
  <2> QED
    BY <1>s, <1>o, <2>1, <2>2 DEF OrderInv
<1>3. CASE ReadByte(d) \/ ReadEscape(d)
  <2>1. handled' = handled
    BY <1>3 DEF ReadByte, ReadEscape
  <2>2. \E w \in Unread(d) : \E b \in AnySym :
          /\ b.msg = w.msg /\ inbuf' = Append(Checked, b)
          /\ Unread(d)' \subseteq Unread(d) /\ \A y \in Unread(d)' : Before(w, y)
    <3>1. CASE ReadByte(d)
      <4>1. PICK w : w = Head(Stream(d))
        OBVIOUS
      <4>2. /\ Stream(d) # <<>> /\ Stream(d)' = Tail(Stream(d)) /\ inbuf' = Append(Checked, w)
        BY <3>1, <4>1 DEF ReadByte
      <4>3. /\ w \in Unread(d) /\ w \in AnySym /\ Unread(d) = {w} \cup Unread(d)'
            /\ \A y \in Unread(d)' : Before(w, y)
        BY <1>d, <1>inv, <4>1, <4>2, ReadIs
      <4> QED
        BY <4>2, <4>3
    <3>2. CASE ReadEscape(d)
      <4>1. PICK w : w = Head(Tail(Stream(d)))
        OBVIOUS
      <4>2. /\ Stream(d) # <<>> /\ Tail(Stream(d)) # <<>>
            /\ Stream(d)' = Tail(Tail(Stream(d))) /\ inbuf' = Append(Checked, Decoded(w))
        BY <3>2, <4>1 DEF ReadEscape
      <4>3. /\ w \in AnySym /\ Unread(d) = {Head(Stream(d)), w} \cup Unread(d)'
            /\ \A y \in Unread(d)' : Before(w, y)
        BY <1>d, <1>inv, <4>1, <4>2, ReadTwoIs
      <4>4. PICK b \in AnySym : b = Decoded(w) /\ b.msg = w.msg
        BY <4>3, DecodedType
      <4> QED
        BY <4>2, <4>3, <4>4
    <3> QED
      BY <1>3, <3>1, <3>2
  <2>3. PICK w \in Unread(d), b \in AnySym :
          /\ b.msg = w.msg /\ inbuf' = Append(Checked, b)
          /\ Unread(d)' \subseteq Unread(d) /\ \A y \in Unread(d)' : Before(w, y)
    BY <2>2
  <2>4. Range(inbuf') \subseteq Range(inbuf) \cup {b}
    BY <1>c, <2>3, AppendRange, CheckedRange
  <2>5. \A y \in Unread(d)' : b.msg <= y.msg /\ (FrontEnd(y) => b.msg < y.msg)
    BY <1>d, <1>inv, <2>3, BeforeMsg
  <2>6. BufBehind(d)'
    BY <1>inv, <1>u, <2>3, <2>4, <2>5 DEF BufBehind
  <2>7. HandledBehind(d)'
    BY <1>inv, <1>u, <2>1, <2>3, <2>4 DEF HandledBehind
  <2> QED
    BY <1>s, <1>o, <2>1, <2>6, <2>7 DEF OrderInv
<1>4. CASE ReadEnd(d)
  <2>1. PICK w : w = Head(Stream(d))
    OBVIOUS
  <2>2. /\ Stream(d) # <<>> /\ Stream(d)' = Tail(Stream(d)) /\ inbuf' = <<>> /\ w.s = "end"
        /\ \/ handled' = handled
           \/ Checked # <<>> /\ handled' = Append(handled, [dev |-> d, bytes |-> Checked])
    BY <1>4, <2>1 DEF ReadEnd
  <2>3. /\ w \in Unread(d) /\ Unread(d) = {w} \cup Unread(d)'
        /\ \A y \in Unread(d)' : Before(w, y)
    BY <1>d, <1>inv, <2>1, <2>2, ReadIs
  <2>4. Range(inbuf') = {}
    BY <2>2 DEF Range
  <2>5. BufBehind(d)'
    BY <1>u, <2>4
  <2>6. CASE handled' = handled
    <3>1. HandledBehind(d)'
      BY <1>inv, <1>u, <2>3, <2>4, <2>6 DEF HandledBehind
    <3> QED
      BY <1>s, <1>o, <2>5, <2>6, <3>1 DEF OrderInv
  <2>7. CASE Checked # <<>> /\ handled' = Append(handled, [dev |-> d, bytes |-> Checked])
    <3>1. PICK h : h = [dev |-> d, bytes |-> Checked]
      OBVIOUS
    <3>2. h.bytes = inbuf /\ inbuf # <<>> /\ inbuf \in Seq(AnySym)
      BY <2>7, <3>1, <1>c, CheckedRange
    <3>3. /\ DOMAIN handled' = DOMAIN handled \cup {Len(handled) + 1} /\ Len(handled) \in Nat
          /\ \A i \in DOMAIN handled : handled'[i] = handled[i] /\ i < Len(handled) + 1
          /\ handled'[Len(handled) + 1] = h
      <4>1. handled \in Seq([dev : Device, bytes : Seq(AnySym)])
        BY DEF TypeOK
      <4>2. h \in [dev : Device, bytes : Seq(AnySym)]
        BY <1>c, <1>d, <3>1
      <4>3. handled' = Append(handled, h)
        BY <2>7, <3>1
      <4> HIDE <2>7
      <4> QED
        BY <4>1, <4>2, <4>3
    <3>4. ASSUME NEW x \in Range(inbuf), NEW y \in Unread(d)' PROVE x.msg < y.msg
      <4>0. Formed(d, w) /\ Formed(d, y) /\ Before(w, y)
        BY <1>inv, <2>3
      <4>1. w.msg <= y.msg /\ (~ FrontEnd(w) => w.msg < y.msg)
        BY <1>d, <2>2, <4>0, BeforeMsg
      <4>2. x.msg <= w.msg /\ (FrontEnd(w) => x.msg < w.msg)
        BY <1>inv, <2>3 DEF BufBehind
      <4>3. x.msg \in Nat /\ y.msg \in Nat /\ w.msg \in Nat
        BY <1>t, <4>0
      <4> QED
        BY <4>1, <4>2, <4>3
    <3>5. HandledBehind(d)'
      BY <1>inv, <1>u, <2>3, <2>4, <3>2, <3>3, <3>4 DEF HandledBehind
    <3>6. HandledOrder'
      <4>1. PICK n : n = Len(handled) + 1
        OBVIOUS
      <4>2. /\ DOMAIN handled' = DOMAIN handled \cup {n}
            /\ \A i \in DOMAIN handled : handled'[i] = handled[i] /\ ~ (n < i)
            /\ handled'[n] = h /\ ~ (n < n)
        <5>1. \A i \in DOMAIN handled : i \in Nat
          BY DEF TypeOK
        <5> QED
          BY <3>3, <4>1, <5>1
      <4>3. \A i \in DOMAIN handled : \A x \in Range(handled[i].bytes) : \A y \in Range(inbuf) : x.msg < y.msg
        BY <1>inv DEF HandledBehind
      <4>4. HandledOrder' <=>
              \A i \in DOMAIN handled' :
                /\ handled'[i].bytes \in Seq(AnySym) /\ handled'[i].bytes # <<>>
                /\ \A j \in DOMAIN handled' : i < j =>
                     \A x \in Range(handled'[i].bytes) : \A y \in Range(handled'[j].bytes) : x.msg < y.msg
        BY DEF HandledOrder, AnySym, Range
      <4> QED
        BY <1>inv, <3>2, <4>2, <4>3, <4>4 DEF HandledOrder
    <3> QED
      BY <1>s, <2>5, <3>5, <3>6 DEF OrderInv
  <2> QED
    BY <2>2, <2>6, <2>7
<1> QED
  BY <1>1, <1>2, <1>3, <1>4, StepIs

LEMMA OrderInvInOrder ==
  ASSUME NEW d, OrderInv(d)
  PROVE  InOrder
<1> SUFFICES ASSUME NEW i \in DOMAIN handled, NEW j \in DOMAIN handled, i < j
             PROVE  Last(handled[i].bytes).msg < Head(handled[j].bytes).msg
  BY DEF InOrder
<1>1. PICK p \in Seq(AnySym), q \in Seq(AnySym) :
        /\ p = handled[i].bytes /\ q = handled[j].bytes
        /\ \A x \in Range(p) : \A y \in Range(q) : x.msg < y.msg
  BY DEF OrderInv, HandledOrder
<1>2. p # <<>> /\ q # <<>>
  BY <1>1 DEF OrderInv, HandledOrder
<1>3. Len(p) \in DOMAIN p /\ 1 \in DOMAIN q /\ Head(q) = q[1]
  <2>1. Len(p) \in Nat \ {0} /\ Len(q) \in Nat \ {0}
    BY <1>2, EmptySeq
  <2> QED
    BY <2>1
<1>4. Last(p) \in Range(p) /\ Head(q) \in Range(q)
  BY <1>3 DEF Range, Last
<1> QED
  BY <1>1, <1>4

(* With one device, what is passed on is in the order in which it was sent, *)
(* and no byte is passed on twice, whatever the line loses (serial_input,   *)
(* slip-dev.c).  Several devices share inbuf, and it does not hold of them. *)
THEOREM SpecInOrder ==
  ASSUME NEW d, Device = {d}
  PROVE  Spec => []InOrder
<1>1. Init => OrderInv(d)
  <2> SUFFICES ASSUME Init PROVE OrderInv(d)
    OBVIOUS
  <2>1. StreamInv(d)
    BY InitStreamInv
  <2>2. Range(inbuf) = {} /\ DOMAIN handled = {}
    BY DEF Init, Range
  <2> QED
    BY <2>1, <2>2 DEF OrderInv, BufBehind, HandledBehind, HandledOrder
<1>2. BufInv /\ OrderInv(d) /\ [Next]_vars => OrderInv(d)'
  BY NextKeepsOrderInv DEF BufInv
<1>3. OrderInv(d) => InOrder
  BY OrderInvInOrder
<1> QED
  BY <1>1, <1>2, <1>3, SpecBufInv, PTL DEF Spec
-----------------------------------------------------------------------------
(* A message of which nothing is lost is ahead, with the END in front of it *)
(* not read; or is being read, its first k bytes in the buffer; or has been *)
(* passed on; or an ESC has taken the END in front of it.                   *)
FirstEnd(d, m) == Sym("end", d, m, 0)

Clean(d, m) ==
  /\ \A x \in lost : ~ (x.dev = d /\ x.msg = m)
  /\ Len(Bytes(d, m)) \in 1 .. InbufSize - 1
  /\ Traffic[d][m].ok

Inside(d, m, k) ==
  /\ inbuf = SubSeq(Bytes(d, m), 1, k)
  /\ \A y \in Unread(d) : y.msg > m \/ (y.msg = m /\ y.pos > k)
  /\ \A z \in AnySym : Formed(d, z) /\ z.msg = m /\ z.pos > k => z \in Unread(d)

EscapeRead(d, m) ==
  \E x \in AnySym :
    /\ Formed(d, x) /\ x.s = "esc" /\ x \notin lost /\ x \notin Unread(d)
    /\ Before(x, FirstEnd(d, m))
    /\ \A z \in AnySym : Formed(d, z) /\ Before(x, z) /\ Before(z, FirstEnd(d, m)) => z \in lost

Followed(d, m) ==
  \/ FirstEnd(d, m) \in Unread(d)
  \/ \E k \in 0 .. Len(Bytes(d, m)) : Inside(d, m, k)
  \/ \E i \in DOMAIN handled : handled[i] = [dev |-> d, bytes |-> Bytes(d, m)]
  \/ EscapeRead(d, m)

MessageInv(d) == \A m \in DOMAIN Traffic[d] : Clean(d, m) => Followed(d, m)

LEMMA FrontIs ==
  ASSUME NEW d \in Device, NEW m \in DOMAIN Traffic[d]
  PROVE  /\ m \in Nat /\ FirstEnd(d, m) \in AnySym /\ Formed(d, FirstEnd(d, m))
         /\ FirstEnd(d, m).s = "end" /\ FirstEnd(d, m).msg = m /\ FirstEnd(d, m).pos = 0
<1>1. m \in Nat \ {0}
  BY MessageType, Zenon
<1>2. m \in Nat /\ 0 \in Nat
  BY <1>1
<1>3. /\ FirstEnd(d, m) \in AnySym /\ FirstEnd(d, m).s = "end" /\ FirstEnd(d, m).dev = d
      /\ FirstEnd(d, m).msg = m /\ FirstEnd(d, m).pos = 0
  BY <1>2, SymFields DEF FirstEnd
<1> QED
  BY <1>2, <1>3 DEF Formed, InWire

(* If the END in front of a clean message is not read, nothing of it is.    *)
LEMMA CleanUnread ==
  ASSUME NEW d \in Device, NEW m \in DOMAIN Traffic[d], StreamInv(d), Clean(d, m),
         FirstEnd(d, m) \in Unread(d), NEW z \in AnySym, Formed(d, z), z.msg = m
  PROVE  z \in Unread(d)
<1>1. z \notin lost
  BY DEF Clean, Formed, InWire
<1>2. ~ Before(z, FirstEnd(d, m))
  BY FrontIs DEF Before, AnySym
<1> QED
  BY <1>1, <1>2 DEF StreamInv

(* The symbol that comes next when k bytes of m have been read.             *)
Expected(d, m, k) ==
  IF k = Len(Bytes(d, m)) THEN Sym("end", d, m, k + 1)
  ELSE IF Traffic[d][m].escaped[k + 1] THEN Sym("esc", d, m, k + 1)
  ELSE Sym("byte", d, m, k + 1)

LEMMA ExpectedIs ==
  ASSUME NEW d \in Device, NEW m \in DOMAIN Traffic[d], NEW k \in 0 .. Len(Bytes(d, m))
  PROVE  /\ m \in Nat /\ Len(Bytes(d, m)) \in Nat
         /\ Expected(d, m, k) \in AnySym /\ Formed(d, Expected(d, m, k))
         /\ Expected(d, m, k).msg = m /\ Expected(d, m, k).pos = k + 1
         /\ Expected(d, m, k).s # "code"
         /\ Expected(d, m, k).s = "end" <=> k = Len(Bytes(d, m))
         /\ Expected(d, m, k).s = "esc" <=>
              k # Len(Bytes(d, m)) /\ Traffic[d][m].escaped[k + 1]
<1>1. m \in Nat \ {0}
  BY MessageType, Zenon
<1>2. Len(Bytes(d, m)) \in Nat /\ m \in Nat
  BY <1>1, MessageType
<1>3. k + 1 \in Nat /\ k \in Nat
  BY <1>2
<1>4. CASE k = Len(Bytes(d, m))
  <2>1. Expected(d, m, k) = Sym("end", d, m, k + 1)
    BY <1>4 DEF Expected
  <2> QED
    BY <1>2, <1>3, <1>4, <2>1, SymFields DEF Formed, InWire
<1>5. CASE k # Len(Bytes(d, m)) /\ Traffic[d][m].escaped[k + 1]
  <2>1. Expected(d, m, k) = Sym("esc", d, m, k + 1) /\ k + 1 \in 1 .. Len(Bytes(d, m))
    BY <1>2, <1>5 DEF Expected
  <2> QED
    BY <1>2, <1>3, <1>5, <2>1, SymFields DEF Formed, InWire
<1>6. CASE k # Len(Bytes(d, m)) /\ ~ Traffic[d][m].escaped[k + 1]
  <2>1. Expected(d, m, k) = Sym("byte", d, m, k + 1) /\ k + 1 \in 1 .. Len(Bytes(d, m))
    BY <1>2, <1>6 DEF Expected
  <2> QED
    BY <1>2, <1>3, <1>6, <2>1, SymFields DEF Formed, InWire
<1> QED
  BY <1>4, <1>5, <1>6

LEMMA FormedSame ==
  ASSUME NEW d, NEW x, NEW y, Formed(d, x), Formed(d, y), x.msg = y.msg, x.pos = y.pos, x.s = y.s
  PROVE  x = y
BY SymIs DEF Formed, InWire

LEMMA InsideNext ==
  ASSUME NEW d \in Device, NEW m \in DOMAIN Traffic[d], NEW k \in 0 .. Len(Bytes(d, m)),
         Inside(d, m, k), NEW w \in Unread(d), Formed(d, w), NEW U,
         Unread(d) = {w} \cup U, \A y \in U : Before(w, y)
  PROVE  w = Expected(d, m, k)
<1> PICK t : t = Expected(d, m, k)
  OBVIOUS
<1>1. /\ t \in AnySym /\ Formed(d, t) /\ t.msg = m /\ t.pos = k + 1 /\ t.s # "code"
      /\ m \in Nat /\ k \in Nat
  BY ExpectedIs
<1>2. t \in Unread(d)
  BY <1>1 DEF Inside
<1>3. w.msg > m \/ (w.msg = m /\ w.pos > k)
  BY DEF Inside
<1>4. w \in AnySym
  BY DEF Formed, InWire
<1>5. SUFFICES ASSUME w # t PROVE FALSE
  OBVIOUS
<1>6. Before(w, t)
  BY <1>2, <1>5
<1> QED
  BY <1>1, <1>3, <1>4, <1>6 DEF Before, AnySym

LEMMA BytesSeq ==
  ASSUME NEW d \in Device, NEW m \in DOMAIN Traffic[d]
  PROVE  Bytes(d, m) \in Seq(AnySym)
<1>1. m \in Nat \ {0}
  BY MessageType, Zenon
<1>2. /\ DOMAIN Bytes(d, m) = 1 .. Len(Bytes(d, m)) /\ Len(Bytes(d, m)) \in Nat
      /\ \A k \in 1 .. Len(Bytes(d, m)) : Bytes(d, m)[k] = Sym("byte", d, m, k)
  BY MessageType
<1>3. \A k \in 1 .. Len(Bytes(d, m)) : Bytes(d, m)[k] \in AnySym
  BY <1>1, <1>2, SymFields
<1>4. Bytes(d, m) = [k \in 1 .. Len(Bytes(d, m)) |-> Bytes(d, m)[k]]
  BY <1>2 DEF Bytes
<1> QED
  BY <1>2, <1>3, <1>4

(* The buffer of a message that fits is not dropped.                        *)
LEMMA InsideChecked ==
  ASSUME NEW d \in Device, NEW m \in DOMAIN Traffic[d], NEW k \in 0 .. Len(Bytes(d, m)),
         Inside(d, m, k), Clean(d, m)
  PROVE  /\ Checked = inbuf /\ inbuf \in Seq(AnySym) /\ Len(inbuf) = k
         /\ k < Len(Bytes(d, m)) =>
              Append(Checked, Bytes(d, m)[k + 1]) = SubSeq(Bytes(d, m), 1, k + 1)
         /\ k = Len(Bytes(d, m)) => inbuf = Bytes(d, m)
<1>1. PICK b \in Seq(AnySym) : b = Bytes(d, m)
  BY BytesSeq
<1>2. Len(b) \in Nat /\ k \in 0 .. Len(b) /\ Len(b) < InbufSize
  BY <1>1, SizeAssumption DEF Clean
<1>3. /\ SubSeq(b, 1, k) \in Seq(AnySym) /\ Len(SubSeq(b, 1, k)) = k
  BY <1>2
<1>4. inbuf = SubSeq(b, 1, k)
  BY <1>1 DEF Inside
<1>5. Checked = inbuf
  BY <1>2, <1>3, <1>4, SizeAssumption DEF Checked
<1>6. ASSUME k < Len(b) PROVE Append(SubSeq(b, 1, k), b[k + 1]) = SubSeq(b, 1, k + 1)
  <2>1. k + 1 \in 1 .. Len(b) /\ k + 1 \in 1 .. Len(b) /\ 1 \in 1 .. Len(b) /\ (k + 1) - 1 = k
    BY <1>2, <1>6
  <2>2. SubSeq(b, 1, k + 1) = SubSeq(b, 1, (k + 1) - 1) \o <<b[k + 1]>>
    BY <2>1, SubSeqRecursiveSecond
  <2>3. b[k + 1] \in AnySym
    BY <2>1
  <2>4. Append(SubSeq(b, 1, k), b[k + 1]) = SubSeq(b, 1, k) \o <<b[k + 1]>>
    BY <1>3, <2>3, AppendIsConcat
  <2> QED
    BY <2>1, <2>2, <2>4
<1>7. k = Len(b) => SubSeq(b, 1, k) = b
  BY SubSeqFull
<1> QED
  BY <1>1, <1>3, <1>4, <1>5, <1>6, <1>7

RestOf(d, m, k, U) ==
  /\ \A y \in U : y.msg > m \/ (y.msg = m /\ y.pos > k)
  /\ \A z \in AnySym : Formed(d, z) /\ z.msg = m /\ z.pos > k => z \in U

Takes(m, k, w, U, V) ==
  /\ w \in AnySym /\ w.msg = m /\ w.pos = k + 1 /\ w.s # "esc"
  /\ V \subseteq U /\ U \subseteq AnySym /\ \A y \in V : Before(w, y)
  /\ \A y \in U : y \in V \/ y = w \/ (y.msg = m /\ y.pos = k + 1)

LEMMA InsideRead ==
  ASSUME NEW d \in Device, NEW m \in DOMAIN Traffic[d], NEW k \in 0 .. Len(Bytes(d, m)),
         NEW U, NEW V, NEW w, RestOf(d, m, k, U), Takes(m, k, w, U, V)
  PROVE  RestOf(d, m, k + 1, V)
<1> USE DEF RestOf, Takes
<1>1. k \in Nat /\ m \in Nat
  <2>1. m \in Nat \ {0} /\ Len(Bytes(d, m)) \in Nat
    BY MessageType, Zenon
  <2> QED
    BY <2>1
<1>2. \A y \in AnySym : y.msg \in Nat /\ y.pos \in Nat
  BY DEF AnySym
<1>3. ASSUME NEW y \in V PROVE y.msg > m \/ (y.msg = m /\ y.pos > k + 1)
  BY <1>1, <1>2 DEF Before
<1>4. ASSUME NEW z \in AnySym, Formed(d, z), z.msg = m, z.pos > k + 1 PROVE z \in V
  BY <1>1, <1>2, <1>4
<1> QED
  BY <1>3, <1>4

LEMMA NextKeepsFollowed ==
  ASSUME TypeOK, NEW d, Device = {d}, StreamInv(d), [Next]_vars,
         NEW m \in DOMAIN Traffic[d], Clean(d, m), Clean(d, m)', Followed(d, m)
  PROVE  Followed(d, m)'
<1>d. d \in Device
  OBVIOUS
<1>inv. /\ Sorted(Stream(d))
        /\ \A x \in Unread(d) : Formed(d, x) /\ x \notin lost
        /\ \A z \in AnySym : Formed(d, z) /\ z \notin lost /\ z \notin Unread(d) =>
             \A y \in Unread(d) : Before(z, y)
  BY DEF StreamInv
<1>t. Unread(d) \subseteq AnySym
  BY <1>d, StreamType, RangeType DEF Unread
<1>f. /\ m \in Nat /\ FirstEnd(d, m) \in AnySym /\ Formed(d, FirstEnd(d, m))
      /\ FirstEnd(d, m).s = "end" /\ FirstEnd(d, m).msg = m /\ FirstEnd(d, m).pos = 0
  BY <1>d, FrontIs
<1>n. PICK n \in Nat : n = Len(Bytes(d, m)) /\ n \in 1 .. InbufSize - 1
  BY <1>d, MessageType DEF Clean
<1>c. FirstEnd(d, m)' = FirstEnd(d, m) /\ Bytes(d, m)' = Bytes(d, m) /\ AnySym' = AnySym
  BY DEF FirstEnd, Sym, Bytes, AnySym
<1>ui. ASSUME NEW k \in 0 .. n,
              inbuf' = SubSeq(Bytes(d, m), 1, k),
              \A y \in Unread(d)' : y.msg > m \/ (y.msg = m /\ y.pos > k),
              \A z \in AnySym : Formed(d, z) /\ z.msg = m /\ z.pos > k => z \in Unread(d)'
       PROVE  Followed(d, m)'
  <2>1. Inside(d, m, k)'
    BY <1>ui DEF Inside, Bytes, Sym, AnySym, Formed, InWire
  <2> QED
    BY <1>n, <2>1 DEF Followed, Bytes
<1>uf. FirstEnd(d, m) \in Unread(d)' => Followed(d, m)'
  BY <1>c DEF Followed
<1>uh. (\E i \in DOMAIN handled' : handled'[i] = [dev |-> d, bytes |-> Bytes(d, m)])
         => Followed(d, m)'
  BY <1>c DEF Followed
<1>ue. ASSUME NEW x \in AnySym, Formed(d, x), x.s = "esc", x \notin lost', x \notin Unread(d)',
              Before(x, FirstEnd(d, m)),
              \A z \in AnySym : Formed(d, z) /\ Before(x, z) /\ Before(z, FirstEnd(d, m)) => z \in lost'
       PROVE  Followed(d, m)'
  <2>1. EscapeRead(d, m)'
    BY <1>ue DEF EscapeRead, FirstEnd, Sym, Bytes, AnySym, Formed, InWire, Before
  <2> QED
    BY <2>1 DEF Followed
<1>h. ASSUME NEW i \in DOMAIN handled, handled[i] = [dev |-> d, bytes |-> Bytes(d, m)],
             \/ handled' = handled
             \/ handled' = Append(handled, [dev |-> d, bytes |-> Checked])
      PROVE  Followed(d, m)'
  <2>1. handled \in Seq([dev : Device, bytes : Seq(AnySym)])
    BY DEF TypeOK
  <2>2. PICK r : r = [dev |-> d, bytes |-> Checked]
    OBVIOUS
  <2>3. r \in [dev : Device, bytes : Seq(AnySym)]
    BY <1>d, <2>2, CheckedFits
  <2>4. i \in DOMAIN handled' /\ handled'[i] = handled[i]
    <3>1. handled' = handled \/ handled' = Append(handled, r)
      BY <1>h, <2>2
    <3>2. i \in 1 .. Len(handled) /\ Len(handled) \in Nat
      BY <2>1
    <3> QED
      BY <2>1, <2>3, <3>1, <3>2, AppendProperties
  <2> QED
    BY <1>h, <1>uh, <2>4
<1>hh. \/ handled' = handled
       \/ handled' = Append(handled, [dev |-> d, bytes |-> Checked])
  BY StepIs DEF Quiet, Dropped, ReadByte, ReadEscape, ReadEnd
<1>e. ASSUME Unread(d)' \subseteq Unread(d), lost' = lost \/ \E x \in Unread(d) : lost' = lost \cup {x},
             EscapeRead(d, m)
      PROVE  Followed(d, m)'
  <2>1. PICK x \in AnySym :
          /\ Formed(d, x) /\ x.s = "esc" /\ x \notin lost /\ x \notin Unread(d)
          /\ Before(x, FirstEnd(d, m))
          /\ \A z \in AnySym : Formed(d, z) /\ Before(x, z) /\ Before(z, FirstEnd(d, m)) => z \in lost
    BY <1>e DEF EscapeRead
  <2>2. x \notin lost' /\ x \notin Unread(d)' /\ lost \subseteq lost'
    BY <1>e, <2>1
  <2> QED
    BY <1>ue, <2>1, <2>2
<1>1. CASE Quiet(d)
  <2>1. Unread(d)' = Unread(d) /\ lost' = lost /\ inbuf' \in {inbuf, Checked}
    BY <1>1 DEF Quiet, Unread
  <2>2. ASSUME NEW k \in 0 .. n, Inside(d, m, k) PROVE Followed(d, m)'
    <3>1. inbuf' = inbuf
      BY <1>d, <1>n, <2>1, <2>2, InsideChecked
    <3> QED
      BY <1>ui, <2>1, <2>2, <3>1 DEF Inside
  <2> QED
    BY <1>n, <1>uf, <1>h, <1>hh, <1>e, <2>1, <2>2 DEF Followed
<1>2. CASE Dropped(d)
  <2>1. PICK x \in Unread(d) : /\ Unread(d)' = Unread(d) \ {x}
                               /\ lost' = lost \cup {x} /\ UNCHANGED <<inbuf, handled>>
    BY <1>2, <1>d, <1>inv, DroppedIs
  <2>2. x.msg # m
    <3>1. x.dev = d
      BY <1>inv, <2>1 DEF Formed, InWire
    <3>2. x \in lost'
      BY <2>1
    <3> QED
      BY <3>1, <3>2 DEF Clean
  <2>3. ASSUME NEW k \in 0 .. n, Inside(d, m, k) PROVE Followed(d, m)'
    <3>1. inbuf' = SubSeq(Bytes(d, m), 1, k)
      BY <2>1, <2>3 DEF Inside
    <3>2. \A y \in Unread(d)' : y.msg > m \/ (y.msg = m /\ y.pos > k)
      BY <2>1, <2>3 DEF Inside
    <3>3. \A z \in AnySym : Formed(d, z) /\ z.msg = m /\ z.pos > k => z \in Unread(d)'
      BY <2>1, <2>2, <2>3 DEF Inside
    <3> QED
      BY <1>ui, <3>1, <3>2, <3>3
  <2>4. FirstEnd(d, m) \in Unread(d) => FirstEnd(d, m) \in Unread(d)'
    BY <1>f, <2>1, <2>2
  <2> QED
    BY <1>n, <1>uf, <1>h, <1>hh, <1>e, <2>1, <2>3, <2>4 DEF Followed
<1>3. CASE ReadByte(d)
  <2>1. PICK w : w = Head(Stream(d))
    OBVIOUS
  <2>2. /\ Stream(d) # <<>> /\ Stream(d)' = Tail(Stream(d)) /\ lost' = lost
        /\ w.s \in {"byte", "code"} /\ inbuf' = Append(Checked, w)
    BY <1>3, <2>1 DEF ReadByte
  <2>3. /\ w \in Unread(d) /\ w \in AnySym /\ Unread(d) = {w} \cup Unread(d)'
        /\ \A y \in Unread(d)' : Before(w, y)
    BY <1>d, <1>inv, <2>1, <2>2, ReadIs
  <2>4. FirstEnd(d, m) \in Unread(d) => FirstEnd(d, m) \in Unread(d)'
    BY <1>f, <2>2, <2>3
  <2>5. ASSUME NEW k \in 0 .. n, Inside(d, m, k) PROVE Followed(d, m)'
    <3>1. w = Expected(d, m, k)
      BY <1>d, <1>inv, <1>n, <2>3, <2>5, InsideNext
    <3>2. /\ w.msg = m /\ w.pos = k + 1 /\ w.s # "code" /\ (w.s = "end" <=> k = n)
      BY <1>d, <1>n, <3>1, ExpectedIs
    <3>3. k < n /\ k + 1 \in 0 .. n /\ k + 1 \in 1 .. n /\ k \in Nat
      BY <2>2, <3>2
    <3>4. w = Bytes(d, m)[k + 1]
      <4>1. w.s = "byte"
        BY <2>2, <3>2
      <4>2. w.dev = d
        BY <1>inv, <2>3 DEF Formed, InWire
      <4>3. w = Sym("byte", d, m, k + 1)
        BY <2>3, <3>2, <4>1, <4>2, SymIs
      <4> QED
        BY <1>d, <1>n, <3>3, <4>3, MessageType
    <3>5. inbuf' = SubSeq(Bytes(d, m), 1, k + 1)
      BY <1>d, <1>n, <2>2, <2>5, <3>3, <3>4, InsideChecked
    <3>6. /\ \A y \in Unread(d)' : y.msg > m \/ (y.msg = m /\ y.pos > k + 1)
          /\ \A z \in AnySym : Formed(d, z) /\ z.msg = m /\ z.pos > k + 1 => z \in Unread(d)'
      <4>1. PICK U \in SUBSET AnySym, V \in SUBSET AnySym : U = Unread(d) /\ V = Unread(d)'
        BY <1>t, <2>3
      <4>2. /\ \A y \in U : y.msg > m \/ (y.msg = m /\ y.pos > k)
            /\ \A z \in AnySym : Formed(d, z) /\ z.msg = m /\ z.pos > k => z \in U
        BY <2>5, <4>1 DEF Inside
      <4>3. /\ V \subseteq U /\ \A y \in V : Before(w, y)
            /\ \A y \in U : y \in V \/ y = w \/ (y.msg = m /\ y.pos = k + 1)
            /\ w.s # "esc"
        BY <2>2, <2>3, <4>1
      <4>4. k \in 0 .. Len(Bytes(d, m)) /\ RestOf(d, m, k, U)
        BY <1>n, <4>2 DEF RestOf
      <4>5. Takes(m, k, w, U, V)
        BY <2>3, <3>2, <4>1, <4>3 DEF Takes
      <4>6. RestOf(d, m, k + 1, V)
        BY <1>d, <4>4, <4>5, InsideRead
      <4> QED
        BY <4>1, <4>6 DEF RestOf
    <3> QED
      BY <1>ui, <3>3, <3>5, <3>6
  <2> QED
    BY <1>n, <1>uf, <1>h, <1>hh, <1>e, <2>2, <2>3, <2>4, <2>5 DEF Followed
<1>4. CASE ReadEscape(d)
  <2>1. PICK w, v : w = Head(Stream(d)) /\ v = Head(Tail(Stream(d)))
    OBVIOUS
  <2>2. /\ Stream(d) # <<>> /\ Tail(Stream(d)) # <<>> /\ Stream(d)' = Tail(Tail(Stream(d)))
        /\ lost' = lost /\ w.s = "esc" /\ inbuf' = Append(Checked, Decoded(v))
    BY <1>4, <2>1 DEF ReadEscape
  <2>3. /\ w \in AnySym /\ v \in AnySym /\ Unread(d) = {w, v} \cup Unread(d)' /\ Before(w, v)
        /\ \A y \in Unread(d)' : Before(w, y) /\ Before(v, y)
    BY <1>d, <1>inv, <2>1, <2>2, ReadTwoIs
  <2>4. ASSUME FirstEnd(d, m) \in Unread(d) PROVE Followed(d, m)'
    <3>1. CASE FirstEnd(d, m) \in Unread(d)'
      BY <1>uf, <3>1
    <3>2. CASE FirstEnd(d, m) \notin Unread(d)'
      <4>1. v = FirstEnd(d, m)
        BY <1>f, <2>2, <2>3, <2>4, <3>2
      <4>2. Formed(d, w) /\ w \notin lost' /\ w \notin Unread(d)' /\ Before(w, FirstEnd(d, m))
        BY <1>inv, <2>2, <2>3, <4>1, BeforeOrder
      <4>3. ASSUME NEW z \in AnySym, Formed(d, z), Before(w, z), Before(z, FirstEnd(d, m))
            PROVE  z \in lost'
        <5>1. SUFFICES ASSUME z \notin lost PROVE FALSE
          BY <2>2
        <5>2. CASE z \in Unread(d)
          BY <1>t, <2>3, <4>1, <4>3, <5>2, BeforeOrder
        <5>3. CASE z \notin Unread(d)
          BY <1>inv, <2>3, <4>3, <5>1, <5>3, BeforeOrder
        <5> QED
          BY <5>2, <5>3
      <4> QED
        BY <1>ue, <2>2, <2>3, <4>2, <4>3
    <3> QED
      BY <3>1, <3>2
  <2>5. ASSUME NEW k \in 0 .. n, Inside(d, m, k) PROVE Followed(d, m)'
    <3>0. PICK U \in SUBSET AnySym, V \in SUBSET AnySym : U = Unread(d) /\ V = Unread(d)'
      BY <1>t, <2>3
    <3>1. w = Expected(d, m, k)
      <4>1. Unread(d) = {w} \cup ({v} \cup V) /\ w \in Unread(d)
        BY <2>3, <3>0
      <4>2. \A y \in {v} \cup V : Before(w, y)
        BY <2>3, <3>0
      <4> QED
        BY <1>d, <1>inv, <1>n, <2>5, <4>1, <4>2, InsideNext
    <3>2. w.msg = m /\ w.pos = k + 1 /\ k # n /\ Traffic[d][m].escaped[k + 1]
      BY <1>d, <1>n, <2>2, <3>1, ExpectedIs
    <3>3. k < n /\ k + 1 \in 0 .. n /\ k + 1 \in 1 .. n /\ k \in Nat /\ k + 1 \in Nat
      BY <3>2
    <3>4. PICK c \in AnySym : c = Sym("code", d, m, k + 1)
      BY <1>d, <1>f, <3>3, SymFields
    <3>5. c.s = "code" /\ c.dev = d /\ c.msg = m /\ c.pos = k + 1
      BY <1>d, <1>f, <3>3, <3>4, SymFields
    <3>6. Formed(d, c)
      BY <1>n, <3>2, <3>3, <3>5 DEF Formed, InWire
    <3>7. c \in Unread(d)
      BY <2>5, <3>3, <3>5, <3>6 DEF Inside
    <3>8. v = c
      <4>1. SUFFICES ASSUME v # c PROVE FALSE
        OBVIOUS
      <4>2. c \in Unread(d)'
        BY <2>2, <2>3, <3>5, <3>7, <4>1
      <4>3. Before(w, v) /\ Before(v, c)
        BY <2>3, <4>2
      <4>4. w.msg \in Nat /\ v.msg \in Nat /\ v.pos \in Nat
        BY <2>3 DEF AnySym
      <4>5. v.s = "esc" \/ v.msg # m \/ v.pos # k + 1
        BY <3>2, <3>3, <3>5, <4>3, <4>4, <1>f DEF Before
      <4> QED
        BY <1>f, <2>2, <3>2, <3>3, <3>5, <4>3, <4>4, <4>5 DEF Before
    <3>9. Decoded(v) = Bytes(d, m)[k + 1]
      <4>1. Decoded(v) \in AnySym /\ Decoded(v).s = "byte" /\ Decoded(v).dev = d
            /\ Decoded(v).msg = m /\ Decoded(v).pos = k + 1
        BY <3>5, <3>8, <2>3 DEF Decoded, AnySym
      <4>2. Decoded(v) = Sym("byte", d, m, k + 1)
        BY <4>1, SymIs
      <4> QED
        BY <1>d, <1>n, <3>3, <4>2, MessageType
    <3>10. inbuf' = SubSeq(Bytes(d, m), 1, k + 1)
      BY <1>d, <1>n, <2>2, <2>5, <3>3, <3>9, InsideChecked
    <3>11. /\ \A y \in Unread(d)' : y.msg > m \/ (y.msg = m /\ y.pos > k + 1)
           /\ \A z \in AnySym : Formed(d, z) /\ z.msg = m /\ z.pos > k + 1 => z \in Unread(d)'
      <4>2. /\ \A y \in U : y.msg > m \/ (y.msg = m /\ y.pos > k)
            /\ \A z \in AnySym : Formed(d, z) /\ z.msg = m /\ z.pos > k => z \in U
        BY <2>5, <3>0 DEF Inside
      <4>3. /\ V \subseteq U /\ \A y \in V : Before(v, y)
            /\ \A y \in U : y \in V \/ y = v \/ (y.msg = m /\ y.pos = k + 1)
            /\ v.s # "esc" /\ v.msg = m /\ v.pos = k + 1
        BY <2>2, <2>3, <3>0, <3>2, <3>5, <3>8
      <4>4. k \in 0 .. Len(Bytes(d, m)) /\ RestOf(d, m, k, U)
        BY <1>n, <4>2 DEF RestOf
      <4>5. Takes(m, k, v, U, V)
        BY <2>3, <3>0, <4>3 DEF Takes
      <4>6. RestOf(d, m, k + 1, V)
        BY <1>d, <4>4, <4>5, InsideRead
      <4> QED
        BY <3>0, <4>6 DEF RestOf
    <3> QED
      BY <1>ui, <3>3, <3>10, <3>11
  <2>6. Unread(d)' \subseteq Unread(d)
    BY <2>3
  <2> QED
    BY <1>n, <1>h, <1>hh, <1>e, <2>2, <2>4, <2>5, <2>6 DEF Followed
<1>5. CASE ReadEnd(d)
  <2>1. PICK w : w = Head(Stream(d))
    OBVIOUS
  <2>2. /\ Stream(d) # <<>> /\ Stream(d)' = Tail(Stream(d)) /\ lost' = lost
        /\ w.s = "end" /\ inbuf' = <<>>
        /\ \/ Checked = <<>>
           \/ handled' = Append(handled, [dev |-> d, bytes |-> Checked])
           \/ ~ Sound(Checked)
    BY <1>5, <2>1 DEF ReadEnd
  <2>3. /\ w \in Unread(d) /\ w \in AnySym /\ Unread(d) = {w} \cup Unread(d)'
        /\ \A y \in Unread(d)' : Before(w, y)
    BY <1>d, <1>inv, <2>1, <2>2, ReadIs
  <2>4. ASSUME FirstEnd(d, m) \in Unread(d) PROVE Followed(d, m)'
    <3>1. CASE w # FirstEnd(d, m)
      BY <1>uf, <2>3, <2>4, <3>1
    <3>2. CASE w = FirstEnd(d, m)
      <4>1. inbuf' = SubSeq(Bytes(d, m), 1, 0) /\ 0 \in 0 .. n
        BY <2>2, SubSeqEmpty
      <4>2. ASSUME NEW y \in Unread(d)' PROVE y.msg > m \/ (y.msg = m /\ y.pos > 0)
        <5>1. Before(w, y) /\ y \in AnySym
          BY <1>t, <2>3
        <5> QED
          BY <1>f, <3>2, <5>1 DEF Before, AnySym
      <4>3. ASSUME NEW z \in AnySym, Formed(d, z), z.msg = m, z.pos > 0 PROVE z \in Unread(d)'
        <5>1. z \in Unread(d)
          BY <1>d, <2>4, <4>3, CleanUnread
        <5>2. z # w
          BY <1>f, <3>2, <4>3
        <5> QED
          BY <2>3, <5>1, <5>2
      <4> QED
        BY <1>ui, <4>1, <4>2, <4>3
    <3> QED
      BY <3>1, <3>2
  <2>5. ASSUME NEW k \in 0 .. n, Inside(d, m, k) PROVE Followed(d, m)'
    <3>1. w = Expected(d, m, k)
      BY <1>d, <1>inv, <1>n, <2>3, <2>5, InsideNext
    <3>2. k = n
      BY <1>d, <1>n, <2>2, <3>1, ExpectedIs
    <3>3. Checked = inbuf /\ inbuf = Bytes(d, m)
      BY <1>d, <1>n, <2>5, <3>2, InsideChecked
    <3>4. PICK b \in Seq(AnySym) : b = Bytes(d, m) /\ Len(b) = n /\ b[1] = Sym("byte", d, m, 1)
      <4>1. 1 \in 1 .. n
        BY <1>n
      <4> QED
        BY <1>d, <1>n, <4>1, BytesSeq, MessageType
    <3>5. b # <<>>
      BY <1>n, <3>4, EmptySeq
    <3>6. Sound(b)
      <4>1. b[1].dev = d /\ b[1].msg = m
        BY <1>d, <1>f, <3>4, SymFields
      <4> QED
        BY <3>4, <4>1 DEF Sound, Clean
    <3>7. handled' = Append(handled, [dev |-> d, bytes |-> Bytes(d, m)])
      BY <2>2, <3>3, <3>4, <3>5, <3>6
    <3>8. PICK r \in [dev : Device, bytes : Seq(AnySym)] : r = [dev |-> d, bytes |-> Bytes(d, m)]
      BY <1>d, BytesSeq
    <3>9. handled \in Seq([dev : Device, bytes : Seq(AnySym)])
      BY DEF TypeOK
    <3>10. Len(handled) + 1 \in DOMAIN handled' /\ handled'[Len(handled) + 1] = r
      BY <3>7, <3>8, <3>9
    <3> QED
      BY <1>uh, <3>8, <3>10
  <2>6. Unread(d)' \subseteq Unread(d)
    BY <2>3
  <2> QED
    BY <1>n, <1>h, <1>hh, <1>e, <2>2, <2>4, <2>5, <2>6 DEF Followed
<1> QED
  BY <1>1, <1>2, <1>3, <1>4, <1>5, StepIs

LEMMA NextKeepsMessageInv ==
  ASSUME TypeOK, NEW d, Device = {d}, StreamInv(d), MessageInv(d), [Next]_vars
  PROVE  MessageInv(d)'
<1> SUFFICES ASSUME NEW m \in DOMAIN Traffic[d], Clean(d, m)' PROVE Followed(d, m)'
  BY DEF MessageInv
<1>1. lost \subseteq lost'
  BY StepIs DEF Quiet, Dropped, ReadByte, ReadEscape, ReadEnd
<1>2. Clean(d, m)
  BY <1>1 DEF Clean, Bytes
<1>3. Followed(d, m)
  BY <1>2 DEF MessageInv
<1> QED
  BY <1>2, <1>3, NextKeepsFollowed

LEMMA EscapeReadLeft ==
  ASSUME NEW d \in Device, NEW m \in DOMAIN Traffic[d], EscapeRead(d, m)
  PROVE  EscapeLeft(d, m)
<1>1. PICK x \in AnySym :
        /\ Formed(d, x) /\ x.s = "esc" /\ x \notin lost /\ Before(x, FirstEnd(d, m))
        /\ \A z \in AnySym : Formed(d, z) /\ Before(x, z) /\ Before(z, FirstEnd(d, m)) => z \in lost
  BY DEF EscapeRead
<1>2. PICK w \in Seq(AnySym) :
        /\ w = Written[d] /\ Sorted(w)
        /\ \A z : z \in Range(w) <=> Formed(d, z)
  BY WrittenSorted
<1>3. Formed(d, FirstEnd(d, m)) /\ FirstEnd(d, m) \in AnySym
  BY FrontIs
<1>4. PICK i \in DOMAIN w : w[i] = x
  BY <1>1, <1>2 DEF Range
<1>5. PICK j \in DOMAIN w : w[j] = FirstEnd(d, m)
  BY <1>2, <1>3 DEF Range
<1>6. i < j
  <2>1. ~ (j < i)
    BY <1>1, <1>2, <1>3, <1>4, <1>5, BeforeOrder DEF Sorted
  <2>2. i # j
    BY <1>1, <1>3, <1>4, <1>5, BeforeOrder
  <2>3. i \in Nat /\ j \in Nat
    OBVIOUS
  <2> QED
    BY <2>1, <2>2, <2>3
<1>7. ASSUME NEW k \in i + 1 .. j - 1 PROVE w[k] \in lost
  <2>1. k \in DOMAIN w /\ i < k /\ k < j
    OBVIOUS
  <2>2. w[k] \in AnySym /\ w[k] \in Range(w)
    BY <2>1 DEF Range
  <2>3. Before(w[i], w[k]) /\ Before(w[k], w[j])
    BY <1>2, <2>1 DEF Sorted
  <2> QED
    BY <1>1, <1>2, <1>4, <1>5, <2>2, <2>3
<1>8. j \in i + 1 .. Len(w)
  BY <1>6
<1> QED
  BY <1>1, <1>2, <1>4, <1>5, <1>7, <1>8 DEF EscapeLeft, FirstEnd

LEMMA UnreadIs ==
  ASSUME TypeOK, NEW d \in Device, NEW m, Read(d, m), NEW x \in Unread(d)
  PROVE  x.msg > m
<1>1. PICK s \in Seq(AnySym), l \in Seq(AnySym), o \in Seq(AnySym) :
        s = stdio[d] /\ l = line[d] /\ o = out[d]
  BY StreamType
<1>2. \A q \in {s, l, o} : \A y \in Range(q) : y.msg > m
  BY <1>1 DEF Read, Range
<1>3. PICK sl \in Seq(AnySym) : sl = s \o l
  BY ConcatProperties
<1>4. Range(sl) = Range(s) \cup Range(l)
  BY <1>3, RangeConcat
<1>5. Range(sl \o o) = Range(sl) \cup Range(o)
  BY RangeConcat
<1>6. Unread(d) = Range(sl \o o)
  BY <1>1, <1>3 DEF Unread, Stream, Joined
<1> QED
  BY <1>2, <1>4, <1>5, <1>6

LEMMA FollowedResynchronises ==
  ASSUME TypeOK, NEW d \in Device, HandledOrder, MessageInv(d),
         NEW m \in DOMAIN Traffic[d], Read(d, m), Whole(d, m)
  PROVE  Cardinality(PassedOn(d, m)) = 1
<1>1. Clean(d, m) /\ ~ EscapeLeft(d, m)
  BY DEF Clean, Whole
<1>2. Followed(d, m) /\ ~ EscapeRead(d, m)
  BY <1>1, EscapeReadLeft DEF MessageInv
<1>3. FirstEnd(d, m) \notin Unread(d)
  BY FrontIs, UnreadIs
<1>4. ASSUME NEW k \in 0 .. Len(Bytes(d, m)), Inside(d, m, k) PROVE FALSE
  <2>1. PICK t \in AnySym : /\ t = Expected(d, m, k) /\ Formed(d, t) /\ t.msg = m /\ t.pos = k + 1
                            /\ m \in Nat /\ Len(Bytes(d, m)) \in Nat
    BY ExpectedIs
  <2>2. t \in Unread(d)
    BY <1>4, <2>1 DEF Inside
  <2> QED
    BY <2>1, <2>2, UnreadIs
<1>5. PICK i \in DOMAIN handled : handled[i] = [dev |-> d, bytes |-> Bytes(d, m)]
  BY <1>2, <1>3, <1>4 DEF Followed
<1>6. ASSUME NEW j \in PassedOn(d, m), j # i PROVE FALSE
  <2>1. /\ j \in DOMAIN handled /\ handled[j].bytes = Bytes(d, m) /\ handled[i].bytes = Bytes(d, m)
    BY <1>5 DEF PassedOn
  <2>2. PICK b \in Seq(AnySym) : b = Bytes(d, m) /\ b # <<>>
    BY <1>5, <2>1 DEF HandledOrder
  <2>3. 1 \in DOMAIN b
    <3>1. Len(b) \in Nat \ {0}
      BY <2>2, EmptySeq
    <3> QED
      BY <3>1
  <2>4. b[1] \in Range(b) /\ b[1].msg \in Nat
    <3>1. b[1] \in AnySym
      BY <2>3
    <3> QED
      BY <2>3, <3>1 DEF Range, AnySym
  <2>5. i < j \/ j < i
    <3>1. handled \in Seq([dev : Device, bytes : Seq(AnySym)])
      BY DEF TypeOK
    <3>2. i \in 1 .. Len(handled) /\ j \in 1 .. Len(handled)
      BY <2>1, <3>1
    <3> QED
      BY <1>6, <3>2
  <2>6. b[1].msg < b[1].msg
    BY <2>1, <2>2, <2>4, <2>5 DEF HandledOrder
  <2> QED
    BY <2>4, <2>6
<1>7. PassedOn(d, m) = {i}
  BY <1>5, <1>6 DEF PassedOn
<1> QED
  BY <1>7, FS_Singleton

(* With one device, a message that reached the reader whole has been passed *)
(* on as it was sent, once, when it has been read, whatever was lost before *)
(* it: serial_input finds the beginning of a packet again (slip-dev.c).     *)
THEOREM SpecResynchronises ==
  ASSUME NEW d, Device = {d}
  PROVE  Spec => []Resynchronises
<1> DEFINE I == OrderInv(d) /\ MessageInv(d)
<1>d. d \in Device
  OBVIOUS
<1>1. Init => I
  <2> SUFFICES ASSUME Init PROVE I
    OBVIOUS
  <2>1. StreamInv(d) /\ \A x : x \in Unread(d) <=> Formed(d, x)
    BY InitStreamInv
  <2>2. Range(inbuf) = {} /\ DOMAIN handled = {}
    BY DEF Init, Range
  <2>3. OrderInv(d)
    BY <2>1, <2>2 DEF OrderInv, BufBehind, HandledBehind, HandledOrder
  <2>4. MessageInv(d)
    BY <2>1, FrontIs DEF MessageInv, Followed
  <2> QED
    BY <2>3, <2>4
<1>2. BufInv /\ I /\ [Next]_vars => I'
  BY NextKeepsOrderInv, NextKeepsMessageInv DEF BufInv, OrderInv
<1>3. BufInv /\ I => Resynchronises
  BY FollowedResynchronises DEF BufInv, OrderInv, Resynchronises
<1> QED
  BY <1>1, <1>2, <1>3, SpecBufInv, PTL DEF Spec

=============================================================================
