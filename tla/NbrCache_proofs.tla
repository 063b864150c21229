--------------------------- MODULE NbrCache_proofs -------------------------
(* What the neighbor cache keeps true for tables and queues of any size and *)
(* any number of addresses.                                                 *)
EXTENDS NbrCache, TLAPS, SequenceTheorems, WellFoundedInduction

USE DEF None

(* The parts of the inductive invariant. The slots that have a key are the  *)
(* first ones, so that the next block is never one that is in use.          *)
Keyed(c) ==
  /\ \A j, k \in DOMAIN c.keys : c.lladdr[c.keys[j]] = c.lladdr[c.keys[k]] => j = k
  /\ Listed(c) = 1 .. Len(c.keys)
  /\ c.used \subseteq Listed(c)

OneEntry(c) == \A s, t \in c.used : c.nbr[s].ip = c.nbr[t].ip => s = t

(* The timer of a packet leads to a handle while it is set.                 *)
Armed(c) == \A b \in Buf : c.buf[b].armed => c.buf[b].handle \in Slot

(* Solicitations that are counted have been sent since the neighbor was     *)
(* heard.                                                                   *)
Counted(c) == \A s \in Slot : c.nbr[s].nscount <= c.nbr[s].asked

Sound(c) == c \in Table /\ Keyed(c) /\ OneEntry(c) /\ Armed(c) /\ Counted(c)

(* An address that is not resolved is under the null link-layer address.    *)
Unresolved(c) == \A s \in c.used : c.nbr[s].state = "INCOMPLETE" => c.lladdr[s] = NullLl

Good(c) == Sound(c) /\ Unresolved(c)
-----------------------------------------------------------------------------
LEMMA LeastKey ==
  ASSUME NEW T \in SUBSET Nat, T # {}
  PROVE  \E x \in T : \A y \in T : x <= y
<1>1. PICK x \in T : \A y \in T : ~ (<<y, x>> \in OpToRel(<, Nat))
  BY NatLessThanWellFounded, WFMin
<1>2. ASSUME NEW y \in T PROVE x <= y
  <2>1. ~ (y < x)
    BY <1>1 DEF OpToRel
  <2> QED
    BY <2>1
<1> QED
  BY <1>2

(* The fields of a table.                                                   *)
LEMMA Fields ==
  ASSUME NEW c \in Table
  PROVE  /\ c.keys \in Seq(Slot) /\ DOMAIN c.keys = 1 .. Len(c.keys) /\ Len(c.keys) \in Nat
         /\ c.lladdr \in [Slot -> Lls \cup {NullLl}]
         /\ c.used \subseteq Slot
         /\ c.nbr \in [Slot -> Entry]
         /\ c.buf \in [Buf -> Packet]
         /\ 0 \notin Slot /\ 0 \notin Buf
BY SizeAssumption DEF Table, Slot, Buf

LEMMA TableOf ==
  ASSUME NEW c \in Table, NEW keys \in Seq(Slot), NEW lladdr \in [Slot -> Lls \cup {NullLl}],
         NEW used \in SUBSET Slot, NEW nbr \in [Slot -> Entry], NEW buf \in [Buf -> Packet]
  PROVE  /\ [c EXCEPT !.keys = keys] \in Table
         /\ [c EXCEPT !.keys = keys, !.lladdr = lladdr] \in Table
         /\ [c EXCEPT !.used = used] \in Table
         /\ [c EXCEPT !.nbr = nbr] \in Table
         /\ [c EXCEPT !.used = used, !.nbr = nbr] \in Table
         /\ [c EXCEPT !.buf = buf] \in Table
         /\ [c EXCEPT !.buf = buf, !.nbr = nbr] \in Table
BY DEF Table

LEMMA EntryTypes ==
  /\ Cleared \in Entry
  /\ Unused \in Packet
  /\ 1 \in 0 .. MaxSolicit
BY SizeAssumption DEF Cleared, Unused, Entry, Packet, State

(* The fields of an entry.                                                  *)
LEMMA EntryExcept ==
  ASSUME NEW e \in Entry
  PROVE  /\ [e EXCEPT !.packet = 0] \in Entry
         /\ \A b \in Buf : [e EXCEPT !.packet = b] \in Entry
         /\ \A x \in State : [e EXCEPT !.state = x] \in Entry
         /\ \A x \in State, n \in 0 .. MaxSolicit : [e EXCEPT !.state = x, !.nscount = n] \in Entry
         /\ \A n, a \in 0 .. MaxSolicit : [e EXCEPT !.nscount = n, !.asked = a] \in Entry
         /\ e.state \in State /\ e.nscount \in 0 .. MaxSolicit /\ e.asked \in 0 .. MaxSolicit
         /\ e.packet \in Buf \cup {0} /\ e.ip \in Ips \cup {NoIp}
         /\ e = [ip |-> e.ip, state |-> e.state, nscount |-> e.nscount, packet |-> e.packet, asked |-> e.asked]
BY DEF Entry

(* The changes the operations make to an entry.                             *)
WithState(e, x)     == [e EXCEPT !.state = x]
Restarted(e, x)     == [e EXCEPT !.state = x, !.nscount = 0]
WithCounts(e, n, a) == [e EXCEPT !.nscount = n, !.asked = a]

LEMMA EntryState ==
  ASSUME NEW e \in Entry, NEW x \in State, NEW f, f = WithState(e, x)
  PROVE  /\ f \in Entry /\ f.ip = e.ip /\ f.state = x /\ f.packet = e.packet
         /\ f.nscount = e.nscount /\ f.asked = e.asked
BY DEF Entry, WithState

LEMMA EntryRestart ==
  ASSUME NEW e \in Entry, NEW x \in State, NEW f, f = Restarted(e, x)
  PROVE  /\ f \in Entry /\ f.ip = e.ip /\ f.state = x /\ f.packet = e.packet
         /\ f.nscount = 0 /\ f.asked = e.asked /\ f.nscount <= f.asked
<1>1. 0 \in 0 .. MaxSolicit
  BY SizeAssumption
<1>2. /\ f \in Entry /\ f.ip = e.ip /\ f.state = x /\ f.packet = e.packet
      /\ f.nscount = 0 /\ f.asked = e.asked /\ e.asked \in 0 .. MaxSolicit
  BY <1>1 DEF Entry, Restarted
<1> QED
  BY <1>2

LEMMA EntryCounts ==
  ASSUME NEW e \in Entry, NEW n \in 0 .. MaxSolicit, NEW a \in 0 .. MaxSolicit,
         NEW f, f = WithCounts(e, n, a)
  PROVE  /\ f \in Entry /\ f.ip = e.ip /\ f.state = e.state /\ f.packet = e.packet
         /\ f.nscount = n /\ f.asked = a
BY DEF Entry, WithCounts

LEMMA EntryHeard ==
  ASSUME NEW e \in Entry,
         NEW f, f = [e EXCEPT !.state = "REACHABLE", !.nscount = 0, !.asked = 0]
  PROVE  /\ f \in Entry /\ f.ip = e.ip /\ f.state = "REACHABLE" /\ f.packet = e.packet
         /\ f.nscount = 0 /\ f.asked = 0
<1>1. 0 \in 0 .. MaxSolicit /\ "REACHABLE" \in State
  BY SizeAssumption DEF State
<1> QED
  BY <1>1 DEF Entry

LEMMA FreshEntry ==
  ASSUME NEW ip \in Ips \cup {NoIp}, NEW state \in State,
         NEW e, e = [Cleared EXCEPT !.ip = ip, !.state = state]
  PROVE  e \in Entry /\ e.ip = ip /\ e.state = state /\ e.nscount = 0 /\ e.nscount <= e.asked
<1>1. Cleared \in Entry /\ Cleared.nscount = 0 /\ Cleared.asked = 0
  BY EntryTypes DEF Cleared
<1>2. /\ e \in Entry /\ e.ip = ip /\ e.state = state
      /\ e.nscount = Cleared.nscount /\ e.asked = Cleared.asked
  BY <1>1 DEF Entry
<1> QED
  BY <1>1, <1>2

(* The first key among some slots is one of them, and there is one if any   *)
(* of them has a key.                                                       *)
LEMMA FirstFinds ==
  ASSUME NEW c \in Table, NEW slots
  PROVE  /\ First(c, slots) = None => Listed(c) \cap slots = {}
         /\ First(c, slots) # None => First(c, slots) \in Listed(c) \cap slots
         /\ Listed(c) \subseteq Slot
<1> DEFINE found == {k \in DOMAIN c.keys : c.keys[k] \in slots}
<1>1. DOMAIN c.keys \subseteq Nat /\ \A k \in DOMAIN c.keys : c.keys[k] \in Slot
  BY Fields
<1>2. Listed(c) \subseteq Slot /\ 0 \notin Slot
  BY <1>1, Fields DEF Listed
<1>3. CASE found = {}
  BY <1>2, <1>3 DEF First, Listed
<1>4. CASE found # {}
  <2>1. found \subseteq Nat
    BY <1>1
  <2>2. \E k \in found : \A j \in found : k <= j
    <3> HIDE DEF found
    <3> QED
      BY <1>4, <2>1, LeastKey
  <2>3. PICK k \in found : First(c, slots) = c.keys[k]
    BY <1>4, <2>2 DEF First
  <2> QED
    BY <1>1, <1>2, <2>3 DEF Listed
<1> QED
  BY <1>3, <1>4

LEMMA KeyOfFinds ==
  ASSUME NEW c, Sound(c), NEW ll
  PROVE  /\ KeyOf(c, ll) = None => \A s \in Listed(c) : c.lladdr[s] # ll
         /\ KeyOf(c, ll) # None => /\ KeyOf(c, ll) \in Listed(c)
                                   /\ KeyOf(c, ll) \in Slot
                                   /\ c.lladdr[KeyOf(c, ll)] = ll
BY FirstFinds DEF KeyOf, Sound

LEMMA LookupFinds ==
  ASSUME NEW c, Sound(c), NEW ip
  PROVE  /\ Lookup(c, ip) = None => \A s \in c.used : c.nbr[s].ip # ip
         /\ Lookup(c, ip) # None => /\ Lookup(c, ip) \in c.used
                                    /\ Lookup(c, ip) \in Slot
                                    /\ c.nbr[Lookup(c, ip)].ip = ip
<1> DEFINE slots == {s \in c.used : c.nbr[s].ip = ip}
<1>1. Lookup(c, ip) = First(c, slots)
  BY DEF Lookup
<1>2. c \in Table /\ slots \subseteq Listed(c)
  BY DEF Sound, Keyed
<1> HIDE DEF slots
<1>3. /\ First(c, slots) = None => slots = {}
      /\ First(c, slots) # None => First(c, slots) \in slots /\ First(c, slots) \in Slot
  BY <1>2, FirstFinds
<1> QED
  BY <1>1, <1>3 DEF slots

LEMMA LlLookupFinds ==
  ASSUME NEW c, Sound(c), NEW ll, LlLookup(c, ll) # None
  PROVE  LlLookup(c, ll) \in c.used /\ LlLookup(c, ll) \in Slot /\ c.lladdr[LlLookup(c, ll)] = ll
<1>1. LlLookup(c, ll) = KeyOf(c, ll) /\ KeyOf(c, ll) \in c.used
  BY DEF LlLookup
<1> QED
  BY <1>1, KeyOfFinds
-----------------------------------------------------------------------------
(* An operation that leaves the keys and the addresses of the entries as    *)
(* they are, or drops entries.                                              *)
LEMMA SameKeysSound ==
  ASSUME NEW c, Sound(c), NEW d \in Table, d.keys = c.keys, d.lladdr = c.lladdr,
         d.used \subseteq c.used, \A s \in d.used : d.nbr[s].ip = c.nbr[s].ip,
         Armed(d), Counted(d)
  PROVE  Sound(d)
<1>1. Keyed(d)
  BY DEF Sound, Keyed, Listed
<1>2. OneEntry(d)
  BY DEF Sound, OneEntry
<1> QED
  BY <1>1, <1>2 DEF Sound

LEMMA PacketFreeSound ==
  ASSUME NEW c, Sound(c), NEW slots, NEW f, f = PacketFree(c, slots)
  PROVE  /\ Sound(f)
         /\ f.keys = c.keys /\ f.lladdr = c.lladdr /\ f.used = c.used
         /\ \A s \in Slot : /\ f.nbr[s].ip = c.nbr[s].ip /\ f.nbr[s].state = c.nbr[s].state
                             /\ f.nbr[s].nscount = c.nbr[s].nscount
                             /\ f.nbr[s].asked = c.nbr[s].asked
         /\ \A s \in Slot \ slots : f.nbr[s] = c.nbr[s]
<1> DEFINE freed == {c.nbr[s].packet : s \in slots}
           buf == [b \in Buf |-> IF b \in freed THEN [Unused EXCEPT !.to = c.buf[b].to] ELSE c.buf[b]]
           nbr == [s \in Slot |-> IF s \in slots THEN [c.nbr[s] EXCEPT !.packet = 0] ELSE c.nbr[s]]
           d == [c EXCEPT !.buf = buf, !.nbr = nbr]
<1>0. c \in Table /\ d = f
  BY DEF Sound, PacketFree
<1>1. nbr \in [Slot -> Entry]
  BY <1>0, Fields, EntryExcept
<1>2. /\ buf \in [Buf -> Packet]
      /\ \A b \in Buf : buf[b].armed => c.buf[b].armed /\ buf[b].handle = c.buf[b].handle
  BY <1>0, Fields DEF Packet, Unused
<1>3. /\ d \in Table /\ d.keys = c.keys /\ d.lladdr = c.lladdr /\ d.used = c.used
      /\ d.nbr = nbr /\ d.buf = buf
  BY <1>0, <1>1, <1>2, TableOf DEF Table
<1>4. /\ \A s \in Slot : /\ nbr[s].ip = c.nbr[s].ip /\ nbr[s].state = c.nbr[s].state
                         /\ nbr[s].nscount = c.nbr[s].nscount
                         /\ nbr[s].asked = c.nbr[s].asked
      /\ \A s \in Slot \ slots : nbr[s] = c.nbr[s]
  BY <1>0, Fields DEF Entry
<1> HIDE DEF d, nbr, buf
<1>5. Armed(d)
  BY <1>2, <1>3 DEF Armed, Sound
<1>6. Counted(d)
  BY <1>3, <1>4 DEF Counted, Sound
<1>7. Sound(d)
  BY <1>3, <1>4, <1>5, <1>6, <1>0, Fields, SameKeysSound
<1> QED
  BY <1>0, <1>3, <1>4, <1>7

LEMMA NbrRmSound ==
  ASSUME NEW c, Sound(c), NEW slots, NEW r, r = NbrRm(c, slots)
  PROVE  /\ Sound(r)
         /\ r.keys = c.keys /\ r.lladdr = c.lladdr /\ r.used = c.used \ slots
         /\ \A s \in Slot \ slots : r.nbr[s] = c.nbr[s]
<1>0. PICK f : f = PacketFree(c, slots)
  OBVIOUS
<1> DEFINE used == f.used \ slots
           nbr == [s \in Slot |-> IF s \in slots THEN Cleared ELSE f.nbr[s]]
           d == [f EXCEPT !.used = used, !.nbr = nbr]
<1>1. /\ Sound(f) /\ f \in Table
      /\ f.keys = c.keys /\ f.lladdr = c.lladdr /\ f.used = c.used
      /\ \A s \in Slot \ slots : f.nbr[s] = c.nbr[s]
  <2>1. Sound(f) /\ f.keys = c.keys /\ f.lladdr = c.lladdr /\ f.used = c.used
    BY <1>0, PacketFreeSound
  <2>2. \A s \in Slot \ slots : f.nbr[s] = c.nbr[s]
    BY <1>0, PacketFreeSound
  <2>3. f \in Table
    BY <2>1 DEF Sound
  <2> QED
    BY <2>1, <2>2, <2>3
<1>2. d = r
  BY <1>0 DEF NbrRm
<1>3. nbr \in [Slot -> Entry] /\ used \in SUBSET Slot
  BY <1>1, Fields, EntryTypes
<1>4. /\ d \in Table /\ d.keys = f.keys /\ d.lladdr = f.lladdr /\ d.used = used
      /\ d.nbr = nbr /\ d.buf = f.buf
  BY <1>1, <1>3, TableOf DEF Table
<1>5. Armed(d)
  BY <1>1, <1>4 DEF Armed, Sound
<1>6. Counted(d)
  BY <1>1, <1>4 DEF Counted, Sound, Cleared
<1>7. Sound(d)
  <2>1. d.used \subseteq f.used /\ \A s \in d.used : d.nbr[s].ip = f.nbr[s].ip
    BY <1>1, <1>4, Fields
  <2> QED
    BY <1>1, <1>4, <1>5, <1>6, <2>1, SameKeysSound
<1> QED
  BY <1>1, <1>2, <1>4, <1>7
-----------------------------------------------------------------------------
(* A sequence without one of its elements.                                  *)
LEMMA RemoveAtProperties ==
  ASSUME NEW S, NEW s \in Seq(S), NEW k \in 1 .. Len(s)
  PROVE  /\ RemoveAt(s, k) \in Seq(S)
         /\ Len(RemoveAt(s, k)) = Len(s) - 1
         /\ \A i \in 1 .. Len(s) - 1 :
              RemoveAt(s, k)[i] = IF i < k THEN s[i] ELSE s[i + 1]
<1> DEFINE a == SubSeq(s, 1, k - 1)
           b == SubSeq(s, k + 1, Len(s))
<1>1. a \in Seq(S) /\ Len(a) = k - 1 /\ \A i \in 1 .. k - 1 : a[i] = s[i]
  OBVIOUS
<1>2. b \in Seq(S) /\ Len(b) = Len(s) - k /\ \A i \in 1 .. Len(s) - k : b[i] = s[k + i]
  OBVIOUS
<1>3. RemoveAt(s, k) = a \o b
  BY DEF RemoveAt
<1> HIDE DEF a, b
<1>4. /\ a \o b \in Seq(S)
      /\ Len(a \o b) = Len(s) - 1
      /\ \A i \in 1 .. Len(s) - 1 : (a \o b)[i] = IF i <= Len(a) THEN a[i] ELSE b[i - Len(a)]
  BY <1>1, <1>2, ConcatProperties
<1>5. ASSUME NEW i \in 1 .. Len(s) - 1
      PROVE  (a \o b)[i] = IF i < k THEN s[i] ELSE s[i + 1]
  <2>1. CASE i < k
    BY <1>1, <1>4, <2>1
  <2>2. CASE ~ (i < k)
    <3>1. i - (k - 1) \in 1 .. Len(s) - k /\ k + (i - (k - 1)) = i + 1
      BY <2>2
    <3>2. (a \o b)[i] = b[i - (k - 1)]
      BY <1>1, <1>4, <2>2
    <3> QED
      BY <1>2, <2>2, <3>1, <3>2
  <2> QED
    BY <2>1, <2>2
<1> QED
  BY <1>3, <1>4, <1>5

(* The keys have distinct addresses: so a slot has one key.                 *)
Distinct(c) == \A j, k \in DOMAIN c.keys : c.lladdr[c.keys[j]] = c.lladdr[c.keys[k]] => j = k

(* A slot that has no key is given to an address that has none.             *)
LEMMA EnlistSound ==
  ASSUME NEW c \in Table, Distinct(c), OneEntry(c), Armed(c), Counted(c),
         c.used \subseteq Listed(c),
         NEW s \in Slot \ Listed(c), Listed(c) \cup {s} = 1 .. Len(c.keys) + 1,
         NEW ll \in Lls \cup {NullLl}, \A t \in Listed(c) : c.lladdr[t] # ll,
         NEW d, d = Enlist(c, s, ll)
  PROVE  /\ Sound(d)
         /\ d.used = c.used /\ d.nbr = c.nbr
         /\ s \in Listed(d) /\ d.lladdr[s] = ll
         /\ \A t \in Slot \ {s} : d.lladdr[t] = c.lladdr[t]
<1> DEFINE keys == Append(c.keys, s)
           lladdr == [c.lladdr EXCEPT ![s] = ll]
<1>1. /\ keys \in Seq(Slot) /\ Len(keys) = Len(c.keys) + 1 /\ keys[Len(c.keys) + 1] = s
      /\ \A k \in DOMAIN c.keys : keys[k] = c.keys[k]
      /\ DOMAIN keys = DOMAIN c.keys \cup {Len(c.keys) + 1}
  BY Fields
<1>2. /\ lladdr \in [Slot -> Lls \cup {NullLl}] /\ lladdr[s] = ll
      /\ \A t \in Slot \ {s} : lladdr[t] = c.lladdr[t]
  BY Fields
<1>3. d = [c EXCEPT !.keys = keys, !.lladdr = lladdr]
  BY DEF Enlist, Table
<1> HIDE DEF keys, lladdr
<1>4. /\ d \in Table /\ d.keys = keys /\ d.lladdr = lladdr /\ d.used = c.used
      /\ d.nbr = c.nbr /\ d.buf = c.buf
  <2>1. keys \in Seq(Slot) /\ lladdr \in [Slot -> Lls \cup {NullLl}]
    BY <1>1, <1>2
  <2> QED
    BY <1>3, <2>1 DEF Table
<1>5. \A k \in DOMAIN c.keys : c.keys[k] \in Listed(c) /\ c.keys[k] \in Slot /\ c.keys[k] # s
  BY Fields DEF Listed
<1>6. Distinct(d)
  <2> SUFFICES ASSUME NEW j \in DOMAIN keys, NEW k \in DOMAIN keys,
                      lladdr[keys[j]] = lladdr[keys[k]]
               PROVE  j = k
    BY <1>4 DEF Distinct
  <2>1. CASE j \in DOMAIN c.keys /\ k \in DOMAIN c.keys
    BY <1>1, <1>2, <1>5, <2>1 DEF Distinct
  <2>2. CASE j \in DOMAIN c.keys /\ k = Len(c.keys) + 1
    BY <1>1, <1>2, <1>5, <2>2
  <2>3. CASE k \in DOMAIN c.keys /\ j = Len(c.keys) + 1
    BY <1>1, <1>2, <1>5, <2>3
  <2> QED
    BY <1>1, <2>1, <2>2, <2>3
<1>7. Listed(d) = Listed(c) \cup {s}
  BY <1>1, <1>4 DEF Listed
<1>8. Keyed(d)
  BY <1>1, <1>4, <1>6, <1>7 DEF Keyed, Distinct
<1>9. OneEntry(d) /\ Armed(d) /\ Counted(d)
  BY <1>4 DEF OneEntry, Armed, Counted
<1> QED
  BY <1>2, <1>4, <1>7, <1>8, <1>9 DEF Sound

(* remove_key leaves the other keys and entries as they are.                *)
LEMMA RemoveKeyKeeps ==
  ASSUME NEW c, Sound(c), NEW v \in c.used, NEW d, d = RemoveKey(c, v)
  PROVE  /\ d \in Table /\ Distinct(d) /\ OneEntry(d) /\ Armed(d) /\ Counted(d)
         /\ d.used = c.used \ {v} /\ \A s \in Slot \ {v} : d.nbr[s] = c.nbr[s]
         /\ d.lladdr = c.lladdr
         /\ Listed(d) = Listed(c) \ {v}
         /\ Len(d.keys) + 1 = Len(c.keys)
<1>0. PICK e : e = NbrRm(c, {v})
  OBVIOUS
<1>1. Sound(e)
  BY <1>0, NbrRmSound
<1>2. /\ e.keys = c.keys /\ e.lladdr = c.lladdr /\ e.used = c.used \ {v}
      /\ \A s \in Slot \ {v} : e.nbr[s] = c.nbr[s]
  BY <1>0, NbrRmSound
<1>3. e \in Table /\ c \in Table /\ Distinct(c) /\ v \in Listed(c)
  BY <1>1 DEF Sound, Keyed, Distinct
<1> DEFINE k == CHOOSE k \in DOMAIN c.keys : c.keys[k] = v
           keys == RemoveAt(c.keys, k)
<1>4. k \in DOMAIN c.keys /\ c.keys[k] = v
  BY <1>3 DEF Listed
<1>5. c.keys \in Seq(Slot) /\ DOMAIN c.keys = 1 .. Len(c.keys) /\ Len(c.keys) \in Nat
  BY <1>3, Fields
<1>6. d = [e EXCEPT !.keys = keys]
  <2>1. {v} \cap c.used = {v}
    OBVIOUS
  <2> QED
    BY <1>0, <1>2, <2>1 DEF RemoveKey
<1> HIDE DEF k
<1>7. /\ keys \in Seq(Slot) /\ Len(keys) = Len(c.keys) - 1 /\ DOMAIN keys = 1 .. Len(c.keys) - 1
      /\ \A i \in 1 .. Len(c.keys) - 1 : keys[i] = IF i < k THEN c.keys[i] ELSE c.keys[i + 1]
  <2>1. k \in 1 .. Len(c.keys) /\ c.keys \in Seq(Slot)
    BY <1>4, <1>5
  <2>2. /\ keys \in Seq(Slot) /\ Len(keys) = Len(c.keys) - 1
        /\ \A i \in 1 .. Len(c.keys) - 1 : keys[i] = IF i < k THEN c.keys[i] ELSE c.keys[i + 1]
    BY <2>1, RemoveAtProperties
  <2> HIDE DEF keys
  <2> QED
    BY <2>2
<1> HIDE DEF keys
<1>8. /\ d \in Table /\ d.keys = keys /\ d.lladdr = c.lladdr /\ d.used = e.used
      /\ d.nbr = e.nbr /\ d.buf = e.buf
  <2>1. keys \in Seq(Slot)
    BY <1>7
  <2> QED
    BY <1>2, <1>3, <1>6, <2>1 DEF Table
<1> DEFINE at(i) == IF i < k THEN i ELSE i + 1
<1>9. \A i \in 1 .. Len(c.keys) - 1 : keys[i] = c.keys[at(i)] /\ at(i) \in DOMAIN c.keys \ {k}
  <2>1. k \in 1 .. Len(c.keys) /\ Len(c.keys) \in Nat
    BY <1>4, <1>5
  <2>2. \A i \in 1 .. Len(c.keys) - 1 : at(i) \in 1 .. Len(c.keys) /\ at(i) # k
    BY <2>1
  <2>3. \A i \in 1 .. Len(c.keys) - 1 : keys[i] = c.keys[at(i)]
    BY <1>7, <2>1
  <2> QED
    BY <1>5, <2>2, <2>3
<1>10. Distinct(d)
  <2> SUFFICES ASSUME NEW i \in DOMAIN keys, NEW j \in DOMAIN keys,
                      c.lladdr[keys[i]] = c.lladdr[keys[j]]
               PROVE  i = j
    BY <1>8 DEF Distinct
  <2>1. i \in 1 .. Len(c.keys) - 1 /\ j \in 1 .. Len(c.keys) - 1
    BY <1>7
  <2>2. /\ keys[i] = c.keys[at(i)] /\ at(i) \in DOMAIN c.keys
        /\ keys[j] = c.keys[at(j)] /\ at(j) \in DOMAIN c.keys
    BY <1>9, <2>1
  <2>3. at(i) = at(j)
    <3> HIDE DEF at
    <3> QED
      BY <1>3, <2>2 DEF Distinct
  <2>4. k \in 1 .. Len(c.keys) /\ Len(c.keys) \in Nat
    BY <1>4, <1>5
  <2> QED
    BY <2>1, <2>3, <2>4
<1>11. Listed(d) = Listed(c) \ {v}
  <2>1. ASSUME NEW s \in Listed(d) PROVE s \in Listed(c) \ {v}
    <3>1. PICK i \in 1 .. Len(c.keys) - 1 : keys[i] = s
      BY <1>7, <1>8, <2>1 DEF Listed
    <3>2. s = c.keys[at(i)] /\ at(i) \in DOMAIN c.keys \ {k}
      BY <1>9, <3>1
    <3> HIDE DEF at
    <3> QED
      BY <1>3, <1>4, <3>2 DEF Listed, Distinct
  <2>2. ASSUME NEW s \in Listed(c) \ {v} PROVE s \in Listed(d)
    <3>1. PICK j \in DOMAIN c.keys : c.keys[j] = s /\ j # k
      BY <1>4 DEF Listed
    <3>2. CASE j < k
      BY <1>4, <1>5, <1>7, <1>8, <3>1, <3>2 DEF Listed
    <3>3. CASE j > k
      <4>1. j - 1 \in 1 .. Len(c.keys) - 1 /\ ~ (j - 1 < k) /\ (j - 1) + 1 = j
        BY <1>4, <1>5, <3>3
      <4>2. keys[j - 1] = c.keys[j]
        BY <1>7, <4>1
      <4> QED
        BY <1>7, <1>8, <3>1, <4>1, <4>2 DEF Listed
    <3> QED
      BY <1>4, <1>5, <3>1, <3>2, <3>3
  <2> QED
    BY <2>1, <2>2
<1>12. OneEntry(d) /\ Armed(d) /\ Counted(d)
  BY <1>1, <1>8 DEF Sound, OneEntry, Armed, Counted
<1> QED
  BY <1>2, <1>5, <1>7, <1>8, <1>10, <1>11, <1>12
(* A key is found or taken; the entries that remain are as they were.       *)
LEMMA AllocateSound ==
  ASSUME NEW c, Sound(c), NEW ll \in Lls \cup {NullLl}, NEW victim \in c.used \cup {0},
         NEW r, r = Allocate(c, ll, victim)
  PROVE  /\ Sound(r.cache)
         /\ r.slot = 0 => r.cache = c
         /\ r.slot # 0 => /\ r.slot \in Slot /\ r.slot \in Listed(r.cache)
                          /\ r.cache.lladdr[r.slot] = ll
         /\ r.cache.used \subseteq c.used
         /\ victim = 0 => r.cache.used = c.used
         /\ \A s \in r.cache.used : r.cache.nbr[s] = c.nbr[s] /\ r.cache.lladdr[s] = c.lladdr[s]
<1>1. /\ c \in Table /\ Distinct(c) /\ OneEntry(c) /\ Armed(c) /\ Counted(c)
      /\ Listed(c) = 1 .. Len(c.keys) /\ c.used \subseteq Listed(c)
  BY DEF Sound, Keyed, Distinct
<1>2. Len(c.keys) \in Nat /\ c.used \subseteq Slot /\ 0 \notin Slot
  BY <1>1, Fields
<1>3. CASE KeyOf(c, ll) # 0
  <2>1. r.cache = c /\ r.slot = KeyOf(c, ll)
    BY <1>3 DEF Allocate, Result
  <2> QED
    BY <1>3, <2>1, KeyOfFinds
<1>4. CASE KeyOf(c, ll) = 0 /\ Len(c.keys) < MaxNeighbors
  <2> DEFINE s == Len(c.keys) + 1
  <2>1. s \in Slot \ Listed(c) /\ Listed(c) \cup {s} = 1 .. Len(c.keys) + 1 /\ s # 0
    BY <1>1, <1>2, <1>4, SizeAssumption DEF Slot
  <2>2. \A t \in Listed(c) : c.lladdr[t] # ll
    BY <1>4, KeyOfFinds
  <2>3. r.cache = Enlist(c, s, ll) /\ r.slot = s
    BY <1>4 DEF Allocate, Result
  <2> HIDE DEF s
  <2>4. /\ Sound(r.cache) /\ r.cache.used = c.used /\ r.cache.nbr = c.nbr
        /\ s \in Listed(r.cache) /\ r.cache.lladdr[s] = ll
        /\ \A t \in Slot \ {s} : r.cache.lladdr[t] = c.lladdr[t]
    BY <1>1, <2>1, <2>2, <2>3, EnlistSound
  <2> QED
    BY <1>1, <1>2, <2>1, <2>3, <2>4
<1>5. CASE KeyOf(c, ll) = 0 /\ ~ (Len(c.keys) < MaxNeighbors) /\ victim = 0
  BY <1>5 DEF Allocate, Result
<1>6. CASE KeyOf(c, ll) = 0 /\ ~ (Len(c.keys) < MaxNeighbors) /\ victim # 0
  <2>1. PICK d : d = RemoveKey(c, victim)
    OBVIOUS
  <2>2. /\ d \in Table /\ Distinct(d) /\ OneEntry(d) /\ Armed(d) /\ Counted(d)
        /\ d.used = c.used \ {victim} /\ \A s \in Slot \ {victim} : d.nbr[s] = c.nbr[s]
        /\ d.lladdr = c.lladdr
        /\ Listed(d) = Listed(c) \ {victim}
        /\ Len(d.keys) + 1 = Len(c.keys)
    BY <1>6, <2>1, RemoveKeyKeeps
  <2>3. /\ victim \in Slot \ Listed(d) /\ Listed(d) \cup {victim} = 1 .. Len(d.keys) + 1
        /\ d.used \subseteq Listed(d)
    BY <1>1, <1>2, <1>6, <2>2
  <2>4. \A t \in Listed(d) : d.lladdr[t] # ll
    BY <1>6, <2>2, KeyOfFinds
  <2>5. r.cache = Enlist(d, victim, ll) /\ r.slot = victim
    BY <1>6, <2>1 DEF Allocate, Result
  <2>6. /\ Sound(r.cache) /\ r.cache.used = d.used /\ r.cache.nbr = d.nbr
        /\ victim \in Listed(r.cache) /\ r.cache.lladdr[victim] = ll
        /\ \A t \in Slot \ {victim} : r.cache.lladdr[t] = d.lladdr[t]
    BY <2>2, <2>3, <2>4, <2>5, EnlistSound
  <2> QED
    BY <1>2, <1>6, <2>2, <2>5, <2>6
<1> QED
  BY <1>3, <1>4, <1>5, <1>6

(* An entry is set to one that has the same address.                        *)
Put(c, s, e) == [c EXCEPT !.nbr[s] = e]

LEMMA SetEntry ==
  ASSUME NEW c, Sound(c), NEW s \in Slot, NEW e \in Entry,
         e.ip = c.nbr[s].ip, e.nscount <= e.asked,
         NEW d, d = Put(c, s, e)
  PROVE  /\ Sound(d) /\ d.keys = c.keys /\ d.lladdr = c.lladdr /\ d.used = c.used
         /\ d.nbr[s] = e /\ \A t \in Slot \ {s} : d.nbr[t] = c.nbr[t]
<1>1. c \in Table /\ c.nbr \in [Slot -> Entry]
  BY Fields DEF Sound
<1>2. /\ d \in Table /\ d.keys = c.keys /\ d.lladdr = c.lladdr /\ d.used = c.used
      /\ d.nbr = [c.nbr EXCEPT ![s] = e] /\ d.buf = c.buf
  BY <1>1 DEF Table, Put
<1>3. \A t \in Slot : d.nbr[t] = IF t = s THEN e ELSE c.nbr[t]
  BY <1>1, <1>2
<1>4. Armed(d)
  BY <1>2 DEF Sound, Armed
<1>5. Counted(d)
  BY <1>3 DEF Sound, Counted
<1>6. \A t \in d.used : d.nbr[t].ip = c.nbr[t].ip
  BY <1>1, <1>2, <1>3, Fields
<1>7. Sound(d)
  BY <1>2, <1>4, <1>5, <1>6, SameKeysSound
<1> QED
  BY <1>2, <1>3, <1>7

(* An address that has no entry gets one.                                   *)
LEMMA NbrAddSound ==
  ASSUME NEW c, Sound(c), NEW ip \in Ips \cup {NoIp}, \A s \in c.used : c.nbr[s].ip # ip,
         NEW ll \in Lls \cup {NullLl}, NEW state \in State, NEW victim \in c.used \cup {0},
         NEW r, r = NbrAdd(c, ip, ll, state, victim)
  PROVE  /\ Sound(r.cache)
         /\ r.slot = 0 => r.cache = c
         /\ r.slot # 0 => /\ r.slot \in Slot /\ r.slot \in r.cache.used
                          /\ r.cache.lladdr[r.slot] = ll
                          /\ r.cache.nbr[r.slot].ip = ip
                          /\ r.cache.nbr[r.slot].state = state
         /\ r.cache.used \ {r.slot} \subseteq c.used
         /\ \A s \in r.cache.used \ {r.slot} :
              r.cache.nbr[s] = c.nbr[s] /\ r.cache.lladdr[s] = c.lladdr[s]
<1>1. PICK a : a = Allocate(c, ll, victim)
  OBVIOUS
<1>2. /\ Sound(a.cache)
      /\ a.slot = 0 => a.cache = c
      /\ a.slot # 0 => /\ a.slot \in Slot /\ a.slot \in Listed(a.cache)
                       /\ a.cache.lladdr[a.slot] = ll
      /\ a.cache.used \subseteq c.used
      /\ \A s \in a.cache.used : a.cache.nbr[s] = c.nbr[s] /\ a.cache.lladdr[s] = c.lladdr[s]
  BY <1>1, AllocateSound
<1>3. CASE a.slot = 0
  <2>1. r = a
    BY <1>1, <1>3 DEF NbrAdd
  <2> QED
    BY <1>2, <1>3, <2>1
<1>4. CASE a.slot # 0
  <2> DEFINE e == [Cleared EXCEPT !.ip = ip, !.state = state]
             used == a.cache.used \cup {a.slot}
             nbr == [a.cache.nbr EXCEPT ![a.slot] = e]
  <2>1. a.cache \in Table /\ a.slot \in Slot /\ a.slot \in Listed(a.cache)
    BY <1>2, <1>4 DEF Sound
  <2>2. /\ a.cache.used \subseteq Slot /\ a.cache.nbr \in [Slot -> Entry]
    BY <2>1, Fields
  <2>3. e \in Entry /\ e.ip = ip /\ e.nscount <= e.asked
    BY FreshEntry
  <2>4. r.slot = a.slot /\ r.cache = [a.cache EXCEPT !.used = used, !.nbr = nbr]
    BY <1>1, <1>4, <2>1 DEF NbrAdd, Result, Table
  <2> HIDE DEF e
  <2>5. /\ nbr \in [Slot -> Entry] /\ used \in SUBSET Slot /\ nbr[a.slot] = e
        /\ \A s \in Slot \ {a.slot} : nbr[s] = a.cache.nbr[s]
    BY <2>1, <2>2, <2>3
  <2> HIDE DEF nbr
  <2>6. /\ r.cache \in Table /\ r.cache.keys = a.cache.keys /\ r.cache.lladdr = a.cache.lladdr
        /\ r.cache.used = used /\ r.cache.nbr = nbr /\ r.cache.buf = a.cache.buf
    BY <2>1, <2>4, <2>5 DEF Table
  <2>7. Keyed(r.cache)
    BY <1>2, <2>1, <2>6 DEF Sound, Keyed, Listed
  <2>8. OneEntry(r.cache)
    <3> SUFFICES ASSUME NEW s \in used, NEW t \in used, nbr[s].ip = nbr[t].ip
                 PROVE  s = t
      BY <2>6 DEF OneEntry
    <3>1. \A q \in used : q # a.slot => q \in a.cache.used /\ nbr[q] = a.cache.nbr[q] /\ nbr[q].ip # ip
      BY <1>2, <2>2, <2>5
    <3>2. \A p, q \in a.cache.used : a.cache.nbr[p].ip = a.cache.nbr[q].ip => p = q
      BY <1>2 DEF Sound, OneEntry
    <3> QED
      BY <2>3, <2>5, <3>1, <3>2
  <2>9. Armed(r.cache)
    BY <1>2, <2>6 DEF Sound, Armed
  <2>10. Counted(r.cache)
    BY <1>2, <2>3, <2>5, <2>6 DEF Sound, Counted
  <2>11. Sound(r.cache)
    BY <2>6, <2>7, <2>8, <2>9, <2>10 DEF Sound
  <2>12. \A s \in r.cache.used \ {r.slot} :
           s \in c.used /\ r.cache.nbr[s] = c.nbr[s] /\ r.cache.lladdr[s] = c.lladdr[s]
    BY <1>2, <2>2, <2>4, <2>5, <2>6
  <2>13. /\ r.slot # 0 /\ r.slot \in Slot /\ r.slot \in r.cache.used
         /\ r.cache.lladdr[r.slot] = ll /\ r.cache.nbr[r.slot] = e
    BY <1>2, <1>4, <2>1, <2>4, <2>5, <2>6
  <2>14. e.ip = ip /\ e.state = state
    BY FreshEntry DEF e
  <2> QED
    BY <2>11, <2>12, <2>13, <2>14
<1> QED
  BY <1>3, <1>4
(* The entry moves to a slot with the new address, or goes.                 *)
LEMMA UpdateLladdrSound ==
  ASSUME NEW c, Sound(c), NEW s \in c.used, NEW ll \in Lls, c.lladdr[s] # ll,
         NEW u, u = UpdateLladdr(c, s, ll)
  PROVE  /\ Sound(u.cache)
         /\ u.slot # 0 => /\ u.slot \in Slot /\ u.slot \in u.cache.used
                          /\ u.cache.lladdr[u.slot] = ll /\ u.cache.nbr[u.slot] = c.nbr[s]
         /\ u.cache.used \ {u.slot} \subseteq c.used
         /\ \A t \in u.cache.used \ {u.slot} :
              u.cache.nbr[t] = c.nbr[t] /\ u.cache.lladdr[t] = c.lladdr[t]
<1>1. PICK d : d = WithoutDuplicate(c, ll)
  OBVIOUS
<1>2. /\ Sound(d) /\ d.lladdr = c.lladdr /\ d.used \subseteq c.used /\ s \in d.used
      /\ \A t \in d.used : d.nbr[t] = c.nbr[t]
  <2>1. CASE LlLookup(c, ll) = 0
    BY <1>1, <2>1 DEF WithoutDuplicate
  <2>2. CASE LlLookup(c, ll) # 0
    <3>1. PICK x : x = LlLookup(c, ll)
      OBVIOUS
    <3>2. x \in Slot /\ x # s
      BY <2>2, <3>1, LlLookupFinds
    <3>3. d = NbrRm(c, {x})
      BY <1>1, <2>2, <3>1 DEF WithoutDuplicate
    <3>4. /\ Sound(d) /\ d.lladdr = c.lladdr /\ d.used = c.used \ {x}
          /\ \A t \in Slot \ {x} : d.nbr[t] = c.nbr[t]
      BY <3>3, NbrRmSound
    <3>5. c.used \subseteq Slot
      BY Fields DEF Sound
    <3> QED
      BY <3>2, <3>4, <3>5
  <2> QED
    BY <2>1, <2>2
<1>3. d.used \subseteq Slot /\ s \in Slot /\ d.nbr[s] \in Entry
  BY <1>2, Fields DEF Sound
<1>4. PICK f : f = NbrRm(d, {s})
  OBVIOUS
<1>5. /\ Sound(f) /\ f.lladdr = d.lladdr /\ f.used = d.used \ {s}
      /\ \A t \in Slot \ {s} : f.nbr[t] = d.nbr[t]
  BY <1>2, <1>4, NbrRmSound
<1>6. /\ d.nbr[s].ip \in Ips \cup {NoIp} /\ d.nbr[s].state \in State
      /\ \A t \in f.used : f.nbr[t].ip # d.nbr[s].ip
  <2>1. d.nbr[s].ip \in Ips \cup {NoIp} /\ d.nbr[s].state \in State
    BY <1>3, EntryExcept
  <2>2. \A t \in f.used : f.nbr[t].ip # d.nbr[s].ip
    BY <1>2, <1>3, <1>5 DEF Sound, OneEntry
  <2> QED
    BY <2>1, <2>2
<1>7. PICK r : r = NbrAdd(f, d.nbr[s].ip, ll, d.nbr[s].state, 0)
  OBVIOUS
<1>8. /\ Sound(r.cache)
      /\ r.slot # 0 => /\ r.slot \in Slot /\ r.slot \in r.cache.used
                       /\ r.cache.lladdr[r.slot] = ll
                       /\ r.cache.nbr[r.slot].ip = d.nbr[s].ip
      /\ r.cache.used \ {r.slot} \subseteq f.used
      /\ \A t \in r.cache.used \ {r.slot} :
           r.cache.nbr[t] = f.nbr[t] /\ r.cache.lladdr[t] = f.lladdr[t]
  <2>1. ll \in Lls \cup {NullLl} /\ 0 \in f.used \cup {0}
    OBVIOUS
  <2>2. PICK ip, state : ip = d.nbr[s].ip /\ state = d.nbr[s].state
    OBVIOUS
  <2>3. /\ ip \in Ips \cup {NoIp} /\ state \in State /\ \A t \in f.used : f.nbr[t].ip # ip
        /\ r = NbrAdd(f, ip, ll, state, 0)
    BY <1>6, <1>7, <2>2
  <2>4. /\ Sound(r.cache)
        /\ r.slot # 0 => /\ r.slot \in Slot /\ r.slot \in r.cache.used
                         /\ r.cache.lladdr[r.slot] = ll /\ r.cache.nbr[r.slot].ip = ip
        /\ r.cache.used \ {r.slot} \subseteq f.used
        /\ \A t \in r.cache.used \ {r.slot} :
             r.cache.nbr[t] = f.nbr[t] /\ r.cache.lladdr[t] = f.lladdr[t]
    BY <1>5, <2>1, <2>3, NbrAddSound
  <2> QED
    BY <2>2, <2>4
<1>9. CASE r.slot = 0
  <2>1. u = r
    BY <1>1, <1>4, <1>7, <1>9 DEF UpdateLladdr
  <2> QED
    BY <1>2, <1>3, <1>5, <1>8, <1>9, <2>1
<1>10. CASE r.slot # 0
  <2>1. u.slot = r.slot /\ u.cache = [r.cache EXCEPT !.nbr[r.slot] = d.nbr[s]]
    BY <1>1, <1>4, <1>7, <1>10 DEF UpdateLladdr, Result
  <2>2. r.slot \in Slot /\ r.cache.nbr[r.slot].ip = d.nbr[s].ip
    BY <1>8, <1>10
  <2>3. d.nbr[s].nscount <= d.nbr[s].asked
    BY <1>2, <1>3 DEF Sound, Counted
  <2>4. /\ Sound(u.cache) /\ u.cache.lladdr = r.cache.lladdr /\ u.cache.used = r.cache.used
        /\ u.cache.nbr[r.slot] = d.nbr[s]
        /\ \A t \in Slot \ {r.slot} : u.cache.nbr[t] = r.cache.nbr[t]
    <3>1. PICK e, i, x, y : e = d.nbr[s] /\ i = r.slot /\ x = r.cache /\ y = u.cache
      OBVIOUS
    <3>2. /\ e \in Entry /\ e.ip = x.nbr[i].ip /\ e.nscount <= e.asked /\ i \in Slot
          /\ Sound(x) /\ y = Put(x, i, e)
      BY <1>3, <1>8, <2>1, <2>2, <2>3, <3>1 DEF Put
    <3>3. /\ Sound(y) /\ y.lladdr = x.lladdr /\ y.used = x.used
          /\ y.nbr[i] = e /\ \A t \in Slot \ {i} : y.nbr[t] = x.nbr[t]
      BY <3>2, SetEntry
    <3> QED
      BY <3>1, <3>3
  <2>5. u.cache.used \subseteq Slot
    BY <2>4, Fields DEF Sound
  <2>6. \A t \in u.cache.used \ {u.slot} :
          t \in c.used /\ u.cache.nbr[t] = c.nbr[t] /\ u.cache.lladdr[t] = c.lladdr[t]
    BY <1>2, <1>3, <1>5, <1>8, <2>1, <2>4, <2>5
  <2> QED
    BY <1>2, <1>8, <1>10, <2>1, <2>4, <2>6
<1> QED
  BY <1>9, <1>10

LEMMA PacketAllocSound ==
  ASSUME NEW c, Sound(c), NEW s \in Slot, NEW ip \in Ips \cup {NoIp},
         NEW d, d = PacketAlloc(c, s, ip)
  PROVE  /\ Sound(d)
         /\ d.keys = c.keys /\ d.lladdr = c.lladdr /\ d.used = c.used
         /\ \A t \in Slot : /\ d.nbr[t].ip = c.nbr[t].ip /\ d.nbr[t].state = c.nbr[t].state
                            /\ d.nbr[t].nscount = c.nbr[t].nscount
                            /\ d.nbr[t].asked = c.nbr[t].asked
<1>1. CASE c.nbr[s].packet # 0 \/ FreeBufs(c) = {}
  BY <1>1 DEF PacketAlloc
<1>2. CASE c.nbr[s].packet = 0 /\ FreeBufs(c) # {}
  <2>1. PICK b \in Buf : d = [c EXCEPT !.buf[b] = [alloc |-> TRUE, to |-> ip, handle |-> s, armed |-> TRUE],
                                       !.nbr[s].packet = b]
    <3>1. FreeBufs(c) \subseteq Nat /\ FreeBufs(c) \subseteq Buf
      BY DEF FreeBufs, Buf
    <3>2. \E b \in FreeBufs(c) : \A a \in FreeBufs(c) : b <= a
      BY <1>2, <3>1, LeastKey
    <3> QED
      BY <1>2, <3>1, <3>2 DEF PacketAlloc
  <2> DEFINE buf == [c.buf EXCEPT ![b] = [alloc |-> TRUE, to |-> ip, handle |-> s, armed |-> TRUE]]
             nbr == [c.nbr EXCEPT ![s].packet = b]
  <2>2. c \in Table /\ c.nbr \in [Slot -> Entry] /\ c.buf \in [Buf -> Packet]
    BY Fields DEF Sound
  <2>3. d = [c EXCEPT !.buf = buf, !.nbr = nbr]
    BY <2>1
  <2>4. nbr \in [Slot -> Entry]
    BY <2>2, EntryExcept
  <2>5. /\ buf \in [Buf -> Packet]
        /\ \A a \in Buf : buf[a].armed => \/ c.buf[a].armed /\ buf[a].handle = c.buf[a].handle
                                          \/ buf[a].handle = s
    BY <2>2 DEF Packet
  <2>6. \A t \in Slot : /\ nbr[t].ip = c.nbr[t].ip /\ nbr[t].state = c.nbr[t].state
                        /\ nbr[t].nscount = c.nbr[t].nscount
                        /\ nbr[t].asked = c.nbr[t].asked
    BY <2>2 DEF Entry
  <2> HIDE DEF buf, nbr
  <2>7. /\ d \in Table /\ d.keys = c.keys /\ d.lladdr = c.lladdr /\ d.used = c.used
        /\ d.nbr = nbr /\ d.buf = buf
    BY <2>2, <2>3, <2>4, <2>5 DEF Table
  <2>8. Armed(d)
    BY <2>5, <2>7 DEF Armed, Sound
  <2>9. Counted(d)
    BY <2>6, <2>7 DEF Counted, Sound
  <2>10. \A t \in d.used : d.nbr[t].ip = c.nbr[t].ip
    BY <2>2, <2>6, <2>7, Fields
  <2>11. Sound(d)
    BY <2>7, <2>8, <2>9, <2>10, SameKeysSound
  <2> QED
    BY <2>6, <2>7, <2>11
<1> QED
  BY <1>1, <1>2
-----------------------------------------------------------------------------
(* An operation that leaves the addresses as they are and makes no entry    *)
(* INCOMPLETE.                                                              *)
LEMMA GoodKept ==
  ASSUME NEW c, Good(c), NEW d, Sound(d), d.lladdr = c.lladdr, d.used \subseteq c.used,
         \A s \in d.used : d.nbr[s].state = "INCOMPLETE" => c.nbr[s].state = "INCOMPLETE"
  PROVE  Good(d)
BY DEF Good, Unresolved

LEMMA PacketFreeGood ==
  ASSUME NEW c, Good(c), NEW slots, NEW f, f = PacketFree(c, slots)
  PROVE  Good(f) /\ f.used = c.used
<1>1. /\ Sound(f) /\ f.lladdr = c.lladdr /\ f.used = c.used
      /\ \A s \in Slot : f.nbr[s].state = c.nbr[s].state
  BY PacketFreeSound DEF Good
<1>2. f.used \subseteq Slot
  BY <1>1, Fields DEF Sound
<1> QED
  BY <1>1, <1>2, GoodKept

LEMMA NbrRmGood ==
  ASSUME NEW c, Good(c), NEW slots, NEW r, r = NbrRm(c, slots)
  PROVE  Good(r) /\ r.used = c.used \ slots
<1>1. /\ Sound(r) /\ r.lladdr = c.lladdr /\ r.used = c.used \ slots
      /\ \A s \in Slot \ slots : r.nbr[s] = c.nbr[s]
  BY NbrRmSound DEF Good
<1>2. r.used \subseteq Slot \ slots
  BY <1>1, Fields DEF Sound
<1> QED
  BY <1>1, <1>2, GoodKept

LEMMA PacketAllocGood ==
  ASSUME NEW c, Good(c), NEW s \in Slot, NEW ip \in Ips \cup {NoIp},
         NEW d, d = PacketAlloc(c, s, ip)
  PROVE  Good(d)
<1>1. /\ Sound(d) /\ d.lladdr = c.lladdr /\ d.used = c.used
      /\ \A t \in Slot : d.nbr[t].state = c.nbr[t].state
  BY PacketAllocSound DEF Good
<1>2. d.used \subseteq Slot
  BY <1>1, Fields DEF Sound
<1> QED
  BY <1>1, <1>2, GoodKept

LEMMA AllocateGood ==
  ASSUME NEW c, Good(c), NEW ll \in Lls \cup {NullLl}, NEW victim \in c.used \cup {0},
         NEW r, r = Allocate(c, ll, victim)
  PROVE  Good(r.cache) /\ (victim = 0 => r.cache.used = c.used)
<1>1. /\ Sound(r.cache) /\ r.cache.used \subseteq c.used
      /\ victim = 0 => r.cache.used = c.used
      /\ \A s \in r.cache.used : r.cache.nbr[s] = c.nbr[s] /\ r.cache.lladdr[s] = c.lladdr[s]
  BY AllocateSound DEF Good
<1> QED
  BY <1>1 DEF Good, Unresolved

(* A new entry that is not resolved is under the null address.              *)
LEMMA NbrAddGood ==
  ASSUME NEW c, Good(c), NEW ip \in Ips \cup {NoIp}, \A s \in c.used : c.nbr[s].ip # ip,
         NEW ll \in Lls \cup {NullLl}, NEW state \in State, NEW victim \in c.used \cup {0},
         state = "INCOMPLETE" => ll = NullLl,
         NEW r, r = NbrAdd(c, ip, ll, state, victim)
  PROVE  Good(r.cache) /\ (r.slot # 0 => r.slot \in Slot)
<1>1. /\ Sound(r.cache)
      /\ r.slot # 0 => /\ r.slot \in Slot /\ r.cache.lladdr[r.slot] = ll
                       /\ r.cache.nbr[r.slot].state = state
      /\ r.cache.used \ {r.slot} \subseteq c.used
      /\ \A s \in r.cache.used \ {r.slot} :
           r.cache.nbr[s] = c.nbr[s] /\ r.cache.lladdr[s] = c.lladdr[s]
  BY NbrAddSound DEF Good
<1>2. 0 \notin r.cache.used
  BY <1>1, Fields DEF Sound
<1>3. ASSUME NEW s \in r.cache.used, r.cache.nbr[s].state = "INCOMPLETE"
      PROVE  r.cache.lladdr[s] = NullLl
  <2>1. CASE s = r.slot
    BY <1>1, <1>2, <1>3, <2>1
  <2>2. CASE s # r.slot
    BY <1>1, <1>3, <2>2 DEF Good, Unresolved
  <2> QED
    BY <2>1, <2>2
<1> QED
  BY <1>1, <1>3 DEF Good, Unresolved

(* The entry that moves to a new address is not INCOMPLETE, or no longer.   *)
LEMMA UpdateLladdrGood ==
  ASSUME NEW c, Good(c), NEW s \in c.used, NEW ll \in Lls, c.lladdr[s] # ll,
         NEW u, u = UpdateLladdr(c, s, ll)
  PROVE  /\ u.slot = 0 => Good(u.cache)
         /\ u.slot # 0 => u.slot \in Slot /\ u.cache.nbr[u.slot] = c.nbr[s]
         /\ u.slot # 0 /\ c.nbr[s].state # "INCOMPLETE" => Good(u.cache)
         /\ \A d : u.slot # 0 /\ d = [u.cache EXCEPT !.nbr[u.slot].state = "STALE"] => Good(d)
<1>1. /\ Sound(u.cache)
      /\ u.slot # 0 => /\ u.slot \in Slot /\ u.slot \in u.cache.used
                       /\ u.cache.lladdr[u.slot] = ll /\ u.cache.nbr[u.slot] = c.nbr[s]
      /\ u.cache.used \ {u.slot} \subseteq c.used
      /\ \A t \in u.cache.used \ {u.slot} :
           u.cache.nbr[t] = c.nbr[t] /\ u.cache.lladdr[t] = c.lladdr[t]
  BY UpdateLladdrSound DEF Good
<1>2. 0 \notin u.cache.used /\ u.cache.used \subseteq Slot /\ u.cache \in Table
  BY <1>1, Fields DEF Sound
<1>3. \A t \in u.cache.used \ {u.slot} :
        u.cache.nbr[t].state = "INCOMPLETE" => u.cache.lladdr[t] = NullLl
  BY <1>1 DEF Good, Unresolved
<1>4. u.slot = 0 => Good(u.cache)
  BY <1>1, <1>2, <1>3 DEF Good, Unresolved
<1>5. u.slot # 0 /\ c.nbr[s].state # "INCOMPLETE" => Good(u.cache)
  BY <1>1, <1>2, <1>3 DEF Good, Unresolved
<1>6. ASSUME NEW d, u.slot # 0, d = [u.cache EXCEPT !.nbr[u.slot].state = "STALE"]
      PROVE  Good(d)
  <2>1. PICK v, i : v = u.cache /\ i = u.slot
    OBVIOUS
  <2>2. PICK e : e = [v.nbr[i] EXCEPT !.state = "STALE"]
    OBVIOUS
  <2>3. i \in Slot /\ v.nbr[i] \in Entry /\ Sound(v) /\ v \in Table
    BY <1>1, <1>2, <1>6, <2>1, Fields
  <2>4. v.nbr[i].nscount <= v.nbr[i].asked
    BY <2>3 DEF Sound, Counted
  <2>5. /\ e \in Entry /\ e.ip = v.nbr[i].ip /\ e.nscount <= e.asked /\ e.state = "STALE"
    BY <2>2, <2>3, <2>4 DEF Entry, State
  <2>6. d = Put(v, i, e)
    BY <1>6, <2>1, <2>2, <2>3 DEF Put, Table
  <2>7. /\ Sound(d) /\ d.lladdr = v.lladdr /\ d.used = v.used
        /\ d.nbr[i] = e /\ \A t \in Slot \ {i} : d.nbr[t] = v.nbr[t]
    BY <2>3, <2>5, <2>6, SetEntry
  <2>8. Unresolved(d)
    BY <1>2, <1>3, <2>1, <2>5, <2>7 DEF Unresolved
  <2> QED
    BY <2>7, <2>8 DEF Good
<1> QED
  BY <1>1, <1>4, <1>5, <1>6

(* An entry is given a state that is not INCOMPLETE.                        *)
LEMMA ResolvedGood ==
  ASSUME NEW c, Good(c), NEW s \in Slot, NEW e \in Entry, e.ip = c.nbr[s].ip,
         e.nscount <= e.asked, e.state = "INCOMPLETE" => c.nbr[s].state = "INCOMPLETE",
         NEW d, d = Put(c, s, e)
  PROVE  Good(d) /\ d.used = c.used /\ d.nbr[s] = e /\ \A t \in Slot \ {s} : d.nbr[t] = c.nbr[t]
<1>1. /\ Sound(d) /\ d.lladdr = c.lladdr /\ d.used = c.used
      /\ d.nbr[s] = e /\ \A t \in Slot \ {s} : d.nbr[t] = c.nbr[t]
  BY SetEntry DEF Good
<1>2. d.used \subseteq Slot
  BY <1>1, Fields DEF Sound
<1>3. \A t \in d.used : d.nbr[t].state = "INCOMPLETE" => c.nbr[t].state = "INCOMPLETE"
  BY <1>1, <1>2
<1>4. Good(d)
  BY <1>1, <1>3, GoodKept
<1> QED
  BY <1>1, <1>4
-----------------------------------------------------------------------------
(* The neighbor that is heard is not INCOMPLETE after it.                   *)
LEMMA RefreshGood ==
  ASSUME NEW c, Good(c), NEW ip, NEW d, d = Refresh(c, ip)
  PROVE  /\ Good(d) /\ d.used = c.used
         /\ \A s \in d.used : d.nbr[s].ip = ip => d.nbr[s].state # "INCOMPLETE"
<1>1. PICK s : s = Lookup(c, ip)
  OBVIOUS
<1>2. CASE s = 0
  BY <1>1, <1>2, LookupFinds DEF Refresh, Good
<1>3. CASE s # 0
  <2>1. s \in Slot /\ s \in c.used /\ c.nbr[s].ip = ip
    BY <1>1, <1>3, LookupFinds DEF Good
  <2>2. c \in Table /\ c.nbr[s] \in Entry /\ c.used \subseteq Slot
    BY <2>1, Fields DEF Good, Sound
  <2>3. PICK e : e = [c.nbr[s] EXCEPT !.state = "REACHABLE", !.nscount = 0, !.asked = 0]
    OBVIOUS
  <2>5. e \in Entry /\ e.ip = ip /\ e.nscount <= e.asked /\ e.state = "REACHABLE"
    <3>1. /\ e \in Entry /\ e.ip = c.nbr[s].ip /\ e.state = "REACHABLE"
          /\ e.nscount = 0 /\ e.asked = 0
      BY <2>2, <2>3, EntryHeard
    <3> QED
      BY <2>1, <3>1
  <2>6. d = Put(c, s, e)
    BY <1>1, <1>3, <2>2, <2>3 DEF Refresh, Put, Table
  <2>7. Good(d) /\ d.used = c.used /\ d.nbr[s] = e /\ \A t \in Slot \ {s} : d.nbr[t] = c.nbr[t]
    BY <2>1, <2>5, <2>6, ResolvedGood
  <2>8. ASSUME NEW t \in d.used, d.nbr[t].ip = ip PROVE t = s
    BY <2>1, <2>2, <2>5, <2>7, <2>8 DEF Good, Sound, OneEntry
  <2> QED
    BY <2>5, <2>7, <2>8
<1> QED
  BY <1>2, <1>3

LEMMA HeardGood ==
  ASSUME NEW c, Good(c), NEW src, NEW unicast \in BOOLEAN, NEW d, d = Heard(c, src, unicast)
  PROVE  /\ Good(d) /\ d.used = c.used
         /\ unicast => \A s \in d.used : d.nbr[s].ip = src => d.nbr[s].state # "INCOMPLETE"
<1>1. CASE unicast
  BY <1>1, RefreshGood DEF Heard
<1>2. CASE ~ unicast
  BY <1>2 DEF Heard
<1> QED
  BY <1>1, <1>2

LEMMA OutputGood ==
  ASSUME NEW c, Good(c), NEW ip \in Ips \cup {NoIp}, NEW d, d = Output(c, ip)
  PROVE  Good(d)
<1>1. PICK s : s = Lookup(c, ip)
  OBVIOUS
<1>2. PICK r : r = NbrAdd(c, ip, NullLl, "INCOMPLETE", 0)
  OBVIOUS
<1>3. s # 0 => s \in Slot /\ s \in c.used /\ c.nbr[s].ip = ip
  BY <1>1, LookupFinds DEF Good
<1>4. CASE s = 0 /\ r.slot = 0
  BY <1>1, <1>2, <1>4 DEF Output
<1>5. CASE s = 0 /\ r.slot # 0
  <2>1. PICK b, i, a : b = r.cache /\ i = r.slot /\ a = PacketAlloc(b, i, ip)
    OBVIOUS
  <2>2. /\ "INCOMPLETE" \in State /\ NullLl \in Lls \cup {NullLl} /\ 0 \in c.used \cup {0}
        /\ \A t \in c.used : c.nbr[t].ip # ip
    BY <1>1, <1>5, LookupFinds DEF Good, State
  <2>3. Good(b) /\ i \in Slot
    BY <1>2, <1>5, <2>1, <2>2, NbrAddGood
  <2>4. Good(a)
    BY <2>1, <2>3, PacketAllocGood
  <2>5. a \in Table /\ a.nbr[i] \in Entry
    BY <2>3, <2>4, Fields DEF Good, Sound
  <2>6. PICK e : e = [a.nbr[i] EXCEPT !.nscount = 1, !.asked = 1]
    OBVIOUS
  <2>7. 1 \in 0 .. MaxSolicit
    BY EntryTypes
  <2>8. e \in Entry /\ e.ip = a.nbr[i].ip /\ e.nscount <= e.asked /\ e.state = a.nbr[i].state
    <3>1. e = WithCounts(a.nbr[i], 1, 1)
      BY <2>6 DEF WithCounts
    <3> QED
      BY <2>5, <2>7, <3>1, EntryCounts
  <2>9. d = Put(a, i, e)
    <3>1. d = [a EXCEPT !.nbr[i].nscount = 1, !.nbr[i].asked = 1]
      BY <1>1, <1>2, <1>5, <2>1 DEF Output
    <3> QED
      BY <3>1, <2>3, <2>5, <2>6 DEF Put, Table
  <2> QED
    BY <2>3, <2>4, <2>8, <2>9, ResolvedGood
<1>6. CASE s # 0 /\ c.nbr[s].state = "INCOMPLETE"
  <2>1. d = PacketAlloc(c, s, ip)
    BY <1>1, <1>6 DEF Output
  <2> QED
    BY <1>3, <1>6, <2>1, PacketAllocGood
<1>7. CASE s # 0 /\ c.nbr[s].state = "STALE"
  <2>1. c \in Table /\ c.nbr[s] \in Entry /\ "DELAY" \in State
    BY <1>3, <1>7, Fields DEF Good, Sound, State
  <2>2. PICK e, f : e = [c.nbr[s] EXCEPT !.state = "DELAY", !.nscount = 0] /\ f = Put(c, s, e)
    OBVIOUS
  <2>4. e \in Entry /\ e.ip = c.nbr[s].ip /\ e.nscount <= e.asked /\ e.state = "DELAY"
    <3>1. e = Restarted(c.nbr[s], "DELAY")
      BY <2>2 DEF Restarted
    <3> QED
      BY <2>1, <3>1, EntryRestart
  <2>5. Good(f)
    BY <1>3, <1>7, <2>2, <2>4, ResolvedGood
  <2>6. d = PacketFree(f, {s})
    <3>1. f = [c EXCEPT !.nbr[s].state = "DELAY", !.nbr[s].nscount = 0]
      BY <2>1, <2>2 DEF Put, Table
    <3> QED
      BY <1>1, <1>7, <3>1 DEF Output
  <2> QED
    BY <2>5, <2>6, PacketFreeGood
<1>8. CASE s # 0 /\ c.nbr[s].state # "INCOMPLETE" /\ c.nbr[s].state # "STALE"
  <2>1. d = PacketFree(c, {s})
    BY <1>1, <1>8 DEF Output
  <2> QED
    BY <2>1, PacketFreeGood
<1> QED
  BY <1>4, <1>5, <1>6, <1>7, <1>8
-----------------------------------------------------------------------------
(* A neighbor that solicits: its entry is new, resolved, or moved.          *)
LEMMA NsEntryGood ==
  ASSUME NEW c, Good(c), NEW src \in Ips, NEW ll \in Lls, NEW d, d = NsEntry(c, src, ll)
  PROVE  Good(d)
<1>1. PICK s : s = Lookup(c, src)
  OBVIOUS
<1>2. s # 0 => s \in Slot /\ s \in c.used /\ c.nbr[s].ip = src
  BY <1>1, LookupFinds DEF Good
<1>3. CASE s = 0
  <2>1. PICK r : r = NbrAdd(c, src, ll, "STALE", 0)
    OBVIOUS
  <2>2. /\ \A t \in c.used : c.nbr[t].ip # src
        /\ src \in Ips \cup {NoIp} /\ ll \in Lls \cup {NullLl} /\ 0 \in c.used \cup {0}
        /\ "STALE" \in State
    BY <1>1, <1>3, LookupFinds DEF Good, State
  <2>3. Good(r.cache)
    BY <2>1, <2>2, NbrAddGood
  <2> QED
    BY <1>1, <1>3, <2>1, <2>3 DEF NsEntry
<1>4. CASE s # 0 /\ c.lladdr[s] = ll
  <2>1. c.nbr[s].state # "INCOMPLETE"
    BY <1>2, <1>4, LlAssumption DEF Good, Unresolved
  <2> QED
    BY <1>1, <1>4, <2>1 DEF NsEntry
<1>5. CASE s # 0 /\ c.lladdr[s] # ll
  <2>1. PICK u : u = UpdateLladdr(c, s, ll)
    OBVIOUS
  <2>2. /\ u.slot = 0 => Good(u.cache)
        /\ \A x : u.slot # 0 /\ x = [u.cache EXCEPT !.nbr[u.slot].state = "STALE"] => Good(x)
    BY <1>2, <1>5, <2>1, UpdateLladdrGood
  <2>3. d = IF u.slot = 0 THEN u.cache ELSE [u.cache EXCEPT !.nbr[u.slot].state = "STALE"]
    BY <1>1, <1>5, <2>1 DEF NsEntry
  <2> QED
    BY <2>2, <2>3
<1> QED
  BY <1>3, <1>4, <1>5

LEMMA NsInputGood ==
  ASSUME Good(cache), NEW src \in Ips, NEW ll \in Lls \cup {NullLl},
         NEW unicast \in BOOLEAN, NEW answered \in BOOLEAN, NsInput(src, ll, unicast, answered)
  PROVE  Good(cache')
<1>1. PICK c : c = Heard(cache, src, unicast)
  OBVIOUS
<1>2. PICK d : d = IF ll = NullLl THEN c ELSE NsEntry(c, src, ll)
  OBVIOUS
<1>3. Good(c)
  BY <1>1, HeardGood
<1>4. Good(d)
  BY <1>2, <1>3, NsEntryGood
<1>5. cache' = d \/ cache' = Output(d, src)
  BY <1>1, <1>2 DEF NsInput
<1> QED
  BY <1>4, <1>5, OutputGood

(* A solicited answer is unicast: the neighbor has been heard, and an       *)
(* address that waits for its resolution is not left INCOMPLETE.            *)
LEMMA NaEntryGood ==
  ASSUME NEW c, Good(c), NEW tgt \in Ips, NEW ll \in Lls \cup {NullLl},
         NEW solicited \in BOOLEAN, NEW override \in BOOLEAN,
         solicited => \A s \in c.used : c.nbr[s].ip = tgt => c.nbr[s].state # "INCOMPLETE",
         NEW r, r = NaEntry(c, tgt, ll, solicited, override)
  PROVE  Good(r.cache) /\ (r.slot # 0 => r.slot \in Slot)
<1>1. PICK s : s = Lookup(c, tgt)
  OBVIOUS
<1>2. s # 0 => s \in Slot /\ s \in c.used /\ c.nbr[s].ip = tgt
  BY <1>1, LookupFinds DEF Good
<1>3. PICK u : u = UpdateLladdr(c, s, ll)
  OBVIOUS
<1>4. CASE s = 0
  BY <1>1, <1>4 DEF NaEntry, Result
<1>5. ASSUME s # 0, ll \in Lls, c.lladdr[s] # ll
      PROVE  /\ u.slot = 0 => Good(u.cache)
             /\ u.slot # 0 => u.slot \in Slot /\ u.cache.nbr[u.slot] = c.nbr[s]
             /\ u.slot # 0 /\ c.nbr[s].state # "INCOMPLETE" => Good(u.cache)
             /\ \A d : u.slot # 0 /\ d = [u.cache EXCEPT !.nbr[u.slot].state = "STALE"] => Good(d)
  BY <1>2, <1>3, <1>5, UpdateLladdrGood
<1>6. CASE s # 0 /\ c.nbr[s].state = "INCOMPLETE"
  <2>1. c.lladdr[s] = NullLl /\ ~ solicited
    BY <1>2, <1>6 DEF Good, Unresolved
  <2>2. CASE ll = NullLl
    BY <1>1, <1>6, <2>2 DEF NaEntry, Result
  <2>3. CASE ll # NullLl /\ u.slot = 0
    <3>1. r = u
      BY <1>1, <1>3, <1>6, <2>3 DEF NaEntry
    <3> QED
      BY <1>5, <1>6, <2>1, <2>3, <3>1
  <2>4. CASE ll # NullLl /\ u.slot # 0
    <3>1. r.slot = u.slot /\ r.cache = [u.cache EXCEPT !.nbr[u.slot].state = "STALE"]
      BY <1>1, <1>3, <1>6, <2>1, <2>4 DEF NaEntry, Result
    <3>2. ll \in Lls /\ c.lladdr[s] # ll
      BY <2>1, <2>4
    <3> QED
      BY <1>5, <1>6, <2>4, <3>1, <3>2
  <2> QED
    BY <2>2, <2>3, <2>4
<1>7. CASE s # 0 /\ c.nbr[s].state # "INCOMPLETE" /\ ll # NullLl /\ ll # c.lladdr[s]
  <2>1. CASE override
    <3>1. r = u
      BY <1>1, <1>3, <1>7, <2>1 DEF NaEntry
    <3> QED
      BY <1>5, <1>7, <3>1
  <2>2. CASE ~ override /\ c.nbr[s].state = "REACHABLE"
    <3>1. r.slot = 0 /\ r.cache = [c EXCEPT !.nbr[s].state = "STALE"]
      BY <1>1, <1>7, <2>2 DEF NaEntry, Result
    <3>2. c \in Table /\ c.nbr[s] \in Entry
      BY <1>2, <1>7, Fields DEF Good, Sound
    <3>3. PICK e : e = WithState(c.nbr[s], "STALE")
      OBVIOUS
    <3>4. "STALE" \in State
      BY DEF State
    <3>5. /\ e \in Entry /\ e.ip = c.nbr[s].ip /\ e.state = "STALE"
          /\ e.nscount = c.nbr[s].nscount /\ e.asked = c.nbr[s].asked
      BY <3>2, <3>3, <3>4, EntryState
    <3>6. e.nscount <= e.asked
      BY <1>2, <1>7, <3>5 DEF Good, Sound, Counted
    <3>7. r.cache = Put(c, s, e)
      BY <3>1, <3>2, <3>3 DEF Put, WithState, Table
    <3>8. Good(r.cache)
      <4>1. PICK d : d = r.cache
        OBVIOUS
      <4>2. Good(d)
        BY <1>2, <1>7, <3>5, <3>6, <3>7, <4>1, ResolvedGood
      <4> QED
        BY <4>1, <4>2
    <3> QED
      BY <3>1, <3>8
  <2>3. CASE ~ override /\ c.nbr[s].state # "REACHABLE"
    BY <1>1, <1>7, <2>3 DEF NaEntry, Result
  <2> QED
    BY <2>1, <2>2, <2>3
<1>8. CASE s # 0 /\ c.nbr[s].state # "INCOMPLETE" /\ ~ (ll # NullLl /\ ll # c.lladdr[s])
  BY <1>1, <1>2, <1>8 DEF NaEntry, Result
<1> QED
  BY <1>4, <1>6, <1>7, <1>8

LEMMA NaInputGood ==
  ASSUME Good(cache), NEW src \in Ips, NEW ll \in Lls \cup {NullLl},
         NEW solicited \in BOOLEAN, NEW override \in BOOLEAN,
         NaInput(src, src, ll, solicited, override, solicited)
  PROVE  Good(cache')
<1>1. PICK c : c = Heard(cache, src, solicited)
  OBVIOUS
<1>2. /\ Good(c)
      /\ solicited => \A s \in c.used : c.nbr[s].ip = src => c.nbr[s].state # "INCOMPLETE"
  BY <1>1, HeardGood
<1>3. PICK r : r = NaEntry(c, src, ll, solicited, override)
  OBVIOUS
<1>4. Good(r.cache) /\ (r.slot # 0 => r.slot \in Slot)
  BY <1>2, <1>3, NaEntryGood
<1>5. CASE r.slot = 0 \/ r.cache.nbr[r.slot].packet = 0
  BY <1>1, <1>3, <1>4, <1>5 DEF NaInput
<1>6. CASE r.slot # 0 /\ r.cache.nbr[r.slot].packet # 0
  <2>1. PICK b, f, ip : /\ b = r.cache.nbr[r.slot].packet /\ f = PacketFree(r.cache, {r.slot})
                        /\ ip = r.cache.buf[b].to
    OBVIOUS
  <2>2. PICK x, i : x = r.cache /\ i = r.slot
    OBVIOUS
  <2>3. x \in Table /\ Good(x) /\ i \in Slot
    BY <1>4, <1>6, <2>2 DEF Good, Sound
  <2>4. x.nbr[i].packet \in Buf
    BY <1>6, <2>2, <2>3, Fields, EntryExcept
  <2>5. ip \in Ips \cup {NoIp}
    BY <2>1, <2>2, <2>3, <2>4, Fields DEF Packet
  <2>6. Good(f)
    BY <2>1, <2>2, <2>3, PacketFreeGood
  <2>7. cache' = Output(f, ip)
    BY <1>1, <1>3, <1>6, <2>1 DEF NaInput
  <2> QED
    BY <2>5, <2>6, <2>7, OutputGood
<1> QED
  BY <1>5, <1>6
LEMMA LinkStatsGood ==
  ASSUME NEW c, Good(c), NEW ll \in Lls, NEW d, d = LinkStats(c, ll)
  PROVE  Good(d) /\ d.used = c.used
<1>1. PICK r : r = Allocate(c, ll, 0)
  OBVIOUS
<1>2. ll \in Lls \cup {NullLl} /\ 0 \in c.used \cup {0}
  OBVIOUS
<1>3. Good(r.cache) /\ r.cache.used = c.used
  BY <1>1, <1>2, AllocateGood
<1> QED
  BY <1>1, <1>3 DEF LinkStats

LEMMA RplEntryGood ==
  ASSUME NEW c, Good(c), NEW src \in Ips, NEW ll \in Lls, NEW victim \in c.used \cup {0},
         NEW d, d = RplEntry(c, src, ll, victim)
  PROVE  Good(d)
<1>1. CASE Lookup(c, src) # 0
  BY <1>1 DEF RplEntry
<1>2. CASE Lookup(c, src) = 0
  <2>1. PICK r : r = NbrAdd(c, src, ll, "REACHABLE", victim)
    OBVIOUS
  <2>2. /\ \A t \in c.used : c.nbr[t].ip # src
        /\ src \in Ips \cup {NoIp} /\ ll \in Lls \cup {NullLl} /\ "REACHABLE" \in State
    BY <1>2, LookupFinds DEF Good, State
  <2>3. Good(r.cache)
    BY <2>1, <2>2, NbrAddGood
  <2> QED
    BY <1>2, <2>1, <2>3 DEF RplEntry
<1> QED
  BY <1>1, <1>2

LEMMA RplInputGood ==
  ASSUME Good(cache), NEW src \in Ips, NEW ll \in Lls, NEW unicast \in BOOLEAN,
         NEW answered \in BOOLEAN, NEW victim \in cache.used \cup {0},
         RplInput(src, ll, unicast, victim, answered)
  PROVE  Good(cache')
<1>1. PICK b, h, c : /\ b = LinkStats(cache, ll) /\ h = Heard(b, src, unicast)
                     /\ c = RplEntry(h, src, ll, victim)
  OBVIOUS
<1>2. Good(b) /\ b.used = cache.used
  BY <1>1, LinkStatsGood
<1>3. Good(h) /\ h.used = cache.used
  BY <1>1, <1>2, HeardGood
<1>4. Good(c)
  BY <1>1, <1>3, RplEntryGood
<1>5. cache' = c \/ cache' = Output(c, src)
  BY <1>1 DEF RplInput
<1> QED
  BY <1>4, <1>5, OutputGood

(* The timer's packet loses its handle, and what the handle holds its       *)
(* block.                                                                   *)
LEMMA PacketTimedoutGood ==
  ASSUME Good(cache), NEW b \in Buf, PacketTimedout(b)
  PROVE  Good(cache')
<1>1. PICK h, p, c : /\ h = cache.buf[b].handle /\ p = cache.nbr[h].packet
                     /\ c = [cache EXCEPT !.buf[b].armed = FALSE, !.buf[b].handle = 0]
  OBVIOUS
<1>2. cache \in Table /\ cache.buf \in [Buf -> Packet] /\ cache.nbr \in [Slot -> Entry]
  BY Fields DEF Good, Sound
<1>3. h \in Slot /\ p \in Buf \cup {0}
  <2>1. h \in Slot
    BY <1>1 DEF PacketTimedout, Good, Sound, Armed
  <2> QED
    BY <1>1, <1>2, <2>1, EntryExcept
<1> DEFINE stopped == [cache.buf EXCEPT ![b].armed = FALSE, ![b].handle = 0]
<1>4. /\ stopped \in [Buf -> Packet]
      /\ \A a \in Buf : stopped[a].armed => cache.buf[a].armed /\ stopped[a].handle = cache.buf[a].handle
  BY <1>2 DEF Packet
<1>5. c = [cache EXCEPT !.buf = stopped]
  BY <1>1, <1>2 DEF Table
<1> HIDE DEF stopped
<1>6. /\ c \in Table /\ c.keys = cache.keys /\ c.lladdr = cache.lladdr /\ c.used = cache.used
      /\ c.nbr = cache.nbr /\ c.buf = stopped
  BY <1>2, <1>4, <1>5 DEF Table
<1>7. Good(c)
  <2>1. Armed(c) /\ Counted(c)
    BY <1>4, <1>6 DEF Armed, Counted, Good, Sound
  <2>2. Sound(c)
    BY <1>6, <2>1, SameKeysSound DEF Good
  <2> QED
    BY <1>6, <2>2, GoodKept
<1>8. CASE p = 0
  BY <1>1, <1>7, <1>8 DEF PacketTimedout
<1>9. CASE p # 0
  <2>1. PICK d : d = [c EXCEPT !.buf[p].alloc = FALSE, !.nbr[h].packet = 0]
    OBVIOUS
  <2>2. cache' = d
    BY <1>1, <1>9, <2>1 DEF PacketTimedout
  <2> DEFINE buf == [c.buf EXCEPT ![p].alloc = FALSE]
             nbr == [c.nbr EXCEPT ![h].packet = 0]
  <2>3. d = [c EXCEPT !.buf = buf, !.nbr = nbr]
    BY <2>1, <1>6 DEF Table
  <2>4. c.buf \in [Buf -> Packet] /\ c.nbr \in [Slot -> Entry] /\ p \in Buf
    BY <1>2, <1>3, <1>4, <1>6, <1>9
  <2>5. /\ buf \in [Buf -> Packet]
        /\ \A a \in Buf : buf[a].armed => c.buf[a].armed /\ buf[a].handle = c.buf[a].handle
    BY <2>4 DEF Packet
  <2>6. nbr \in [Slot -> Entry]
    BY <1>3, <2>4, EntryExcept
  <2>7. \A s \in Slot : /\ nbr[s].ip = c.nbr[s].ip /\ nbr[s].state = c.nbr[s].state
                        /\ nbr[s].nscount = c.nbr[s].nscount /\ nbr[s].asked = c.nbr[s].asked
    BY <2>4 DEF Entry
  <2> HIDE DEF buf, nbr
  <2>8. /\ d \in Table /\ d.keys = c.keys /\ d.lladdr = c.lladdr /\ d.used = c.used
        /\ d.nbr = nbr /\ d.buf = buf
    BY <1>6, <2>3, <2>5, <2>6 DEF Table
  <2>9. Armed(d) /\ Counted(d)
    BY <1>7, <2>5, <2>7, <2>8 DEF Armed, Counted, Good, Sound
  <2>10. d.used \subseteq Slot
    BY <2>8, Fields
  <2>11. Sound(d)
    BY <1>7, <2>7, <2>8, <2>9, <2>10, SameKeysSound DEF Good
  <2>12. Good(d)
    BY <1>7, <2>7, <2>8, <2>10, <2>11, GoodKept
  <2> QED
    BY <2>2, <2>12
<1> QED
  BY <1>8, <1>9

(* A pass changes the entries one by one and removes those given up.        *)
LEMMA AgedKeeps ==
  ASSUME NEW e \in Entry, e.nscount <= e.asked, NEW router \in BOOLEAN,
         NEW f, f = Aged(e, router)
  PROVE  /\ f \in Entry /\ f.ip = e.ip /\ f.nscount <= f.asked
         /\ f.state = "INCOMPLETE" => e.state = "INCOMPLETE"
<1>1. "DELAY" \in State /\ "STALE" \in State /\ "PROBE" \in State
  BY DEF State
<1>2. CASE e.state = "REACHABLE" /\ router
  <2>1. f = Restarted(e, "DELAY")
    BY <1>2 DEF Aged, Restarted
  <2> QED
    BY <1>1, <2>1, EntryRestart
<1>3. CASE e.state = "REACHABLE" /\ ~ router
  <2>1. f = WithState(e, "STALE")
    BY <1>3 DEF Aged, WithState
  <2> QED
    BY <1>1, <2>1, EntryState
<1>4. CASE e.state = "DELAY"
  <2>1. f = Restarted(e, "PROBE")
    BY <1>4 DEF Aged, Restarted
  <2> QED
    BY <1>1, <2>1, EntryRestart
<1>5. CASE e.state # "REACHABLE" /\ e.state # "DELAY"
  BY <1>5 DEF Aged
<1> QED
  BY <1>2, <1>3, <1>4, <1>5

LEMMA AfterNsKeeps ==
  ASSUME NEW e \in Entry, e.nscount <= e.asked, e.nscount < MaxSolicit,
         NEW f, f = AfterNs(e)
  PROVE  f \in Entry /\ f.ip = e.ip /\ f.nscount <= f.asked /\ f.state = e.state
<1>1. e.nscount \in 0 .. MaxSolicit /\ e.asked \in 0 .. MaxSolicit
  BY EntryExcept
<1>2. PICK n, a : n = e.nscount + 1 /\ a = IF e.asked < MaxSolicit THEN e.asked + 1 ELSE e.asked
  OBVIOUS
<1>3. n \in 0 .. MaxSolicit /\ a \in 0 .. MaxSolicit /\ n <= a
  BY <1>1, <1>2, SizeAssumption
<1>4. f = WithCounts(e, n, a)
  BY <1>2 DEF AfterNs, WithCounts
<1> QED
  BY <1>3, <1>4, EntryCounts

LEMMA PeriodicGood ==
  ASSUME Good(cache), NEW due \in SUBSET Slot, NEW routers \in SUBSET due, Periodic(due, routers)
  PROVE  Good(cache') /\ cache'.used = cache.used \ GivenUp(cache)
<1>1. PICK n : n = Solicited(cache, due)
  OBVIOUS
<1> DEFINE nbr == [s \in Slot |->
                     CASE s = n -> AfterNs(cache.nbr[s])
                       [] s # n /\ s \in cache.used \cap due -> Aged(cache.nbr[s], s \in routers)
                       [] OTHER -> cache.nbr[s]]
<1>2. PICK c, r : c = [cache EXCEPT !.nbr = nbr] /\ r = NbrRm(c, GivenUp(cache))
  OBVIOUS
<1>3. \E slots : cache' = PacketFree(r, slots)
  BY <1>1, <1>2 DEF Periodic
<1>4. cache \in Table /\ cache.nbr \in [Slot -> Entry] /\ cache.used \subseteq Slot /\ 0 \notin Slot
  BY Fields DEF Good, Sound
<1>5. \A s \in Slot : cache.nbr[s] \in Entry /\ cache.nbr[s].nscount <= cache.nbr[s].asked
  BY <1>4 DEF Good, Sound, Counted
<1>6. n # 0 => n \in cache.used /\ n \notin GivenUp(cache) /\ cache.nbr[n].state \in Resolving
  <2> DEFINE slots == {s \in (cache.used \cap due) \ GivenUp(cache) : cache.nbr[s].state \in Resolving}
  <2>1. n = First(cache, slots)
    BY <1>1 DEF Solicited
  <2>2. n # 0 => n \in slots
    <3> HIDE DEF slots
    <3> QED
      BY <1>4, <2>1, FirstFinds
  <2> QED
    BY <2>2
<1>7. ASSUME NEW s \in Slot
      PROVE  /\ nbr[s] \in Entry /\ nbr[s].ip = cache.nbr[s].ip /\ nbr[s].nscount <= nbr[s].asked
             /\ nbr[s].state = "INCOMPLETE" => cache.nbr[s].state = "INCOMPLETE"
  <2>1. CASE s = n
    <3>1. nbr[s] = AfterNs(cache.nbr[s])
      BY <2>1
    <3>2. cache.nbr[s].nscount < MaxSolicit
      <4>1. ~ (cache.nbr[s].nscount >= MaxSolicit)
        BY <1>4, <1>6, <2>1 DEF GivenUp
      <4>2. cache.nbr[s].nscount \in 0 .. MaxSolicit
        BY <1>5, EntryExcept
      <4> QED
        BY <4>1, <4>2, SizeAssumption
    <3> HIDE DEF nbr
    <3> QED
      BY <1>5, <3>1, <3>2, AfterNsKeeps
  <2>2. CASE s # n /\ s \in cache.used \cap due
    <3>1. nbr[s] = Aged(cache.nbr[s], s \in routers)
      BY <2>2
    <3> HIDE DEF nbr
    <3>2. (s \in routers) \in BOOLEAN
      OBVIOUS
    <3> QED
      BY <1>5, <3>1, <3>2, AgedKeeps
  <2>3. CASE s # n /\ s \notin cache.used \cap due
    <3>1. nbr[s] = cache.nbr[s]
      BY <2>3
    <3> HIDE DEF nbr
    <3> QED
      BY <1>5, <3>1
  <2> QED
    BY <2>1, <2>2, <2>3
<1>8. nbr = [s \in Slot |-> nbr[s]]
  OBVIOUS
<1> HIDE DEF nbr
<1>9. nbr \in [Slot -> Entry]
  BY <1>7, <1>8
<1>10. /\ c \in Table /\ c.keys = cache.keys /\ c.lladdr = cache.lladdr /\ c.used = cache.used
       /\ c.nbr = nbr /\ c.buf = cache.buf
  BY <1>2, <1>4, <1>9 DEF Table
<1>11. Good(c)
  <2>1. Armed(c) /\ Counted(c)
    BY <1>7, <1>10 DEF Armed, Counted, Good, Sound
  <2>2. Sound(c)
    BY <1>4, <1>7, <1>10, <2>1, SameKeysSound DEF Good
  <2> QED
    BY <1>4, <1>7, <1>10, <2>2, GoodKept
<1>12. Good(r) /\ r.used = cache.used \ GivenUp(cache)
  <2>1. r = NbrRm(c, GivenUp(cache)) /\ c.used = cache.used
    BY <1>2, <1>10
  <2> QED
    BY <1>11, <2>1, NbrRmGood
<1> QED
  BY <1>3, <1>12, PacketFreeGood
-----------------------------------------------------------------------------
LEMMA InitGood == Init => Good(cache)
<1> SUFFICES ASSUME Init PROVE Good(cache)
  OBVIOUS
<1>1. Cleared \in Entry /\ Unused \in Packet
  BY EntryTypes
<1>2. /\ cache.keys = <<>> /\ cache.used = {} /\ cache.nbr = [s \in Slot |-> Cleared]
      /\ cache.buf = [b \in Buf |-> Unused]
  BY DEF Init
<1>3. cache \in Table
  <2>1. <<>> \in Seq(Slot)
    OBVIOUS
  <2> QED
    BY <1>1, <2>1 DEF Init, Table
<1>4. Keyed(cache)
  <2>1. DOMAIN cache.keys = {} /\ Len(cache.keys) = 0
    BY <1>2
  <2>2. Listed(cache) = {} /\ 1 .. Len(cache.keys) = {}
    BY <2>1 DEF Listed
  <2> QED
    BY <1>2, <2>1, <2>2 DEF Keyed
<1>5. OneEntry(cache) /\ Armed(cache) /\ Counted(cache) /\ Unresolved(cache)
  BY <1>2 DEF OneEntry, Armed, Counted, Unresolved, Unused, Cleared
<1> QED
  BY <1>3, <1>4, <1>5 DEF Good, Sound

LEMMA NextGood == Good(cache) /\ [Next]_cache => Good(cache')
<1> SUFFICES ASSUME Good(cache), [Next]_cache PROVE Good(cache')
  OBVIOUS
<1>1. CASE \E ip \in Ips : IpOutput(ip) \/ UnicastInput(ip)
  BY <1>1, OutputGood, RefreshGood DEF IpOutput, UnicastInput
<1>2. CASE \E src \in Ips, ll \in Lls \cup {NullLl}, unicast, answered \in BOOLEAN :
             NsInput(src, ll, unicast, answered)
  BY <1>2, NsInputGood
<1>3. CASE \E src \in Ips, ll \in Lls \cup {NullLl}, solicited, override \in BOOLEAN :
             NaInput(src, src, ll, solicited, override, solicited)
  BY <1>3, NaInputGood
<1>4. CASE \E ll \in Lls : LinkFrame(ll)
  BY <1>4, LinkStatsGood DEF LinkFrame
<1>5. CASE \E src \in Ips, ll \in Lls, unicast, answered \in BOOLEAN,
              victim \in cache.used \cup {None} : RplInput(src, ll, unicast, victim, answered)
  BY <1>5, RplInputGood
<1>6. CASE \E s \in Slot : RemoveNeighbor(s)
  BY <1>6, NbrRmGood DEF RemoveNeighbor
<1>7. CASE \E b \in Buf : PacketTimedout(b)
  BY <1>7, PacketTimedoutGood
<1>8. CASE \E due \in SUBSET Slot : \E routers \in SUBSET due : Periodic(due, routers)
  BY <1>8, PeriodicGood
<1>9. CASE UNCHANGED cache
  BY <1>9
<1> QED
  BY <1>1, <1>2, <1>3, <1>4, <1>5, <1>6, <1>7, <1>8, <1>9 DEF Next

(* Every handler keeps the cache, its keys and the queue of packets good.   *)
THEOREM SpecGood == Spec => []Good(cache)
<1>1. Init => Good(cache)
  BY InitGood
<1>2. Good(cache) /\ [Next]_cache => Good(cache)'
  <2>1. Good(cache)' <=> Good(cache')
    BY DEF Good, Sound, Unresolved, Keyed, OneEntry, Armed, Counted, Listed
  <2> QED
    BY <2>1, NextGood
<1> QED
  BY <1>1, <1>2, PTL DEF Spec

(* Every operation on the neighbor cache leaves a table: no entry, key or   *)
(* packet out of its range, no more solicitations than the limit.           *)
THEOREM SpecTypeOK == Spec => []TypeOK
<1>1. Good(cache) => TypeOK
  BY DEF Good, Sound, TypeOK
<1> QED
  BY <1>1, SpecGood, PTL

(* However keys are allocated, evicted and moved (nbr_table_allocate,       *)
(* remove_key, uip_ds6_nbr_update_lladdr), no link-layer address has two,   *)
(* and every neighbor has one.                                              *)
THEOREM SpecOneKeyPerLladdr == Spec => []OneKeyPerLladdr
<1>1. Good(cache) => OneKeyPerLladdr
  BY DEF Good, Sound, Keyed, OneKeyPerLladdr
<1> QED
  BY <1>1, SpecGood, PTL

(* No IPv6 address ever has two entries: each handler looks for one before  *)
(* it adds one, and a change of link-layer address removes the old.         *)
THEOREM SpecOneEntryPerAddress == Spec => []OneEntryPerAddress
<1>1. Good(cache) => OneEntryPerAddress
  BY DEF Good, Sound, OneEntry, OneEntryPerAddress
<1> QED
  BY <1>1, SpecGood, PTL

(* uip_ds6_neighbor_periodic removes a neighbor only after MaxSolicit       *)
(* solicitations since it was last heard: nscount never runs ahead of them. *)
THEOREM SpecGivenUpUnanswered == Spec => GivenUpUnanswered
<1> DEFINE Early == \E s \in cache.used \ cache'.used : cache.nbr[s].asked < MaxSolicit
           Pass  == \E due \in SUBSET Slot : \E routers \in SUBSET due : Periodic(due, routers)
<1>1. Good(cache) /\ [Next]_cache => [Early => ~ Pass]_cache
  <2> SUFFICES ASSUME Good(cache), Early, Pass PROVE FALSE
    OBVIOUS
  <2>1. PICK due \in SUBSET Slot : \E routers \in SUBSET due : Periodic(due, routers)
    OBVIOUS
  <2>2. PICK s \in cache.used \ cache'.used : cache.nbr[s].asked < MaxSolicit
    OBVIOUS
  <2>3. s \in GivenUp(cache)
    BY <2>1, <2>2, PeriodicGood
  <2>4. cache.nbr[s].nscount >= MaxSolicit /\ s \in Slot
    BY <2>3, Fields DEF GivenUp, Good, Sound
  <2>5. cache.nbr[s].nscount <= cache.nbr[s].asked
    BY <2>4 DEF Good, Sound, Counted
  <2>6. cache.nbr[s].nscount \in 0 .. MaxSolicit /\ cache.nbr[s].asked \in 0 .. MaxSolicit
    <3>1. cache.nbr[s] \in Entry
      BY <2>4, Fields DEF Good, Sound
    <3> QED
      BY <3>1, EntryExcept
  <2> QED
    BY <2>2, <2>4, <2>5, <2>6, SizeAssumption
<1> QED
  BY <1>1, SpecGood, PTL DEF Spec, GivenUpUnanswered
=============================================================================
