------------------------------ MODULE NbrCache ------------------------------
(* The IPv6 neighbor cache of the border router over the table it shares    *)
(* with the other neighbor tables: core/net/nbr-table.c (keys),             *)
(* core/net/ipv6/uip-ds6-nbr.c (entries, unreachability detection),         *)
(* core/net/ip/uip-packetqueue.c (the packets that wait for a resolution),  *)
(* and the handlers that work on them: tcpip_ipv6_output, ns_input,         *)
(* na_input, the RPL messages that add a neighbor, link-stats.c.            *)
(*                                                                          *)
(* An event handler runs to its end before the next one, and calls several  *)
(* of these operations one after the other. So the state is one record, an  *)
(* operation is a function of it, and an action applies a whole handler.    *)
(* The addresses are on-link, so that the next hop is the destination, and  *)
(* nobody takes the border router's own.                                    *)
EXTENDS Naturals, Sequences, FiniteSets, SequencesExt

CONSTANTS
  Ips, NoIp,      \* IPv6 addresses of neighbors, and the content of cleared memory
  Lls, NullLl,    \* link-layer addresses, and linkaddr_null
  MaxNeighbors,   \* NBR_TABLE_MAX_NEIGHBORS
  MaxQueued,      \* MAX_NUM_QUEUED_PACKETS
  MaxSolicit      \* UIP_ND6_MAX_MULTICAST_SOLICIT and UIP_ND6_MAX_UNICAST_SOLICIT

ASSUME IpAssumption == NoIp \notin Ips
ASSUME LlAssumption == NullLl \notin Lls
ASSUME SizeAssumption == {MaxNeighbors, MaxQueued, MaxSolicit} \subseteq Nat \ {0}

Slot == 1 .. MaxNeighbors   \* index in neighbor_addr_mem and in the tables
Buf  == 1 .. MaxQueued      \* block of packets_memb
None == 0                   \* NULL

State    == {"INCOMPLETE", "REACHABLE", "STALE", "DELAY", "PROBE"}
Resolving == {"INCOMPLETE", "PROBE"}

VARIABLE cache   \* keys, lladdr: nbr_table_keys; used, nbr: ds6_neighbors; buf: packets_memb

(* asked counts the solicitations sent since the neighbor was last heard;   *)
(* it is not in the code.                                                   *)
Cleared == [ip |-> NoIp, state |-> "INCOMPLETE", nscount |-> 0, packet |-> None, asked |-> 0]
Unused  == [alloc |-> FALSE, to |-> NoIp, handle |-> None, armed |-> FALSE]

Init ==
  cache = [keys |-> <<>>, lladdr |-> [s \in Slot |-> NullLl], used |-> {},
           nbr |-> [s \in Slot |-> Cleared], buf |-> [b \in Buf |-> Unused]]
-----------------------------------------------------------------------------
(* uip-packetqueue.c. The handle is a field of the entry, the timer of a    *)
(* packet keeps a pointer to it.                                            *)
PacketFree(c, slots) ==
  LET freed == {c.nbr[s].packet : s \in slots} IN
  [c EXCEPT !.buf = [b \in Buf |-> IF b \in freed THEN [Unused EXCEPT !.to = c.buf[b].to] ELSE c.buf[b]],
            !.nbr = [s \in Slot |-> IF s \in slots THEN [c.nbr[s] EXCEPT !.packet = None] ELSE c.nbr[s]]]

FreeBufs(c) == {b \in Buf : ~c.buf[b].alloc}

(* The packet is dropped if the handle has one already or no block is free. *)
PacketAlloc(c, s, ip) ==
  IF c.nbr[s].packet # None \/ FreeBufs(c) = {} THEN c
  ELSE LET b == CHOOSE b \in FreeBufs(c) : \A a \in FreeBufs(c) : b <= a
       IN  [c EXCEPT !.buf[b] = [alloc |-> TRUE, to |-> ip, handle |-> s, armed |-> TRUE],
                     !.nbr[s].packet = b]
-----------------------------------------------------------------------------
(* Lookups, in the order of nbr_table_keys.                                 *)
First(c, slots) ==
  LET found == {k \in DOMAIN c.keys : c.keys[k] \in slots}
  IN  IF found = {} THEN None ELSE c.keys[CHOOSE k \in found : \A j \in found : k <= j]

KeyOf(c, ll)    == First(c, {s \in Slot : c.lladdr[s] = ll})
Lookup(c, ip)   == First(c, {s \in c.used : c.nbr[s].ip = ip})
LlLookup(c, ll) == IF KeyOf(c, ll) \in c.used THEN KeyOf(c, ll) ELSE None

(* uip_ds6_nbr_rm, for a set of entries.                                    *)
NbrRm(c, slots) ==
  LET f == PacketFree(c, slots) IN
  [f EXCEPT !.used = @ \ slots,
            !.nbr = [s \in Slot |-> IF s \in slots THEN Cleared ELSE f.nbr[s]]]

(* remove_key: the entry's callback is uip_ds6_nbr_rm. The key goes to the  *)
(* end of the list with its new address.                                    *)
RemoveKey(c, s) ==
  [NbrRm(c, {s} \cap c.used) EXCEPT !.keys = RemoveAt(@, CHOOSE k \in DOMAIN @ : @[k] = s)]

Enlist(c, s, ll) == [c EXCEPT !.keys = Append(@, s), !.lladdr[s] = ll]

Result(c, s) == [cache |-> c, slot |-> s]   \* slot is None on failure

(* Faulty: a key is taken without looking whether the address has one.      *)
AllocateAgain(c, ll, victim) ==
  IF Len(c.keys) < MaxNeighbors
  THEN Result(Enlist(c, Len(c.keys) + 1, ll), Len(c.keys) + 1)
  ELSE Result(c, None)

(* The key of ll, allocated if there is none: a block never used, then the  *)
(* key the replacement policy gives up, if any.                             *)
Allocate(c, ll, victim) ==
  CASE KeyOf(c, ll) # None         -> Result(c, KeyOf(c, ll))
    [] KeyOf(c, ll) = None /\ Len(c.keys) < MaxNeighbors
                                   -> Result(Enlist(c, Len(c.keys) + 1, ll), Len(c.keys) + 1)
    [] OTHER                       -> Result(IF victim = None THEN c
                                             ELSE Enlist(RemoveKey(c, victim), victim, ll), victim)

(* nbr_table_add_lladdr clears the item also when the key has an entry:     *)
(* a packet its handle holds is left behind.                                *)
NbrAdd(c, ip, ll, state, victim) ==
  LET r == Allocate(c, ll, victim) IN
  IF r.slot = None THEN r
  ELSE Result([r.cache EXCEPT !.used = @ \cup {r.slot},
                              !.nbr[r.slot] = [Cleared EXCEPT !.ip = ip, !.state = state]],
              r.slot)

(* uip_ds6_nbr_update_lladdr: another entry with the new address goes, the  *)
(* old one is freed and copied to its new key, handle included.             *)
WithoutDuplicate(c, ll) ==
  IF LlLookup(c, ll) = None THEN c ELSE NbrRm(c, {LlLookup(c, ll)})

(* Faulty: the old entry stays.                                             *)
UpdateLladdrKeepsOld(c, s, ll) ==
  LET d == WithoutDuplicate(c, ll)
      r == NbrAdd(d, d.nbr[s].ip, ll, d.nbr[s].state, None)
  IN  IF r.slot = None THEN r
      ELSE Result([r.cache EXCEPT !.nbr[r.slot] = d.nbr[s]], r.slot)

UpdateLladdr(c, s, ll) ==
  LET d == WithoutDuplicate(c, ll)
      r == NbrAdd(NbrRm(d, {s}), d.nbr[s].ip, ll, d.nbr[s].state, None)
  IN  IF r.slot = None THEN r
      ELSE Result([r.cache EXCEPT !.nbr[r.slot] = d.nbr[s]], r.slot)

(* uip_ds6_nbr_refresh_reachable_state, also for an INCOMPLETE entry.       *)
Refresh(c, ip) ==
  LET s == Lookup(c, ip) IN
  IF s = None THEN c
  ELSE [c EXCEPT !.nbr[s].state = "REACHABLE", !.nbr[s].nscount = 0, !.nbr[s].asked = 0]
-----------------------------------------------------------------------------
(* tcpip_ipv6_output of a unicast packet. A packet for an entry that has    *)
(* left INCOMPLETE is sent, and after it the one its handle holds.          *)
Output(c, ip) ==
  LET s == Lookup(c, ip)
      r == NbrAdd(c, ip, NullLl, "INCOMPLETE", None)
  IN  CASE s = None /\ r.slot = None -> c
        [] s = None /\ r.slot # None ->
             [PacketAlloc(r.cache, r.slot, ip) EXCEPT !.nbr[r.slot].nscount = 1,
                                                      !.nbr[r.slot].asked = 1]
        [] s # None /\ c.nbr[s].state = "INCOMPLETE" -> PacketAlloc(c, s, ip)
        [] s # None /\ c.nbr[s].state = "STALE" ->
             PacketFree([c EXCEPT !.nbr[s].state = "DELAY", !.nbr[s].nscount = 0], {s})
        [] OTHER -> PacketFree(c, {s})

IpOutput(ip) == cache' = Output(cache, ip)

(* A unicast datagram from a neighbor.                                      *)
Heard(c, src, unicast) == IF unicast THEN Refresh(c, src) ELSE c

UnicastInput(src) == cache' = Refresh(cache, src)
-----------------------------------------------------------------------------
(* ns_input with an option ll (NullLl: none). It is answered if the target  *)
(* is an address of the border router, or one it is a proxy for.            *)
NsEntry(c, src, ll) ==
  LET s == Lookup(c, src)
      u == UpdateLladdr(c, s, ll)
  IN  CASE s = None -> NbrAdd(c, src, ll, "STALE", None).cache
        [] s # None /\ c.lladdr[s] = ll ->
             IF c.nbr[s].state = "INCOMPLETE" THEN [c EXCEPT !.nbr[s].state = "STALE"] ELSE c
        [] OTHER -> IF u.slot = None THEN u.cache
                    ELSE [u.cache EXCEPT !.nbr[u.slot].state = "STALE"]

NsInput(src, ll, unicast, answered) ==
  LET c == Heard(cache, src, unicast)
      d == IF ll = NullLl THEN c ELSE NsEntry(c, src, ll)
      discarded == ll # NullLl /\ Lookup(c, src) # None /\ Lookup(d, src) = None
  IN  cache' = IF answered /\ ~discarded THEN Output(d, src) ELSE d

(* na_input: the entry after it; slot is None if the message is discarded.  *)
NaEntry(c, tgt, ll, solicited, override) ==
  LET s == Lookup(c, tgt)
      e == c.nbr[s]
      change == ll # NullLl /\ ll # c.lladdr[s]
      u == UpdateLladdr(c, s, ll)
  IN  CASE s = None -> Result(c, None)
        [] s # None /\ e.state = "INCOMPLETE" ->
             IF ll = NullLl THEN Result(c, None)
             ELSE IF u.slot = None \/ solicited THEN u
             ELSE Result([u.cache EXCEPT !.nbr[u.slot].state = "STALE"], u.slot)
        [] s # None /\ e.state # "INCOMPLETE" /\ change ->
             IF override THEN u
             ELSE IF e.state = "REACHABLE" THEN Result([c EXCEPT !.nbr[s].state = "STALE"], None)
             ELSE Result(c, None)
        [] OTHER -> Result(c, s)

(* Then the packet its handle holds is put out again, by its destination.   *)
NaInput(src, tgt, ll, solicited, override, unicast) ==
  LET r == NaEntry(Heard(cache, src, unicast), tgt, ll, solicited, override)
      p == r.cache.nbr[r.slot].packet
  IN  /\ solicited => unicast
      /\ cache' = IF r.slot = None \/ p = None THEN r.cache
                  ELSE Output(PacketFree(r.cache, {r.slot}), r.cache.buf[p].to)
-----------------------------------------------------------------------------
(* A frame from, or a transmission to, ll: link_stats takes a key if there  *)
(* is one to take, and keeps it.                                            *)
LinkStats(c, ll) == Allocate(c, ll, None).cache

LinkFrame(ll) == cache' = LinkStats(cache, ll)

(* A DIO, DIS or DAO from src: rpl_icmp6_update_nbr_table, and the answer   *)
(* to a unicast one. The policy may give up any neighbor or none.           *)
RplEntry(c, src, ll, victim) ==
  IF Lookup(c, src) = None THEN NbrAdd(c, src, ll, "REACHABLE", victim).cache ELSE c

RplInput(src, ll, unicast, victim, answered) ==
  LET c == RplEntry(Heard(LinkStats(cache, ll), src, unicast), src, ll, victim) IN
  /\ answered => unicast
  /\ cache' = IF answered THEN Output(c, src) ELSE c

(* A neighbor is removed through the web server.                            *)
RemoveNeighbor(s) ==
  /\ s \in cache.used
  /\ cache' = NbrRm(cache, {s})
-----------------------------------------------------------------------------
(* packet_timedout: the timer of packet b frees what its handle holds now,  *)
(* which need not be b.                                                     *)
PacketTimedout(b) ==
  LET p == cache.nbr[cache.buf[b].handle].packet
      c == [cache EXCEPT !.buf[b].armed = FALSE, !.buf[b].handle = None]
  IN  /\ cache.buf[b].armed
      /\ cache' = IF p = None THEN c
                  ELSE [c EXCEPT !.buf[p].alloc = FALSE, !.nbr[cache.buf[b].handle].packet = None]

(* Faulty: the last solicitation is not sent; solicitations have no limit.  *)
GivenUpEarly(c) == {s \in c.used : c.nbr[s].state \in Resolving /\ c.nbr[s].nscount + 1 >= MaxSolicit}
GivenUpNever(c) == {s \in c.used : c.nbr[s].state \in Resolving /\ c.nbr[s].nscount > MaxSolicit}

(* uip_ds6_neighbor_periodic: due are the slots whose timer (reachable,     *)
(* sendns) has expired, routers those of default routers, a list that is    *)
(* not modelled. One solicitation leaves per pass; one to a neighbor in     *)
(* PROBE is unicast, and takes along the packet its handle holds.           *)
GivenUp(c) == {s \in c.used : c.nbr[s].state \in Resolving /\ c.nbr[s].nscount >= MaxSolicit}

Solicited(c, due) ==
  First(c, {s \in (c.used \cap due) \ GivenUp(c) : c.nbr[s].state \in Resolving})

(* Faulty: solicitations are not counted.                                   *)
AfterNsUncounted(e) == [e EXCEPT !.asked = IF @ < MaxSolicit THEN @ + 1 ELSE @]
AfterNs(e) == [e EXCEPT !.nscount = @ + 1, !.asked = IF @ < MaxSolicit THEN @ + 1 ELSE @]

Aged(e, router) ==
  CASE e.state = "REACHABLE" /\ router  -> [e EXCEPT !.state = "DELAY", !.nscount = 0]
    [] e.state = "REACHABLE" /\ ~router -> [e EXCEPT !.state = "STALE"]
    [] e.state = "DELAY" -> [e EXCEPT !.state = "PROBE", !.nscount = 0]
    [] OTHER -> e

Periodic(due, routers) ==
  LET n == Solicited(cache, due)
      c == [cache EXCEPT !.nbr = [s \in Slot |->
              CASE s = n -> AfterNs(cache.nbr[s])
                [] s # n /\ s \in cache.used \cap due -> Aged(cache.nbr[s], s \in routers)
                [] OTHER -> cache.nbr[s]]]
      probed == {s \in {n} \cap Slot : c.nbr[s].state = "PROBE"}
  IN  cache' = PacketFree(NbrRm(c, GivenUp(cache)), probed)

(* A neighbor advertises its address from that address, as ns_input does,   *)
(* and in answer to the border router's solicitations or to all nodes.      *)
Next ==
  \/ \E ip \in Ips : IpOutput(ip) \/ UnicastInput(ip)
  \/ \E src \in Ips, ll \in Lls \cup {NullLl}, unicast, answered \in BOOLEAN :
       NsInput(src, ll, unicast, answered)
  \/ \E src \in Ips, ll \in Lls \cup {NullLl}, solicited, override \in BOOLEAN :
       NaInput(src, src, ll, solicited, override, solicited)
  \/ \E ll \in Lls : LinkFrame(ll)
  \/ \E src \in Ips, ll \in Lls, unicast, answered \in BOOLEAN, victim \in cache.used \cup {None} :
       RplInput(src, ll, unicast, victim, answered)
  \/ \E s \in Slot : RemoveNeighbor(s)
  \/ \E b \in Buf : PacketTimedout(b)
  \/ \E due \in SUBSET Slot : \E routers \in SUBSET due : Periodic(due, routers)

Spec == Init /\ [][Next]_cache

Probed(ip) == \E s \in cache.used : cache.nbr[s].ip = ip /\ cache.nbr[s].state = "PROBE"

(* The timer of a neighbor in PROBE moves with its entry, and expires when  *)
(* no other is due again: retransmissions are a second apart                *)
(* (retrans_timer), passes a tenth of one (UIP_DS6_PERIOD).                 *)
Probe(ip) ==
  \E s \in cache.used :
    cache.nbr[s].ip = ip /\ cache.nbr[s].state = "PROBE" /\ Periodic({s}, {})

Fairness == \A ip \in Ips : WF_cache(Probe(ip))

FairSpec == Spec /\ Fairness
-----------------------------------------------------------------------------
Entry == [ip : Ips \cup {NoIp}, state : State, nscount : 0 .. MaxSolicit,
          packet : Buf \cup {None}, asked : 0 .. MaxSolicit]
Packet == [alloc : BOOLEAN, to : Ips \cup {NoIp}, handle : Slot \cup {None}, armed : BOOLEAN]

Table ==
  [keys : Seq(Slot), lladdr : [Slot -> Lls \cup {NullLl}], used : SUBSET Slot,
   nbr : [Slot -> Entry], buf : [Buf -> Packet]]

(* Every field has its type, the number of solicitations within its bound.  *)
TypeOK == cache \in Table

Listed(c) == {c.keys[k] : k \in DOMAIN c.keys}

(* The keys of nbr_table_keys are distinct, have distinct addresses, and    *)
(* include that of every neighbor, so that an address finds its entry,      *)
(* whatever was allocated, evicted and moved before.                        *)
OneKeyPerLladdr ==
  /\ \A j, k \in DOMAIN cache.keys :
       cache.lladdr[cache.keys[j]] = cache.lladdr[cache.keys[k]] => j = k
  /\ cache.used \subseteq Listed(cache)

(* An IPv6 address never has two entries, also when its link-layer address  *)
(* changes, is another neighbor's, or is still unknown: what a lookup finds *)
(* does not depend on the order of the list.                                *)
OneEntryPerAddress ==
  \A s, t \in cache.used : cache.nbr[s].ip = cache.nbr[t].ip => s = t

(* Unreachability detection removes a neighbor only after MaxSolicit        *)
(* solicitations with no unicast datagram from it in between.               *)
GivenUpUnanswered ==
  [][(\E s \in cache.used \ cache'.used : cache.nbr[s].asked < MaxSolicit) =>
       ~ \E due \in SUBSET Slot : \E routers \in SUBSET due : Periodic(due, routers)]_cache

(* A neighbor does not stay in PROBE: it is heard, or removed, however its  *)
(* link-layer address changes and packets for it keep coming.               *)
ProbeEnds == \A ip \in Ips : Probed(ip) ~> ~Probed(ip)

(* A packet that is queued for later transmission is held by the handle of  *)
(* a neighbor, which is the only way to it.                                 *)
QueuedIsHeld ==
  \A b \in Buf : cache.buf[b].alloc => \E s \in cache.used : cache.nbr[s].packet = b
=============================================================================
