------------------------------- MODULE Routes ------------------------------
(* The downward routes of the border router in storing mode:                *)
(* core/net/ipv6/uip-ds6-route.c (the tables), core/net/rpl/rpl.c (what RPL *)
(* adds, refreshes and purges), dao_input_storing of rpl-icmp6.c, and what  *)
(* else adds and removes routes: the packets on their way out, forwarding   *)
(* errors, route information options, purge NAs and the web server.         *)
(*                                                                          *)
(* As in NbrCache, handlers run to their end one after the other and call   *)
(* several operations in a row: the tables are one record, an operation is  *)
(* a function of it, an action applies a whole handler. Of the neighbor     *)
(* tables only the address of each neighbor matters here.                   *)
EXTENDS Naturals, FiniteSets

CONSTANTS
  Dest,          \* destinations: an address and a length
  Host,          \* those of length 128
  Covers,        \* for each, the destinations whose address it matches
  Length,        \* for each, its length
  Ip,            \* addresses of neighbors
  Ll,            \* their link-layer addresses, the keys of the neighbor tables
  NoIp, NoLl,    \* NULL
  MaxRoutes,     \* UIP_DS6_ROUTE_NB
  MaxLifetime,   \* the longest finite lifetime, in seconds
  NoPathDelay    \* RPL_NOPATH_REMOVAL_DELAY

ASSUME DestAssumption ==
  /\ Host \subseteq Dest
  /\ Covers \in [Dest -> SUBSET Dest]
  /\ Length \in [Dest -> 0 .. 128]
  /\ \A d \in Dest : d \in Covers[d]
  /\ \A d, e \in Dest : d \in Covers[e] /\ d # e => Length[e] < Length[d]
ASSUME AddressAssumption == NoIp \notin Ip \cup Dest /\ NoLl \notin Ll /\ Ip \cap Ll = {}
ASSUME LimitAssumption == MaxRoutes \in Nat \ {0}
ASSUME LifetimeAssumption == MaxLifetime \in Nat /\ NoPathDelay \in 1 .. MaxLifetime

Block    == 1 .. MaxRoutes    \* of routememb
None     == 0                 \* NULL
Infinite == MaxLifetime + 1   \* RPL_ROUTE_INFINITE_LIFETIME
Lifetime == 0 .. Infinite

(* hop is the key of nbr_routes the route is attached to or, for a static   *)
(* route, the address of its next hop. dag is whether RPL has set it.       *)
Route == [dest : Dest, hop : Ll \cup Ip, lifetime : Lifetime, nopath : BOOLEAN, dag : BOOLEAN]
Free  == [dest |-> NoIp]      \* a block that is not allocated

VARIABLE tab   \* route: routelist; attached, used: nbr_routes; num: num_routes; nbr: ds6_neighbors

Tab ==
  [route : [Block -> Route \cup {Free}], attached : [Ll -> SUBSET Block], used : SUBSET Ll,
   num : Nat, nbr : [Ll -> Ip \cup {NoIp}]]

RoutesInit ==
  tab = [route |-> [b \in Block |-> Free], attached |-> [l \in Ll |-> {}], used |-> {},
         num |-> 0, nbr |-> [l \in Ll |-> NoIp]]
-----------------------------------------------------------------------------
Listed(t) == {b \in Block : t.route[b] # Free}

LlOf(t, ip) == IF \E l \in Ll : t.nbr[l] = ip THEN CHOOSE l \in Ll : t.nbr[l] = ip ELSE NoLl

Nexthop(t, b) == IF t.route[b].hop \in Ip THEN t.route[b].hop ELSE t.nbr[t.route[b].hop]

(* uip_ds6_route_lookup: the longest match. Its move to the head of the     *)
(* list has no effect: nothing depends on the order.                        *)
Matches(t, d) == {b \in Listed(t) : d \in Covers[t.route[b].dest]}

Longest(t, d) ==
  {b \in Matches(t, d) :
     \A c \in Matches(t, d) : Length[t.route[c].dest] <= Length[t.route[b].dest]}

Lookup(t, d) == IF Longest(t, d) = {} THEN None ELSE CHOOSE b \in Longest(t, d) : TRUE

(* Faulty: a neighbor keeps its item when its last route goes.              *)
RouteRmKeepsNeighbor(t, blocks) ==
  [t EXCEPT
     !.route = [b \in Block |-> IF b \in blocks THEN Free ELSE t.route[b]],
     !.attached = [l \in Ll |-> t.attached[l] \ blocks],
     !.num = t.num - Cardinality(Listed(t) \cap blocks)]

(* uip_ds6_route_rm of several routes; the item of a neighbor goes with the *)
(* last route attached to it.                                               *)
RouteRm(t, blocks) ==
  [t EXCEPT
     !.route = [b \in Block |-> IF b \in blocks THEN Free ELSE t.route[b]],
     !.attached = [l \in Ll |-> t.attached[l] \ blocks],
     !.used = {l \in t.used : t.attached[l] \cap blocks = {} \/ ~ t.attached[l] \subseteq blocks},
     !.num = t.num - Cardinality(Listed(t) \cap blocks)]

Found(b) == {b} \ {None}   \* what a lookup found, as a set

Result(t, b) == [tab |-> t, block |-> b]   \* block is None on failure

FreeBlock(t) ==
  LET free == Block \ Listed(t) IN CHOOSE b \in free : \A c \in free : b <= c

(* The route that already leads to the next hop wanted, if any.             *)
SameHop(t, b, ip) == b # None /\ Nexthop(t, b) = ip

New(d, hop, lifetime) ==
  [dest |-> d, hop |-> hop, lifetime |-> lifetime, nopath |-> FALSE, dag |-> FALSE]

Attached(t, b, d, l) ==
  [t EXCEPT !.route[b] = New(d, l, 0), !.attached[l] = @ \cup {b}, !.used = @ \cup {l}, !.num = @ + 1]

(* Faulty: the route that matches the destination is not replaced.          *)
RouteAddKeepsOld(t, d, ip) ==
  LET l == LlOf(t, ip)
      b == Lookup(t, d)
  IN  IF SameHop(t, b, ip) THEN Result(t, b)
      ELSE IF l = NoLl \/ t.num = MaxRoutes THEN Result(t, None)
      ELSE Result(Attached(t, FreeBlock(t), d, l), FreeBlock(t))

(* uip_ds6_route_add. The next hop must be a neighbor; whatever route       *)
(* matches the destination is replaced, if there is room or not.            *)
RouteAdd(t, d, ip) ==
  LET l == LlOf(t, ip)
      b == Lookup(t, d)
      r == RouteRm(t, Found(b))
      f == FreeBlock(r)
  IN  IF l = NoLl THEN Result(t, None)
      ELSE IF SameHop(t, b, ip) THEN Result(t, b)
      ELSE IF r.num = MaxRoutes THEN Result(r, None)
      ELSE Result(Attached(r, f, d, l), f)

(* uip_ds6_route_add_static.                                                *)
AddStatic(t, d, ip) ==
  LET b == Lookup(t, d)
      r == RouteRm(t, Found(b))
  IN  CASE SameHop(t, b, ip) -> t
        [] ~SameHop(t, b, ip) /\ Listed(r) = Block -> r
        [] OTHER -> [r EXCEPT !.route[FreeBlock(r)] = New(d, ip, Infinite), !.num = @ + 1]

(* Faulty: whatever route there is is taken as it is.                       *)
RplAddRouteAny(t, d, ip) ==
  IF Lookup(t, d) # None THEN Result(t, Lookup(t, d)) ELSE RouteAdd(t, d, ip)

(* rpl_add_route: a route without next hop, its neighbor being gone, is     *)
(* taken as it is.                                                          *)
RplAddRoute(t, d, ip) ==
  LET b == Lookup(t, d) IN
  IF b # None /\ Nexthop(t, b) \in {NoIp, ip} THEN Result(t, b) ELSE RouteAdd(t, d, ip)

Refreshed(t, b, lifetime) ==
  [t EXCEPT !.route[b] = [@ EXCEPT !.dag = TRUE, !.lifetime = lifetime, !.nopath = FALSE]]
-----------------------------------------------------------------------------
(* Faulty: a neighbor that is a next hop may be given up.                   *)
RemovableChild(t) == {l \in Ll : t.nbr[l] # NoIp}

(* uip_ds6_nbr_add for an address that has no entry: in a free key or that  *)
(* of ll itself (victim NoLl), or in that of a neighbor the replacement     *)
(* policy gives up, which is no child. There may be no room and nobody to   *)
(* give up.                                                                 *)
IsKey(t, l)   == l \in t.used \/ t.nbr[l] # NoIp
Removable(t)  == {l \in Ll : t.nbr[l] # NoIp} \ t.used
Evicted(t, l) == [t EXCEPT !.nbr = [k \in Ll |-> IF k = l THEN NoIp ELSE t.nbr[k]]]

NbrAdd(t, ip, l, victim) == [Evicted(t, victim) EXCEPT !.nbr[l] = ip]

(* What may become of the sender of a packet: nothing is added for a        *)
(* neighbor that is known, and a key that exists needs no room.             *)
Sender == [ip : Ip, l : Ll, room : BOOLEAN, victim : Ll \cup {NoLl}]

Senders(t) ==
  {s \in Sender :
     \/ LlOf(t, s.ip) = s.l /\ s.room /\ s.victim = NoLl
     \/ LlOf(t, s.ip) = NoLl /\ IsKey(t, s.l) /\ s.room /\ s.victim = NoLl
     \/ LlOf(t, s.ip) = NoLl /\ ~IsKey(t, s.l) /\ s.victim = NoLl
     \/ LlOf(t, s.ip) = NoLl /\ ~IsKey(t, s.l) /\ s.room /\ s.victim \in Removable(t)}

(* rpl_icmp6_update_nbr_table.                                              *)
UpdateNbrTable(t, s) ==
  IF LlOf(t, s.ip) # NoLl \/ ~s.room THEN t ELSE NbrAdd(t, s.ip, s.l, s.victim)

(* dao_input_storing at the root, from s, for d, with a lifetime, when      *)
(* cetic_6lbr_allowed_node_hook has nothing against d: else it stops after  *)
(* UpdateNbrTable. block is that of the route if the DAO is acknowledged,   *)
(* None if it is refused.                                                   *)
DaoInput(t, s, d, lifetime) ==
  LET n == UpdateNbrTable(t, s)
      a == RplAddRoute(n, d, s.ip)
  IN  IF LlOf(n, s.ip) = NoLl THEN Result(n, None)
      ELSE IF a.block = None THEN a
      ELSE Result(Refreshed(a.tab, a.block, lifetime), a.block)

(* Faulty: each No-Path DAO sets the lifetime again.                        *)
NoPathAgain(t, src, d) ==
  LET b == Lookup(t, d) IN
  IF b # None /\ t.route[b].dest = d /\ Nexthop(t, b) = src
  THEN [t EXCEPT !.route[b] = [@ EXCEPT !.nopath = TRUE, !.lifetime = NoPathDelay]]
  ELSE t

(* A No-Path DAO.                                                           *)
NoPath(t, src, d) ==
  LET b == Lookup(t, d) IN
  IF b # None /\ ~t.route[b].nopath /\ t.route[b].dest = d /\ Nexthop(t, b) = src
  THEN [t EXCEPT !.route[b] = [@ EXCEPT !.nopath = TRUE, !.lifetime = NoPathDelay]]
  ELSE t

(* rpl_purge_routes at the root, every second.                              *)
Aged(t) ==
  [t EXCEPT !.route = [b \in Block |->
     IF b \in Listed(t) /\ t.route[b].lifetime \in 1 .. MaxLifetime
     THEN [t.route[b] EXCEPT !.lifetime = @ - 1] ELSE t.route[b]]]

Dead(t) == {b \in Listed(t) : t.route[b].lifetime < 1}

Purged(t) == LET a == Aged(t) IN RouteRm(a, Dead(a))

(* uip_ds6_route_info_callback: a route information option from ip.         *)
RouteInformation(t, d, ip, lifetime) ==
  LET b == Lookup(t, d)
      a == RouteAdd(t, d, ip)
  IN  CASE b = None /\ lifetime # 0 ->
             IF a.block = None THEN a.tab ELSE [a.tab EXCEPT !.route[a.block].lifetime = lifetime]
        [] b # None /\ lifetime # 0 -> [t EXCEPT !.route[b].lifetime = lifetime]
        [] OTHER -> RouteRm(t, Found(b))
=============================================================================
