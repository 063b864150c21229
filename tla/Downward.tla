------------------------------ MODULE Downward -----------------------------
(* How the root learns and forgets the way to the nodes of its network: the *)
(* routes of storing mode (Routes) or the graph of non-storing mode (RplNs),*)
(* fed by the same DAOs and aged by the same timer, under the mode of       *)
(* operation the root was started with.                                     *)
(*                                                                          *)
(* Every DAO a node may have sent may arrive at any time: that covers those *)
(* that are lost, repeated or late. In non-storing mode the routes, which   *)
(* are then static or learnt from routers, are left out: the graph and they *)
(* share nothing.                                                           *)
EXTENDS Routes, RplNs

CONSTANT Mortal   \* the hosts that may leave the network: a bound

VARIABLES
  mop,    \* instance->mop
  gone    \* nodes that send no DAO any more; not in the code

vars == <<tab, ns, mop, gone>>

Storing    == mop = "storing" /\ UNCHANGED <<ns, mop, gone>>
NonStoring == mop = "nonstoring" /\ UNCHANGED <<tab, mop, gone>>

Init == RoutesInit /\ NsInit /\ mop \in {"storing", "nonstoring"} /\ gone = {}
-----------------------------------------------------------------------------
(* dao_input.                                                               *)
DaoInputStoring(s, d, lifetime) ==
  /\ Storing
  /\ d \notin gone
  /\ tab' = DaoInput(tab, s, d, lifetime).tab

NoPathStoring(src, d) == Storing /\ tab' = NoPath(tab, src, d)

DaoInputNode(child, parent, lifetime) ==
  NonStoring /\ child \notin gone /\ DaoInputNonstoring(child, parent, lifetime)

NoPathNode(child, parent) ==
  NonStoring /\ child \notin gone /\ NoPathNonstoring(child, parent)

(* handle_periodic_timer.                                                   *)
Periodic ==
  \/ Storing /\ tab' = Purged(tab)
  \/ NonStoring /\ NsPeriodic

(* tcpip_ipv6_output: a packet for d finds the next hop of its route gone.  *)
NexthopGone(d) ==
  /\ Storing
  /\ Lookup(tab, d) # None /\ Nexthop(tab, Lookup(tab, d)) = NoIp
  /\ tab' = RouteRm(tab, {Lookup(tab, d)})

(* A packet for d comes back with a forwarding error, a purge NA says that  *)
(* d is elsewhere, or its route is removed through the web server.          *)
RouteRemoved(d) ==
  /\ Storing
  /\ Lookup(tab, d) # None
  /\ tab' = RouteRm(tab, {Lookup(tab, d)})

(* rpl_remove_routes: the root leaves the DODAG, to set up a new one.       *)
DodagLeft == Storing /\ tab' = RouteRm(tab, {b \in Listed(tab) : tab.route[b].dag})

(* The web server or the configuration file; a router's RA.                 *)
StaticAdded(d, ip) == Storing /\ tab' = AddStatic(tab, d, ip)

RouteInformationInput(d, ip, lifetime) ==
  /\ Storing
  /\ tab' = RouteInformation(tab, d, ip, lifetime)

(* A neighbor is heard, be it by a DAO that is not allowed, is removed, or  *)
(* moves to another link-layer address.                                     *)
NbrHeard(s) == Storing /\ tab' = UpdateNbrTable(tab, s)

NbrRemoved(l) == Storing /\ tab' = Evicted(tab, l)

NbrMoved(l, k) ==
  /\ Storing
  /\ tab.nbr[l] # NoIp /\ l # k
  /\ tab' = [Evicted(tab, l) EXCEPT !.nbr[k] = tab.nbr[l]]

(* A node is switched off, or moves to another network. One at most does.   *)
Leaves(h) ==
  /\ gone = {} /\ gone' = {h}
  /\ UNCHANGED <<tab, ns, mop>>

(* Bounds: the lifetimes a DAO or a router announces (as they run down, the *)
(* shorter ones follow); static routes and routers are for prefixes.        *)
Announced == {MaxLifetime, Infinite}

Next ==
  \/ \E h \in Mortal : Leaves(h)
  \/ \E s \in Senders(tab) : \E d \in Dest, lifetime \in Announced :
       DaoInputStoring(s, d, lifetime)
  \/ \E src \in Ip, d \in Dest : NoPathStoring(src, d)
  \/ \E child, parent \in NodeId, lifetime \in 1 .. NsInfinite : DaoInputNode(child, parent, lifetime)
  \/ \E child, parent \in NodeId : NoPathNode(child, parent)
  \/ Periodic
  \/ \E d \in Dest : NexthopGone(d) \/ RouteRemoved(d)
  \/ DodagLeft
  \/ \E d \in Dest \ Host, ip \in Ip : StaticAdded(d, ip)
  \/ \E d \in Dest \ Host, ip \in Ip, lifetime \in Announced \cup {0} : RouteInformationInput(d, ip, lifetime)
  \/ \E s \in Senders(tab) : NbrHeard(s)
  \/ \E l \in Ll : NbrRemoved(l)
  \/ \E l, k \in Ll : NbrMoved(l, k)

Spec     == Init /\ [][Next]_vars
FairSpec == Spec /\ WF_vars(Periodic)   \* a ctimer, set again each time it fires
-----------------------------------------------------------------------------
(* Every field has its type.                                                *)
TypeOK == tab \in Tab /\ ns \in Graph /\ mop \in {"storing", "nonstoring"}

(* The routes and the lists of the neighbors they are attached to refer to  *)
(* each other, a neighbor has an item in nbr_routes while its list is not   *)
(* empty, and the counters say how many routes and nodes there are: what    *)
(* one handler removes while it walks a table leaves none behind.           *)
TablesAgree ==
  /\ \A l \in Ll : tab.attached[l] = {b \in Listed(tab) : tab.route[b].hop = l}
  /\ tab.used = {l \in Ll : tab.attached[l] # {}}
  /\ tab.num = Cardinality(Listed(tab))
  /\ ns.num = Len(ns.list)

(* A destination has one route, and an identifier one node: what a lookup   *)
(* finds does not depend on the order of the list.                          *)
OneEntryPerDestination ==
  /\ \A b, c \in Listed(tab) : tab.route[b].dest = tab.route[c].dest => b = c
  /\ \A j, k \in DOMAIN ns.list : ns.node[ns.list[j]].id = ns.node[ns.list[k]].id => j = k

(* A DAO leaves the route of every destination it is not about as it was,   *)
(* and its next hop as well, unless the sender is what is now known under   *)
(* that link-layer address: no neighbor that is a next hop is given up for  *)
(* the sender of a DAO, nor a route for its destination. (The lifetime it   *)
(* announces makes no difference.)                                          *)
OthersKeepRoutes ==
  \A s \in Senders(tab) : \A d \in Dest :
    LET t == DaoInput(tab, s, d, Infinite).tab IN
    \A b \in Listed(tab) : d \notin Covers[tab.route[b].dest] =>
      /\ t.route[b] = tab.route[b]
      /\ Nexthop(t, b) = Nexthop(tab, b) \/ tab.route[b].hop = s.l

(* The destination of a DAO that is acknowledged is routed by its sender,   *)
(* or by a route whose next hop has been removed, which is refreshed.       *)
AcknowledgedIsRouted ==
  \A s \in Senders(tab) : \A d \in Dest :
    LET a == DaoInput(tab, s, d, Infinite) IN
    a.block # None =>
      Lookup(a.tab, d) # None /\ Nexthop(a.tab, Lookup(a.tab, d)) \in {s.ip, NoIp}

(* While every parent is listed, a DAO does not cut off a node that the     *)
(* root can reach: a loop that DAOs in the wrong order would close is not.  *)
DaoKeepsReachable ==
  mop = "nonstoring" /\ ParentsListed =>
    \A child \in NodeId \ {Root} : \A parent \in NodeId \ {child} :
      LET n == UpdateNode(ns, child, parent, NsInfinite) IN
      \A id \in NodeId : IsReachable(ns, id) => IsReachable(n, id)

(* A node that sends no DAO any more is forgotten: its route, or its entry  *)
(* in the graph, goes in the end, unless it was announced or configured for *)
(* ever, also if No-Path DAOs for it keep coming.                           *)
Finite(d) ==
  \/ \E b \in Listed(tab) : tab.route[b].dest = d /\ tab.route[b].lifetime # Infinite
  \/ \E b \in InList(ns) : ns.node[b].id = d /\ ns.node[b].lifetime # NsInfinite

SilentIsForgotten == \A h \in Mortal : h \in gone ~> ~Finite(h)
=============================================================================
