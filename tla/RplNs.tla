-------------------------------- MODULE RplNs ------------------------------
(* The graph of the network that the root keeps in non-storing mode:        *)
(* core/net/rpl/rpl-ns.c, and dao_input_nonstoring of rpl-icmp6.c, which    *)
(* fills it. rpl-ext-header.c reads source routes off it.                   *)
(*                                                                          *)
(* A node points to its parent by the address of its block of nodememb.     *)
(* memb_free leaves the content of a block as it was.                       *)
EXTENDS Naturals, Sequences, FiniteSets, SequencesExt

CONSTANTS
  NodeId,         \* the nodes of the network, by their link identifier
  Root,           \* that of the border router
  NoId,           \* the content of a block never used
  MaxNodes,       \* RPL_NS_LINK_NUM
  NsMaxLifetime,  \* the longest finite lifetime, in seconds
  NsNoPathDelay   \* RPL_NOPATH_REMOVAL_DELAY

ASSUME NodeAssumption == Root \in NodeId /\ NoId \notin NodeId
ASSUME MaxNodesAssumption == MaxNodes \in Nat \ {0}
ASSUME NsLifetimeAssumption == NsMaxLifetime \in Nat /\ NsNoPathDelay \in 1 .. NsMaxLifetime

NsBlock    == 1 .. MaxNodes
Null       == 0
NsInfinite == NsMaxLifetime + 1   \* 0xffffffff
NsLifetime == 0 .. NsInfinite

VARIABLE ns   \* list: nodelist; node: the blocks of nodememb; num: num_nodes

NsNode == [id : NodeId \cup {NoId}, parent : NsBlock \cup {Null}, lifetime : NsLifetime]
Graph  == [list : Seq(NsBlock), num : Nat, node : [NsBlock -> NsNode]]

NsInit ==
  ns = [list |-> <<>>, num |-> 0,
        node |-> [b \in NsBlock |-> [id |-> NoId, parent |-> Null, lifetime |-> 0]]]
-----------------------------------------------------------------------------
InList(n) == {n.list[k] : k \in DOMAIN n.list}

(* rpl_ns_get_node: the first of the list with that identifier.             *)
Positions(n, id) == {k \in DOMAIN n.list : n.node[n.list[k]].id = id}

GetNode(n, id) ==
  IF Positions(n, id) = {} THEN Null
  ELSE n.list[CHOOSE k \in Positions(n, id) : \A j \in Positions(n, id) : k <= j]

(* rpl_ns_is_node_reachable: the parents are followed MaxNodes times at the *)
(* most, up to the root, which is a node like the others.                   *)
Ancestor(n, b) ==
  LET a[k \in 0 .. MaxNodes] ==
        CASE k = 0 -> b
          [] k > 0 /\ a[k - 1] \in {Null, GetNode(n, Root)} -> a[k - 1]
          [] OTHER -> n.node[a[k - 1]].parent
  IN  a[MaxNodes]

IsReachable(n, id) == GetNode(n, Root) # Null /\ Ancestor(n, GetNode(n, id)) = GetNode(n, Root)

(* rpl_ns_expire_parent: a No-Path DAO.                                     *)
ExpireParent(n, child, parent) ==
  LET b == GetNode(n, child) IN
  IF b # Null /\ n.node[b].parent # Null /\ n.node[n.node[b].parent].id = parent
  THEN [n EXCEPT !.node[b].lifetime = NsNoPathDelay] ELSE n

(* A node for an identifier that has none, in the first free block; without *)
(* a free block there is none.                                              *)
FreeBlocks(n) == NsBlock \ InList(n)

Added(n, id) ==
  LET b == CHOOSE b \in FreeBlocks(n) : \A c \in FreeBlocks(n) : b <= c IN
  IF FreeBlocks(n) = {} THEN n
  ELSE [n EXCEPT !.list = Append(@, b), !.num = @ + 1,
                 !.node[b] = [id |-> id, parent |-> Null, lifetime |-> NsInfinite]]

Known(n, id) == IF GetNode(n, id) = Null THEN Added(n, id) ELSE n

(* Faulty: without the look at whether the node is still reachable.         *)
WithParentBlind(n, id, p) == [n EXCEPT !.node[GetNode(n, id)].parent = p]

(* A parent that makes a reachable node unreachable is not taken.           *)
WithParent(n, id, p) ==
  LET m == [n EXCEPT !.node[GetNode(n, id)].parent = p]
  IN  IF IsReachable(n, id) /\ ~IsReachable(m, id) THEN n ELSE m

(* rpl_ns_update_node: a parent that is not known is added first, with an   *)
(* infinite lifetime, and stays if there is then no room for the child.     *)
UpdateNode(n, child, parent, lifetime) ==
  LET p == Known(n, parent)
      c == Known(p, child)
      d == [c EXCEPT !.node[GetNode(c, child)].lifetime = lifetime]
  IN  IF GetNode(p, parent) = Null \/ GetNode(c, child) = Null THEN c
      ELSE WithParent(d, child, GetNode(p, parent))

(* Faulty: a lifetime that has run out is taken down further.               *)
OlderUnguarded(n) ==
  [n EXCEPT !.node = [b \in NsBlock |->
     IF b \in InList(n) /\ n.node[b].lifetime # NsInfinite
     THEN [n.node[b] EXCEPT !.lifetime = @ - 1] ELSE n.node[b]]]

(* rpl_ns_periodic, every second. list_remove clears the link the second    *)
(* pass would follow, so that it ends at the first node it removes. The     *)
(* search for a child in that pass has no effect.                           *)
Older(n) ==
  [n EXCEPT !.node = [b \in NsBlock |->
     IF b \in InList(n) /\ n.node[b].lifetime \in 1 .. NsMaxLifetime
     THEN [n.node[b] EXCEPT !.lifetime = @ - 1] ELSE n.node[b]]]

Expired(n) == {k \in DOMAIN n.list : n.node[n.list[k]].lifetime = 0}

FirstRemoved(n) ==
  IF Expired(n) = {} THEN n
  ELSE LET k == CHOOSE k \in Expired(n) : \A j \in Expired(n) : k <= j
       IN  [n EXCEPT !.list = RemoveAt(@, k), !.num = @ - 1]

NsPeriodic == ns' = FirstRemoved(Older(ns))

(* dao_input_nonstoring. A node does not name itself as its parent, and     *)
(* always names one (the transit option has 20 bytes).                      *)
DaoInputNonstoring(child, parent, lifetime) ==
  /\ child \notin {Root, parent}
  /\ ns' = UpdateNode(ns, child, parent, lifetime)

NoPathNonstoring(child, parent) == ns' = ExpireParent(ns, child, parent)

NsNext ==
  \/ \E child, parent \in NodeId : \E lifetime \in 1 .. NsInfinite :
       DaoInputNonstoring(child, parent, lifetime)
  \/ \E child, parent \in NodeId : NoPathNonstoring(child, parent)
  \/ NsPeriodic

NsSpec == NsInit /\ [][NsNext]_ns
-----------------------------------------------------------------------------
(* "deallocate them iff no child points to them": the parent of a node of   *)
(* the list is in the list.                                                 *)
ParentsListed == \A b \in InList(ns) : ns.node[b].parent \in InList(ns) \cup {Null}
=============================================================================
