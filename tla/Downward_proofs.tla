--------------------------- MODULE Downward_proofs -------------------------
(* What Downward keeps true for any number of destinations, neighbors,      *)
(* nodes and blocks: first what the operations of Routes and of RplNs       *)
(* preserve, then what each handler keeps.                                  *)
EXTENDS Downward, FiniteSetTheorems, SequenceTheorems, WellFoundedInduction, TLAPS

(* Storing mode: the two tables of Routes agree, and every destination has  *)
(* one route.                                                               *)
USE DEF None

(* What a table of routes must be between two operations.                   *)
Agree(t) ==
  /\ \A l \in Ll : t.attached[l] = {b \in Listed(t) : t.route[b].hop = l}
  /\ t.used = {l \in Ll : t.attached[l] # {}}
  /\ t.num = Cardinality(Listed(t))

OneRoute(t) == \A b, c \in Listed(t) : t.route[b].dest = t.route[c].dest => b = c

Well(t) == t \in Tab /\ Agree(t) /\ OneRoute(t)
-----------------------------------------------------------------------------
(* Least and greatest elements.                                             *)
LEMMA LeastNat ==
  ASSUME NEW T \in SUBSET Nat, T # {}
  PROVE  \E x \in T : \A y \in T : x <= y
<1>1. PICK x \in T : \A y \in T : ~ (<<y, x>> \in OpToRel(<, Nat))
  BY NatLessThanWellFounded, WFMin
<1>2. ASSUME NEW y \in T PROVE x <= y
  <2>1. ~ (y < x)
    BY <1>1 DEF OpToRel
  <2> QED
    BY <2>1
<1> QED
  BY <1>2

(* A route is never an unallocated block, and its fields have their types.  *)
LEMMA RouteFree == Free \notin Route
BY AddressAssumption DEF Route, Free

LEMMA ListedType ==
  ASSUME NEW t \in Tab
  PROVE  /\ Listed(t) \subseteq Block
         /\ IsFiniteSet(Listed(t)) /\ IsFiniteSet(Block) /\ Cardinality(Block) = MaxRoutes
         /\ \A b \in Listed(t) : t.route[b] \in Route
<1>1. IsFiniteSet(Block) /\ Cardinality(Block) = MaxRoutes
  BY FS_Interval, LimitAssumption DEF Block
<1>2. Listed(t) \subseteq Block
  BY DEF Listed
<1>3. IsFiniteSet(Listed(t))
  BY <1>1, <1>2, FS_Subset
<1>4. \A b \in Listed(t) : t.route[b] \in Route
  BY DEF Listed, Tab
<1> QED
  BY <1>1, <1>2, <1>3, <1>4

(* uip_ds6_route_lookup finds a route if there is one that matches, the     *)
(* longest; that of the destination itself if it has one.                   *)
LEMMA LookupMatches ==
  ASSUME NEW t \in Tab, NEW d \in Dest
  PROVE  /\ Matches(t, d) = {} => Lookup(t, d) = None
         /\ Matches(t, d) # {} =>
              /\ Lookup(t, d) \in Matches(t, d)
              /\ \A c \in Matches(t, d) :
                   Length[t.route[c].dest] <= Length[t.route[Lookup(t, d)].dest]
         /\ Lookup(t, d) # None => Lookup(t, d) \in Matches(t, d)
<1>1. CASE Matches(t, d) = {}
  BY <1>1 DEF Lookup, Longest
<1>2. CASE Matches(t, d) # {}
  <2> DEFINE gap(b) == 128 - Length[t.route[b].dest]
             gaps   == {gap(b) : b \in Matches(t, d)}
  <2>1. \A b \in Matches(t, d) : Length[t.route[b].dest] \in 0 .. 128
    BY ListedType, DestAssumption DEF Matches, Route
  <2>2. gaps \subseteq Nat /\ gaps # {}
    BY <1>2, <2>1
  <2>3. PICK x \in gaps : \A y \in gaps : x <= y
    <3> HIDE DEF gaps
    <3> QED
      BY <2>2, LeastNat
  <2>4. PICK b \in Matches(t, d) : x = gap(b)
    OBVIOUS
  <2>5. ASSUME NEW c \in Matches(t, d) PROVE Length[t.route[c].dest] <= Length[t.route[b].dest]
    <3>1. gap(b) <= gap(c)
      BY <2>3, <2>4
    <3>2. Length[t.route[b].dest] \in 0 .. 128 /\ Length[t.route[c].dest] \in 0 .. 128
      BY <2>1
    <3>3. \A i, j \in 0 .. 128 : 128 - i <= 128 - j => j <= i
      OBVIOUS
    <3> QED
      BY <3>1, <3>2, <3>3
  <2>6. /\ Lookup(t, d) \in Matches(t, d)
        /\ \A c \in Matches(t, d) : Length[t.route[c].dest] <= Length[t.route[Lookup(t, d)].dest]
    BY <1>2, <2>5 DEF Lookup, Longest
  <2> QED
    BY <1>2, <2>6
<1> QED
  BY <1>1, <1>2

LEMMA LookupListed ==
  ASSUME NEW t \in Tab, NEW d \in Dest, Lookup(t, d) # None
  PROVE  Lookup(t, d) \in Listed(t) /\ d \in Covers[t.route[Lookup(t, d)].dest]
BY LookupMatches DEF Matches

LEMMA LookupOwn ==
  ASSUME NEW t \in Tab, NEW d \in Dest, OneRoute(t),
         NEW b \in Listed(t), t.route[b].dest = d
  PROVE  Lookup(t, d) = b
<1> DEFINE m == Lookup(t, d)
<1>1. b \in Matches(t, d)
  BY DestAssumption DEF Matches
<1>2. m \in Matches(t, d) /\ Length[d] <= Length[t.route[m].dest]
  BY <1>1, LookupMatches
<1>3. m \in Listed(t) /\ d \in Covers[t.route[m].dest] /\ t.route[m].dest \in Dest
  BY <1>2, ListedType DEF Matches, Route
<1>4. t.route[m].dest = d
  <2> SUFFICES ASSUME t.route[m].dest # d PROVE FALSE
    OBVIOUS
  <2>1. Length[t.route[m].dest] < Length[d]
    BY <1>3, DestAssumption
  <2>2. Length[t.route[m].dest] \in 0 .. 128 /\ Length[d] \in 0 .. 128
    BY <1>3, DestAssumption
  <2>3. \A i, j \in 0 .. 128 : i <= j => ~ (j < i)
    OBVIOUS
  <2> QED
    BY <1>2, <2>1, <2>2, <2>3
<1> QED
  BY <1>3, <1>4 DEF OneRoute
-----------------------------------------------------------------------------
(* There is a free block as long as not all of them are listed.             *)
LEMMA FreeBlockIsFree ==
  ASSUME NEW t \in Tab, Listed(t) # Block
  PROVE  FreeBlock(t) \in Block \ Listed(t)
<1> DEFINE free == Block \ Listed(t)
<1>0. Listed(t) \subseteq Block
  BY ListedType
<1>a. Block \subseteq Nat
  BY LimitAssumption DEF Block
<1>1. free \in SUBSET Nat /\ free # {}
  BY <1>0, <1>a
<1>2. \E b \in free : \A c \in free : b <= c
  <2> HIDE DEF free
  <2> QED
    BY <1>1, LeastNat
<1> QED
  BY <1>2 DEF FreeBlock

LEMMA RoomIsFree ==
  ASSUME NEW t \in Tab, Agree(t), t.num # MaxRoutes
  PROVE  Listed(t) # Block
BY ListedType DEF Agree

(* Changing fields of a table.                                              *)
LEMMA TabExcept ==
  ASSUME NEW t \in Tab, NEW route \in [Block -> Route \cup {Free}],
         NEW attached \in [Ll -> SUBSET Block], NEW used \in SUBSET Ll, NEW num \in Nat
  PROVE  [t EXCEPT !.route = route, !.attached = attached, !.used = used, !.num = num] \in Tab
BY DEF Tab

(* uip_ds6_route_rm takes exactly the routes it is given.                   *)
LEMMA RouteRmType ==
  ASSUME NEW t \in Tab, NEW blocks, Agree(t)
  PROVE  /\ RouteRm(t, blocks) \in Tab
         /\ Listed(RouteRm(t, blocks)) = Listed(t) \ blocks
         /\ \A b \in Listed(t) \ blocks : RouteRm(t, blocks).route[b] = t.route[b]
         /\ RouteRm(t, blocks).nbr = t.nbr
         /\ RouteRm(t, blocks).num = Cardinality(Listed(t) \ blocks)
<1> DEFINE r == RouteRm(t, blocks)
<1>1. /\ r.route = [b \in Block |-> IF b \in blocks THEN Free ELSE t.route[b]]
      /\ r.attached = [l \in Ll |-> t.attached[l] \ blocks]
      /\ r.used = {l \in t.used : t.attached[l] \cap blocks = {} \/ ~ t.attached[l] \subseteq blocks}
      /\ r.num = t.num - Cardinality(Listed(t) \cap blocks)
      /\ r.nbr = t.nbr
  BY DEF RouteRm, Tab
<1>2. Listed(r) = Listed(t) \ blocks
  BY <1>1 DEF Listed
<1>3. r.num = Cardinality(Listed(t) \ blocks) /\ r.num \in Nat
  <2>1. IsFiniteSet(Listed(t))
    BY ListedType
  <2>2. /\ IsFiniteSet(Listed(t) \ blocks)
        /\ Cardinality(Listed(t) \ blocks) = Cardinality(Listed(t)) - Cardinality(Listed(t) \cap blocks)
    BY <2>1, FS_Difference
  <2>3. t.num = Cardinality(Listed(t))
    BY DEF Agree
  <2>4. Cardinality(Listed(t) \ blocks) \in Nat
    BY <2>2, FS_CardinalityType
  <2> QED
    BY <1>1, <2>2, <2>3, <2>4
<1>4. r \in Tab
  <2>1. r = [t EXCEPT !.route = r.route, !.attached = r.attached, !.used = r.used, !.num = r.num]
    BY <1>1 DEF RouteRm
  <2>2. r.route \in [Block -> Route \cup {Free}]
    BY <1>1 DEF Tab
  <2>3. r.attached \in [Ll -> SUBSET Block] /\ r.used \in SUBSET Ll
    BY <1>1 DEF Tab
  <2> HIDE DEF r
  <2>4. [t EXCEPT !.route = r.route, !.attached = r.attached, !.used = r.used, !.num = r.num] \in Tab
    BY <2>2, <2>3, <1>3, TabExcept, Zenon
  <2> QED
    BY <2>1, <2>4, Zenon
<1>5. \A b \in Listed(t) \ blocks : r.route[b] = t.route[b]
  BY <1>1 DEF Listed
<1> QED
  BY <1>1, <1>2, <1>3, <1>4, <1>5

LEMMA RouteRmWell ==
  ASSUME NEW t, NEW blocks, Well(t)
  PROVE  Well(RouteRm(t, blocks))
<1> USE DEF Well
<1> DEFINE r == RouteRm(t, blocks)
<1>1. /\ r \in Tab
      /\ Listed(r) = Listed(t) \ blocks
      /\ \A b \in Listed(t) \ blocks : r.route[b] = t.route[b]
      /\ r.num = Cardinality(Listed(t) \ blocks)
  BY RouteRmType
<1>2. /\ r.attached = [l \in Ll |-> t.attached[l] \ blocks]
      /\ r.used = {l \in t.used : t.attached[l] \cap blocks = {} \/ ~ t.attached[l] \subseteq blocks}
  BY DEF RouteRm, Tab
<1> HIDE DEF r
<1>3. \A l \in Ll : r.attached[l] = {b \in Listed(r) : r.route[b].hop = l}
  BY <1>1, <1>2 DEF Agree
<1>4. r.used = {l \in Ll : r.attached[l] # {}}
  BY <1>2 DEF Agree
<1>5. OneRoute(r)
  BY <1>1 DEF OneRoute
<1> QED
  BY <1>1, <1>3, <1>4, <1>5 DEF Agree, r

(* A table stays well formed when its routes are only marked, given another *)
(* lifetime, or when neighbors come, go or move.                            *)
LEMMA SameRoutesWell ==
  ASSUME NEW t, NEW u, Well(t), u \in Tab, Listed(u) = Listed(t),
         \A b \in Listed(t) : u.route[b].dest = t.route[b].dest /\ u.route[b].hop = t.route[b].hop,
         u.attached = t.attached, u.used = t.used, u.num = t.num
  PROVE  Well(u)
<1> USE DEF Well
<1>1. Agree(u)
  BY DEF Agree
<1>2. OneRoute(u)
  BY DEF OneRoute
<1> QED
  BY <1>1, <1>2

(* A route in a free block, attached to its neighbor if it has one.         *)
LEMMA PlacedWell ==
  ASSUME NEW t, NEW u, Well(t), u \in Tab,
         NEW b \in Block \ Listed(t), NEW new \in Route,
         \A c \in Listed(t) : t.route[c].dest # new.dest,
         u.route = [t.route EXCEPT ![b] = new],
         u.attached = [l \in Ll |-> IF l = new.hop THEN t.attached[l] \cup {b} ELSE t.attached[l]],
         u.used = t.used \cup ({new.hop} \cap Ll),
         u.num = t.num + 1
  PROVE  Well(u) /\ Listed(u) = Listed(t) \cup {b}
<1> USE DEF Well
<1>0. t.route \in [Block -> Route \cup {Free}]
  BY DEF Tab
<1>1. u.route[b] = new /\ \A c \in Block \ {b} : u.route[c] = t.route[c]
  BY <1>0
<1>2. Listed(u) = Listed(t) \cup {b}
  BY <1>1, RouteFree DEF Listed
<1>3. \A l \in Ll : u.attached[l] = {c \in Listed(u) : u.route[c].hop = l}
  <2> TAKE l \in Ll
  <2>1. t.attached[l] = {c \in Listed(t) : t.route[c].hop = l}
    BY DEF Agree
  <2>2. {c \in Listed(u) : u.route[c].hop = l}
          = {c \in Listed(t) : t.route[c].hop = l} \cup (IF new.hop = l THEN {b} ELSE {})
    BY <1>1, <1>2 DEF Listed
  <2> QED
    BY <2>1, <2>2
<1>4. u.used = {l \in Ll : u.attached[l] # {}}
  BY DEF Agree
<1>5. u.num = Cardinality(Listed(u))
  <2>1. Cardinality(Listed(t) \cup {b}) = Cardinality(Listed(t)) + 1
    BY ListedType, FS_AddElement
  <2> QED
    BY <1>2, <2>1 DEF Agree
<1>6. OneRoute(u)
  BY <1>1, <1>2 DEF OneRoute, Listed
<1> QED
  BY <1>2, <1>3, <1>4, <1>5, <1>6 DEF Agree

(* uip_ds6_route_add's own part: a block, attached to the neighbor.         *)
LEMMA AttachedWell ==
  ASSUME NEW t, Well(t), NEW b \in Block \ Listed(t), NEW d \in Dest, NEW l \in Ll,
         \A c \in Listed(t) : t.route[c].dest # d
  PROVE  LET u == Attached(t, b, d, l) IN
         /\ Well(u) /\ Listed(u) = Listed(t) \cup {b} /\ u.nbr = t.nbr
         /\ u.route[b].dest = d /\ u.route[b].hop = l
         /\ \A c \in Listed(t) : u.route[c] = t.route[c]
<1> DEFINE u == Attached(t, b, d, l)
           new == New(d, l, 0)
<1>1. new \in Route /\ new.dest = d /\ new.hop = l
  BY LifetimeAssumption DEF New, Route, Lifetime, Infinite
<1>2. /\ u.route = [t.route EXCEPT ![b] = new]
      /\ u.attached = [t.attached EXCEPT ![l] = @ \cup {b}]
      /\ u.used = t.used \cup {l}
      /\ u.num = t.num + 1
      /\ u.nbr = t.nbr
  BY DEF Attached, Well, Tab
<1>3. u \in Tab
  <2>1. u = [t EXCEPT !.route = u.route, !.attached = u.attached, !.used = u.used, !.num = u.num]
    BY <1>2 DEF Attached
  <2>2. u.route \in [Block -> Route \cup {Free}] /\ u.num \in Nat
    BY <1>1, <1>2 DEF Well, Tab
  <2>3. u.attached \in [Ll -> SUBSET Block] /\ u.used \in SUBSET Ll
    BY <1>2 DEF Well, Tab
  <2>4. t \in Tab
    BY DEF Well
  <2> HIDE DEF u
  <2>5. [t EXCEPT !.route = u.route, !.attached = u.attached, !.used = u.used, !.num = u.num] \in Tab
    BY <2>2, <2>3, <2>4, TabExcept, Zenon
  <2> QED
    BY <2>1, <2>5, Zenon
<1>4. u.attached = [k \in Ll |-> IF k = new.hop THEN t.attached[k] \cup {b} ELSE t.attached[k]]
  BY <1>1, <1>2 DEF Well, Tab
<1>5. u.used = t.used \cup ({new.hop} \cap Ll)
  BY <1>1, <1>2
<1> HIDE DEF u, new
<1>6. Well(u) /\ Listed(u) = Listed(t) \cup {b}
  BY <1>1, <1>2, <1>3, <1>4, <1>5, PlacedWell
<1>7. u.route[b] = new /\ \A c \in Listed(t) : u.route[c] = t.route[c]
  BY <1>2 DEF Well, Tab, Listed
<1> QED
  BY <1>1, <1>2, <1>6, <1>7 DEF u

(* A static route: a block, attached to no neighbor.                        *)
LEMMA StaticWell ==
  ASSUME NEW t, Well(t), NEW b \in Block \ Listed(t), NEW d \in Dest, NEW ip \in Ip,
         \A c \in Listed(t) : t.route[c].dest # d
  PROVE  Well([t EXCEPT !.route[b] = New(d, ip, Infinite), !.num = @ + 1])
<1> DEFINE u == [t EXCEPT !.route[b] = New(d, ip, Infinite), !.num = @ + 1]
           new == New(d, ip, Infinite)
<1>1. new \in Route /\ new.dest = d /\ new.hop \notin Ll
  BY LifetimeAssumption, AddressAssumption DEF New, Route, Lifetime, Infinite
<1>2. /\ u.route = [t.route EXCEPT ![b] = new]
      /\ u.attached = t.attached /\ u.used = t.used
      /\ u.num = t.num + 1
  BY DEF Well, Tab
<1>3. u \in Tab
  <2>1. u = [t EXCEPT !.route = u.route, !.attached = u.attached, !.used = u.used, !.num = u.num]
    BY <1>2 DEF Well, Tab
  <2>2. u.route \in [Block -> Route \cup {Free}] /\ u.num \in Nat
    BY <1>1, <1>2 DEF Well, Tab
  <2>3. u.attached \in [Ll -> SUBSET Block] /\ u.used \in SUBSET Ll
    BY <1>2 DEF Well, Tab
  <2>4. t \in Tab
    BY DEF Well
  <2> HIDE DEF u
  <2>5. [t EXCEPT !.route = u.route, !.attached = u.attached, !.used = u.used, !.num = u.num] \in Tab
    BY <2>2, <2>3, <2>4, TabExcept, Zenon
  <2> QED
    BY <2>1, <2>5, Zenon
<1>4. u.attached = [k \in Ll |-> IF k = new.hop THEN t.attached[k] \cup {b} ELSE t.attached[k]]
  BY <1>1, <1>2 DEF Well, Tab
<1>5. u.used = t.used \cup ({new.hop} \cap Ll)
  BY <1>1, <1>2
<1> HIDE DEF u, new
<1>6. Well(u)
  BY <1>1, <1>2, <1>3, <1>4, <1>5, PlacedWell
<1> QED
  BY <1>6 DEF u
-----------------------------------------------------------------------------
(* Once the route that matches best is removed, the destination has none of *)
(* its own.                                                                 *)
LEMMA NoOwnRouteLeft ==
  ASSUME NEW t, Well(t), NEW d \in Dest
  PROVE  LET r == RouteRm(t, Found(Lookup(t, d))) IN
         /\ Well(r) /\ r.nbr = t.nbr
         /\ Listed(r) = Listed(t) \ {Lookup(t, d)}
         /\ \A c \in Listed(r) : r.route[c] = t.route[c] /\ r.route[c].dest # d
<1> DEFINE r == RouteRm(t, Found(Lookup(t, d)))
<1>1. Well(r)
  BY RouteRmWell
<1>2. 0 \notin Listed(t)
  BY LimitAssumption DEF Listed, Block
<1>3. /\ r.nbr = t.nbr
      /\ Listed(r) = Listed(t) \ Found(Lookup(t, d))
      /\ \A c \in Listed(t) \ Found(Lookup(t, d)) : r.route[c] = t.route[c]
  BY RouteRmType DEF Well
<1>4. Listed(r) = Listed(t) \ {Lookup(t, d)}
  BY <1>2, <1>3 DEF Found
<1> HIDE DEF r
<1>5. ASSUME NEW c \in Listed(r) PROVE r.route[c] = t.route[c] /\ r.route[c].dest # d
  <2>1. c \in Listed(t) /\ c # Lookup(t, d) /\ r.route[c] = t.route[c]
    BY <1>3, <1>4
  <2> QED
    BY <2>1, LookupOwn DEF Well
<1> QED
  BY <1>1, <1>3, <1>4, <1>5 DEF r

(* The key under which a neighbor is known.                                 *)
LEMMA LlOfNbr ==
  ASSUME NEW t \in Tab, NEW ip \in Ip, LlOf(t, ip) # NoLl
  PROVE  LlOf(t, ip) \in Ll /\ t.nbr[LlOf(t, ip)] = ip
BY DEF LlOf

(* uip_ds6_route_add: what it returns leads to the next hop wanted, and it  *)
(* touches no other route than the one that matched.                        *)
LEMMA RouteAddWell ==
  ASSUME NEW t, Well(t), NEW d \in Dest, NEW ip \in Ip
  PROVE  LET a == RouteAdd(t, d, ip) IN
         /\ Well(a.tab) /\ a.tab.nbr = t.nbr
         /\ a.block # None =>
              /\ a.block \in Listed(a.tab) /\ Lookup(a.tab, d) = a.block
              /\ Nexthop(a.tab, a.block) = ip
         /\ \A c \in Listed(t) \ {Lookup(t, d)} : c \in Listed(a.tab) /\ a.tab.route[c] = t.route[c]
<1> DEFINE a == RouteAdd(t, d, ip)
           l == LlOf(t, ip)
           b == Lookup(t, d)
           r == RouteRm(t, Found(b))
           f == FreeBlock(r)
<1>0. t \in Tab
  BY DEF Well
<1>1. CASE l = NoLl
  <2>1. a = Result(t, None)
    BY <1>1 DEF RouteAdd
  <2> QED
    BY <2>1 DEF Result
<1>2. CASE l # NoLl /\ SameHop(t, b, ip)
  <2>1. a.tab = t /\ a.block = b
    BY <1>2 DEF RouteAdd, Result
  <2>2. b # None /\ Nexthop(t, b) = ip
    BY <1>2 DEF SameHop
  <2>3. b \in Listed(t)
    BY <1>0, <2>2, LookupListed
  <2> QED
    BY <2>1, <2>2, <2>3
<1>3. CASE l # NoLl /\ ~SameHop(t, b, ip) /\ r.num = MaxRoutes
  <2>1. a.tab = r /\ a.block = None
    BY <1>3 DEF RouteAdd, Result
  <2>2. Well(r) /\ r.nbr = t.nbr /\ Listed(r) = Listed(t) \ {b} /\ \A c \in Listed(r) : r.route[c] = t.route[c]
    BY NoOwnRouteLeft
  <2> HIDE DEF a, r
  <2> QED
    BY <2>1, <2>2 DEF a
<1>4. CASE l # NoLl /\ ~SameHop(t, b, ip) /\ r.num # MaxRoutes
  <2> DEFINE u == Attached(r, f, d, l)
  <2>1. a.tab = u /\ a.block = f
    BY <1>4 DEF RouteAdd, Result
  <2>2. /\ Well(r) /\ r.nbr = t.nbr /\ Listed(r) = Listed(t) \ {b}
        /\ \A c \in Listed(r) : r.route[c] = t.route[c] /\ r.route[c].dest # d
    BY NoOwnRouteLeft
  <2>3. f \in Block \ Listed(r)
    BY <1>4, <2>2, RoomIsFree, FreeBlockIsFree DEF Well
  <2>4. l \in Ll /\ t.nbr[l] = ip
    BY <1>0, <1>4, LlOfNbr
  <2> HIDE DEF a, r, f, l
  <2>5. /\ Well(u) /\ Listed(u) = Listed(r) \cup {f} /\ u.nbr = r.nbr
        /\ u.route[f].dest = d /\ u.route[f].hop = l
        /\ \A c \in Listed(r) : u.route[c] = r.route[c]
    BY <2>2, <2>3, <2>4, AttachedWell
  <2> HIDE DEF u
  <2>6. Lookup(u, d) = f
    BY <2>5, LookupOwn DEF Well
  <2>7. Nexthop(u, f) = ip
    BY <2>2, <2>4, <2>5, AddressAssumption DEF Nexthop
  <2> QED
    BY <2>1, <2>2, <2>5, <2>6, <2>7 DEF a
<1> QED
  BY <1>1, <1>2, <1>3, <1>4

(* uip_ds6_route_add_static.                                                *)
LEMMA AddStaticWell ==
  ASSUME NEW t, Well(t), NEW d \in Dest, NEW ip \in Ip
  PROVE  Well(AddStatic(t, d, ip))
<1> DEFINE b == Lookup(t, d)
           r == RouteRm(t, Found(b))
<1>1. CASE SameHop(t, b, ip)
  BY <1>1 DEF AddStatic
<1>2. Well(r) /\ \A c \in Listed(r) : r.route[c].dest # d
  BY NoOwnRouteLeft
<1>3. CASE ~SameHop(t, b, ip) /\ Listed(r) = Block
  BY <1>2, <1>3 DEF AddStatic
<1>4. CASE ~SameHop(t, b, ip) /\ Listed(r) # Block
  <2>1. AddStatic(t, d, ip) = [r EXCEPT !.route[FreeBlock(r)] = New(d, ip, Infinite), !.num = @ + 1]
    BY <1>4 DEF AddStatic
  <2>2. FreeBlock(r) \in Block \ Listed(r)
    BY <1>2, <1>4, FreeBlockIsFree DEF Well
  <2> HIDE DEF r
  <2>3. Well([r EXCEPT !.route[FreeBlock(r)] = New(d, ip, Infinite), !.num = @ + 1])
    <3> DEFINE f == FreeBlock(r)
    <3>1. f \in Block \ Listed(r)
      BY <2>2
    <3> HIDE DEF f
    <3>2. Well([r EXCEPT !.route[f] = New(d, ip, Infinite), !.num = @ + 1])
      BY <1>2, <3>1, StaticWell
    <3> QED
      BY <3>2 DEF f
  <2> QED
    BY <2>1, <2>3, Zenon
<1> QED
  BY <1>1, <1>3, <1>4

(* rpl_add_route: what it returns leads to the next hop wanted, or nowhere. *)
LEMMA RplAddRouteWell ==
  ASSUME NEW t, Well(t), NEW d \in Dest, NEW ip \in Ip
  PROVE  LET a == RplAddRoute(t, d, ip) IN
         /\ Well(a.tab) /\ a.tab.nbr = t.nbr
         /\ a.block # None =>
              /\ a.block \in Listed(a.tab) /\ Lookup(a.tab, d) = a.block
              /\ Nexthop(a.tab, a.block) \in {ip, NoIp}
         /\ \A c \in Listed(t) \ {Lookup(t, d)} : c \in Listed(a.tab) /\ a.tab.route[c] = t.route[c]
<1> DEFINE a == RplAddRoute(t, d, ip)
           b == Lookup(t, d)
<1>1. CASE b # None /\ Nexthop(t, b) \in {NoIp, ip}
  <2>1. a.tab = t /\ a.block = b
    BY <1>1 DEF RplAddRoute, Result
  <2>2. b \in Listed(t)
    BY <1>1, LookupListed DEF Well
  <2> QED
    BY <1>1, <2>1, <2>2
<1>2. CASE ~ (b # None /\ Nexthop(t, b) \in {NoIp, ip})
  <2>1. a = RouteAdd(t, d, ip)
    BY <1>2 DEF RplAddRoute
  <2> HIDE DEF a
  <2> QED
    BY <2>1, RouteAddWell DEF a
<1> QED
  BY <1>1, <1>2

(* Changing what a route is not found by.                                   *)
LEMMA RouteTouched ==
  ASSUME NEW t, Well(t), NEW b \in Listed(t), NEW lifetime \in Lifetime,
         NEW nopath \in BOOLEAN, NEW dag \in BOOLEAN
  PROVE  LET u == [t EXCEPT !.route[b] = [@ EXCEPT !.dag = dag, !.lifetime = lifetime, !.nopath = nopath]] IN
         /\ Well(u) /\ u.nbr = t.nbr /\ Listed(u) = Listed(t)
         /\ \A c \in Listed(t) : u.route[c].dest = t.route[c].dest /\ u.route[c].hop = t.route[c].hop
         /\ \A c \in Listed(t) \ {b} : u.route[c] = t.route[c]
<1> DEFINE u == [t EXCEPT !.route[b] = [@ EXCEPT !.dag = dag, !.lifetime = lifetime, !.nopath = nopath]]
           new == [t.route[b] EXCEPT !.dag = dag, !.lifetime = lifetime, !.nopath = nopath]
<1>0. t \in Tab /\ Listed(t) \subseteq Block /\ t.route[b] \in Route
  BY ListedType DEF Well
<1>1. new \in Route /\ new.dest = t.route[b].dest /\ new.hop = t.route[b].hop
  BY <1>0 DEF Route
<1>2. /\ u.route = [t.route EXCEPT ![b] = new]
      /\ u.attached = t.attached /\ u.used = t.used /\ u.num = t.num /\ u.nbr = t.nbr
  BY <1>0 DEF Tab
<1>3. u.route \in [Block -> Route \cup {Free}]
  BY <1>0, <1>1, <1>2 DEF Tab
<1>4. u \in Tab
  BY <1>0, <1>3 DEF Tab
<1> HIDE DEF u, new
<1>5. u.route[b] = new /\ \A c \in Block \ {b} : u.route[c] = t.route[c]
  BY <1>0, <1>2 DEF Tab
<1>6. Listed(u) = Listed(t)
  BY <1>0, <1>1, <1>5, RouteFree DEF Listed
<1>7. \A c \in Listed(t) : u.route[c].dest = t.route[c].dest /\ u.route[c].hop = t.route[c].hop
  BY <1>0, <1>1, <1>5
<1>8. Well(u)
  BY <1>2, <1>4, <1>6, <1>7, SameRoutesWell
<1> QED
  BY <1>0, <1>2, <1>5, <1>6, <1>7, <1>8 DEF u

LEMMA RefreshedWell ==
  ASSUME NEW t, Well(t), NEW b \in Listed(t), NEW lifetime \in Lifetime
  PROVE  LET u == Refreshed(t, b, lifetime) IN
         /\ Well(u) /\ u.nbr = t.nbr /\ Listed(u) = Listed(t)
         /\ \A c \in Listed(t) : u.route[c].dest = t.route[c].dest /\ u.route[c].hop = t.route[c].hop
         /\ \A c \in Listed(t) \ {b} : u.route[c] = t.route[c]
BY RouteTouched DEF Refreshed

(* The neighbors change, the routes do not.                                 *)
LEMMA NbrWell ==
  ASSUME NEW t, Well(t), NEW nbr \in [Ll -> Ip \cup {NoIp}]
  PROVE  LET u == [t EXCEPT !.nbr = nbr] IN
         Well(u) /\ u.nbr = nbr /\ Listed(u) = Listed(t) /\ u.route = t.route
<1> DEFINE u == [t EXCEPT !.nbr = nbr]
<1>1. /\ u \in Tab /\ u.nbr = nbr /\ u.route = t.route
      /\ u.attached = t.attached /\ u.used = t.used /\ u.num = t.num
  BY DEF Well, Tab
<1>2. Listed(u) = Listed(t)
  BY <1>1 DEF Listed
<1> HIDE DEF u
<1>3. Well(u)
  BY <1>1, <1>2, SameRoutesWell
<1> QED
  BY <1>1, <1>2, <1>3 DEF u

LEMMA EvictedWell ==
  ASSUME NEW t, Well(t), NEW l
  PROVE  LET u == Evicted(t, l) IN
         /\ Well(u) /\ Listed(u) = Listed(t) /\ u.route = t.route
         /\ u.nbr = [k \in Ll |-> IF k = l THEN NoIp ELSE t.nbr[k]]
<1>1. [k \in Ll |-> IF k = l THEN NoIp ELSE t.nbr[k]] \in [Ll -> Ip \cup {NoIp}]
  BY DEF Well, Tab
<1> QED
  BY <1>1, NbrWell DEF Evicted

(* Setting the address of one neighbor.                                     *)
LEMMA NbrSetWell ==
  ASSUME NEW t, Well(t), NEW l \in Ll, NEW ip \in Ip \cup {NoIp}
  PROVE  LET u == [t EXCEPT !.nbr[l] = ip] IN
         /\ Well(u) /\ Listed(u) = Listed(t) /\ u.route = t.route
         /\ u.nbr = [t.nbr EXCEPT ![l] = ip]
<1>1. [t.nbr EXCEPT ![l] = ip] \in [Ll -> Ip \cup {NoIp}]
  BY DEF Well, Tab
<1>2. [t EXCEPT !.nbr[l] = ip] = [t EXCEPT !.nbr = [t.nbr EXCEPT ![l] = ip]]
  OBVIOUS
<1> QED
  BY <1>1, <1>2, NbrWell

(* What a lookup finds depends on the destinations only.                    *)
LEMMA LookupSame ==
  ASSUME NEW t, NEW u, NEW d \in Dest, Listed(u) = Listed(t),
         \A b \in Listed(t) : u.route[b].dest = t.route[b].dest
  PROVE  Lookup(u, d) = Lookup(t, d)
<1>1. Matches(u, d) = Matches(t, d)
  BY DEF Matches
<1>2. \A b \in Matches(t, d) : u.route[b].dest = t.route[b].dest
  BY DEF Matches
<1>3. Longest(u, d) = Longest(t, d)
  BY <1>1, <1>2 DEF Longest
<1> QED
  BY <1>3 DEF Lookup
-----------------------------------------------------------------------------
(* rpl_icmp6_update_nbr_table: no route is touched, and the neighbor that   *)
(* may go is no next hop.                                                   *)
LEMMA UpdateNbrTableWell ==
  ASSUME NEW t, Well(t), NEW s \in Senders(t)
  PROVE  LET n == UpdateNbrTable(t, s) IN
         /\ Well(n) /\ Listed(n) = Listed(t) /\ n.route = t.route
         /\ \A b \in Listed(t) : t.route[b].hop = s.l \/ Nexthop(n, b) = Nexthop(t, b)
<1> DEFINE n == UpdateNbrTable(t, s)
           e == Evicted(t, s.victim)
<1>0. /\ s.ip \in Ip /\ s.l \in Ll
      /\ LlOf(t, s.ip) = NoLl /\ s.room => s.victim = NoLl \/ s.victim \in Removable(t)
  BY AddressAssumption DEF Senders, Sender
<1>1. CASE LlOf(t, s.ip) # NoLl \/ ~s.room
  <2>1. n = t
    BY <1>1 DEF UpdateNbrTable
  <2> QED
    BY <2>1
<1>2. CASE LlOf(t, s.ip) = NoLl /\ s.room
  <2>1. /\ Well(e) /\ Listed(e) = Listed(t) /\ e.route = t.route
        /\ e.nbr = [k \in Ll |-> IF k = s.victim THEN NoIp ELSE t.nbr[k]]
    BY EvictedWell
  <2>2. n = [e EXCEPT !.nbr[s.l] = s.ip]
    BY <1>2 DEF UpdateNbrTable, NbrAdd
  <2> HIDE DEF n, e
  <2>3. /\ Well(n) /\ Listed(n) = Listed(t) /\ n.route = t.route
        /\ n.nbr = [e.nbr EXCEPT ![s.l] = s.ip]
    BY <1>0, <2>1, <2>2, NbrSetWell
  <2>4. ASSUME NEW b \in Listed(t), t.route[b].hop # s.l PROVE Nexthop(n, b) = Nexthop(t, b)
    <3> DEFINE hop == t.route[b].hop
    <3>1. hop \in Ll \cup Ip
      BY ListedType DEF Well, Route
    <3>2. CASE hop \in Ip
      BY <2>3, <3>2 DEF Nexthop
    <3>3. CASE hop \in Ll
      <4>1. hop \in t.used
        BY <3>3 DEF Well, Agree
      <4>2. hop # s.victim
        BY <1>0, <1>2, <3>3, <4>1, AddressAssumption DEF Removable
      <4>3. n.nbr[hop] = t.nbr[hop]
        BY <2>1, <2>3, <2>4, <3>3, <4>2
      <4>4. hop \notin Ip
        BY <3>3, AddressAssumption
      <4> QED
        BY <2>3, <4>3, <4>4 DEF Nexthop
    <3> QED
      BY <3>1, <3>2, <3>3
  <2> QED
    BY <2>3, <2>4 DEF n
<1> QED
  BY <1>1, <1>2

(* dao_input_storing: the routes stay well formed; a DAO that is            *)
(* acknowledged has left its destination a route by its sender, or one      *)
(* whose next hop is gone; the routes of other destinations are kept.       *)
LEMMA DaoInputWell ==
  ASSUME NEW t, Well(t), NEW s \in Senders(t), NEW d \in Dest, NEW lifetime \in Lifetime
  PROVE  LET a == DaoInput(t, s, d, lifetime) IN
         /\ Well(a.tab)
         /\ a.block # None =>
              Lookup(a.tab, d) # None /\ Nexthop(a.tab, Lookup(a.tab, d)) \in {s.ip, NoIp}
         /\ \A b \in Listed(t) : d \notin Covers[t.route[b].dest] =>
              /\ a.tab.route[b] = t.route[b]
              /\ Nexthop(a.tab, b) = Nexthop(t, b) \/ t.route[b].hop = s.l
<1> DEFINE n == UpdateNbrTable(t, s)
           r == RplAddRoute(n, d, s.ip)
           a == DaoInput(t, s, d, lifetime)
<1>0. s.ip \in Ip
  BY DEF Senders, Sender
<1>1. /\ Well(n) /\ Listed(n) = Listed(t) /\ n.route = t.route
      /\ \A b \in Listed(t) : t.route[b].hop = s.l \/ Nexthop(n, b) = Nexthop(t, b)
  BY UpdateNbrTableWell
<1>2. CASE LlOf(n, s.ip) = NoLl
  <2>1. a.tab = n /\ a.block = None
    BY <1>2 DEF DaoInput, Result
  <2> HIDE DEF a, n
  <2> QED
    BY <1>1, <2>1 DEF a
<1>3. /\ Well(r.tab) /\ r.tab.nbr = n.nbr
      /\ r.block # None =>
           /\ r.block \in Listed(r.tab) /\ Lookup(r.tab, d) = r.block
           /\ Nexthop(r.tab, r.block) \in {s.ip, NoIp}
      /\ \A c \in Listed(n) \ {Lookup(n, d)} : c \in Listed(r.tab) /\ r.tab.route[c] = n.route[c]
  <2> HIDE DEF n
  <2> QED
    BY <1>0, <1>1, RplAddRouteWell
<1>4. ASSUME NEW b \in Listed(t), d \notin Covers[t.route[b].dest]
      PROVE  /\ b \in Listed(r.tab) /\ r.tab.route[b] = t.route[b]
             /\ Nexthop(r.tab, b) = Nexthop(t, b) \/ t.route[b].hop = s.l
  <2>0. 0 \notin Listed(t)
    BY LimitAssumption DEF Listed, Block
  <2>1. b # Lookup(n, d)
    <3> HIDE DEF n
    <3> QED
      BY <1>1, <1>4, <2>0, LookupListed DEF Well
  <2>2. b \in Listed(r.tab) /\ r.tab.route[b] = t.route[b]
    <3> HIDE DEF n, r
    <3> QED
      BY <1>1, <1>3, <2>1
  <2>3. Nexthop(r.tab, b) = Nexthop(n, b)
    <3> HIDE DEF n, r
    <3> QED
      BY <1>1, <1>3, <2>2 DEF Nexthop
  <2> QED
    BY <1>1, <2>2, <2>3
<1>5. CASE LlOf(n, s.ip) # NoLl /\ r.block = None
  <2>1. a = r
    BY <1>5 DEF DaoInput
  <2> HIDE DEF a, r, n
  <2> QED
    BY <1>3, <1>4, <1>5, <2>1 DEF a
<1>6. CASE LlOf(n, s.ip) # NoLl /\ r.block # None
  <2> DEFINE u == Refreshed(r.tab, r.block, lifetime)
  <2>1. a.tab = u /\ a.block = r.block
    BY <1>6 DEF DaoInput, Result
  <2> HIDE DEF a, r, n
  <2>2. /\ Well(u) /\ u.nbr = r.tab.nbr /\ Listed(u) = Listed(r.tab)
        /\ \A c \in Listed(r.tab) : u.route[c].dest = r.tab.route[c].dest /\ u.route[c].hop = r.tab.route[c].hop
        /\ \A c \in Listed(r.tab) \ {r.block} : u.route[c] = r.tab.route[c]
    BY <1>3, <1>6, RefreshedWell
  <2> HIDE DEF u
  <2>3. \A c \in Listed(r.tab) : Nexthop(u, c) = Nexthop(r.tab, c)
    BY <2>2 DEF Nexthop
  <2>4. Lookup(u, d) = r.block
    BY <1>3, <1>6, <2>2, LookupSame
  <2>5. Nexthop(u, Lookup(u, d)) \in {s.ip, NoIp}
    BY <1>3, <1>6, <2>3, <2>4
  <2>6. ASSUME NEW b \in Listed(t), d \notin Covers[t.route[b].dest]
        PROVE  u.route[b] = t.route[b] /\ (Nexthop(u, b) = Nexthop(t, b) \/ t.route[b].hop = s.l)
    <3>1. b # r.block
      BY <1>3, <1>4, <1>6, <2>6, LookupListed DEF Well
    <3> QED
      BY <1>4, <2>2, <2>3, <2>6, <3>1
  <2> QED
    BY <1>6, <2>1, <2>2, <2>4, <2>5, <2>6 DEF a
<1> QED
  BY <1>2, <1>5, <1>6

LEMMA InitWell == RoutesInit => Well(tab)
<1> SUFFICES ASSUME RoutesInit PROVE Well(tab)
  OBVIOUS
<1>1. tab \in Tab
  BY DEF RoutesInit, Tab
<1>2. Listed(tab) = {}
  BY DEF RoutesInit, Listed
<1>3. tab.num = 0 /\ tab.used = {} /\ tab.attached = [l \in Ll |-> {}]
  BY DEF RoutesInit
<1>4. Agree(tab)
  BY <1>2, <1>3, FS_EmptySet DEF Agree
<1>5. OneRoute(tab)
  BY <1>2 DEF OneRoute
<1> QED
  BY <1>1, <1>4, <1>5 DEF Well

(* A No-Path DAO.                                                           *)
LEMMA NoPathWell ==
  ASSUME NEW t, Well(t), NEW src \in Ip, NEW d \in Dest
  PROVE  Well(NoPath(t, src, d))
<1> DEFINE b == Lookup(t, d)
           u == [t EXCEPT !.route[b] = [@ EXCEPT !.nopath = TRUE, !.lifetime = NoPathDelay]]
           found == b # None /\ ~t.route[b].nopath /\ t.route[b].dest = d /\ Nexthop(t, b) = src
<1>1. CASE ~found
  BY <1>1 DEF NoPath
<1>2. CASE found
  <2>1. NoPath(t, src, d) = u
    BY <1>2 DEF NoPath
  <2>2. b \in Listed(t)
    BY <1>2, LookupListed DEF Well
  <2> HIDE DEF b
  <2>3. t.route[b] \in Route /\ b \in Block /\ t \in Tab
    BY <2>2, ListedType DEF Well
  <2> DEFINE dag == t.route[b].dag
  <2>4. dag \in BOOLEAN /\ NoPathDelay \in Lifetime
    BY <2>3, LifetimeAssumption DEF Route, Lifetime, Infinite
  <2>5. [t.route[b] EXCEPT !.nopath = TRUE, !.lifetime = NoPathDelay]
          = [t.route[b] EXCEPT !.dag = dag, !.lifetime = NoPathDelay, !.nopath = TRUE]
    BY <2>3 DEF Route
  <2>6. u = [t EXCEPT !.route[b] = [@ EXCEPT !.dag = dag, !.lifetime = NoPathDelay, !.nopath = TRUE]]
    BY <2>5
  <2> HIDE DEF u, dag
  <2>7. Well([t EXCEPT !.route[b] = [@ EXCEPT !.dag = dag, !.lifetime = NoPathDelay, !.nopath = TRUE]])
    BY <2>2, <2>4, RouteTouched
  <2> QED
    BY <2>1, <2>6, <2>7
<1> QED
  BY <1>1, <1>2

(* Giving a route another lifetime.                                         *)
LEMMA LifetimeWell ==
  ASSUME NEW t, Well(t), NEW b \in Listed(t), NEW lifetime \in Lifetime
  PROVE  Well([t EXCEPT !.route[b].lifetime = lifetime])
<1>1. t.route[b] \in Route /\ b \in Block /\ t \in Tab
  BY ListedType DEF Well
<1> DEFINE dag == t.route[b].dag
           nopath == t.route[b].nopath
<1>2. dag \in BOOLEAN /\ nopath \in BOOLEAN
  BY <1>1 DEF Route
<1>3. [t.route[b] EXCEPT !.lifetime = lifetime]
        = [t.route[b] EXCEPT !.dag = dag, !.lifetime = lifetime, !.nopath = nopath]
  BY <1>1 DEF Route
<1>4. [t EXCEPT !.route[b].lifetime = lifetime]
        = [t EXCEPT !.route[b] = [@ EXCEPT !.dag = dag, !.lifetime = lifetime, !.nopath = nopath]]
  BY <1>3
<1> HIDE DEF dag, nopath
<1>5. Well([t EXCEPT !.route[b] = [@ EXCEPT !.dag = dag, !.lifetime = lifetime, !.nopath = nopath]])
  BY <1>2, RouteTouched
<1> QED
  BY <1>4, <1>5

(* rpl_purge_routes.                                                        *)
LEMMA AgedWell ==
  ASSUME NEW t, Well(t)
  PROVE  Well(Aged(t))
<1> DEFINE u == Aged(t)
           dying == {b \in Listed(t) : t.route[b].lifetime \in 1 .. MaxLifetime}
<1>0. /\ t \in Tab /\ Listed(t) \subseteq Block /\ \A b \in Listed(t) : t.route[b] \in Route
      /\ t.route \in [Block -> Route \cup {Free}]
  BY ListedType DEF Well, Tab
<1>1. /\ u.attached = t.attached /\ u.used = t.used /\ u.num = t.num /\ u.nbr = t.nbr
      /\ u.route = [b \in Block |-> IF b \in dying THEN [t.route[b] EXCEPT !.lifetime = @ - 1] ELSE t.route[b]]
  BY <1>0 DEF Aged, Tab
<1>2. ASSUME NEW b \in dying
      PROVE  /\ u.route[b] \in Route
             /\ u.route[b].dest = t.route[b].dest /\ u.route[b].hop = t.route[b].hop
  <2>1. t.route[b] \in Route /\ t.route[b].lifetime \in 1 .. MaxLifetime /\ b \in Block
    BY <1>0
  <2>2. t.route[b].lifetime - 1 \in Lifetime
    BY <2>1, LifetimeAssumption DEF Lifetime, Infinite
  <2> QED
    BY <1>1, <2>1, <2>2 DEF Route
<1>3. \A b \in Block \ dying : u.route[b] = t.route[b]
  BY <1>1
<1> HIDE DEF dying
<1>4. u.route \in [Block -> Route \cup {Free}]
  BY <1>0, <1>1, <1>2, <1>3
<1>5. u \in Tab
  BY <1>0, <1>4 DEF Aged, Tab
<1> HIDE DEF u
<1>6. dying \subseteq Listed(t)
  BY DEF dying
<1>7. Listed(u) = Listed(t)
  <2>1. \A b \in Block : u.route[b] # Free <=> t.route[b] # Free
    BY <1>0, <1>2, <1>3, <1>6, RouteFree
  <2> QED
    BY <2>1 DEF Listed
<1>8. \A b \in Listed(t) : u.route[b].dest = t.route[b].dest /\ u.route[b].hop = t.route[b].hop
  BY <1>0, <1>2, <1>3
<1>9. Well(u)
  BY <1>1, <1>5, <1>7, <1>8, SameRoutesWell
<1> QED
  BY <1>9 DEF u

LEMMA PurgedWell ==
  ASSUME NEW t, Well(t)
  PROVE  Well(Purged(t))
BY AgedWell, RouteRmWell DEF Purged

(* uip_ds6_route_info_callback.                                             *)
LEMMA RouteInformationWell ==
  ASSUME NEW t, Well(t), NEW d \in Dest, NEW ip \in Ip, NEW lifetime \in Lifetime
  PROVE  Well(RouteInformation(t, d, ip, lifetime))
<1> DEFINE b == Lookup(t, d)
           a == RouteAdd(t, d, ip)
<1>1. CASE b = None /\ lifetime # 0
  <2>1. RouteInformation(t, d, ip, lifetime)
          = IF a.block = None THEN a.tab ELSE [a.tab EXCEPT !.route[a.block].lifetime = lifetime]
    BY <1>1 DEF RouteInformation
  <2>2. Well(a.tab) /\ (a.block # None => a.block \in Listed(a.tab))
    BY RouteAddWell
  <2> HIDE DEF a
  <2> QED
    BY <2>1, <2>2, LifetimeWell
<1>2. CASE b # None /\ lifetime # 0
  <2>1. RouteInformation(t, d, ip, lifetime) = [t EXCEPT !.route[b].lifetime = lifetime]
    BY <1>2 DEF RouteInformation
  <2>2. b \in Listed(t)
    BY <1>2, LookupListed DEF Well
  <2> HIDE DEF b
  <2> QED
    BY <2>1, <2>2, LifetimeWell
<1>3. CASE lifetime = 0
  <2>1. RouteInformation(t, d, ip, lifetime) = RouteRm(t, Found(b))
    BY <1>3 DEF RouteInformation
  <2> QED
    BY <2>1, RouteRmWell
<1> QED
  BY <1>1, <1>2, <1>3

HIDE DEF None
-----------------------------------------------------------------------------
(* Non-storing mode: in the graph of RplNs no identifier has two nodes, and *)
(* the counter says how many there are.                                     *)
USE DEF Null

Counted(n) == n.num = Len(n.list)

OneNode(n) == \A j, k \in DOMAIN n.list : n.node[n.list[j]].id = n.node[n.list[k]].id => j = k

NsWell(n) == n \in Graph /\ Counted(n) /\ OneNode(n)
-----------------------------------------------------------------------------
(* A sequence without one of its elements.                                  *)
LEMMA RemoveAtProperties ==
  ASSUME NEW S, NEW s \in Seq(S), NEW k \in 1 .. Len(s)
  PROVE  /\ RemoveAt(s, k) \in Seq(S)
         /\ Len(RemoveAt(s, k)) = Len(s) - 1
         /\ \A i \in 1 .. Len(s) - 1 :
              RemoveAt(s, k)[i] = IF i < k THEN s[i] ELSE s[i + 1]
<1> DEFINE a == SubSeq(s, 1, k - 1)
           b == SubSeq(s, k + 1, Len(s))
<1>1. a \in Seq(S) /\ Len(a) = k - 1 /\ \A i \in 1 .. k - 1 : a[i] = s[i]
  OBVIOUS
<1>2. b \in Seq(S) /\ Len(b) = Len(s) - k /\ \A i \in 1 .. Len(s) - k : b[i] = s[k + i]
  OBVIOUS
<1>3. RemoveAt(s, k) = a \o b
  BY DEF RemoveAt
<1> HIDE DEF a, b
<1>4. /\ a \o b \in Seq(S)
      /\ Len(a \o b) = Len(s) - 1
      /\ \A i \in 1 .. Len(s) - 1 : (a \o b)[i] = IF i <= Len(a) THEN a[i] ELSE b[i - Len(a)]
  BY <1>1, <1>2, ConcatProperties
<1>5. ASSUME NEW i \in 1 .. Len(s) - 1
      PROVE  (a \o b)[i] = IF i < k THEN s[i] ELSE s[i + 1]
  <2>1. CASE i < k
    BY <1>1, <1>4, <2>1
  <2>2. CASE ~ (i < k)
    <3>1. i - (k - 1) \in 1 .. Len(s) - k /\ k + (i - (k - 1)) = i + 1
      BY <2>2
    <3>2. (a \o b)[i] = b[i - (k - 1)]
      BY <1>1, <1>4, <2>2
    <3> QED
      BY <1>2, <2>2, <3>1, <3>2
  <2> QED
    BY <2>1, <2>2
<1> QED
  BY <1>3, <1>4, <1>5
-----------------------------------------------------------------------------
(* rpl_ns_get_node finds the node of an identifier that has one.            *)
LEMMA GetNodeFinds ==
  ASSUME NEW n \in Graph, NEW id
  PROVE  /\ Positions(n, id) = {} <=> GetNode(n, id) = Null
         /\ GetNode(n, id) # Null =>
              GetNode(n, id) \in InList(n) /\ GetNode(n, id) \in NsBlock /\ n.node[GetNode(n, id)].id = id
<1> DEFINE positions == Positions(n, id)
<1>0. n.list \in Seq(NsBlock) /\ DOMAIN n.list = 1 .. Len(n.list) /\ 0 \notin NsBlock
  BY MaxNodesAssumption DEF Graph, NsBlock
<1>1. CASE positions = {}
  BY <1>1 DEF GetNode
<1>2. CASE positions # {}
  <2>1. positions \subseteq Nat
    BY <1>0 DEF Positions
  <2>2. \E k \in positions : \A j \in positions : k <= j
    <3> HIDE DEF positions
    <3> QED
      BY <1>2, <2>1, LeastNat
  <2>3. PICK k \in positions : GetNode(n, id) = n.list[k]
    BY <1>2, <2>2 DEF GetNode
  <2>4. k \in DOMAIN n.list /\ n.node[n.list[k]].id = id
    BY <2>3 DEF Positions
  <2>5. n.list[k] \in NsBlock /\ n.list[k] \in InList(n)
    BY <1>0, <2>4 DEF InList
  <2> QED
    BY <1>0, <1>2, <2>3, <2>4, <2>5
<1> QED
  BY <1>1, <1>2

(* A node is given another parent or another lifetime.                      *)
LEMMA SameNodesWell ==
  ASSUME NEW n, NEW m, NsWell(n), m \in Graph, m.list = n.list, m.num = n.num,
         \A b \in NsBlock : m.node[b].id = n.node[b].id
  PROVE  NsWell(m)
<1>1. \A k \in DOMAIN n.list : n.list[k] \in NsBlock
  BY DEF NsWell, Graph
<1>2. OneNode(m)
  BY <1>1 DEF OneNode, NsWell
<1> QED
  BY <1>2 DEF NsWell, Counted

(* Changing fields of a graph.                                              *)
LEMMA GraphExcept ==
  ASSUME NEW n \in Graph, NEW list \in Seq(NsBlock), NEW num \in Nat,
         NEW node \in [NsBlock -> NsNode]
  PROVE  [n EXCEPT !.list = list, !.num = num, !.node = node] \in Graph
BY DEF Graph

LEMMA ListExcept ==
  ASSUME NEW n \in Graph, NEW list \in Seq(NsBlock), NEW num \in Nat
  PROVE  [n EXCEPT !.list = list, !.num = num] \in Graph
BY DEF Graph

(* A new node is the last of the list, in a block that was free.            *)
LEMMA AddedAt ==
  ASSUME NEW n, NsWell(n), NEW id \in NodeId, FreeBlocks(n) # {}
  PROVE  \E b \in NsBlock \ InList(n) :
           /\ Added(n, id) \in Graph
           /\ Added(n, id).list = Append(n.list, b)
           /\ Added(n, id).num = n.num + 1
           /\ Added(n, id).node = [n.node EXCEPT ![b] = [id |-> id, parent |-> Null, lifetime |-> NsInfinite]]
<1> DEFINE b == CHOOSE b \in FreeBlocks(n) : \A c \in FreeBlocks(n) : b <= c
           new == [id |-> id, parent |-> Null, lifetime |-> NsInfinite]
           m == [n EXCEPT !.list = Append(@, b), !.num = @ + 1, !.node[b] = new]
<1>0. n \in Graph /\ n.list \in Seq(NsBlock) /\ n.num \in Nat
  BY DEF NsWell, Graph
<1>1. FreeBlocks(n) \subseteq NsBlock /\ FreeBlocks(n) \subseteq Nat
  BY DEF FreeBlocks, NsBlock
<1>2. \E x \in FreeBlocks(n) : \A c \in FreeBlocks(n) : x <= c
  BY <1>1, LeastNat
<1>3. b \in FreeBlocks(n)
  BY <1>2
<1>4. b \in NsBlock /\ b \notin InList(n)
  BY <1>1, <1>3 DEF FreeBlocks
<1>5. Added(n, id) = m
  BY DEF Added
<1> HIDE DEF b
<1>6. new \in NsNode
  BY NsLifetimeAssumption DEF NsLifetime, NsInfinite, NsNode
<1> HIDE DEF new
<1>7. m.list = Append(n.list, b) /\ m.num = n.num + 1 /\ m.node = [n.node EXCEPT ![b] = new]
  BY <1>0 DEF Graph
<1>8. Append(n.list, b) \in Seq(NsBlock) /\ n.num + 1 \in Nat
  BY <1>0, <1>4
<1>9. [n.node EXCEPT ![b] = new] \in [NsBlock -> NsNode]
  BY <1>0, <1>4, <1>6 DEF Graph
<1>10. m = [n EXCEPT !.list = m.list, !.num = m.num, !.node = m.node]
  BY <1>7
<1> HIDE DEF m
<1>11. m.list \in Seq(NsBlock) /\ m.num \in Nat /\ m.node \in [NsBlock -> NsNode]
  BY <1>7, <1>8, <1>9, Zenon
<1>12. [n EXCEPT !.list = m.list, !.num = m.num, !.node = m.node] \in Graph
  BY <1>0, <1>11, GraphExcept, Zenon
<1>13. m \in Graph
  BY <1>10, <1>12, Zenon
<1> QED
  BY <1>4, <1>5, <1>7, <1>13 DEF new

(* An identifier that had no node has one.                                  *)
LEMMA AddedWell ==
  ASSUME NEW n, NsWell(n), NEW id \in NodeId, GetNode(n, id) = Null
  PROVE  NsWell(Added(n, id))
<1> DEFINE new == [id |-> id, parent |-> Null, lifetime |-> NsInfinite]
           m == Added(n, id)
<1>0. n \in Graph /\ n.list \in Seq(NsBlock) /\ n.num \in Nat /\ n.num = Len(n.list)
  BY DEF NsWell, Graph, Counted
<1>1. CASE FreeBlocks(n) = {}
  BY <1>1 DEF Added
<1>2. CASE FreeBlocks(n) # {}
  <2>1. PICK b \in NsBlock \ InList(n) :
          /\ m.list = Append(n.list, b) /\ m.num = n.num + 1 /\ m.node = [n.node EXCEPT ![b] = new]
          /\ m \in Graph
    BY <1>2, AddedAt
  <2>4. b \in NsBlock /\ b \notin InList(n)
    OBVIOUS
  <2>5. Added(n, id) = m
    OBVIOUS
  <2> HIDE DEF m, new
  <2>7. /\ m.list = Append(n.list, b) /\ m.num = n.num + 1 /\ m.node = [n.node EXCEPT ![b] = new]
        /\ m \in Graph
    BY <2>1
  <2>8. /\ Len(m.list) = Len(n.list) + 1
        /\ \A k \in 1 .. Len(n.list) : m.list[k] = n.list[k]
        /\ m.list[Len(n.list) + 1] = b
    BY <1>0, <2>4, <2>7
  <2>9. \A k \in 1 .. Len(n.list) : n.list[k] \in NsBlock \ {b} /\ n.node[n.list[k]].id # id
    <3>1. Positions(n, id) = {}
      BY <1>0, GetNodeFinds
    <3> QED
      BY <1>0, <2>4, <3>1 DEF InList, Positions
  <2>10. m.node[b].id = id /\ \A c \in NsBlock \ {b} : m.node[c] = n.node[c]
    BY <1>0, <2>4, <2>7 DEF Graph, new
  <2>11. OneNode(m)
    <3> SUFFICES ASSUME NEW j \in 1 .. Len(n.list) + 1, NEW k \in 1 .. Len(n.list) + 1,
                        m.node[m.list[j]].id = m.node[m.list[k]].id
                 PROVE  j = k
      BY <2>7, <2>8 DEF OneNode, Graph
    <3>0. \A i \in 1 .. Len(n.list) :
            m.node[m.list[i]].id = n.node[n.list[i]].id /\ m.node[m.list[i]].id # id
      <4> TAKE i \in 1 .. Len(n.list)
      <4>1. m.list[i] = n.list[i] /\ n.list[i] \in NsBlock \ {b} /\ n.node[n.list[i]].id # id
        BY <2>8, <2>9
      <4>2. m.node[n.list[i]] = n.node[n.list[i]]
        BY <2>10, <4>1
      <4> QED
        BY <4>1, <4>2
    <3>a. m.node[m.list[Len(n.list) + 1]].id = id
      BY <2>8, <2>10
    <3>b. DOMAIN n.list = 1 .. Len(n.list)
      BY <1>0
    <3>1. CASE j \in 1 .. Len(n.list) /\ k \in 1 .. Len(n.list)
      BY <3>0, <3>1, <3>b DEF NsWell, OneNode
    <3>2. CASE j = Len(n.list) + 1 /\ k \in 1 .. Len(n.list)
      <4>1. m.node[m.list[j]].id = id /\ m.node[m.list[k]].id # id
        BY <3>0, <3>a, <3>2
      <4> QED
        BY <4>1
    <3>3. CASE k = Len(n.list) + 1 /\ j \in 1 .. Len(n.list)
      <4>1. m.node[m.list[k]].id = id /\ m.node[m.list[j]].id # id
        BY <3>0, <3>a, <3>3
      <4> QED
        BY <4>1
    <3> QED
      BY <1>0, <3>1, <3>2, <3>3
  <2> QED
    BY <1>0, <2>5, <2>7, <2>8, <2>11 DEF NsWell, Counted
<1> QED
  BY <1>1, <1>2

LEMMA KnownWell ==
  ASSUME NEW n, NsWell(n), NEW id \in NodeId
  PROVE  NsWell(Known(n, id))
BY AddedWell DEF Known

(* Other contents of the blocks, with the same identifiers.                 *)
LEMMA NodeSetWell ==
  ASSUME NEW n, NsWell(n), NEW node \in [NsBlock -> NsNode],
         \A b \in NsBlock : node[b].id = n.node[b].id
  PROVE  NsWell([n EXCEPT !.node = node])
<1> DEFINE m == [n EXCEPT !.node = node]
<1>1. n \in Graph
  BY DEF NsWell
<1>2. m \in Graph /\ m.list = n.list /\ m.num = n.num /\ m.node = node
  BY <1>1 DEF Graph
<1> HIDE DEF m
<1>3. NsWell(m)
  BY <1>2, SameNodesWell
<1> QED
  BY <1>3 DEF m

LEMMA LifetimeSetWell ==
  ASSUME NEW n, NsWell(n), NEW b \in NsBlock, NEW lifetime \in NsLifetime
  PROVE  NsWell([n EXCEPT !.node[b].lifetime = lifetime])
<1> DEFINE node == [n.node EXCEPT ![b].lifetime = lifetime]
<1>1. n.node \in [NsBlock -> NsNode]
  BY DEF NsWell, Graph
<1>2. node \in [NsBlock -> NsNode] /\ \A c \in NsBlock : node[c].id = n.node[c].id
  BY <1>1 DEF NsNode
<1>3. [n EXCEPT !.node[b].lifetime = lifetime] = [n EXCEPT !.node = node]
  OBVIOUS
<1> HIDE DEF node
<1> QED
  BY <1>2, <1>3, NodeSetWell

LEMMA ParentSetWell ==
  ASSUME NEW n, NsWell(n), NEW b \in NsBlock, NEW parent \in NsBlock
  PROVE  NsWell([n EXCEPT !.node[b].parent = parent])
<1> DEFINE node == [n.node EXCEPT ![b].parent = parent]
<1>1. n.node \in [NsBlock -> NsNode]
  BY DEF NsWell, Graph
<1>2. node \in [NsBlock -> NsNode] /\ \A c \in NsBlock : node[c].id = n.node[c].id
  BY <1>1 DEF NsNode
<1>3. [n EXCEPT !.node[b].parent = parent] = [n EXCEPT !.node = node]
  OBVIOUS
<1> HIDE DEF node
<1> QED
  BY <1>2, <1>3, NodeSetWell

(* rpl_ns_update_node.                                                      *)
LEMMA UpdateNodeWell ==
  ASSUME NEW n, NsWell(n), NEW child \in NodeId, NEW parent \in NodeId, NEW lifetime \in NsLifetime
  PROVE  NsWell(UpdateNode(n, child, parent, lifetime))
<1> DEFINE p == Known(n, parent)
           c == Known(p, child)
           b == GetNode(c, child)
           a == GetNode(p, parent)
           d == [c EXCEPT !.node[b].lifetime = lifetime]
<1>1. NsWell(p)
  BY KnownWell
<1>2. NsWell(c)
  <2> HIDE DEF p
  <2> QED
    BY <1>1, KnownWell
<1>3. CASE a = Null \/ b = Null
  BY <1>2, <1>3 DEF UpdateNode
<1>4. CASE ~ (a = Null \/ b = Null)
  <2>1. UpdateNode(n, child, parent, lifetime) = WithParent(d, child, a)
    BY <1>4 DEF UpdateNode
  <2>2. a \in NsBlock /\ b \in NsBlock
    <3> HIDE DEF p, c
    <3> QED
      BY <1>1, <1>2, <1>4, GetNodeFinds DEF NsWell
  <2> HIDE DEF p, c, b, a
  <2>3. NsWell(d)
    BY <1>2, <2>2, LifetimeSetWell
  <2> DEFINE e == GetNode(d, child)
             m == [d EXCEPT !.node[e].parent = a]
  <2>4. d.list = c.list /\ \A x \in NsBlock : d.node[x].id = c.node[x].id
    BY <1>2, <2>2 DEF NsWell, Graph, NsNode
  <2> HIDE DEF d
  <2>5. Positions(d, child) = Positions(c, child)
    BY <1>2, <2>4 DEF Positions, NsWell, Graph
  <2>6. e = b
    BY <2>4, <2>5 DEF GetNode, b
  <2>7. NsWell(m)
    <3> HIDE DEF e
    <3> QED
      BY <2>2, <2>3, <2>6, ParentSetWell
  <2>8. WithParent(d, child, a) \in {d, m}
    BY DEF WithParent
  <2> HIDE DEF m
  <2> QED
    BY <2>1, <2>3, <2>7, <2>8
<1> QED
  BY <1>3, <1>4

(* Which nodes the root can reach. A chain of parents is f[0], f[1], ...,   *)
(* f[N], each the one above the one before it.                              *)
Climb(W, up, b, f, N) ==
  /\ f \in [0 .. N -> W]
  /\ f[0] = b
  /\ \A k \in 1 .. N : f[k] = up[f[k - 1]]

LEMMA ClimbUnique ==
  ASSUME NEW W, NEW up, NEW b, NEW N \in Nat, NEW f, NEW g,
         Climb(W, up, b, f, N), Climb(W, up, b, g, N)
  PROVE  \A k \in 0 .. N : f[k] = g[k]
<1> DEFINE T == {k \in 0 .. N : f[k] # g[k]}
<1> SUFFICES ASSUME T # {} PROVE FALSE
  OBVIOUS
<1>1. T \in SUBSET Nat
  OBVIOUS
<1>2. PICK k \in T : \A j \in T : k <= j
  BY <1>1, LeastNat
<1>3. k # 0
  BY DEF Climb
<1>4. k \in 1 .. N /\ k - 1 \in 0 .. N /\ k - 1 \notin T
  BY <1>2, <1>3
<1>5. f[k - 1] = g[k - 1]
  BY <1>4
<1> QED
  BY <1>4, <1>5 DEF Climb

LEMMA ClimbExists ==
  ASSUME NEW W, NEW up \in [W -> W], NEW b \in W, NEW N \in Nat
  PROVE  \E f : Climb(W, up, b, f, N)
<1> DEFINE P(m) == \E f : Climb(W, up, b, f, m)
           T == {m \in 0 .. N : ~ P(m)}
<1>1. P(0)
  <2> DEFINE f == [k \in 0 .. 0 |-> b]
  <2>1. Climb(W, up, b, f, 0)
    BY DEF Climb
  <2> QED
    BY <2>1
<1>2. ASSUME NEW m \in 1 .. N, P(m - 1) PROVE P(m)
  <2>1. PICK f : Climb(W, up, b, f, m - 1)
    BY <1>2
  <2> DEFINE g == [k \in 0 .. m |-> IF k < m THEN f[k] ELSE up[f[m - 1]]]
  <2>2. f[m - 1] \in W /\ up[f[m - 1]] \in W
    BY <2>1 DEF Climb
  <2>3. g \in [0 .. m -> W] /\ \A k \in 0 .. m - 1 : g[k] = f[k]
    BY <2>1, <2>2 DEF Climb
  <2>4. g[m] = up[g[m - 1]]
    BY <2>3
  <2> HIDE DEF g
  <2>5. \A k \in 1 .. m : g[k] = up[g[k - 1]]
    <3> TAKE k \in 1 .. m
    <3>1. CASE k = m
      BY <2>4, <3>1
    <3>2. CASE k # m
      <4>1. k \in 1 .. m - 1 /\ k \in 0 .. m - 1 /\ k - 1 \in 0 .. m - 1
        BY <3>2
      <4> QED
        BY <2>1, <2>3, <4>1 DEF Climb
    <3> QED
      BY <3>1, <3>2
  <2>6. g[0] = b
    BY <2>1, <2>3 DEF Climb
  <2>7. Climb(W, up, b, g, m)
    BY <2>3, <2>5, <2>6 DEF Climb
  <2> QED
    BY <2>7
<1> HIDE DEF P
<1>3. SUFFICES ASSUME ~ P(N) PROVE FALSE
  BY DEF P
<1>4. T \in SUBSET Nat /\ T # {}
  <2>1. N \in T
    BY <1>3
  <2> QED
    BY <2>1
<1>5. PICK m \in T : \A k \in T : m <= k
  BY <1>4, LeastNat
<1>6. m \in 1 .. N /\ m - 1 \in 0 .. N /\ ~ (m <= m - 1)
  BY <1>1, <1>5
<1>7. P(m - 1)
  BY <1>5, <1>6
<1> QED
  BY <1>2, <1>6, <1>7

(* Where two places of a chain are the same, so is what follows.            *)
LEMMA ClimbRepeats ==
  ASSUME NEW W, NEW up, NEW b, NEW f, NEW N \in Nat, Climb(W, up, b, f, N),
         NEW i \in 0 .. N, NEW j \in 0 .. N, i <= j, f[i] = f[j]
  PROVE  \A t \in 0 .. N - j : f[i + t] = f[j + t]
<1> DEFINE T == {t \in 0 .. N - j : f[i + t] # f[j + t]}
<1> SUFFICES ASSUME T # {} PROVE FALSE
  OBVIOUS
<1>1. T \in SUBSET Nat
  OBVIOUS
<1>2. PICK t \in T : \A s \in T : t <= s
  BY <1>1, LeastNat
<1>3. t # 0
  OBVIOUS
<1>4. /\ t - 1 \in 0 .. N - j /\ t - 1 \notin T
      /\ i + t \in 1 .. N /\ j + t \in 1 .. N
      /\ i + (t - 1) = (i + t) - 1 /\ j + (t - 1) = (j + t) - 1
  BY <1>2, <1>3
<1>5. f[(i + t) - 1] = f[(j + t) - 1]
  BY <1>4
<1>6. f[i + t] = f[j + t]
  BY <1>4, <1>5 DEF Climb
<1> QED
  BY <1>2, <1>6

(* A chain stays where there is nothing above.                              *)
LEMMA ClimbEnds ==
  ASSUME NEW W, NEW up, NEW b, NEW f, NEW N \in Nat, Climb(W, up, b, f, N),
         NEW i \in 0 .. N, up[f[i]] = f[i]
  PROVE  \A j \in i .. N : f[j] = f[i]
<1>1. CASE i = N
  BY <1>1
<1>2. CASE i # N
  <2>1. i + 1 \in 1 .. N /\ i + 1 \in 0 .. N /\ i <= i + 1 /\ (i + 1) - 1 = i
    BY <1>2
  <2>2. f[i + 1] = f[i]
    BY <2>1 DEF Climb
  <2>3. \A t \in 0 .. N - (i + 1) : f[i + t] = f[(i + 1) + t]
    BY <2>1, <2>2, ClimbRepeats
  <2> DEFINE T == {j \in i .. N : f[j] # f[i]}
  <2> SUFFICES ASSUME T # {} PROVE FALSE
    OBVIOUS
  <2>4. T \in SUBSET Nat
    OBVIOUS
  <2>5. PICK j \in T : \A k \in T : j <= k
    BY <2>4, LeastNat
  <2>6. /\ j # i /\ j - 1 \in i .. N /\ j - 1 \notin T /\ j - 1 - i \in 0 .. N - (i + 1)
        /\ i + (j - 1 - i) = j - 1 /\ (i + 1) + (j - 1 - i) = j
    BY <2>5
  <2>7. f[j] = f[j - 1] /\ f[j - 1] = f[i]
    BY <2>3, <2>6
  <2> QED
    BY <2>5, <2>7
<1> QED
  BY <1>1, <1>2

(* A chain of more values than there are comes back to one it has left.     *)
LEMMA ClimbShort ==
  ASSUME NEW N \in Nat, NEW up, NEW b, NEW f, NEW r, r # Null, up[r] = r, up[Null] = Null,
         Climb(0 .. N, up, b, f, N + 1), f[N + 1] = r
  PROVE  f[N] = r
<1> SUFFICES ASSUME f[N] # r PROVE FALSE
  OBVIOUS
<1> DEFINE g == [k \in 0 .. N |-> f[k]]
<1>1. \A k \in 0 .. N : f[k] \in 1 .. N
  <2> TAKE k \in 0 .. N
  <2>1. k \in 0 .. N + 1 /\ N + 1 \in k .. N + 1 /\ N + 1 \in Nat /\ f[k] \in 0 .. N
    BY DEF Climb
  <2>2. f[k] = Null => f[N + 1] = f[k]
    BY <2>1, ClimbEnds
  <2> QED
    BY <2>1, <2>2 DEF Null
<1>2. g \in [0 .. N -> 1 .. N]
  BY <1>1
<1>3. /\ IsFiniteSet(0 .. N) /\ Cardinality(0 .. N) = N + 1
      /\ IsFiniteSet(1 .. N) /\ Cardinality(1 .. N) = N
  <2>1. /\ IsFiniteSet(0 .. N) /\ Cardinality(0 .. N) = IF 0 > N THEN 0 ELSE N - 0 + 1
        /\ IsFiniteSet(1 .. N) /\ Cardinality(1 .. N) = IF 1 > N THEN 0 ELSE N - 1 + 1
    BY FS_Interval
  <2> QED
    BY <2>1
<1>4. Cardinality(1 .. N) < Cardinality(0 .. N)
  BY <1>3
<1>5. \E x, y \in 0 .. N : x # y /\ g[x] = g[y]
  <2> DEFINE S == 0 .. N
             T == 1 .. N
  <2>1. /\ IsFiniteSet(S) /\ IsFiniteSet(T) /\ Cardinality(T) < Cardinality(S)
        /\ g \in [S -> T]
    BY <1>2, <1>3, <1>4
  <2> HIDE DEF g, S, T
  <2>2. SUFFICES ASSUME ~ \E x, y \in S : x # y /\ g[x] = g[y]
                 PROVE  FALSE
    BY DEF S
  <2>3. g \in Injection(S, T)
    BY <2>1, <2>2 DEF Injection, IsInjective
  <2>4. Cardinality(S) <= Cardinality(T) /\ Cardinality(S) \in Nat /\ Cardinality(T) \in Nat
    BY <2>1, <2>3, FS_Injection, FS_CardinalityType
  <2> QED
    BY <2>1, <2>4
<1>6. PICK x \in 0 .. N, y \in 0 .. N : x < y /\ f[x] = f[y]
  <2>1. PICK x \in 0 .. N, y \in 0 .. N : x # y /\ f[x] = f[y]
    BY <1>5
  <2>2. x < y \/ y < x
    BY <2>1
  <2> QED
    BY <2>1, <2>2
<1>7. /\ x \in 0 .. N + 1 /\ y \in 0 .. N + 1 /\ x <= y /\ N + 1 \in Nat
      /\ N + 1 - y \in 0 .. N + 1 - y /\ y + (N + 1 - y) = N + 1
      /\ x + (N + 1 - y) \in 0 .. N /\ N \in (x + (N + 1 - y)) .. N + 1
      /\ x + (N + 1 - y) \in 0 .. N + 1
  BY <1>6
<1>8. f[x + (N + 1 - y)] = f[y + (N + 1 - y)]
  BY <1>6, <1>7, ClimbRepeats
<1>9. f[x + (N + 1 - y)] = r
  BY <1>7, <1>8
<1>10. f[N] = r
  BY <1>7, <1>9, ClimbEnds
<1> QED
  BY <1>10

(* Where rpl_ns_is_node_reachable goes from a block: up to the parent, but  *)
(* not from the root, nor from nowhere.                                     *)
Blocks == 0 .. MaxNodes

Up(n) ==
  [x \in Blocks |-> IF x \in {Null, GetNode(n, Root)} THEN x ELSE n.node[x].parent]

LEMMA UpType == ASSUME NEW n \in Graph PROVE Up(n) \in [Blocks -> Blocks]
<1>1. NsBlock \cup {Null} = Blocks /\ NsBlock = Blocks \ {Null}
  BY MaxNodesAssumption DEF NsBlock, Blocks
<1>2. \A x \in NsBlock : n.node[x].parent \in Blocks
  BY <1>1 DEF Graph, NsNode
<1> QED
  BY <1>1, <1>2 DEF Up

LEMMA AncestorIs ==
  ASSUME NEW n \in Graph, NEW b \in Blocks, NEW f, Climb(Blocks, Up(n), b, f, MaxNodes)
  PROVE  Ancestor(n, b) = f[MaxNodes]
<1> DEFINE F(a) == [k \in 0 .. MaxNodes |->
                      CASE k = 0 -> b
                        [] k > 0 /\ a[k - 1] \in {Null, GetNode(n, Root)} -> a[k - 1]
                        [] OTHER -> n.node[a[k - 1]].parent]
           a == CHOOSE a : a = F(a)
<1>0. MaxNodes \in Nat /\ MaxNodes \in 0 .. MaxNodes
  BY MaxNodesAssumption
<1>1. ASSUME NEW g, Climb(Blocks, Up(n), b, g, MaxNodes) PROVE g = F(g)
  <2>1. g = [k \in 0 .. MaxNodes |-> g[k]] /\ g[0] = b
    BY <1>1 DEF Climb
  <2>2. \A k \in 1 .. MaxNodes :
          g[k] = IF g[k - 1] \in {Null, GetNode(n, Root)} THEN g[k - 1] ELSE n.node[g[k - 1]].parent
    <3> TAKE k \in 1 .. MaxNodes
    <3>1. k - 1 \in 0 .. MaxNodes
      BY <1>0
    <3> QED
      BY <1>1, <3>1 DEF Climb, Up
  <2>3. \A k \in 0 .. MaxNodes :
          g[k] = CASE k = 0 -> b
                   [] k > 0 /\ g[k - 1] \in {Null, GetNode(n, Root)} -> g[k - 1]
                   [] OTHER -> n.node[g[k - 1]].parent
    <3> TAKE k \in 0 .. MaxNodes
    <3>1. CASE k = 0
      BY <2>1, <3>1
    <3>2. CASE k # 0
      <4>1. k \in 1 .. MaxNodes /\ k > 0
        BY <1>0, <3>2
      <4> QED
        BY <2>2, <3>2, <4>1
    <3> QED
      BY <3>1, <3>2
  <2> QED
    BY <2>1, <2>3
<1>2. a = F(a)
  BY <1>1
<1>3. Ancestor(n, b) = a[MaxNodes]
  BY DEF Ancestor
<1> HIDE DEF a
<1>4. /\ a[0] = b
      /\ \A k \in 1 .. MaxNodes :
           a[k] = IF a[k - 1] \in {Null, GetNode(n, Root)} THEN a[k - 1] ELSE n.node[a[k - 1]].parent
  BY <1>0, <1>2
<1>5. \A k \in 0 .. MaxNodes : a[k] = f[k]
  <2> DEFINE T == {k \in 0 .. MaxNodes : a[k] # f[k]}
  <2> SUFFICES ASSUME T # {} PROVE FALSE
    OBVIOUS
  <2>1. T \in SUBSET Nat
    OBVIOUS
  <2>2. PICK k \in T : \A j \in T : k <= j
    BY <2>1, LeastNat
  <2>3. k # 0
    BY <1>4 DEF Climb
  <2>4. k \in 1 .. MaxNodes /\ k - 1 \in 0 .. MaxNodes /\ k - 1 \notin T
    BY <1>0, <2>2, <2>3
  <2>5. a[k - 1] = f[k - 1] /\ f[k - 1] \in Blocks
    BY <2>4 DEF Climb
  <2>6. f[k] = Up(n)[f[k - 1]]
    BY <2>4 DEF Climb
  <2>7. a[k] = f[k]
    BY <1>4, <2>4, <2>5, <2>6 DEF Up
  <2> QED
    BY <2>2, <2>7
<1> QED
  BY <1>0, <1>3, <1>5

(* The blocks from which the root is reached.                               *)
Reached(n) == {b \in Blocks : Ancestor(n, b) = GetNode(n, Root)}

LEMMA ReachableIsReached ==
  ASSUME NEW n \in Graph, NEW id
  PROVE  IsReachable(n, id) <=> GetNode(n, Root) # Null /\ GetNode(n, id) \in Reached(n)
<1>1. GetNode(n, id) \in Blocks
  BY GetNodeFinds, MaxNodesAssumption DEF NsBlock, Blocks
<1> QED
  BY <1>1 DEF IsReachable, Reached

(* Nothing is above the root, nor above nothing.                            *)
LEMMA UpEnds ==
  ASSUME NEW n \in Graph
  PROVE  /\ Null \in Blocks /\ Up(n)[Null] = Null
         /\ GetNode(n, Root) \in Blocks /\ Up(n)[GetNode(n, Root)] = GetNode(n, Root)
<1>1. GetNode(n, Root) \in Blocks /\ Null \in Blocks
  BY GetNodeFinds, MaxNodesAssumption DEF NsBlock, Blocks
<1> QED
  BY <1>1 DEF Up

LEMMA EndReached ==
  ASSUME NEW n \in Graph, NEW b \in Blocks, Up(n)[b] = b
  PROVE  Ancestor(n, b) = b
<1> DEFINE f == [k \in 0 .. MaxNodes |-> b]
<1>0. MaxNodes \in Nat /\ MaxNodes \in 0 .. MaxNodes /\ 0 \in 0 .. MaxNodes
      /\ \A k \in 1 .. MaxNodes : k \in 0 .. MaxNodes /\ k - 1 \in 0 .. MaxNodes
  BY MaxNodesAssumption
<1>1. Climb(Blocks, Up(n), b, f, MaxNodes)
  BY <1>0 DEF Climb
<1>2. f[MaxNodes] = b
  BY <1>0
<1> HIDE DEF f
<1> QED
  BY <1>1, <1>2, AncestorIs

(* A node is reached as its parent is.                                      *)
LEMMA UpReached ==
  ASSUME NEW n \in Graph, GetNode(n, Root) # Null, NEW b \in Reached(n)
  PROVE  Up(n)[b] \in Reached(n)
<1> DEFINE up == Up(n)
           r == GetNode(n, Root)
<1>0. /\ up \in [Blocks -> Blocks] /\ b \in Blocks /\ up[r] = r
      /\ MaxNodes \in Nat /\ MaxNodes > 0 /\ MaxNodes \in 0 .. MaxNodes
  BY UpType, UpEnds, MaxNodesAssumption DEF Reached
<1>1. PICK f : Climb(Blocks, up, b, f, MaxNodes)
  BY <1>0, ClimbExists
<1>2. f[MaxNodes] = r
  BY <1>0, <1>1, AncestorIs DEF Reached
<1> HIDE DEF up, r
<1> DEFINE g == [k \in 0 .. MaxNodes |-> IF k < MaxNodes THEN f[k + 1] ELSE r]
<1>3. /\ g \in [0 .. MaxNodes -> Blocks] /\ g[0] = f[1] /\ g[MaxNodes] = r
      /\ \A k \in 0 .. MaxNodes - 1 : g[k] = f[k + 1]
  <2>1. r \in Blocks
    BY <1>0, <1>1, <1>2 DEF Climb
  <2> QED
    BY <1>0, <1>1, <2>1 DEF Climb
<1> HIDE DEF g
<1>4. \A k \in 1 .. MaxNodes : g[k] = up[g[k - 1]]
  <2> TAKE k \in 1 .. MaxNodes
  <2>1. g[k - 1] = f[k]
    <3>1. k - 1 \in 0 .. MaxNodes - 1 /\ (k - 1) + 1 = k
      BY <1>0
    <3> QED
      BY <1>3, <3>1
  <2>2. CASE k < MaxNodes
    <3>1. k \in 0 .. MaxNodes - 1 /\ k + 1 \in 1 .. MaxNodes /\ (k + 1) - 1 = k
      BY <1>0, <2>2
    <3> QED
      BY <1>1, <1>3, <2>1, <3>1 DEF Climb
  <2>3. CASE ~ (k < MaxNodes)
    <3>1. k = MaxNodes
      BY <1>0, <2>3
    <3> QED
      BY <1>0, <1>2, <1>3, <2>1, <3>1
  <2> QED
    BY <2>2, <2>3
<1>5. g[0] = up[b]
  <2>1. 1 \in 1 .. MaxNodes /\ 1 - 1 = 0
    BY <1>0
  <2> QED
    BY <1>1, <1>3, <2>1 DEF Climb
<1>6. Climb(Blocks, up, up[b], g, MaxNodes) /\ up[b] \in Blocks
  BY <1>0, <1>3, <1>4, <1>5 DEF Climb
<1> QED
  BY <1>3, <1>6, AncestorIs DEF Reached, up, r

LEMMA DownReached ==
  ASSUME NEW n \in Graph, GetNode(n, Root) # Null, NEW b \in Blocks, Up(n)[b] \in Reached(n)
  PROVE  b \in Reached(n)
<1> DEFINE up == Up(n)
           r == GetNode(n, Root)
<1>0. /\ up \in [Blocks -> Blocks] /\ up[r] = r /\ up[Null] = Null /\ r # Null
      /\ MaxNodes \in Nat /\ MaxNodes > 0 /\ MaxNodes + 1 \in 0 .. MaxNodes + 1
      /\ MaxNodes \in 0 .. MaxNodes /\ up[b] \in Blocks
  BY UpType, UpEnds, MaxNodesAssumption
<1>1. PICK g : Climb(Blocks, up, up[b], g, MaxNodes)
  BY <1>0, ClimbExists
<1>2. g[MaxNodes] = r
  BY <1>0, <1>1, AncestorIs DEF Reached
<1>3. PICK f : Climb(Blocks, up, b, f, MaxNodes + 1)
  BY <1>0, ClimbExists
<1> HIDE DEF up, r
<1>4. \A k \in 0 .. MaxNodes : f[k + 1] = g[k]
  <2> DEFINE h == [k \in 0 .. MaxNodes |-> f[k + 1]]
  <2>1. Climb(Blocks, up, up[b], h, MaxNodes)
    <3>1. /\ \A k \in 0 .. MaxNodes : k + 1 \in 1 .. MaxNodes + 1 /\ k + 1 \in 0 .. MaxNodes + 1
                                      /\ (k + 1) - 1 = k
          /\ \A k \in 1 .. MaxNodes : k \in 0 .. MaxNodes /\ k - 1 \in 0 .. MaxNodes
                                      /\ (k - 1) + 1 = k
      BY <1>0
    <3>2. /\ f[0] = b /\ f \in [0 .. MaxNodes + 1 -> Blocks]
          /\ \A k \in 1 .. MaxNodes + 1 : f[k] = up[f[k - 1]]
      BY <1>3 DEF Climb
    <3>3. \A k \in 0 .. MaxNodes : f[k + 1] = up[f[k]]
      BY <3>1, <3>2
    <3>4. h \in [0 .. MaxNodes -> Blocks]
      BY <3>1, <3>2
    <3>5. h[0] = up[b]
      <4>1. 0 \in 0 .. MaxNodes /\ 0 + 1 = 1
        BY <1>0
      <4>2. h[0] = f[0 + 1] /\ f[0 + 1] = up[f[0]]
        BY <4>1, <3>3
      <4> QED
        BY <4>2, <3>2
    <3>6. \A k \in 1 .. MaxNodes : h[k] = up[h[k - 1]]
      <4> TAKE k \in 1 .. MaxNodes
      <4>1. h[k] = f[k + 1] /\ h[k - 1] = f[k]
        BY <3>1
      <4> QED
        BY <3>1, <3>3, <4>1
    <3> QED
      BY <3>4, <3>5, <3>6 DEF Climb
  <2>2. \A k \in 0 .. MaxNodes : h[k] = g[k]
    <3> HIDE DEF h
    <3> QED
      BY <1>0, <1>1, <2>1, ClimbUnique
  <2> QED
    BY <2>2
<1>5. f[MaxNodes + 1] = r
  BY <1>0, <1>2, <1>4
<1>6. f[MaxNodes] = r
  BY <1>0, <1>3, <1>5, ClimbShort DEF Blocks
<1> DEFINE e == [k \in 0 .. MaxNodes |-> f[k]]
<1>7. Climb(Blocks, up, b, e, MaxNodes) /\ e[MaxNodes] = r
  <2>1. /\ \A k \in 0 .. MaxNodes : k \in 0 .. MaxNodes + 1
        /\ \A k \in 1 .. MaxNodes : k \in 0 .. MaxNodes /\ k - 1 \in 0 .. MaxNodes
                                    /\ k \in 1 .. MaxNodes + 1
        /\ 0 \in 0 .. MaxNodes
    BY <1>0
  <2> QED
    BY <1>0, <1>3, <1>6, <2>1 DEF Climb
<1> HIDE DEF e
<1> QED
  BY <1>7, AncestorIs DEF Reached, up, r

(* What is reached stays so where the parents above it are the same, or     *)
(* those that are not are still reached.                                    *)
LEMMA ReachedStays ==
  ASSUME NEW n \in Graph, NEW m \in Graph, GetNode(n, Root) # Null, GetNode(m, Root) = GetNode(n, Root),
         NEW S \in SUBSET Blocks, \A x \in S : Up(n)[x] \in S,
         \A x \in S : Up(m)[x] = Up(n)[x] \/ x \in Reached(m) \/ x \notin Reached(n),
         NEW b \in S \cap Reached(n)
  PROVE  b \in Reached(m)
<1> DEFINE r == GetNode(n, Root)
<1>0. /\ Up(n) \in [Blocks -> Blocks] /\ b \in Blocks
      /\ MaxNodes \in Nat /\ MaxNodes \in 0 .. MaxNodes /\ 0 \in 0 .. MaxNodes
      /\ \A k \in 1 .. MaxNodes : k \in 0 .. MaxNodes /\ k - 1 \in 0 .. MaxNodes
  BY UpType, MaxNodesAssumption DEF Reached
<1>1. PICK f : Climb(Blocks, Up(n), b, f, MaxNodes)
  BY <1>0, ClimbExists
<1>2. f[MaxNodes] = r
  BY <1>0, <1>1, AncestorIs DEF Reached
<1>3. \A k \in 0 .. MaxNodes : f[k] \in S \cap Reached(n)
  <2> DEFINE T == {k \in 0 .. MaxNodes : f[k] \notin S \cap Reached(n)}
  <2> SUFFICES ASSUME T # {} PROVE FALSE
    OBVIOUS
  <2>1. T \in SUBSET Nat
    OBVIOUS
  <2>2. PICK k \in T : \A j \in T : k <= j
    BY <2>1, LeastNat
  <2>3. k # 0
    BY <1>1 DEF Climb
  <2>4. k \in 1 .. MaxNodes /\ k - 1 \in 0 .. MaxNodes /\ ~ (k <= k - 1)
    BY <1>0, <2>2, <2>3
  <2>5. f[k - 1] \in S \cap Reached(n)
    BY <2>2, <2>4
  <2>6. f[k] = Up(n)[f[k - 1]]
    BY <1>1, <2>4 DEF Climb
  <2>7. f[k] \in S /\ f[k] \in Reached(n)
    BY <2>5, <2>6, UpReached
  <2> QED
    BY <2>2, <2>7
<1>4. r \in Reached(m)
  BY EndReached, UpEnds DEF Reached
<1> DEFINE T == {k \in 0 .. MaxNodes : f[k] \in Reached(m)}
<1>5. T \in SUBSET Nat /\ T # {}
  BY <1>0, <1>2, <1>4
<1>6. PICK k \in T : \A j \in T : k <= j
  BY <1>5, LeastNat
<1>7. CASE k = 0
  BY <1>1, <1>6, <1>7 DEF Climb
<1>8. CASE k # 0
  <2>1. k \in 1 .. MaxNodes /\ k - 1 \in 0 .. MaxNodes /\ ~ (k <= k - 1)
    BY <1>0, <1>6, <1>8
  <2>2. f[k - 1] \notin Reached(m) /\ f[k] \in Reached(m)
    BY <1>6, <2>1
  <2>3. f[k - 1] \in S /\ f[k - 1] \in Reached(n) /\ f[k - 1] \in Blocks
    BY <1>3, <2>1
  <2>4. Up(m)[f[k - 1]] = f[k]
    BY <1>1, <2>1, <2>2, <2>3 DEF Climb
  <2> QED
    BY <2>2, <2>3, <2>4, DownReached
<1> QED
  BY <1>7, <1>8

(* Another node, or none, is found under an identifier only if the list     *)
(* changes.                                                                 *)
LEMMA GetNodeIs ==
  ASSUME NEW n, NsWell(n), NEW b \in InList(n), NEW id, n.node[b].id = id
  PROVE  GetNode(n, id) = b
<1>0. n \in Graph
  BY DEF NsWell
<1>1. PICK k \in DOMAIN n.list : n.list[k] = b
  BY DEF InList
<1>2. k \in Positions(n, id)
  BY <1>1 DEF Positions
<1>3. GetNode(n, id) \in InList(n) /\ n.node[GetNode(n, id)].id = id
  BY <1>0, <1>2, GetNodeFinds
<1>4. PICK j \in DOMAIN n.list : n.list[j] = GetNode(n, id)
  BY <1>3 DEF InList
<1> QED
  BY <1>1, <1>3, <1>4 DEF NsWell, OneNode

(* The parents of listed nodes are listed (ParentsListed, of any graph).    *)
Closed(n) == \A b \in InList(n) : n.node[b].parent \in InList(n) \cup {Null}

LEMMA ListedClosed ==
  ASSUME NEW n \in Graph, Closed(n)
  PROVE  /\ InList(n) \cup {Null} \subseteq Blocks /\ InList(n) \subseteq NsBlock
         /\ \A x \in InList(n) \cup {Null} : Up(n)[x] \in InList(n) \cup {Null}
<1>1. InList(n) \subseteq NsBlock /\ InList(n) \cup {Null} \subseteq Blocks
  BY MaxNodesAssumption DEF InList, Graph, NsBlock, Blocks
<1> QED
  BY <1>1 DEF Closed, Up

(* What is reached is a node.                                               *)
LEMMA ReachedIsNode ==
  ASSUME NEW n \in Graph, NEW id, IsReachable(n, id)
  PROVE  GetNode(n, Root) # Null /\ GetNode(n, id) # Null /\ GetNode(n, id) \in InList(n)
<1>1. Null \notin Reached(n) \/ GetNode(n, Root) = Null
  BY UpEnds, EndReached DEF Reached
<1> QED
  BY <1>1, ReachableIsReached, GetNodeFinds

(* A node that is added cuts nobody off.                                    *)
LEMMA AddedKeeps ==
  ASSUME NEW n, NsWell(n), Closed(n), NEW id \in NodeId, GetNode(n, id) = Null
  PROVE  /\ Closed(Added(n, id))
         /\ \A i : IsReachable(n, i) => IsReachable(Added(n, id), i)
<1> DEFINE m == Added(n, id)
<1>0. n \in Graph /\ n.list \in Seq(NsBlock) /\ NsWell(m)
  BY AddedWell DEF NsWell, Graph
<1>1. CASE FreeBlocks(n) = {}
  BY <1>1 DEF Added
<1>2. CASE FreeBlocks(n) # {}
  <2>1. PICK b \in NsBlock \ InList(n) :
          /\ m.list = Append(n.list, b)
          /\ m.node = [n.node EXCEPT ![b] = [id |-> id, parent |-> Null, lifetime |-> NsInfinite]]
          /\ m \in Graph
    BY <1>2, AddedAt
  <2> HIDE DEF m
  <2>2. /\ Len(m.list) = Len(n.list) + 1
        /\ \A k \in 1 .. Len(n.list) : m.list[k] = n.list[k]
        /\ m.list[Len(n.list) + 1] = b
        /\ DOMAIN n.list = 1 .. Len(n.list) /\ DOMAIN m.list = 1 .. Len(n.list) + 1
    BY <1>0, <2>1
  <2>3. InList(m) = InList(n) \cup {b}
    <3>1. ASSUME NEW x \in InList(m) PROVE x \in InList(n) \cup {b}
      <4>1. PICK k \in 1 .. Len(n.list) + 1 : m.list[k] = x
        BY <2>2 DEF InList
      <4>2. k \in 1 .. Len(n.list) \/ k = Len(n.list) + 1
        BY <1>0
      <4> QED
        BY <2>2, <4>1, <4>2 DEF InList
    <3>2. ASSUME NEW x \in InList(n) PROVE x \in InList(m)
      <4>1. PICK k \in 1 .. Len(n.list) : n.list[k] = x
        BY <2>2 DEF InList
      <4>2. k \in 1 .. Len(n.list) + 1
        BY <1>0
      <4> QED
        BY <2>2, <4>1, <4>2 DEF InList
    <3>3. b \in InList(m)
      <4>1. Len(n.list) + 1 \in 1 .. Len(n.list) + 1
        BY <1>0
      <4> QED
        BY <2>2, <4>1 DEF InList
    <3> QED
      BY <3>1, <3>2, <3>3
  <2>4. /\ \A x \in NsBlock \ {b} : m.node[x] = n.node[x]
        /\ m.node[b].parent = Null
    BY <1>0, <2>1 DEF Graph
  <2>5. InList(n) \subseteq NsBlock \ {b} /\ InList(n) \cup {Null} \subseteq Blocks
    BY <1>0, <2>1, ListedClosed
  <2>6. Closed(m)
    BY <2>3, <2>4, <2>5 DEF Closed
  <2>7. ASSUME NEW i, GetNode(n, i) # Null
        PROVE  GetNode(m, i) = GetNode(n, i)
    <3>1. GetNode(n, i) \in InList(n) /\ n.node[GetNode(n, i)].id = i
      BY <1>0, <2>7, GetNodeFinds
    <3>2. GetNode(n, i) \in InList(m) /\ m.node[GetNode(n, i)].id = i
      BY <2>3, <2>4, <2>5, <3>1
    <3> QED
      BY <1>0, <3>2, GetNodeIs
  <2>8. ASSUME NEW i, IsReachable(n, i)
        PROVE  IsReachable(m, i)
    <3> DEFINE S == InList(n) \cup {Null}
    <3>1. /\ GetNode(n, Root) # Null /\ GetNode(n, i) # Null /\ GetNode(n, i) \in InList(n)
          /\ GetNode(n, i) \in Reached(n)
      BY <1>0, <2>8, ReachedIsNode, ReachableIsReached
    <3>2. GetNode(m, Root) = GetNode(n, Root) /\ GetNode(m, i) = GetNode(n, i)
      BY <2>7, <3>1
    <3>3. \A x \in S : Up(m)[x] = Up(n)[x]
      BY <2>4, <2>5, <3>2 DEF Up
    <3>4. S \in SUBSET Blocks /\ \A x \in S : Up(n)[x] \in S
      BY <1>0, ListedClosed
    <3>5. GetNode(n, i) \in S \cap Reached(n)
      BY <3>1
    <3> HIDE DEF S
    <3>6. GetNode(n, i) \in Reached(m)
      BY <1>0, <2>1, <3>1, <3>2, <3>3, <3>4, <3>5, ReachedStays
    <3> QED
      BY <2>1, <3>1, <3>2, <3>6, ReachableIsReached
  <2> QED
    BY <2>6, <2>8 DEF m
<1> QED
  BY <1>1, <1>2

LEMMA KnownKeeps ==
  ASSUME NEW n, NsWell(n), Closed(n), NEW id \in NodeId
  PROVE  /\ Closed(Known(n, id))
         /\ \A i : IsReachable(n, i) => IsReachable(Known(n, id), i)
BY AddedKeeps DEF Known

(* Nor does a parent that is taken: all other nodes have the parents they   *)
(* had, and this one is reached if it was.                                  *)
LEMMA SameListFinds ==
  ASSUME NEW n \in Graph, NEW m \in Graph, m.list = n.list,
         \A x \in NsBlock : m.node[x].id = n.node[x].id, NEW i
  PROVE  GetNode(m, i) = GetNode(n, i)
<1>1. Positions(m, i) = Positions(n, i)
  BY DEF Positions, Graph
<1> QED
  BY <1>1 DEF GetNode

LEMMA SameListReached ==
  ASSUME NEW n \in Graph, NEW m \in Graph, m.list = n.list,
         \A x \in NsBlock : m.node[x].id = n.node[x].id,
         \A x \in NsBlock : \/ m.node[x].parent = n.node[x].parent
                            \/ x \in Reached(m) \/ x \notin Reached(n),
         NEW i, IsReachable(n, i)
  PROVE  IsReachable(m, i)
<1>1. GetNode(m, i) = GetNode(n, i) /\ GetNode(m, Root) = GetNode(n, Root)
  BY SameListFinds
<1>2. GetNode(n, Root) # Null /\ GetNode(n, i) \in Reached(n) /\ Reached(n) \subseteq Blocks
  BY ReachableIsReached DEF Reached
<1>3. Blocks = NsBlock \cup {Null}
  BY MaxNodesAssumption DEF NsBlock, Blocks
<1>4. \A x \in Blocks : Up(m)[x] = Up(n)[x] \/ x \in Reached(m) \/ x \notin Reached(n)
  BY <1>1, <1>3 DEF Up
<1>5. \A x \in Blocks : Up(n)[x] \in Blocks
  BY UpType
<1>6. GetNode(n, i) \in Reached(m)
  BY <1>1, <1>2, <1>4, <1>5, ReachedStays
<1> QED
  BY <1>1, <1>2, <1>6, ReachableIsReached

LEMMA UpdateNodeKeeps ==
  ASSUME NEW n, NsWell(n), Closed(n), NEW child \in NodeId, NEW parent \in NodeId,
         NEW lifetime \in NsLifetime, NEW i, IsReachable(n, i)
  PROVE  IsReachable(UpdateNode(n, child, parent, lifetime), i)
<1> DEFINE p == Known(n, parent)
           c == Known(p, child)
           b == GetNode(c, child)
           a == GetNode(p, parent)
           d == [c EXCEPT !.node[b].lifetime = lifetime]
<1>1. NsWell(p) /\ Closed(p) /\ IsReachable(p, i)
  BY KnownWell, KnownKeeps
<1>2. NsWell(c) /\ c \in Graph /\ IsReachable(c, i)
  <2> HIDE DEF p
  <2> QED
    BY <1>1, KnownWell, KnownKeeps DEF NsWell
<1>3. CASE a = Null \/ b = Null
  BY <1>2, <1>3 DEF UpdateNode
<1>4. CASE ~ (a = Null \/ b = Null)
  <2>1. UpdateNode(n, child, parent, lifetime) = WithParent(d, child, a)
    BY <1>4 DEF UpdateNode
  <2>2. a \in NsBlock /\ b \in NsBlock
    <3> HIDE DEF p, c
    <3> QED
      BY <1>1, <1>2, <1>4, GetNodeFinds DEF NsWell
  <2> HIDE DEF p, c, b, a
  <2>3. NsWell(d) /\ d \in Graph
    BY <1>2, <2>2, LifetimeSetWell DEF NsWell
  <2>4. d.list = c.list /\ \A x \in NsBlock : d.node[x].id = c.node[x].id /\ d.node[x].parent = c.node[x].parent
    BY <1>2, <2>2 DEF Graph, NsNode
  <2> HIDE DEF d
  <2>5. GetNode(d, child) = b /\ IsReachable(d, i)
    BY <1>2, <2>3, <2>4, SameListFinds, SameListReached DEF b
  <2> DEFINE m == [d EXCEPT !.node[b].parent = a]
  <2>6. WithParent(d, child, a) = IF IsReachable(d, child) /\ ~ IsReachable(m, child) THEN d ELSE m
    BY <2>5 DEF WithParent
  <2>7. NsWell(m) /\ m \in Graph
    BY <2>2, <2>3, ParentSetWell DEF NsWell
  <2>8. /\ m.list = d.list /\ \A x \in NsBlock : m.node[x].id = d.node[x].id
        /\ \A x \in NsBlock \ {b} : m.node[x].parent = d.node[x].parent
    BY <2>2, <2>3 DEF Graph, NsNode
  <2> HIDE DEF m
  <2>9. GetNode(m, child) = b
    BY <2>3, <2>5, <2>7, <2>8, SameListFinds
  <2>10. CASE IsReachable(d, child) /\ ~ IsReachable(m, child)
    BY <2>1, <2>5, <2>6, <2>10
  <2>11. CASE ~ (IsReachable(d, child) /\ ~ IsReachable(m, child))
    <3>1. GetNode(d, Root) # Null
      BY <2>3, <2>5, ReachableIsReached
    <3>2. b \in Reached(m) \/ b \notin Reached(d)
      BY <2>3, <2>5, <2>7, <2>9, <2>11, <3>1, ReachableIsReached
    <3>3. IsReachable(m, i)
      BY <2>3, <2>5, <2>7, <2>8, <3>2, SameListReached
    <3> QED
      BY <2>1, <2>6, <2>11, <3>3
  <2> QED
    BY <2>10, <2>11
<1> QED
  BY <1>3, <1>4

(* rpl_ns_expire_parent.                                                    *)
LEMMA ExpireParentWell ==
  ASSUME NEW n, NsWell(n), NEW child, NEW parent
  PROVE  NsWell(ExpireParent(n, child, parent))
<1> DEFINE b == GetNode(n, child)
<1>1. \/ ExpireParent(n, child, parent) = n
      \/ b # Null /\ ExpireParent(n, child, parent) = [n EXCEPT !.node[b].lifetime = NsNoPathDelay]
  BY DEF ExpireParent
<1>2. b # Null => b \in NsBlock
  BY GetNodeFinds DEF NsWell
<1>3. NsNoPathDelay \in NsLifetime
  BY NsLifetimeAssumption DEF NsLifetime, NsInfinite
<1> HIDE DEF b
<1> QED
  BY <1>1, <1>2, <1>3, LifetimeSetWell

(* rpl_ns_periodic.                                                         *)
LEMMA OlderWell ==
  ASSUME NEW n, NsWell(n)
  PROVE  NsWell(Older(n))
<1> DEFINE node == [b \in NsBlock |->
             IF b \in InList(n) /\ n.node[b].lifetime \in 1 .. NsMaxLifetime
             THEN [n.node[b] EXCEPT !.lifetime = @ - 1] ELSE n.node[b]]
<1>1. n.node \in [NsBlock -> NsNode]
  BY DEF NsWell, Graph
<1>2. ASSUME NEW b \in NsBlock PROVE node[b] \in NsNode /\ node[b].id = n.node[b].id
  <2>1. CASE n.node[b].lifetime \in 1 .. NsMaxLifetime
    <3>1. n.node[b].lifetime - 1 \in NsLifetime
      BY <2>1, NsLifetimeAssumption DEF NsLifetime, NsInfinite
    <3> QED
      BY <1>1, <3>1 DEF NsNode
  <2>2. CASE n.node[b].lifetime \notin 1 .. NsMaxLifetime
    BY <1>1, <2>2
  <2> QED
    BY <2>1, <2>2
<1>3. Older(n) = [n EXCEPT !.node = node]
  BY DEF Older
<1>4. node \in [NsBlock -> NsNode]
  BY <1>2
<1> HIDE DEF node
<1> QED
  BY <1>2, <1>3, <1>4, NodeSetWell

LEMMA FirstRemovedWell ==
  ASSUME NEW n, NsWell(n)
  PROVE  NsWell(FirstRemoved(n))
<1> DEFINE k == CHOOSE k \in Expired(n) : \A j \in Expired(n) : k <= j
           m == [n EXCEPT !.list = RemoveAt(@, k), !.num = @ - 1]
<1>0. n \in Graph /\ n.list \in Seq(NsBlock) /\ n.num = Len(n.list) /\ DOMAIN n.list = 1 .. Len(n.list)
  BY DEF NsWell, Graph, Counted
<1>1. CASE Expired(n) = {}
  BY <1>1 DEF FirstRemoved
<1>2. CASE Expired(n) # {}
  <2>1. Expired(n) \subseteq 1 .. Len(n.list) /\ Expired(n) \subseteq Nat
    BY <1>0 DEF Expired
  <2>2. \E x \in Expired(n) : \A j \in Expired(n) : x <= j
    BY <1>2, <2>1, LeastNat
  <2>3. k \in 1 .. Len(n.list)
    BY <2>1, <2>2
  <2>4. FirstRemoved(n) = m
    BY <1>2 DEF FirstRemoved
  <2> HIDE DEF k
  <2>5. m.list = RemoveAt(n.list, k) /\ m.num = n.num - 1 /\ m.node = n.node
    BY <1>0 DEF Graph
  <2>6. /\ RemoveAt(n.list, k) \in Seq(NsBlock) /\ Len(RemoveAt(n.list, k)) = Len(n.list) - 1
        /\ \A i \in 1 .. Len(n.list) - 1 :
             RemoveAt(n.list, k)[i] = IF i < k THEN n.list[i] ELSE n.list[i + 1]
    BY <1>0, <2>3, RemoveAtProperties
  <2>7. m \in Graph
    <3>1. n.num - 1 \in Nat
      BY <1>0, <2>3
    <3>2. m = [n EXCEPT !.list = m.list, !.num = m.num]
      BY <2>5
    <3> HIDE DEF m
    <3>3. m.list \in Seq(NsBlock) /\ m.num \in Nat
      BY <2>5, <2>6, <3>1
    <3>4. [n EXCEPT !.list = m.list, !.num = m.num] \in Graph
      BY <1>0, <3>3, ListExcept, Zenon
    <3> QED
      BY <3>2, <3>4, Zenon
  <2> HIDE DEF m
  <2>8. OneNode(m)
    <3> DEFINE from(i) == IF i < k THEN i ELSE i + 1
    <3>1. DOMAIN m.list = 1 .. Len(n.list) - 1
      BY <2>5, <2>6
    <3>2. ASSUME NEW i \in 1 .. Len(n.list) - 1
          PROVE  from(i) \in 1 .. Len(n.list) /\ m.list[i] = n.list[from(i)]
      BY <1>0, <2>3, <2>5, <2>6
    <3>3. \A i, j \in 1 .. Len(n.list) - 1 : from(i) = from(j) => i = j
      BY <1>0, <2>3
    <3> HIDE DEF from
    <3> QED
      BY <1>0, <2>5, <3>1, <3>2, <3>3 DEF OneNode, NsWell
  <2> QED
    BY <1>0, <2>4, <2>5, <2>6, <2>7, <2>8 DEF NsWell, Counted
<1> QED
  BY <1>1, <1>2

LEMMA NsInitWell == NsInit => NsWell(ns)
<1> SUFFICES ASSUME NsInit PROVE NsWell(ns)
  OBVIOUS
<1>1. ns \in Graph
  BY NsLifetimeAssumption DEF NsInit, Graph, NsNode, NsLifetime, NsInfinite
<1>2. ns.list = <<>> /\ ns.num = 0
  BY DEF NsInit
<1> QED
  BY <1>1, <1>2 DEF NsWell, Counted, OneNode

HIDE DEF Null
-----------------------------------------------------------------------------
(* The inductive invariant. That a destination has one route is needed for  *)
(* the tables to agree: it is what makes the route that a lookup finds, and *)
(* route_add replaces, the only one of its destination.                     *)
Inv == Well(tab) /\ NsWell(ns) /\ mop \in {"storing", "nonstoring"}

LEMMA InitInv == Init => Inv
BY InitWell, NsInitWell DEF Init, Inv

(* What each handler of storing mode makes of tables that are well.         *)
LEMMA DirectWell ==
  ASSUME Well(tab)
  PROVE  /\ \A d \in Dest, ip \in Ip : Well(AddStatic(tab, d, ip))
         /\ \A d \in Dest, ip \in Ip, lifetime \in Lifetime : Well(RouteInformation(tab, d, ip, lifetime))
         /\ \A src \in Ip, d \in Dest : Well(NoPath(tab, src, d))
         /\ \A s \in Senders(tab), d \in Dest, lifetime \in Lifetime :
              Well(DaoInput(tab, s, d, lifetime).tab)
         /\ \A s \in Senders(tab) : Well(UpdateNbrTable(tab, s))
BY AddStaticWell, RouteInformationWell, NoPathWell, DaoInputWell, UpdateNbrTableWell

LEMMA NextInv == Inv /\ [Next]_vars => Inv'
<1> SUFFICES ASSUME Inv, [Next]_vars PROVE Inv'
  OBVIOUS
<1> USE DEF Inv, Storing, NonStoring
<1>0. Announced \cup {0} \subseteq Lifetime /\ 1 .. NsInfinite \subseteq NsLifetime
  BY LifetimeAssumption, NsLifetimeAssumption DEF Announced, Lifetime, Infinite, NsLifetime, NsInfinite
<1>1. ASSUME NEW h \in Mortal, Leaves(h) PROVE Inv'
  BY <1>1 DEF Leaves
<1>2. ASSUME NEW s \in Senders(tab), NEW d \in Dest, NEW lifetime \in Announced,
             DaoInputStoring(s, d, lifetime)
      PROVE  Inv'
  BY <1>0, <1>2, DirectWell DEF DaoInputStoring
<1>3. ASSUME NEW src \in Ip, NEW d \in Dest, NoPathStoring(src, d) PROVE Inv'
  BY <1>3, DirectWell DEF NoPathStoring
<1>4. ASSUME NEW child \in NodeId, NEW parent \in NodeId, NEW lifetime \in 1 .. NsInfinite,
             DaoInputNode(child, parent, lifetime)
      PROVE  Inv'
  <2>1. NsWell(UpdateNode(ns, child, parent, lifetime))
    BY <1>0, UpdateNodeWell
  <2> QED
    BY <1>4, <2>1 DEF DaoInputNode, DaoInputNonstoring
<1>5. ASSUME NEW child \in NodeId, NEW parent \in NodeId, NoPathNode(child, parent) PROVE Inv'
  <2>1. NsWell(ExpireParent(ns, child, parent))
    BY ExpireParentWell
  <2> QED
    BY <1>5, <2>1 DEF NoPathNode, NoPathNonstoring
<1>6. CASE Periodic
  <2>1. Well(Purged(tab))
    BY PurgedWell
  <2>2. NsWell(FirstRemoved(Older(ns)))
    BY OlderWell, FirstRemovedWell
  <2> QED
    BY <1>6, <2>1, <2>2 DEF Periodic, NsPeriodic
<1>7. ASSUME NEW d \in Dest, NexthopGone(d) \/ RouteRemoved(d) PROVE Inv'
  <2>1. Well(RouteRm(tab, {Lookup(tab, d)}))
    BY RouteRmWell
  <2> QED
    BY <1>7, <2>1 DEF NexthopGone, RouteRemoved
<1>8. CASE DodagLeft
  <2>1. Well(RouteRm(tab, {b \in Listed(tab) : tab.route[b].dag}))
    BY RouteRmWell
  <2> QED
    BY <1>8, <2>1 DEF DodagLeft
<1>9. ASSUME NEW d \in Dest \ Host, NEW ip \in Ip, StaticAdded(d, ip) PROVE Inv'
  BY <1>9, DirectWell DEF StaticAdded
<1>10. ASSUME NEW d \in Dest \ Host, NEW ip \in Ip, NEW lifetime \in Announced \cup {0},
              RouteInformationInput(d, ip, lifetime)
       PROVE  Inv'
  BY <1>0, <1>10, DirectWell DEF RouteInformationInput
<1>11. ASSUME NEW s \in Senders(tab), NbrHeard(s) PROVE Inv'
  BY <1>11, DirectWell DEF NbrHeard
<1>12. ASSUME NEW l \in Ll, NbrRemoved(l) PROVE Inv'
  <2>1. Well(Evicted(tab, l))
    BY EvictedWell
  <2> QED
    BY <1>12, <2>1 DEF NbrRemoved
<1>13. ASSUME NEW l \in Ll, NEW k \in Ll, NbrMoved(l, k) PROVE Inv'
  <2>1. Well(Evicted(tab, l))
    BY EvictedWell
  <2>2. tab.nbr[l] \in Ip \cup {NoIp}
    BY DEF Well, Tab
  <2> DEFINE e == Evicted(tab, l)
             ip == tab.nbr[l]
  <2>3. tab' = [e EXCEPT !.nbr[k] = ip]
    BY <1>13 DEF NbrMoved
  <2> HIDE DEF e, ip
  <2>4. Well([e EXCEPT !.nbr[k] = ip])
    BY <2>1, <2>2, NbrSetWell DEF e, ip
  <2>5. UNCHANGED <<ns, mop>>
    BY <1>13 DEF NbrMoved
  <2> QED
    BY <2>3, <2>4, <2>5
<1>14. CASE UNCHANGED vars
  BY <1>14 DEF vars
<1> QED
  BY <1>1, <1>2, <1>3, <1>4, <1>5, <1>6, <1>7, <1>8, <1>9, <1>10, <1>11, <1>12, <1>13, <1>14 DEF Next

(* Every handler keeps the tables and the graph well.                       *)
THEOREM SpecInv == Spec => []Inv
BY InitInv, NextInv, PTL DEF Spec

(* The routes and the graph always have their types.                        *)
THEOREM SpecTypeOK == Spec => []TypeOK
<1>1. Inv => TypeOK
  BY DEF Inv, TypeOK, Well, NsWell
<1> QED
  BY <1>1, SpecInv, PTL

(* The routes and the lists of the neighbors they are attached to always    *)
(* refer to each other, and the counters count.                             *)
THEOREM SpecTablesAgree == Spec => []TablesAgree
<1>1. Inv => TablesAgree
  BY DEF Inv, TablesAgree, Well, Agree, NsWell, Counted
<1> QED
  BY <1>1, SpecInv, PTL

(* No destination ever has two routes, no identifier two nodes.             *)
THEOREM SpecOneEntryPerDestination == Spec => []OneEntryPerDestination
<1>1. Inv => OneEntryPerDestination
  BY DEF Inv, OneEntryPerDestination, Well, OneRoute, NsWell, OneNode
<1> QED
  BY <1>1, SpecInv, PTL

(* No DAO, whoever sends it, changes the routes of the destinations it is   *)
(* not about.                                                               *)
THEOREM SpecOthersKeepRoutes == Spec => []OthersKeepRoutes
<1>1. ASSUME Inv PROVE OthersKeepRoutes
  <2>1. Infinite \in Lifetime
    BY LifetimeAssumption DEF Lifetime, Infinite
  <2> SUFFICES ASSUME NEW s \in Senders(tab), NEW d \in Dest, NEW b \in Listed(tab),
                      d \notin Covers[tab.route[b].dest]
               PROVE  LET t == DaoInput(tab, s, d, Infinite).tab IN
                      /\ t.route[b] = tab.route[b]
                      /\ Nexthop(t, b) = Nexthop(tab, b) \/ tab.route[b].hop = s.l
    BY DEF OthersKeepRoutes
  <2> QED
    BY <1>1, <2>1, DaoInputWell DEF Inv
<1> QED
  BY <1>1, SpecInv, PTL

(* Every DAO that is acknowledged has left its destination a route.         *)
THEOREM SpecAcknowledgedIsRouted == Spec => []AcknowledgedIsRouted
<1>1. ASSUME Inv PROVE AcknowledgedIsRouted
  <2>1. Infinite \in Lifetime
    BY LifetimeAssumption DEF Lifetime, Infinite
  <2> QED
    BY <1>1, <2>1, DaoInputWell DEF Inv, AcknowledgedIsRouted
<1> QED
  BY <1>1, SpecInv, PTL

(* While every parent is listed, no DAO of non-storing mode, for whichever  *)
(* node and naming whichever parent, cuts off a node that the root can      *)
(* reach (rpl_ns_update_node, rpl_ns_is_node_reachable).                    *)
THEOREM SpecDaoKeepsReachable == Spec => []DaoKeepsReachable
<1>1. ASSUME Inv PROVE DaoKeepsReachable
  <2>1. NsInfinite \in NsLifetime
    BY NsLifetimeAssumption DEF NsInfinite, NsLifetime
  <2> SUFFICES ASSUME ParentsListed, NEW child \in NodeId, NEW parent \in NodeId,
                      NEW i \in NodeId, IsReachable(ns, i)
               PROVE  IsReachable(UpdateNode(ns, child, parent, NsInfinite), i)
    BY DEF DaoKeepsReachable
  <2> QED
    BY <1>1, <2>1, UpdateNodeKeeps DEF Inv, ParentsListed, Closed
<1> QED
  BY <1>1, SpecInv, PTL
=============================================================================
