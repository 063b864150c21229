----------------------------- MODULE Dodag_proofs --------------------------
(* Proofs of the safety properties of Dodag, for any nodes and any lollipop *)
(* whose window is at most half of its circular region.                     *)
EXTENDS Dodag, TLAPS

(* The counter stays in its two regions.                                    *)
LEMMA IncrementType == \A c \in Version : Increment(c) \in Version
BY LollipopAssumption, SMT DEF Increment, Version, LollipopInit

LEMMA InitType == LollipopInit \in Version /\ MaxValue \in Version
BY LollipopAssumption, SMT DEF Version, LollipopInit

(* What is in memory while the router is up, and that, as long as all went  *)
(* well, the file has the version in use or the next one.                   *)
Up == root # NoVersion => nvm # NoVersion

StoredIsNext ==
  intact => /\ nvm # NoVersion => file = nvm
            /\ root # NoVersion => file \in {root, Increment(root)}
            /\ file # NoVersion

StoredInv == TypeOK /\ Up /\ StoredIsNext

LEMMA InitStored == Init => StoredInv
BY InitType, NoVersionAssumption DEF Init, StoredInv, TypeOK, Up, StoredIsNext

LEMMA NextStored == StoredInv /\ [Next]_vars => StoredInv'
<1> SUFFICES ASSUME StoredInv, [Next]_vars PROVE StoredInv'
  OBVIOUS
<1> USE InitType, NoVersionAssumption DEF StoredInv, TypeOK, Up, StoredIsNext
<1>1. CASE Boot
  BY <1>1 DEF Boot, Write
<1>2. CASE Start
  BY <1>2, IncrementType DEF Start, Write
<1>3. CASE RepairRoot
  <2>1. root \in Version /\ Increment(root) \in Version
    BY <1>3, IncrementType DEF RepairRoot
  <2> QED
    BY <1>3, <2>1 DEF RepairRoot, Write
<1>4. CASE StoreConfig
  BY <1>4 DEF StoreConfig, Write
<1>5. CASE ResetConfig
  BY <1>5 DEF ResetConfig, Write
<1>6. CASE Crash
  BY <1>6 DEF Crash
<1>7. CASE CrashInWrite
  BY <1>7 DEF CrashInWrite
<1>8. ASSUME NEW n \in Node, RootDioInput(n) PROVE StoredInv'
  <2>1. node[n] \in Version /\ Increment(node[n]) \in Version
    BY <1>8, IncrementType DEF RootDioInput
  <2> QED
    BY <1>8, <2>1 DEF RootDioInput, Write
<1>9. ASSUME NEW n \in Node, NEW v \in Version \cup {NoVersion}, NodeDioInput(n, v) PROVE StoredInv'
  BY <1>9 DEF NodeDioInput
<1>10. ASSUME NEW n \in Node, NodeRestart(n) PROVE StoredInv'
  BY <1>10 DEF NodeRestart
<1>11. CASE Calm
  BY <1>11 DEF Calm
<1>12. CASE UNCHANGED vars
  BY <1>12 DEF vars
<1> QED
  BY <1>1, <1>2, <1>3, <1>4, <1>5, <1>6, <1>7, <1>8, <1>9, <1>10, <1>11, <1>12 DEF Next

LEMMA SpecStored == Spec => []StoredInv
BY InitStored, NextStored, PTL DEF Spec

(* Every version, in memory, stored, used or announced, is one of the two   *)
(* regions, whatever of the file is lost (rpl_set_root, check_nvm).         *)
THEOREM SpecTypeOK == Spec => []TypeOK
<1>1. StoredInv => TypeOK
  BY DEF StoredInv
<1> QED
  BY <1>1, SpecStored, PTL
-----------------------------------------------------------------------------
(* How the comparison sees versions that are a few increments apart: an     *)
(* older one is never greater, and none comes round to itself.              *)
HalfWindow == 2 * Window <= Circular + 1

LEMMA RecentNotGreater ==
  ASSUME NEW v \in Version, NEW u \in Recent(v), HalfWindow
  PROVE  ~ Greater(u, v)
BY LollipopAssumption, SMTT(60)
   DEF Recent, Reaches, Steps, Version, LollipopInit, Greater, HalfWindow

LEMMA RecentNotGreaterNext ==
  ASSUME NEW v \in Version, NEW u \in Recent(v), HalfWindow
  PROVE  ~ Greater(u, Increment(v)) /\ u # Increment(v)
BY LollipopAssumption, SMTT(60)
   DEF Recent, Reaches, Steps, Version, LollipopInit, Greater, HalfWindow, Increment

LEMMA RecentItself == \A v \in Version : v \in Recent(v)
BY LollipopAssumption, SMT DEF Recent, Reaches, Steps, Version, LollipopInit

(* As long as all went well every node has a recent version, seen from what *)
(* the root uses, or will use when it is started.                           *)
Followed == intact => Near(Current)

FollowedInv == StoredInv /\ Followed

LEMMA CurrentType == TypeOK => Current \in Version
BY InitType, NoVersionAssumption DEF TypeOK, Current

LEMMA NextFollowed ==
  ASSUME HalfWindow, FollowedInv, [Next]_vars
  PROVE  Followed'
<1> USE NoVersionAssumption DEF FollowedInv, StoredInv, TypeOK, Up, StoredIsNext, Followed, Current
<1>1. CASE Boot
  BY <1>1 DEF Boot, Write, Near
<1>2. CASE Start
  BY <1>2 DEF Start, Write, Near
<1>3. CASE RepairRoot
  <2>1. root' # NoVersion /\ (intact' => Near(root)')
    BY <1>3, IncrementType DEF RepairRoot, Near
  <2> QED
    BY <2>1
<1>4. CASE StoreConfig
  BY <1>4 DEF StoreConfig, Write, Near
<1>5. CASE ResetConfig
  BY <1>5 DEF ResetConfig, Write
<1>6. CASE Crash
  BY <1>6 DEF Crash, Near
<1>7. CASE CrashInWrite
  BY <1>7 DEF CrashInWrite
<1>8. ASSUME NEW n \in Node, RootDioInput(n) PROVE Followed'
  <2>1. CASE intact
    <3>1. root \in Version /\ node[n] \in Recent(root)
      BY <1>8, <2>1 DEF RootDioInput, Near
    <3> QED
      BY <1>8, <3>1, RecentNotGreater DEF RootDioInput
  <2>2. CASE ~ intact
    BY <1>8, <2>2 DEF RootDioInput
  <2> QED
    BY <2>1, <2>2
<1>9. ASSUME NEW n \in Node, NodeDioInput(n, root) PROVE Followed'
  <2>1. root \in Version /\ root \in Recent(root)
    BY <1>9, RecentItself DEF NodeDioInput
  <2> QED
    BY <1>9, <2>1 DEF NodeDioInput, Near
<1>10. ASSUME NEW n \in Node, NEW m \in Node, NodeDioInput(n, node[m]) PROVE Followed'
  BY <1>10 DEF NodeDioInput, Near
<1>11. ASSUME NEW n \in Node, NodeRestart(n) PROVE Followed'
  BY <1>11 DEF NodeRestart, Near
<1>12. CASE Calm
  BY <1>12 DEF Calm, Near
<1>13. CASE UNCHANGED vars
  BY <1>13 DEF vars, Near
<1> QED
  BY <1>1, <1>2, <1>3, <1>4, <1>5, <1>6, <1>7, <1>8, <1>9, <1>10, <1>11, <1>12, <1>13 DEF Next

LEMMA FollowedIsAhead == HalfWindow /\ FollowedInv => StoredIsAhead
<1> SUFFICES ASSUME HalfWindow, FollowedInv, intact, NEW n \in Node, node[n] # NoVersion
             PROVE  /\ ~ Greater(node[n], file)
                    /\ node[n] = file /\ root # NoVersion => root = file
  BY DEF StoredIsAhead
<1>1. Current \in Version /\ node[n] \in Recent(Current)
  BY CurrentType DEF FollowedInv, StoredInv, TypeOK, Followed, Near
<1>2. file \in {Current, Increment(Current)}
  BY DEF FollowedInv, StoredInv, TypeOK, StoredIsNext, Current
<1>3. file = Current => root = file \/ root = NoVersion
  BY DEF Current
<1> QED
  BY <1>1, <1>2, <1>3, RecentNotGreater, RecentNotGreaterNext

(* The version of the next start is not behind that of a node, however      *)
(* restarts, repairs and DIOs alternate (rpl_set_root, rpl_repair_root), as *)
(* long as `intact' says that every store has succeeded and none was cut    *)
(* off, the file could be read and was not reset, and no node was left      *)
(* behind by a window; and if the window is at most half of the circular    *)
(* region: it is 16 of 128 (rpl-private.h).                                 *)
THEOREM SpecStoredIsAhead == ASSUME HalfWindow PROVE Spec => []StoredIsAhead
<1>1. Init => Followed
  BY DEF Init, Followed, Near
<1>2. FollowedInv /\ [Next]_vars => FollowedInv'
  BY NextStored, NextFollowed DEF FollowedInv
<1>3. FollowedInv => StoredIsAhead
  BY FollowedIsAhead
<1> QED
  BY <1>1, <1>2, <1>3, InitStored, PTL DEF Spec, FollowedInv
-----------------------------------------------------------------------------
(* The answer of the root to a version behind that of the foremost node.    *)
LEMMA AnswerRecent ==
  ASSUME NEW v \in Version, NEW u \in Recent(v) \cap Recent(Increment(v)), u # v
  PROVE  Increment(u) \in Recent(v) \cap Recent(Increment(v))
<1> USE LollipopAssumption DEF Recent, Reaches, Steps, Version, LollipopInit
<1>1. CASE u \in {Circular, MaxValue}
  BY <1>1, SMTT(60) DEF Increment
<1>2. CASE u \notin {Circular, MaxValue} /\ v \in {Circular, MaxValue}
  BY <1>2, SMTT(60) DEF Increment
<1>3. CASE u \notin {Circular, MaxValue} /\ v \notin {Circular, MaxValue}
  BY <1>3, SMTT(60) DEF Increment
<1> QED
  BY <1>1, <1>2, <1>3

(* Of the steps that are left when all is calm, those of the router and of  *)
(* the nodes keep all together.                                             *)
LEMMA SameTogether ==
  ASSUME Together, Current' = Current, UNCHANGED node PROVE Together'
<1>1. CASE Near(Current)
  BY <1>1 DEF Together, Near
<1>2. CASE \E n \in Node : Foremost(n)
  BY <1>2 DEF Together, Foremost, Near
<1> QED
  BY <1>1, <1>2 DEF Together

LEMMA RootDioTogether ==
  ASSUME HalfWindow, TypeOK, Together, NEW k \in Node, RootDioInput(k)
  PROVE  Together'
<1>1. /\ root \in Version /\ node[k] \in Version /\ Current = root
      /\ UNCHANGED node /\ Current' = Increment(node[k])
      /\ Greater(node[k], root)
  BY IncrementType, NoVersionAssumption DEF RootDioInput, TypeOK, Current
<1>2. ~ Near(Current)
  BY <1>1, RecentNotGreater, NoVersionAssumption DEF Near
<1>3. PICK n \in Node : Foremost(n)
  BY <1>2 DEF Together
<1>4. node[n] \in Version
  BY <1>3 DEF TypeOK, Foremost
<1>5. CASE node[k] = node[n]
  BY <1>1, <1>3, <1>5 DEF Together, Foremost, Near
<1>6. CASE node[k] # node[n]
  <2>1. node[k] \in Recent(node[n]) \cap Recent(Increment(node[n]))
    BY <1>1, <1>3, NoVersionAssumption DEF Foremost, Near
  <2>2. Current' \in Recent(node[n]) \cap Recent(Increment(node[n]))
    BY <1>1, <1>4, <1>6, <2>1, AnswerRecent
  <2>3. Foremost(n)'
    BY <1>1, <1>3, <2>2 DEF Foremost, Near
  <2> QED
    BY <2>3 DEF Together
<1> QED
  BY <1>5, <1>6

LEMMA NodeDioTogether ==
  ASSUME HalfWindow, TypeOK, Together, NEW k \in Node, NEW v,
         v = root \/ \E m \in Node : v = node[m], NodeDioInput(k, v)
  PROVE  Together'
<1>1. /\ v \in Version /\ Current' = Current
      /\ node' = [node EXCEPT ![k] = v]
      /\ v = Current \/ \E m \in Node : v = node[m]
  BY DEF NodeDioInput, TypeOK, Current
<1>2. CASE Near(Current)
  <2>1. Current \in Version
    BY CurrentType
  <2>2. v \in Recent(Current)
    BY <1>1, <1>2, <2>1, RecentItself, NoVersionAssumption DEF Near
  <2> QED
    BY <1>1, <1>2, <2>2 DEF Together, Near, TypeOK
<1>3. ASSUME NEW n \in Node, Foremost(n) PROVE Together'
  <2>1. \A w \in {node[n], Increment(node[n])} : v \in Recent(w)
    BY <1>1, <1>3, NoVersionAssumption DEF Foremost, Near
  <2>2. k # n
    BY <1>3, <2>1, RecentNotGreater DEF NodeDioInput, TypeOK, Foremost
  <2>3. Foremost(n)'
    BY <1>1, <1>3, <2>1, <2>2 DEF Foremost, Near, TypeOK
  <2> QED
    BY <2>3 DEF Together
<1> QED
  BY <1>2, <1>3 DEF Together

(* Once nothing fails, is restarted or repaired any more, root and nodes    *)
(* that are together stay so: no DIO, heard by the root or by a node        *)
(* (rpl_process_dio), leads some away from the others, and no start and no  *)
(* store does.                                                              *)
StaysTogether == [][calm /\ Together => Together']_vars

THEOREM SpecStaysTogether == ASSUME HalfWindow PROVE Spec => StaysTogether
<1>1. ASSUME StoredInv, [Next]_vars PROVE [calm /\ Together => Together']_vars
  <2> SUFFICES ASSUME calm, Together, Next PROVE Together'
    BY <1>1
  <2> USE NoVersionAssumption DEF StoredInv, TypeOK, Up
  <2>1. CASE Boot
    <3>1. Current' = Current
      BY <1>1, <2>1 DEF Boot, Write, Current
    <3> QED
      BY <2>1, <3>1, SameTogether DEF Boot
  <2>2. CASE Start
    <3>1. Current' = Current
      BY <1>1, <2>2 DEF Start, Current
    <3> QED
      BY <2>2, <3>1, SameTogether DEF Start
  <2>3. CASE StoreConfig
    <3>1. Current' = Current
      BY <1>1, <2>3 DEF StoreConfig, Current
    <3> QED
      BY <2>3, <3>1, SameTogether DEF StoreConfig
  <2>4. CASE RepairRoot \/ ResetConfig \/ Crash \/ CrashInWrite \/ Calm
    BY <2>4 DEF RepairRoot, ResetConfig, Crash, CrashInWrite, Calm
  <2>5. ASSUME NEW n \in Node, RootDioInput(n) PROVE Together'
    BY <1>1, <2>5, RootDioTogether
  <2>6. ASSUME NEW n \in Node, NodeDioInput(n, root) PROVE Together'
    BY <1>1, <2>6, NodeDioTogether
  <2>7. ASSUME NEW n \in Node, NEW m \in Node, NodeDioInput(n, node[m]) PROVE Together'
    BY <1>1, <2>7, NodeDioTogether
  <2>8. ASSUME NEW n \in Node, NodeRestart(n) PROVE Together'
    BY <2>8 DEF NodeRestart
  <2> QED
    BY <2>1, <2>2, <2>3, <2>4, <2>5, <2>6, <2>7, <2>8 DEF Next
<1> QED
  BY <1>1, SpecStored, PTL DEF Spec, StaysTogether
=============================================================================
