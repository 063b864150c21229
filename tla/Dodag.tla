-------------------------------- MODULE Dodag ------------------------------
(* The version of the DODAG: what the border router, its root, stores of it *)
(* and starts with again (rpl_set_root), how a global repair raises it, and *)
(* how it spreads over the mesh by DIOs (rpl_process_dio), while the router *)
(* and the nodes are restarted, stores fail and the configuration is reset: *)
(* core/net/rpl/rpl-dag.c, nvm-config.c and native-nvm.c.                   *)
(*                                                                          *)
(* Every DIO may be lost, and a node may hear any other, the root or not:   *)
(* ranks and parents, which do not change the version, are left out. There  *)
(* is one DODAG, and the router starts it as soon as it is up, which is     *)
(* what rpl_fast_startup says.                                              *)
EXTENDS Naturals

CONSTANTS
  Node,           \* the nodes of the mesh
  NoVersion,      \* that of a node, or a root, that is not in the DODAG
  MaxValue,       \* RPL_LOLLIPOP_MAX_VALUE
  Circular,       \* RPL_LOLLIPOP_CIRCULAR_REGION
  Window          \* RPL_LOLLIPOP_SEQUENCE_WINDOWS

ASSUME LollipopAssumption ==
  /\ MaxValue \in Nat /\ Circular \in Nat /\ Window \in Nat \ {0}
  /\ Circular + Window <= MaxValue /\ Window <= Circular

LollipopInit == MaxValue - Window + 1
Version      == (0 .. Circular) \cup (LollipopInit .. MaxValue)

ASSUME NoVersionAssumption == NoVersion \notin Version

VARIABLES
  nvm,      \* nvm_data.rpl_version_id, in memory; NoVersion if the router is down
  file,     \* that of the file; NoVersion if the file has no valid header
  root,     \* the version of the root's dag
  node,     \* those of the nodes
  intact,   \* nothing has gone wrong that may leave the router behind the
            \* nodes, see StoredIsAhead; not in the code
  calm      \* nothing fails, is restarted or repaired any more; not in the code

vars == <<nvm, file, root, node, intact, calm>>

Init ==
  /\ file = LollipopInit
  /\ nvm = NoVersion /\ root = NoVersion
  /\ node = [n \in Node |-> NoVersion]
  /\ intact = TRUE /\ calm = FALSE
-----------------------------------------------------------------------------
(* RPL_LOLLIPOP_INCREMENT: each region ends at 0.                           *)
Increment(c) == IF c \in {Circular, MaxValue} THEN 0 ELSE c + 1

(* lollipop_greater_than. Of a value of the first region and one of the     *)
(* second each may be greater than the other.                               *)
Greater(a, b) ==
  \/ a > Circular /\ b <= Circular /\ (MaxValue + 1 + b) - a > Window
  \/ ~ (a > Circular /\ b <= Circular) /\ a > b /\ a - b < Window
  \/ a < b /\ b - a > (Circular + 1) - Window

(* How many times u is incremented until it is v. From the first region no  *)
(* value of the second is reached.                                          *)
Steps(u, v) ==
  IF u <= v THEN v - u
  ELSE (IF u > Circular THEN MaxValue ELSE Circular) + 1 - u + v

Reaches(u, v) == u <= Circular => v <= Circular

(* The versions left behind by v by less than what can be compared.         *)
Recent(v) == {u \in Version : Reaches(u, v) /\ Steps(u, v) < Window}

Near(v) == \A n \in Node : node[n] \in Recent(v) \cup {NoVersion}

(* nvm_data_write, with v in memory. A failure is only logged, and whoever  *)
(* called goes on: if the file cannot be opened it stays as it was; if it   *)
(* is not written whole it has been truncated, and has no valid header, or  *)
(* the version, or is read as 0xff in its place.                            *)
Write(v) == file' = v \/ (~calm /\ file' \in {file, NoVersion, MaxValue})

(* load_nvm_config. If the file cannot be read, or has no valid header,     *)
(* check_nvm sets everything to its default and stores it.                  *)
Boot ==
  /\ nvm = NoVersion
  /\ \/ file # NoVersion /\ nvm' = file /\ UNCHANGED <<file, intact>>
     \/ /\ file = NoVersion \/ ~calm
        /\ nvm' = LollipopInit
        /\ Write(LollipopInit) /\ intact' = FALSE
  /\ UNCHANGED <<root, node, calm>>

(* cetic_6lbr_start_dodag_root, once the router is up: rpl_set_root.        *)
Start ==
  /\ nvm # NoVersion /\ root = NoVersion
  /\ root' = nvm /\ nvm' = Increment(nvm)
  /\ Write(nvm') /\ intact' = (intact /\ file' = nvm')
  /\ UNCHANGED <<node, calm>>

(* Faulty: the version is stored before it is incremented.                  *)
RepairRootStoresFirst ==
  /\ ~calm
  /\ root # NoVersion
  /\ root' = Increment(root) /\ nvm' = root
  /\ Write(nvm') /\ intact' = (intact /\ file' = nvm' /\ Near(root'))
  /\ UNCHANGED <<node, calm>>

(* rpl_repair_root: the web server, or a new prefix in smart bridge mode.   *)
RepairRoot ==
  /\ ~calm
  /\ root # NoVersion
  /\ root' = Increment(root) /\ nvm' = Increment(root)
  /\ Write(nvm') /\ intact' = (intact /\ file' = nvm' /\ Near(root'))
  /\ UNCHANGED <<node, calm>>

(* A field of the configuration is changed, by the web server or the proxy: *)
(* all of it is stored. While all is well this changes nothing here.        *)
StoreConfig ==
  /\ nvm # NoVersion
  /\ Write(nvm) /\ intact' = (intact /\ file' = nvm)
  /\ UNCHANGED <<nvm, root, node, calm>>

(* reset-config of the web server: check_nvm sets the defaults and stores   *)
(* them while the root goes on with its version, until the router restarts, *)
(* which is a Crash.                                                        *)
ResetConfig ==
  /\ ~calm
  /\ nvm # NoVersion
  /\ nvm' = LollipopInit
  /\ Write(LollipopInit) /\ intact' = FALSE
  /\ UNCHANGED <<root, node, calm>>

(* The router stops, or is restarted, at any time between two handlers.     *)
Crash ==
  /\ ~calm
  /\ nvm # NoVersion
  /\ nvm' = NoVersion /\ root' = NoVersion
  /\ intact' = (intact /\ Near(file))
  /\ UNCHANGED <<file, node, calm>>

(* It stops after nvm_data_write has truncated the file and before it has   *)
(* written it.                                                              *)
CrashInWrite ==
  /\ ~calm
  /\ nvm # NoVersion
  /\ nvm' = NoVersion /\ root' = NoVersion
  /\ file' = NoVersion /\ intact' = FALSE
  /\ UNCHANGED <<node, calm>>

(* Faulty: the root does not answer a DIO of a newer version.               *)
RootDioIgnored(n) ==
  /\ root # NoVersion /\ node[n] # NoVersion
  /\ Greater(node[n], root)
  /\ UNCHANGED vars

(* rpl_process_dio at the root. A DIO that is not of a newer version leaves *)
(* the version as it is.                                                    *)
RootDioInput(n) ==
  /\ root # NoVersion /\ node[n] # NoVersion
  /\ Greater(node[n], root)
  /\ root' = Increment(node[n]) /\ nvm' = Increment(node[n])
  /\ Write(nvm') /\ intact' = (intact /\ file' = nvm' /\ Near(root'))
  /\ UNCHANGED <<node, calm>>

(* rpl_process_dio at a node: it joins, or takes part in a global repair.   *)
NodeDioInput(n, v) ==
  /\ v # NoVersion
  /\ node[n] # NoVersion => Greater(v, node[n])
  /\ node' = [node EXCEPT ![n] = v]
  /\ UNCHANGED <<nvm, file, root, intact, calm>>

NodeRestart(n) ==
  /\ ~calm
  /\ node[n] # NoVersion
  /\ node' = [node EXCEPT ![n] = NoVersion]
  /\ UNCHANGED <<nvm, file, root, intact, calm>>

Calm == ~calm /\ calm' = TRUE /\ UNCHANGED <<nvm, file, root, node, intact>>

Next ==
  \/ Boot \/ Start \/ RepairRoot \/ StoreConfig \/ ResetConfig
  \/ Crash \/ CrashInWrite
  \/ \E n \in Node : RootDioInput(n) \/ NodeDioInput(n, root) \/ NodeRestart(n)
  \/ \E n, m \in Node : NodeDioInput(n, node[m])
  \/ Calm

(* The router is started again, and the DIO timers run for ever: what the   *)
(* root or a node sends is heard in the end, if it goes on sending it.      *)
Fairness ==
  /\ WF_vars(Boot) /\ WF_vars(Start)
  /\ \A n \in Node : WF_vars(NodeDioInput(n, root)) /\ WF_vars(RootDioInput(n))

Spec     == Init /\ [][Next]_vars
FairSpec == Spec /\ Fairness
-----------------------------------------------------------------------------
TypeOK ==
  /\ nvm \in Version \cup {NoVersion}
  /\ file \in Version \cup {NoVersion}
  /\ root \in Version \cup {NoVersion}
  /\ node \in [Node -> Version \cup {NoVersion}]
  /\ intact \in BOOLEAN /\ calm \in BOOLEAN

(* As long as every store has succeeded, none was cut off by a stop, the    *)
(* file could be read and was not reset, and no node was left behind by a   *)
(* window or more, the version in the file, with which the router would     *)
(* start after a crash (rpl_set_root), is never behind that of a node, nor  *)
(* one that a node has while the root has moved on: only if it is the       *)
(* version in use may a restart go unnoticed.                               *)
StoredIsAhead ==
  intact => \A n \in Node : node[n] # NoVersion =>
    /\ ~ Greater(node[n], file)
    /\ node[n] = file /\ root # NoVersion => root = file

(* The version that the root has or, while it is down, will start with.     *)
Current ==
  IF root # NoVersion THEN root
  ELSE IF nvm # NoVersion THEN nvm
  ELSE IF file # NoVersion THEN file ELSE LollipopInit

(* Every node can follow the root; or the root, which a stale file or a     *)
(* reset has put behind some of them, can catch up with the foremost, and   *)
(* all can follow its answer, one version further.                          *)
Foremost(n) ==
  /\ node[n] # NoVersion
  /\ \A v \in {node[n], Increment(node[n])} : Near(v) /\ Current \in Recent(v)

Together == Near(Current) \/ \E n \in Node : Foremost(n)

(* Once nothing fails, is restarted or repaired any more, every node comes  *)
(* to be in the version of the root and stays in it (rpl_process_dio), also *)
(* where it is the root that has to follow first.                           *)
Settled == root # NoVersion /\ \A n \in Node : node[n] = root

Settles == calm /\ Together ~> []Settled
=============================================================================
