------------------------------ MODULE SentOnce ------------------------------
(* What a MAC driver promises to the layer above it (core/net/mac/mac.h,    *)
(* mac_driver.send and its mac_callback_t): a packet that is submitted is   *)
(* reported on exactly once, with one status, at once or later.             *)
EXTENDS Naturals, Sequences

CONSTANTS Packet, Status

VARIABLES
  submitted,   \* the packets that were given to the driver
  reports      \* for each packet, the statuses it was reported with

vars == <<submitted, reports>>

Init ==
  /\ submitted = {}
  /\ reports = [p \in Packet |-> <<>>]

Submit(p) ==
  /\ p \notin submitted
  /\ submitted' = submitted \cup {p}
  /\ UNCHANGED reports

Report(p) ==
  /\ p \in submitted /\ reports[p] = <<>>
  /\ \E st \in Status : reports' = [reports EXCEPT ![p] = <<st>>]
  /\ UNCHANGED submitted

(* The driver cannot take the packet and says so before send returns.       *)
Refuse(p) ==
  /\ p \notin submitted
  /\ submitted' = submitted \cup {p}
  /\ \E st \in Status : reports' = [reports EXCEPT ![p] = <<st>>]

Next == \E p \in Packet : Submit(p) \/ Report(p) \/ Refuse(p)

Spec     == Init /\ [][Next]_vars
FairSpec == Spec /\ \A p \in Packet : WF_vars(Report(p))
=============================================================================
