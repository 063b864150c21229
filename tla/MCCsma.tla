------------------------------- MODULE MCCsma -------------------------------
(* Two queues for three addresses, so that the neighbor pool runs out, and  *)
(* two sequence numbers, so that they come round while packets are queued.  *)
EXTENDS Csma

CONSTANTS p1, p2, p3
=============================================================================
