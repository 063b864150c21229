----------------------------- MODULE MCRadioTx -----------------------------
(* Two radios and two neighbor queues.                                      *)
EXTENDS RadioTx, TLC

CONSTANTS d1, d2, p1, p2, p3

Symmetry     == Permutations(Packet) \cup Permutations(Slot)
NoRetransmit == [d \in Device |-> 0]
MCRetransmit == [d \in Device |-> IF d = d1 THEN 1 ELSE 0]
=============================================================================
