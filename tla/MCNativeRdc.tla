---------------------------- MODULE MCNativeRdc ----------------------------
(* Three sessions, one radio that retransmits once and one that does not.   *)
EXTENDS NativeRdc, TLC

CONSTANTS d1, d2, r1

MCRetransmit == (d1 :> 1) @@ (d2 :> 0)
=============================================================================
