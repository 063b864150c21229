----------------------------- MODULE MCSlipOut -----------------------------
(* Packets of two lengths and room for three short ones: short packets in   *)
(* front of long ones make the areas of memcpy overlap.                     *)
EXTENDS SlipOut
=============================================================================
