-------------------------------- MODULE MCDodag ----------------------------
(* A lollipop of 8 + 3 values for one of 128 + 16.                          *)
EXTENDS Dodag
=============================================================================
