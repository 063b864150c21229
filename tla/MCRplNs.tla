------------------------------- MODULE MCRplNs -----------------------------
(* The border router and two nodes, with a block for each.                  *)
EXTENDS RplNs
=============================================================================
