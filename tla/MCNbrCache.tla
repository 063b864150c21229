---------------------------- MODULE MCNbrCache -----------------------------
(* Two neighbors, three link-layer addresses with the null one and room for *)
(* two: the table fills up, addresses move and neighbors are evicted.       *)
EXTENDS NbrCache
=============================================================================
