------------------------------ MODULE MCDownward ---------------------------
(* Two hosts and a prefix that covers one of them, two neighbors under two  *)
(* link-layer addresses and room for two routes; four nodes, three blocks.  *)
EXTENDS Downward, TLC

CONSTANTS h1, h2, net

MCCovers == (h1 :> {h1}) @@ (h2 :> {h2}) @@ (net :> {net, h1})
MCLength == (h1 :> 128) @@ (h2 :> 128) @@ (net :> 64)
=============================================================================
