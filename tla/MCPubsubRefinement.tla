------------------------- MODULE MCPubsubRefinement -------------------------
(* Instances of PubsubRefinement for TLC; the constants are in the cfg.      *)
EXTENDS PubsubRefinement, TLC
=============================================================================
