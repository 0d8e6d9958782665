------------------------------ MODULE MCNdjson ------------------------------
(* Instances of Ndjson for TLC; the constants are in the cfg.                *)
EXTENDS Ndjson
=============================================================================
