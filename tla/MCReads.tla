------------------------------- MODULE MCReads -------------------------------
(* Instances of Reads for TLC; the constants are in the cfg.                 *)
EXTENDS Reads, TLC
=============================================================================
