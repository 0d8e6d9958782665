------------------------------ MODULE MCUploads ------------------------------
(* Instances of TransferRefinement for TLC; the constants are in the cfg. *)
EXTENDS TransferRefinement, TLC
=============================================================================
