----------------------------- MODULE MCCommands -----------------------------
(* Instances of Commands for TLC; the constants are in the cfgs.             *)
EXTENDS Commands, TLC
=============================================================================
