------------------------------ MODULE MCPubsub ------------------------------
(***************************************************************************)
(* Instances of Pubsub for TLC.  Calls, handlers, options objects and      *)
(* signals are interchangeable, so safety runs use their permutations.     *)
(***************************************************************************)
EXTENDS Pubsub, TLC

Symmetry ==
  Permutations(Calls) \cup Permutations(Handlers) \cup Permutations(Options)
    \cup Permutations(Signals)
=============================================================================
