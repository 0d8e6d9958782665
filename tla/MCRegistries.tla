---------------------------- MODULE MCRegistries ----------------------------
(* Instances of Registries for TLC: tables of three codecs and of two bases. *)
EXTENDS CodecRefinement, TLC

CONSTANTS n1, n2, k0, k1, k2

Rows       == n1 :> k1 @@ n2 :> k2 @@ Nameless :> k0
PrefixRows == n1 :> k1 @@ n2 :> k2

Symmetry == Permutations(Gets) \cup Permutations(BaseGets)
=============================================================================
