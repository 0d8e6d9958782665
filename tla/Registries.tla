------------------------------- MODULE Registries -------------------------------
(***************************************************************************)
(* The registries of a client: codecs (and hashers, which are the same     *)
(* program) and bases.  They share nothing, so one at a time is run.       *)
(***************************************************************************)
EXTENDS Multicodecs, Multibases

VARIABLE registry   \* the one that is run

CodecsUnused ==
  /\ byName = [n \in Names |-> NoCodec] /\ byCode = [k \in Codes |-> NoCodec]
  /\ key = [g \in Gets |-> NoCodec] /\ stage = [g \in Gets |-> "idle"]
  /\ result = [g \in Gets |-> NoCodec]

RegistriesInit ==
  \/ registry = "codecs" /\ Init /\ Holding({})
  \/ registry = "bases" /\ BasesInit /\ CodecsUnused

RegistriesNext ==
  /\ UNCHANGED registry
  /\ \/ registry = "codecs" /\ Next /\ UNCHANGED baseVars
     \/ registry = "bases" /\ BasesNext /\ UNCHANGED vars

RegistriesSpec == RegistriesInit /\ [][RegistriesNext]_<<registry, vars, baseVars>>

\* The tables of both registries and their gets have their types.
TypesOK == TypeOK /\ BasesTypeOK /\ registry \in {"codecs", "bases"}
=============================================================================
