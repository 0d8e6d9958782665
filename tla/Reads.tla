--------------------------------- MODULE Reads ---------------------------------
(***************************************************************************)
(* The calls of the client that do more than one request and its answer:   *)
(* dag.get along a path, ls with its stat requests, and the conversions of *)
(* what goes in and comes out.  They share no state, so that one call of   *)
(* one of them at a time is all there is to see.                           *)
(***************************************************************************)
EXTENDS DagResolve, Ls, Conversions

readsVars == <<getVars, lsVars, convertVars>>

GetUnused ==
  /\ walk = "unused"
  /\ blocks = <<>> /\ root \in Cids /\ path = <<>> /\ local = FALSE /\ parts = <<>>
  /\ value = NoValue /\ loading = root /\ found = NotFound

ConvertUnused == conversion = "unused" /\ input = <<>> /\ output = <<>>

Init ==
  \/ GetInit /\ LsStart("unused") /\ ConvertUnused
  \/ GetUnused /\ LsInit /\ ConvertUnused
  \/ GetUnused /\ LsStart("unused") /\ ConvertInit

Next ==
  \/ GetNext /\ UNCHANGED <<lsVars, convertVars>>
  \/ LsNext /\ UNCHANGED <<getVars, convertVars>>
  \/ Convert /\ UNCHANGED <<getVars, lsVars>>

Spec == Init /\ [][Next]_readsVars

\* The types of the variables of all three.
TypeOK ==
  /\ GetTypeOK
  /\ LsTypeOK
  /\ conversion \in {"unused", "add", "addAll", "pins", "mtime", "events"}
  /\ Len(output) <= 1
=============================================================================
