-------------------------------- MODULE Uploads --------------------------------
(***************************************************************************)
(* addAll on its two platforms: streamed, in Node (AddAll), or as a form   *)
(* with progress events, in a browser (BrowserUpload).                     *)
(***************************************************************************)
EXTENDS AddAll, BrowserUpload

VARIABLE platform

XhrUnused == form = [sizes |-> <<>>, fails |-> FALSE] /\ computable = TRUE /\ XhrStart("unused")

\* addAll before it is called, with nothing to upload.
AddAllUnused == Init /\ source = [entries |-> 0, fails |-> "never"]

UploadsInit ==
  \/ platform = "node" /\ Init /\ XhrUnused
  \/ platform = "browser" /\ AddAllUnused /\ XhrInit

UploadsNext ==
  /\ UNCHANGED platform
  /\ \/ platform = "node" /\ Next /\ UNCHANGED xhrVars
     \/ platform = "browser" /\ XhrNext /\ UNCHANGED vars

UploadsSpec == UploadsInit /\ [][UploadsNext]_<<platform, vars, xhrVars>> /\ Fairness
=============================================================================
