------------------------------- MODULE Transfer -------------------------------
(***************************************************************************)
(* What addAll promises a caller, without connections, combined signals,   *)
(* peeked iterators or buffered results: the entries of the source go to   *)
(* the daemon while the call runs and nobody has aborted it, a result is   *)
(* given for an entry the daemon has, and the call ends once, for a reason.*)
(* Module AddAll implements this (TransferRefinement).                     *)
(***************************************************************************)
EXTENDS Naturals

VARIABLES
  source,    \* how many entries the caller's iterable has, and if it throws
  outcome,   \* of the call
  aborted,   \* the caller's signal
  received,  \* the entries the daemon has whole
  accepted,  \* the daemon has been told that these are all
  given,     \* the results the caller has
  trouble    \* what went wrong beyond the client

transferVars == <<source, outcome, aborted, received, accepted, given, trouble>>

\* The entries a source has before it throws.
Whole == IF source.fails = "content" THEN source.entries - 1 ELSE source.entries

Init ==
  /\ source \in [entries : Nat, fails : {"never", "next", "content"}]
  /\ outcome = "idle" /\ aborted = FALSE
  /\ received = 0 /\ accepted = FALSE /\ given = 0
  /\ trouble = "none"

Begin ==
  /\ outcome = "idle"
  /\ outcome' = "running"
  /\ UNCHANGED <<source, aborted, received, accepted, given, trouble>>

Abort ==
  /\ ~aborted
  /\ aborted' = TRUE
  /\ UNCHANGED <<source, outcome, received, accepted, given, trouble>>

\* The way to the daemon: not after an abort, the end of the call or that of
\* the response.
Connected == outcome = "running" /\ ~aborted /\ trouble \in {"none", "refused"}

Receive ==
  /\ Connected
  /\ received < Whole
  /\ received' = received + 1
  /\ UNCHANGED <<source, outcome, aborted, accepted, given, trouble>>

\* Only what is whole is taken for whole.
Accept ==
  /\ Connected
  /\ source.fails = "never" /\ received = source.entries
  /\ accepted' = TRUE
  /\ UNCHANGED <<source, outcome, aborted, received, given, trouble>>

Give ==
  /\ outcome = "running" /\ trouble # "refused"
  /\ given < received
  /\ given' = given + 1
  /\ UNCHANGED <<source, outcome, aborted, received, accepted, trouble>>

\* The daemon answers an error, fails while it answers, or is lost.
Fail(how) ==
  /\ Connected
  /\ how \in {"refused", "trailer"} => trouble = "none"
  /\ trouble' = how
  /\ UNCHANGED <<source, outcome, aborted, received, accepted, given>>

\* An error needs a reason: one of the caller, of the network, or of a source
\* whose good entries have all gone.
MayEnd(how) ==
  CASE how = "done"    -> trouble = "trailer" \/ (accepted /\ given = source.entries)
    [] how = "thrown"  -> \/ aborted
                          \/ trouble \in {"refused", "lost"}
                          \/ source.fails # "never" /\ received = Whole
    [] how = "stopped" -> given > 0

\* The call is over, and with it all that it does.
End(how) ==
  /\ outcome = "running"
  /\ MayEnd(how)
  /\ outcome' = how
  /\ UNCHANGED <<source, aborted, received, accepted, given, trouble>>

Ends == {"done", "thrown", "stopped"}

Next ==
  \/ Begin \/ Abort \/ Receive \/ Accept \/ Give
  \/ \E how \in {"refused", "trailer", "lost"} : Fail(how)
  \/ \E how \in Ends : End(how)

\* Whatever is wrong ends the call.
Fairness ==
  WF_transferVars((aborted \/ trouble # "none") /\ \E how \in Ends : End(how))

Spec == Init /\ [][Next]_transferVars /\ Fairness
=============================================================================
