-------------------------- MODULE TransferRefinement --------------------------
(***************************************************************************)
(* AddAll implements Transfer.  What the daemon has is what was written    *)
(* into the body but for a part that breaks off, and what went wrong is    *)
(* the end of the response or, before that, its status.                    *)
(***************************************************************************)
EXTENDS Uploads

outcomeBar ==
  IF op \in {"peeking", "posting", "waiting", "reading"} THEN "running" ELSE op

\* The part that breaks off is the last one.
receivedBar ==
  IF sent # <<>> /\ sent[Len(sent)] = Cut THEN Len(sent) - 1 ELSE Len(sent)

troubleBar ==
  IF ending \in {"trailer", "lost"} THEN ending
  ELSE IF head = "error" THEN "refused"
  ELSE "none"

Promise == INSTANCE Transfer WITH
             outcome <- outcomeBar, received <- receivedBar, accepted <- complete,
             given <- yielded, trouble <- troubleBar

\* Seen through the daemon's eyes and the caller's, addAll is a Transfer: no
\* entry goes out after the call has ended or was aborted, no result is given
\* for an entry that did not arrive, an upload that was broken off is not taken
\* for whole, and the call throws for a reason only, and whenever there is one
\* outside the source.
ImplementsTransfer == Promise!Spec
=============================================================================
