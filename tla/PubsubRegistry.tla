--------------------------- MODULE PubsubRegistry ---------------------------
(***************************************************************************)
(* What pubsub.subscribe and pubsub.unsubscribe promise a caller, without  *)
(* trackers, listeners, promises or microtasks: a subscription is live     *)
(* from the call of subscribe() until it is unsubscribed, its caller's     *)
(* signal is aborted or its own connection is over, and a connection that  *)
(* is over takes its subscription with it.  Module Pubsub implements this  *)
(* for careful callers (PubsubRefinement).                                 *)
(***************************************************************************)
EXTENDS Naturals

CONSTANTS Topics, Handlers, Calls, Signals, NoSignal

VARIABLES
  live,   \* the live subscriptions
  conn    \* the connection of each call: "none", "open" or "over"

registryVars == <<live, conn>>

Subscription ==
  [topic : Topics, handler : Handlers, call : Calls, signal : Signals \cup {NoSignal}]

Init ==
  /\ live = {}
  /\ conn = [c \in Calls |-> "none"]

\* A key has at most one live subscription.
Subscribe(c, t, h, s) ==
  /\ conn[c] = "none"
  /\ ~\E e \in live : e.topic = t /\ e.handler = h
  /\ live' = live \cup {[topic |-> t, handler |-> h, call |-> c, signal |-> s]}
  /\ conn' = [conn EXCEPT ![c] = "open"]

Unsubscribe(t, h) ==
  /\ live' = {e \in live : ~(e.topic = t /\ e.handler = h)}
  /\ UNCHANGED conn

UnsubscribeAll(t) ==
  /\ live' = {e \in live : e.topic # t}
  /\ UNCHANGED conn

\* The caller aborts the signal it subscribed with.
Cancel(s) ==
  /\ live' = {e \in live : e.signal # s}
  /\ UNCHANGED conn

\* A connection ends by itself, or because its subscription is not live.
ConnectionOver(c) ==
  /\ conn[c] = "open"
  /\ conn' = [conn EXCEPT ![c] = "over"]
  /\ UNCHANGED live

\* Only the subscription whose own connection is over is forgotten.
Forget(c) ==
  /\ conn[c] = "over"
  /\ \E e \in live : e.call = c /\ live' = live \ {e}
  /\ UNCHANGED conn

Next ==
  \/ \E c \in Calls, t \in Topics, h \in Handlers, s \in Signals \cup {NoSignal} :
       Subscribe(c, t, h, s)
  \/ \E t \in Topics : UnsubscribeAll(t) \/ \E h \in Handlers : Unsubscribe(t, h)
  \/ \E s \in Signals : Cancel(s)
  \/ \E c \in Calls : ConnectionOver(c) \/ Forget(c)

\* A connection that is over is noticed, and so is a subscription that ended:
\* its connection is given up.
Fairness ==
  \A c \in Calls :
    /\ WF_registryVars(Forget(c))
    /\ WF_registryVars(ConnectionOver(c) /\ \A e \in live : e.call # c)

Spec == Init /\ [][Next]_registryVars /\ Fairness
=============================================================================
