-------------------------- MODULE PubsubRefinement --------------------------
(***************************************************************************)
(* Pubsub implements PubsubRegistry.  An entry of the tracker is a live    *)
(* subscription; the connection of a call is open while its request or its *)
(* body can still produce something.                                       *)
(***************************************************************************)
EXTENDS Pubsub

liveBar ==
  {[topic |-> e.topic, handler |-> e.handler, call |-> e.controller,
    signal |-> call[e.controller].signal] : e \in subs}

connBar ==
  [c \in Calls |->
     CASE stage[c] \in {"unused", "refused"} -> "none"
       [] stage[c] \in {"fetching", "responded"} -> "open"
       [] stage[c] = "reading" /\ stream[c] = "open" -> "open"
       [] OTHER -> "over"]

Registry == INSTANCE PubsubRegistry WITH live <- liveBar, conn <- connBar

\* Seen through its tracker, the subscriptions of Pubsub appear and disappear
\* as PubsubRegistry promises: a subscription never ends on behalf of another
\* one, a key is never live twice, an ended one lets its connection go.
ImplementsRegistry == Registry!Spec
=============================================================================
