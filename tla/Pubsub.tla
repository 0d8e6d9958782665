------------------------------- MODULE Pubsub -------------------------------
(***************************************************************************)
(* pubsub.subscribe / pubsub.unsubscribe of kubo-rpc-client.               *)
(*                                                                         *)
(* Each call of subscribe() owns one AbortController, one long-lived POST  *)
(* to pubsub/sub, one 1000 ms timer (the Firefox workaround) and one       *)
(* promise handed to the caller.  A shared SubscriptionTracker remembers   *)
(* which (topic, handler) pairs are subscribed.  Everything that happens   *)
(* later to a call (its catch and then handlers, the end of its response   *)
(* body, the caller's own AbortSignal) goes back to the tracker by         *)
(* (topic, handler), not by call: the properties are about that.           *)
(*                                                                         *)
(* JavaScript runs one task at a time and drains the microtasks between    *)
(* two tasks: network events and timers need Idle, while the callers' own  *)
(* steps may fall between any two microtasks.                              *)
(***************************************************************************)
EXTENDS Naturals, FiniteSets

CONSTANTS
  Topics, Handlers,
  Calls,      \* identities of the calls of subscribe(); also their controllers
  Signals,    \* AbortSignals made by the callers
  NoSignal,   \* options.signal is undefined
  NoCall,     \* arguments of a call not made yet
  Options,    \* options objects the callers own
  MaxLines,   \* most NDJSON lines in one chunk of a response body
  Habits      \* what callers do besides subscribing once per key; see CallerMay

AllHabits == {"resubscribe", "shareOptions", "abortedSignal"}

ASSUME PubsubAssumption ==
  /\ MaxLines \in Nat \ {0}
  /\ Habits \subseteq AllHabits
  /\ Signals \cap Calls = {}
  /\ NoSignal \notin Signals \cup Calls

VARIABLES
  subs,       \* the tracker's _subs: entries {handler, controller} by topic
  listeners,  \* 'abort' listeners the tracker put on signals, never removed
  aborted,    \* the signals and controllers that are aborted
  optSignal,  \* options.signal of each options object
  call,       \* topic, handler and incoming options.signal of each call
  stage,      \* how far the request of each call is
  promise,    \* the promise subscribe() returned
  timer,      \* ffWorkaround
  stream,     \* the response body
  lines,      \* lines of the current chunk that readMessages has not taken
  fatal,      \* calls whose onError was told of a fatal error
  cancelled   \* history: subscriptions their own caller cancelled

tracker == <<subs, listeners, aborted, cancelled>>
request == <<stage, promise, timer, stream, lines, fatal>>
vars == <<tracker, optSignal, call, request>>

AnySignal == Signals \cup Calls \cup {NoSignal}
Entry     == [topic : Topics, handler : Handlers, controller : Calls]
Listener  == [signal : Signals \cup Calls, topic : Topics, handler : Handlers]
CallArgs  == [topic : Topics, handler : Handlers, signal : AnySignal]

Stages  == {"unused", "refused", "fetching", "responded", "failed", "caught",
            "reading", "ended"}
Started == Stages \ {"unused", "refused"}

\* The types of the tracker's entries, the listeners and the calls: a call that has
\* begun knows its arguments.
TypeOK ==
  /\ subs \subseteq Entry
  /\ listeners \subseteq Listener
  /\ aborted \subseteq Signals \cup Calls
  /\ cancelled \subseteq Calls
  /\ optSignal \in [Options -> AnySignal]
  /\ call \in [Calls -> CallArgs \cup {NoCall}]
  /\ \A c \in Calls : stage[c] \in Started => call[c] \in CallArgs
  /\ stage \in [Calls -> Stages]
  /\ promise \in [Calls -> {"none", "pending", "resolved", "rejected"}]
  /\ timer \in [Calls -> {"off", "armed", "cleared", "fired"}]
  /\ stream \in [Calls -> {"open", "ended", "lost", "garbled"}]
  /\ lines \in [Calls -> 0..MaxLines]
  /\ fatal \subseteq Calls

Init ==
  /\ subs = {}
  /\ listeners = {}
  /\ aborted = {}
  /\ cancelled = {}
  /\ optSignal \in [Options -> Signals \cup {NoSignal}]
  /\ call = [c \in Calls |-> NoCall]
  /\ stage = [c \in Calls |-> "unused"]
  /\ promise = [c \in Calls |-> "none"]
  /\ timer = [c \in Calls |-> "off"]
  /\ stream = [c \in Calls |-> "open"]
  /\ lines = [c \in Calls |-> 0]
  /\ fatal = {}

-----------------------------------------------------------------------------
(* The subscription tracker.                                               *)

Keyed(t, h) == {e \in subs : e.topic = t /\ e.handler = h}
OfCall(c) == {e \in subs : e.controller = c}
Controllers(S) == {e.controller : e \in S}

\* Aborting a controller runs the listeners on its signal at once.
Closed(S) ==
  \A l \in listeners :
    l.signal \in Controllers(S) => Keyed(l.topic, l.handler) \subseteq S

\* The entries that are gone once the entries of S are removed and their
\* controllers aborted: the least closed set of entries that contains S.
Swept(S) ==
  {e \in subs : \A T \in SUBSET subs : S \subseteq T /\ Closed(T) => e \in T}

\* SubscriptionTracker.unsubscribe: the entries leave the map before any
\* controller is aborted, and every removed entry is aborted.
Remove(S) ==
  /\ subs' = subs \ Swept(S)
  /\ aborted' = aborted \cup Controllers(Swept(S))
  /\ UNCHANGED listeners

\* What the callers of a run do beyond the documented use:
\*   resubscribe    subscribe a handler again after its subscription is over
\*   shareOptions   give one options object to several calls
\*   abortedSignal  pass a signal that is already aborted
CallerMay(t, h, o) ==
  /\ \/ "resubscribe" \in Habits
     \/ \A c \in Calls :
          stage[c] \in Started => <<call[c].topic, call[c].handler>> # <<t, h>>
  /\ "shareOptions" \in Habits \/ optSignal[o] \notin Calls
  /\ "abortedSignal" \in Habits \/ optSignal[o] \notin aborted

\* Mutant: the listener is added even when there is no external signal.
ListenAlways(c, t, h, o) ==
  /\ stage[c] = "unused"
  /\ Keyed(t, h) = {}
  /\ CallerMay(t, h, o)
  /\ subs' = subs \cup {[topic |-> t, handler |-> h, controller |-> c]}
  /\ listeners' = listeners \cup {[signal |-> optSignal[o], topic |-> t, handler |-> h]}
  /\ call' = [call EXCEPT ![c] = [topic |-> t, handler |-> h, signal |-> optSignal[o]]]
  /\ optSignal' = [optSignal EXCEPT ![o] = c]
  /\ stage' = [stage EXCEPT ![c] = "fetching"]
  /\ promise' = [promise EXCEPT ![c] = "pending"]
  /\ timer' = [timer EXCEPT ![c] = "armed"]
  /\ UNCHANGED <<aborted, cancelled, stream, lines, fatal>>

\* Mutant: the external signal is not listened to.
ListenNever(c, t, h, o) ==
  /\ stage[c] = "unused"
  /\ Keyed(t, h) = {}
  /\ CallerMay(t, h, o)
  /\ subs' = subs \cup {[topic |-> t, handler |-> h, controller |-> c]}
  /\ call' = [call EXCEPT ![c] = [topic |-> t, handler |-> h, signal |-> optSignal[o]]]
  /\ optSignal' = [optSignal EXCEPT ![o] = c]
  /\ stage' = [stage EXCEPT ![c] = "fetching"]
  /\ promise' = [promise EXCEPT ![c] = "pending"]
  /\ timer' = [timer EXCEPT ![c] = "armed"]
  /\ UNCHANGED <<listeners, aborted, cancelled, stream, lines, fatal>>

\* subscribe(t, h, o) with a key that is free: the tracker makes a controller
\* and listens to options.signal, which is then overwritten with the
\* controller's; the timer is armed and the request sent.
Subscribe(c, t, h, o) ==
  /\ stage[c] = "unused"
  /\ Keyed(t, h) = {}
  /\ CallerMay(t, h, o)
  /\ subs' = subs \cup {[topic |-> t, handler |-> h, controller |-> c]}
  /\ listeners' = listeners \cup
       {l \in Listener : l = [signal |-> optSignal[o], topic |-> t, handler |-> h]}
  /\ call' = [call EXCEPT ![c] = [topic |-> t, handler |-> h, signal |-> optSignal[o]]]
  /\ optSignal' = [optSignal EXCEPT ![o] = c]
  /\ stage' = [stage EXCEPT ![c] = "fetching"]
  /\ promise' = [promise EXCEPT ![c] = "pending"]
  /\ timer' = [timer EXCEPT ![c] = "armed"]
  /\ UNCHANGED <<aborted, cancelled, stream, lines, fatal>>

\* subscribe(t, h, o) with a key that is taken: the tracker throws before
\* anything is changed, so the promise is rejected.
SubscribeRefused(c, t, h) ==
  /\ stage[c] = "unused"
  /\ Keyed(t, h) # {}
  /\ stage' = [stage EXCEPT ![c] = "refused"]
  /\ promise' = [promise EXCEPT ![c] = "rejected"]
  /\ UNCHANGED <<tracker, optSignal, call, timer, stream, lines, fatal>>

\* Mutant: the handler filter is inverted.
UnsubscribeOthers(t, h) ==
  LET others == {e \in subs : e.topic = t /\ e.handler # h} IN
  /\ Remove(others)
  /\ cancelled' = cancelled \cup Controllers(Keyed(t, h))
  /\ UNCHANGED <<optSignal, call, request>>

\* unsubscribe(t, h)
Unsubscribe(t, h) ==
  /\ Remove(Keyed(t, h))
  /\ cancelled' = cancelled \cup Controllers(Keyed(t, h))
  /\ UNCHANGED <<optSignal, call, request>>

\* unsubscribe(t)
UnsubscribeAll(t) ==
  LET all == {e \in subs : e.topic = t} IN
  /\ Remove(all)
  /\ cancelled' = cancelled \cup Controllers(all)
  /\ UNCHANGED <<optSignal, call, request>>

\* A caller aborts a signal: its listeners run once, each unsubscribing the
\* (topic, handler) it was made for, whichever call holds that key by now.
AbortSignal(s) ==
  /\ s \notin aborted
  /\ LET hit == UNION {Keyed(l.topic, l.handler) : l \in {k \in listeners : k.signal = s}} IN
     /\ subs' = subs \ Swept(hit)
     /\ aborted' = aborted \cup {s} \cup Controllers(Swept(hit))
  /\ cancelled' = cancelled \cup {c \in Controllers(subs) : call[c].signal = s}
  /\ UNCHANGED <<listeners, optSignal, call, request>>

-----------------------------------------------------------------------------
(* The request of a call.                                                  *)

MicrotaskPending(c) ==
  \/ stage[c] \in {"responded", "failed", "caught"}
  \/ stage[c] = "fetching" /\ c \in aborted
  \/ stage[c] = "reading" /\ (lines[c] > 0 \/ stream[c] # "open" \/ c \in aborted)

Idle == \A c \in Calls : ~MicrotaskPending(c)

Settle(c, outcome) ==
  promise' = [promise EXCEPT ![c] = IF @ = "pending" THEN outcome ELSE @]

\* client.post resolves: the response head is in.
Respond(c) ==
  /\ Idle /\ stage[c] = "fetching"
  /\ stage' = [stage EXCEPT ![c] = "responded"]
  /\ UNCHANGED <<tracker, optSignal, call, promise, timer, stream, lines, fatal>>

\* client.post rejects: the network fails or the daemon answers an error.
RequestFails(c) ==
  /\ Idle /\ stage[c] = "fetching"
  /\ stage' = [stage EXCEPT ![c] = "failed"]
  /\ UNCHANGED <<tracker, optSignal, call, promise, timer, stream, lines, fatal>>

\* Mutant: the controller's signal is not handed to client.post.
SignalNotPassed(c) == FALSE /\ UNCHANGED vars

\* client.post rejects because the controller was aborted.
RequestAborted(c) ==
  /\ stage[c] = "fetching" /\ c \in aborted
  /\ stage' = [stage EXCEPT ![c] = "failed"]
  /\ UNCHANGED <<tracker, optSignal, call, promise, timer, stream, lines, fatal>>

\* Mutant: the catch handler does not clean up.
CatchLeaks(c) ==
  /\ stage[c] = "failed"
  /\ Settle(c, "rejected")
  /\ stage' = [stage EXCEPT ![c] = "caught"]
  /\ UNCHANGED <<tracker, optSignal, call, timer, stream, lines, fatal>>

\* Mutant: the catch handler swallows the error.
CatchSwallows(c) ==
  /\ stage[c] = "failed"
  /\ Remove(Keyed(call[c].topic, call[c].handler))
  /\ stage' = [stage EXCEPT ![c] = "caught"]
  /\ UNCHANGED <<cancelled, optSignal, call, promise, timer, stream, lines, fatal>>

\* Mutant: the catch handler unsubscribes every handler of the topic.
CatchSweepsTopic(c) ==
  /\ stage[c] = "failed"
  /\ Remove({e \in subs : e.topic = call[c].topic})
  /\ Settle(c, "rejected")
  /\ stage' = [stage EXCEPT ![c] = "caught"]
  /\ UNCHANGED <<cancelled, optSignal, call, timer, stream, lines, fatal>>

\* .catch(err => ...)
CatchHandler(c) ==
  /\ stage[c] = "failed"
  /\ Remove(Keyed(call[c].topic, call[c].handler))
  /\ Settle(c, "rejected")
  /\ stage' = [stage EXCEPT ![c] = "caught"]
  /\ UNCHANGED <<cancelled, optSignal, call, timer, stream, lines, fatal>>

\* Mutant: done() is left to the timer, which was just cleared.
ThenForgetsDone(c) ==
  /\ stage[c] = "responded"
  /\ timer' = [timer EXCEPT ![c] = IF @ = "armed" THEN "cleared" ELSE @]
  /\ stage' = [stage EXCEPT ![c] = "reading"]
  /\ UNCHANGED <<tracker, optSignal, call, promise, stream, lines, fatal>>

\* .then(response => ...) with a response: start reading, done().
ThenHandler(c) ==
  /\ stage[c] = "responded"
  /\ timer' = [timer EXCEPT ![c] = IF @ = "armed" THEN "cleared" ELSE @]
  /\ stage' = [stage EXCEPT ![c] = "reading"]
  /\ Settle(c, "resolved")
  /\ UNCHANGED <<tracker, optSignal, call, stream, lines, fatal>>

\* .then(response => ...) after the catch handler: response is undefined.
ThenHandlerAfterCatch(c) ==
  /\ stage[c] = "caught"
  /\ timer' = [timer EXCEPT ![c] = IF @ = "armed" THEN "cleared" ELSE @]
  /\ stage' = [stage EXCEPT ![c] = "ended"]
  /\ UNCHANGED <<tracker, optSignal, call, promise, stream, lines, fatal>>

\* ffWorkaround fires: success is assumed.
FfTimer(c) ==
  /\ Idle /\ timer[c] = "armed"
  /\ timer' = [timer EXCEPT ![c] = "fired"]
  /\ Settle(c, "resolved")
  /\ UNCHANGED <<tracker, optSignal, call, stage, stream, lines, fatal>>

\* A chunk of the body arrives with n complete lines.
ChunkArrives(c, n) ==
  /\ Idle /\ stage[c] = "reading"
  /\ lines' = [lines EXCEPT ![c] = n]
  /\ UNCHANGED <<tracker, optSignal, call, stage, promise, timer, stream, fatal>>

\* The body ends, or its connection breaks.
StreamStops(c, how) ==
  /\ Idle /\ stage[c] = "reading"
  /\ stream' = [stream EXCEPT ![c] = how]
  /\ UNCHANGED <<tracker, optSignal, call, stage, promise, timer, lines, fatal>>

\* readMessages takes one line: it is skipped (no `from`), handed to the
\* handler, or reported through onError(err, false, msg); the loop goes on.
\* The signal is not looked at between two lines of a chunk.
ReadLine(c) ==
  /\ stage[c] = "reading" /\ lines[c] > 0
  /\ lines' = [lines EXCEPT ![c] = @ - 1]
  /\ UNCHANGED <<tracker, optSignal, call, stage, promise, timer, stream, fatal>>

\* The next line is not JSON: the ndjson generator throws and is finished.
ReadGarbage(c) ==
  /\ stage[c] = "reading" /\ lines[c] > 0
  /\ lines' = [lines EXCEPT ![c] = 0]
  /\ stream' = [stream EXCEPT ![c] = "garbled"]
  /\ UNCHANGED <<tracker, optSignal, call, stage, promise, timer, fatal>>

\* Mutant: an abort is reported like any other error.
FinishNoisily(c) ==
  /\ stage[c] = "reading" /\ lines[c] = 0
  /\ stream[c] # "open" \/ c \in aborted
  /\ fatal' = fatal \cup {d \in {c} : stream[c] # "ended"}
  /\ Remove(Keyed(call[c].topic, call[c].handler))
  /\ stage' = [stage EXCEPT ![c] = "ended"]
  /\ UNCHANGED <<cancelled, optSignal, call, promise, timer, stream, lines>>

\* Mutant: the end of one subscription unsubscribes the whole topic.
FinishSweepsTopic(c) ==
  /\ stage[c] = "reading" /\ lines[c] = 0
  /\ stream[c] # "open" \/ c \in aborted
  /\ fatal' = fatal \cup {d \in {c} : stream[c] \in {"lost", "garbled"}}
  /\ Remove({e \in subs : e.topic = call[c].topic})
  /\ stage' = [stage EXCEPT ![c] = "ended"]
  /\ UNCHANGED <<cancelled, optSignal, call, promise, timer, stream, lines>>

\* The for await loop of readMessages is over: onError(err, true) unless the
\* error is an AbortError, then onEnd.
FinishReading(c) ==
  /\ stage[c] = "reading" /\ lines[c] = 0
  /\ stream[c] # "open" \/ c \in aborted
  /\ fatal' = fatal \cup {d \in {c} : stream[c] \in {"lost", "garbled"}}
  /\ Remove(Keyed(call[c].topic, call[c].handler))
  /\ stage' = [stage EXCEPT ![c] = "ended"]
  /\ UNCHANGED <<cancelled, optSignal, call, promise, timer, stream, lines>>

-----------------------------------------------------------------------------

Caller ==
  \/ \E c \in Calls, t \in Topics, h \in Handlers :
       \/ \E o \in Options : Subscribe(c, t, h, o)
       \/ SubscribeRefused(c, t, h)
  \/ \E t \in Topics : UnsubscribeAll(t) \/ \E h \in Handlers : Unsubscribe(t, h)
  \/ \E s \in Signals : AbortSignal(s)

Microtask(c) ==
  \/ RequestAborted(c) \/ CatchHandler(c)
  \/ ThenHandler(c) \/ ThenHandlerAfterCatch(c)
  \/ ReadLine(c) \/ ReadGarbage(c) \/ FinishReading(c)

Network(c) ==
  \/ Respond(c) \/ RequestFails(c)
  \/ \E n \in 1..MaxLines : ChunkArrives(c, n)
  \/ \E how \in {"ended", "lost"} : StreamStops(c, how)

Next == Caller \/ \E c \in Calls : Microtask(c) \/ Network(c) \/ FfTimer(c)

\* The engine drains its microtasks, and the event loop serves a timer that is
\* due however busy the sockets are.  Nothing is assumed of the network.
Fairness == \A c \in Calls : WF_vars(Microtask(c)) /\ SF_vars(FfTimer(c))

Spec == Init /\ [][Next]_vars /\ Fairness

-----------------------------------------------------------------------------
(* Properties that hold whatever the callers do.                           *)

\* The tracker and the requests agree (subscription-tracker.ts): a key has at
\* most one entry, and a subscription has an entry exactly from the call of
\* subscribe() until its controller is aborted, which is no later than its
\* catch handler or the end of its body.  A missing entry would be a request
\* nobody can cancel; a surplus one would refuse the key for ever.
TrackerAgrees ==
  /\ \A e, f \in subs : e.topic = f.topic /\ e.handler = f.handler => e = f
  /\ \A c \in Calls :
       OfCall(c) # {} <=> /\ stage[c] \in Started \ {"caught", "ended"}
                          /\ c \notin aborted

\* Once subscribe() has rejected its promise, the subscription it made is out
\* of the tracker (the catch handler cleans up before it fails the promise),
\* so the caller can retry with the same handler.
RejectedIsReleased ==
  \A c \in Calls : promise[c] = "rejected" => OfCall(c) = {}

\* Aborting a signal ends, in the same step, every subscription that was made
\* with it while it was live (subscription-tracker.ts: the forwarded abort).
SignalForwarded ==
  [][\A s \in Signals : s \in aborted' \ aborted =>
       \A e \in subs' : call'[e.controller].signal # s]_vars

\* A subscription aborted while its body is healthy and its chunk is used up
\* ends without a fatal onError, whatever the connection does afterwards
\* (test/pubsub.spec.ts, 'does not call onError when aborted').
AbortIsSilent ==
  [][\A c \in (aborted \cap Calls) \ fatal :
       stream[c] = "open" /\ lines[c] = 0 => c \notin fatal' /\ stream'[c] = "open"]_vars

\* The promise of subscribe() is settled in the end even if the daemon never
\* answers: by the catch or then handler, or by the timer.
PromiseSettles ==
  \A c \in Calls : promise[c] = "pending" ~> promise[c] \in {"resolved", "rejected"}

\* An unsubscribed request is given up: its handlers run to the end.
AbortedEnds == \A c \in Calls : c \in aborted ~> stage[c] = "ended"

-----------------------------------------------------------------------------
(* Properties that hold as long as no caller has a habit that breaks them. *)

\* A subscription ends only through an unsubscribe for it, its own caller's
\* signal, the failure of its own request or the end of its own body.
OnlyOwnCauseEnds ==
  [][\A e \in subs \ subs' :
       LET c == e.controller IN
       \/ CatchHandler(c) \/ FinishReading(c)
       \/ Unsubscribe(e.topic, e.handler) \/ UnsubscribeAll(e.topic)
       \/ call[c].signal \in Signals /\ AbortSignal(call[c].signal)]_vars

\* A subscription its caller did not cancel never ends unnoticed: the promise
\* was rejected or onError was called, unless the daemon ended the body
\* cleanly or the timer had already told the caller of success.
EndIsReported ==
  \A c \in Calls : stage[c] = "ended" /\ c \notin cancelled =>
    \/ promise[c] = "rejected" \/ c \in fatal
    \/ stream[c] = "ended" \/ timer[c] = "fired"
=============================================================================
