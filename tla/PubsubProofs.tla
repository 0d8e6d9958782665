---------------------------- MODULE PubsubProofs ----------------------------
(***************************************************************************)
(* Theorems about Pubsub, for any number of topics, handlers, calls,       *)
(* signals and options objects and any habits of the callers; the last     *)
(* section proves that it implements PubsubRegistry.                       *)
(***************************************************************************)
EXTENDS PubsubRefinement, TLAPS

\* What a step does to the tracker when it removes entries: the entries R
\* leave, their controllers are aborted, and of the rest only a signal may be.
Drops(R) ==
  /\ R \subseteq subs
  /\ subs' = subs \ R
  /\ \E X \in SUBSET Signals : aborted' = aborted \cup X \cup Controllers(R)
  /\ UNCHANGED listeners

\* The sweep contains what it starts from and nothing but entries
\* (SubscriptionTracker.unsubscribe and the listeners it sets off).
LEMMA SweptContains ==
  ASSUME NEW S \in SUBSET subs
  PROVE  S \subseteq Swept(S) /\ Swept(S) \subseteq subs
BY DEF Swept

\* Removing S drops at least S.
LEMMA RemoveDrops ==
  ASSUME NEW S \in SUBSET subs, Remove(S)
  PROVE  \E R : Drops(R) /\ S \subseteq R
<1>1. S \subseteq Swept(S) /\ Swept(S) \subseteq subs
  BY SweptContains
<1>2. aborted' = aborted \cup {} \cup Controllers(Swept(S))
  BY DEF Remove
<1>3. Drops(Swept(S))
  BY <1>1, <1>2 DEF Remove, Drops
<1> QED
  BY <1>1, <1>3

\* Aborting a signal drops what its listeners unsubscribe.
LEMMA AbortDrops ==
  ASSUME NEW s \in Signals, AbortSignal(s)
  PROVE  \E R : Drops(R)
<1> DEFINE hit == UNION {Keyed(l.topic, l.handler) : l \in {k \in listeners : k.signal = s}}
<1>1. hit \in SUBSET subs
  BY DEF Keyed
<1>2. Swept(hit) \subseteq subs
  BY <1>1, SweptContains
<1>3. aborted' = aborted \cup {s} \cup Controllers(Swept(hit))
  BY DEF AbortSignal
<1>4. subs' = subs \ Swept(hit) /\ UNCHANGED listeners
  BY DEF AbortSignal
<1> HIDE DEF hit
<1>5. Drops(Swept(hit))
  BY <1>2, <1>3, <1>4 DEF Drops
<1> QED
  BY <1>5

\* A drop keeps the tracker well typed.
LEMMA DropsType ==
  ASSUME TypeOK, NEW R, Drops(R)
  PROVE  /\ subs' \subseteq Entry
         /\ listeners' \subseteq Listener
         /\ aborted' \subseteq Signals \cup Calls
BY DEF TypeOK, Drops, Controllers, Entry

-----------------------------------------------------------------------------

\* Type correctness of every variable of the pubsub client.
THEOREM TypeCorrect == Spec => []TypeOK
<1>1. Init => TypeOK
  BY PubsubAssumption DEF Init, TypeOK, Started, Stages, AnySignal
<1>2. TypeOK /\ [Next]_vars => TypeOK'
  <2> SUFFICES ASSUME TypeOK, [Next]_vars PROVE TypeOK'
    OBVIOUS
  <2> USE PubsubAssumption DEF Started, Stages
  <2>1. ASSUME NEW c \in Calls, NEW t \in Topics, NEW h \in Handlers, NEW o \in Options,
               Subscribe(c, t, h, o)
        PROVE  TypeOK'
    <3>1. optSignal[o] \in AnySignal
      BY DEF TypeOK
    <3>2. [topic |-> t, handler |-> h, controller |-> c] \in Entry
      BY DEF Entry
    <3>3. [topic |-> t, handler |-> h, signal |-> optSignal[o]] \in CallArgs
      BY <3>1 DEF CallArgs
    <3>4. subs' \subseteq Entry /\ listeners' \subseteq Listener
      BY <2>1, <3>2 DEF TypeOK, Subscribe
    <3>5. call' \in [Calls -> CallArgs \cup {NoCall}]
      BY <2>1, <3>3 DEF TypeOK, Subscribe
    <3>6. \A d \in Calls : stage'[d] \in Started => call'[d] \in CallArgs
      BY <2>1, <3>3 DEF TypeOK, Subscribe
    <3>7. optSignal' \in [Options -> AnySignal]
      BY <2>1 DEF TypeOK, Subscribe, AnySignal
    <3> QED
      BY <2>1, <3>4, <3>5, <3>6, <3>7 DEF TypeOK, Subscribe
  <2>2. ASSUME NEW c \in Calls, NEW t \in Topics, NEW h \in Handlers,
               SubscribeRefused(c, t, h)
        PROVE  TypeOK'
    BY <2>2 DEF TypeOK, SubscribeRefused, tracker
  <2>3. ASSUME NEW t \in Topics, NEW h \in Handlers, Unsubscribe(t, h)
        PROVE  TypeOK'
    <3>1. PICK R : Drops(R)
      BY <2>3, RemoveDrops DEF Unsubscribe, Keyed
    <3>2. cancelled' \subseteq Calls
      BY <2>3 DEF Unsubscribe, TypeOK, Controllers, Keyed, Entry
    <3> QED
      BY <2>3, <3>1, <3>2, DropsType DEF Unsubscribe, TypeOK, request
  <2>4. ASSUME NEW t \in Topics, UnsubscribeAll(t)
        PROVE  TypeOK'
    <3>1. PICK R : Drops(R)
      BY <2>4, RemoveDrops DEF UnsubscribeAll
    <3>2. cancelled' \subseteq Calls
      BY <2>4 DEF UnsubscribeAll, TypeOK, Controllers, Entry
    <3> QED
      BY <2>4, <3>1, <3>2, DropsType DEF UnsubscribeAll, TypeOK, request
  <2>5. ASSUME NEW s \in Signals, AbortSignal(s)
        PROVE  TypeOK'
    <3>1. PICK R : Drops(R)
      BY <2>5, AbortDrops
    <3>2. cancelled' \subseteq Calls
      BY <2>5 DEF AbortSignal, TypeOK, Controllers, Entry
    <3> QED
      BY <2>5, <3>1, <3>2, DropsType DEF AbortSignal, TypeOK, request
  <2>6. ASSUME NEW c \in Calls, Microtask(c)
        PROVE  TypeOK'
    <3>1. CASE RequestAborted(c)
      BY <3>1 DEF RequestAborted, TypeOK, tracker
    <3>2. CASE CatchHandler(c)
      <4>1. PICK R : Drops(R)
        BY <3>2, RemoveDrops DEF CatchHandler, Keyed
      <4> QED
        BY <3>2, <4>1, DropsType DEF CatchHandler, Settle, TypeOK
    <3>3. CASE ThenHandler(c)
      BY <3>3 DEF ThenHandler, Settle, TypeOK, tracker
    <3>4. CASE ThenHandlerAfterCatch(c)
      BY <3>4 DEF ThenHandlerAfterCatch, TypeOK, tracker
    <3>5. CASE ReadLine(c)
      BY <3>5 DEF ReadLine, TypeOK, tracker
    <3>6. CASE ReadGarbage(c)
      BY <3>6 DEF ReadGarbage, TypeOK, tracker
    <3>7. CASE FinishReading(c)
      <4>1. PICK R : Drops(R)
        BY <3>7, RemoveDrops DEF FinishReading, Keyed
      <4> QED
        BY <3>7, <4>1, DropsType DEF FinishReading, TypeOK
    <3> QED
      BY <2>6, <3>1, <3>2, <3>3, <3>4, <3>5, <3>6, <3>7 DEF Microtask
  <2>7. ASSUME NEW c \in Calls, Network(c)
        PROVE  TypeOK'
    <3>1. CASE Respond(c)
      BY <3>1 DEF Respond, TypeOK, tracker
    <3>2. CASE RequestFails(c)
      BY <3>2 DEF RequestFails, TypeOK, tracker
    <3>3. ASSUME NEW n \in 1..MaxLines, ChunkArrives(c, n)
          PROVE  TypeOK'
      BY <3>3 DEF ChunkArrives, TypeOK, tracker
    <3>4. ASSUME NEW how \in {"ended", "lost"}, StreamStops(c, how)
          PROVE  TypeOK'
      BY <3>4 DEF StreamStops, TypeOK, tracker
    <3> QED
      BY <2>7, <3>1, <3>2, <3>3, <3>4 DEF Network
  <2>8. ASSUME NEW c \in Calls, FfTimer(c)
        PROVE  TypeOK'
    BY <2>8 DEF FfTimer, Settle, TypeOK, tracker
  <2>9. CASE UNCHANGED vars
    BY <2>9 DEF vars, tracker, request, TypeOK
  <2> QED
    BY <2>1, <2>2, <2>3, <2>4, <2>5, <2>6, <2>7, <2>8, <2>9 DEF Next, Caller
<1> QED
  BY <1>1, <1>2, PTL DEF Spec

-----------------------------------------------------------------------------

\* What is needed to see that TrackerAgrees is kept: an entry carries the
\* arguments of its call, and a call that has not started has no controller.
EntryArgs ==
  \A e \in subs : e.topic = call[e.controller].topic /\ e.handler = call[e.controller].handler

NotStarted == \A c \in Calls : stage[c] \notin Started => c \notin aborted

TrackerInv == TypeOK /\ TrackerAgrees /\ EntryArgs /\ NotStarted

Final == {"caught", "ended"}

\* Every step but a subscription drops a set R of entries, possibly empty, and
\* moves calls along; a call that becomes final has no entry outside R.
Moves(R) ==
  /\ Drops(R)
  /\ call' = call
  /\ \A c \in Calls :
       \/ stage'[c] = stage[c]
       \/ stage[c] = "unused" /\ stage'[c] = "refused"
       \/ stage[c] \in Started \ Final /\ stage'[c] \in Started \ Final
       \/ stage[c] \in Started /\ stage'[c] \in Final /\ OfCall(c) \subseteq R

\* Dropping nothing: a step that leaves the tracker alone is a drop too.
LEMMA DropsNone ==
  ASSUME UNCHANGED tracker
  PROVE  Drops({})
<1>1. aborted' = aborted \cup {} \cup Controllers({})
  BY DEF tracker, Controllers
<1> QED
  BY <1>1 DEF tracker, Drops

\* Steps that only move calls along keep the tracker right.
LEMMA MovesKeepTracker ==
  ASSUME TrackerInv, TypeOK', NEW R, Moves(R)
  PROVE  TrackerInv'
<1> USE DEF TrackerInv, Moves, Drops
<1>1. EntryArgs'
  BY DEF EntryArgs
<1>2. PICK X \in SUBSET Signals : aborted' = aborted \cup X \cup Controllers(R)
  OBVIOUS
<1>3. \A c \in Calls : c \in aborted' <=> c \in aborted \/ \E e \in R : e.controller = c
  BY <1>2, PubsubAssumption DEF Controllers
<1>4. \A e, f \in subs : e.controller = f.controller => e = f
  BY DEF EntryArgs, TrackerAgrees
<1>5. NotStarted'
  <2> SUFFICES ASSUME NEW c \in Calls, stage'[c] \notin Started PROVE c \notin aborted'
    BY DEF NotStarted
  <2>1. stage[c] \notin Started
    BY DEF Started, Stages, Final
  <2>2. ~\E e \in subs : e.controller = c
    BY <2>1 DEF TrackerAgrees, OfCall
  <2> QED
    BY <2>1, <2>2, <1>3 DEF NotStarted
<1>6. TrackerAgrees'
  <2>1. \A e, f \in subs' : e.topic = f.topic /\ e.handler = f.handler => e = f
    BY DEF TrackerAgrees
  <2>2. ASSUME NEW c \in Calls
        PROVE  (OfCall(c) # {})' <=> (stage'[c] \in Started \ Final /\ c \notin aborted')
    <3>1. (OfCall(c) # {}) <=> (stage[c] \in Started \ Final /\ c \notin aborted)
      BY DEF TrackerAgrees, Final
    <3>2. (OfCall(c) # {})' <=> \E e \in subs \ R : e.controller = c
      BY DEF OfCall
    <3>3. OfCall(c) # {} <=> \E e \in subs : e.controller = c
      BY DEF OfCall
    <3>4. c \notin aborted' => ((\E e \in subs : e.controller = c) <=> (\E e \in subs \ R : e.controller = c))
      BY <1>3
    <3>5. c \in aborted' => ~\E e \in subs \ R : e.controller = c
      BY <1>3, <1>4, <3>1, <3>3
    <3>6. CASE stage'[c] = stage[c]
      BY <3>1, <3>2, <3>3, <3>4, <3>5, <3>6, <1>3
    <3>7. CASE stage[c] = "unused" /\ stage'[c] = "refused"
      BY <3>1, <3>2, <3>3, <3>7 DEF Started, Stages
    <3>8. CASE {stage[c], stage'[c]} \subseteq Started \ Final
      BY <3>1, <3>2, <3>3, <3>4, <3>5, <3>8, <1>3
    <3>9. CASE stage'[c] \in Final /\ OfCall(c) \subseteq R
      BY <3>2, <3>9 DEF OfCall
    <3> QED
      BY <3>6, <3>7, <3>8, <3>9
  <2> QED
    BY <2>1, <2>2 DEF TrackerAgrees, Final
<1> QED
  BY <1>1, <1>5, <1>6

\* A subscription under a free key keeps the tracker right.
LEMMA SubscribeKeepsTracker ==
  ASSUME TrackerInv, TypeOK', NEW c \in Calls, NEW t \in Topics, NEW h \in Handlers,
         NEW o \in Options, Subscribe(c, t, h, o)
  PROVE  TrackerInv'
<1> USE DEF TrackerInv
<1> DEFINE new == [topic |-> t, handler |-> h, controller |-> c]
<1>1. /\ subs' = subs \cup {new} /\ aborted' = aborted
      /\ stage[c] = "unused" /\ stage' = [stage EXCEPT ![c] = "fetching"]
      /\ call'[c].topic = t /\ call'[c].handler = h
      /\ \A d \in Calls \ {c} : call'[d] = call[d] /\ stage'[d] = stage[d]
      /\ stage'[c] = "fetching"
      /\ Keyed(t, h) = {}
  BY DEF Subscribe, TypeOK
<1>2. c \notin aborted /\ stage[c] \notin Started
  BY <1>1 DEF NotStarted, Started
<1>3. \A e \in subs : e.controller \in Calls \ {c} /\ ~(e.topic = t /\ e.handler = h)
  BY <1>1, <1>2 DEF TrackerAgrees, OfCall, Keyed, TypeOK, Entry
<1>4. new.topic = t /\ new.handler = h /\ new.controller = c
  OBVIOUS
<1> HIDE DEF new
<1>5. EntryArgs'
  BY <1>1, <1>3, <1>4 DEF EntryArgs
<1>6. NotStarted'
  BY <1>1, <1>2 DEF NotStarted, Started, Stages
<1>7. \A e, f \in subs' : e.topic = f.topic /\ e.handler = f.handler => e = f
  BY <1>1, <1>3, <1>4 DEF TrackerAgrees
<1>8. ASSUME NEW d \in Calls
      PROVE  (OfCall(d) # {})' <=> (stage'[d] \in Started \ {"caught", "ended"} /\ d \notin aborted')
  <2>1. CASE d = c
    <3>1. new \in subs' /\ new.controller = d
      BY <1>1, <1>4, <2>1
    <3> QED
      BY <3>1, <1>1, <1>2, <2>1 DEF OfCall, Started, Stages
  <2>2. CASE d # c
    <3>1. (OfCall(d) # {})' <=> OfCall(d) # {}
      BY <1>1, <1>4, <2>2 DEF OfCall
    <3> QED
      BY <3>1, <1>1, <2>2 DEF TrackerAgrees
  <2> QED
    BY <2>1, <2>2
<1> QED
  BY <1>5, <1>6, <1>7, <1>8 DEF TrackerAgrees

\* Every step keeps the tracker right.
LEMMA NextKeepsTracker ==
  ASSUME TrackerInv, TypeOK', [Next]_vars
  PROVE  TrackerInv'
<1> USE DEF TrackerInv, Started, Stages, Final
<1>1. ASSUME NEW c \in Calls, NEW t \in Topics, NEW h \in Handlers, NEW o \in Options,
             Subscribe(c, t, h, o)
      PROVE  TrackerInv'
  BY <1>1, SubscribeKeepsTracker
<1>2. ASSUME NEW c \in Calls, NEW t \in Topics, NEW h \in Handlers, SubscribeRefused(c, t, h)
      PROVE  TrackerInv'
  <2>1. Moves({})
    BY <1>2, DropsNone DEF SubscribeRefused, Moves, TypeOK
  <2> QED
    BY <2>1, MovesKeepTracker
<1>3. ASSUME NEW t \in Topics, NEW h \in Handlers, Unsubscribe(t, h)
      PROVE  TrackerInv'
  <2>1. PICK R : Drops(R)
    BY <1>3, RemoveDrops DEF Unsubscribe, Keyed
  <2>2. Moves(R)
    BY <1>3, <2>1 DEF Unsubscribe, Moves, request
  <2> QED
    BY <2>2, MovesKeepTracker
<1>4. ASSUME NEW t \in Topics, UnsubscribeAll(t)
      PROVE  TrackerInv'
  <2>1. PICK R : Drops(R)
    BY <1>4, RemoveDrops DEF UnsubscribeAll
  <2>2. Moves(R)
    BY <1>4, <2>1 DEF UnsubscribeAll, Moves, request
  <2> QED
    BY <2>2, MovesKeepTracker
<1>5. ASSUME NEW s \in Signals, AbortSignal(s)
      PROVE  TrackerInv'
  <2>1. PICK R : Drops(R)
    BY <1>5, AbortDrops
  <2>2. Moves(R)
    BY <1>5, <2>1 DEF AbortSignal, Moves, request
  <2> QED
    BY <2>2, MovesKeepTracker
<1>6. ASSUME NEW c \in Calls, stage[c] \in Started,
             \E R : Drops(R) /\ Keyed(call[c].topic, call[c].handler) \subseteq R,
             UNCHANGED call,
             stage' = [stage EXCEPT ![c] = "caught"] \/ stage' = [stage EXCEPT ![c] = "ended"]
      PROVE  TrackerInv'
  <2>1. PICK R : Drops(R) /\ Keyed(call[c].topic, call[c].handler) \subseteq R
    BY <1>6
  <2>2. OfCall(c) \subseteq Keyed(call[c].topic, call[c].handler)
    BY DEF EntryArgs, OfCall, Keyed
  <2>3. Moves(R)
    BY <1>6, <2>1, <2>2 DEF Moves, TypeOK
  <2> QED
    BY <2>3, MovesKeepTracker
<1>7. ASSUME NEW c \in Calls, CatchHandler(c)
      PROVE  TrackerInv'
  <2>1. \E R : Drops(R) /\ Keyed(call[c].topic, call[c].handler) \subseteq R
    BY <1>7, RemoveDrops DEF CatchHandler, Keyed
  <2> QED
    BY <1>6, <1>7, <2>1 DEF CatchHandler
<1>8. ASSUME NEW c \in Calls, FinishReading(c)
      PROVE  TrackerInv'
  <2>1. \E R : Drops(R) /\ Keyed(call[c].topic, call[c].handler) \subseteq R
    BY <1>8, RemoveDrops DEF FinishReading, Keyed
  <2> QED
    BY <1>6, <1>8, <2>1 DEF FinishReading
<1>9. ASSUME NEW c \in Calls, ThenHandlerAfterCatch(c)
      PROVE  TrackerInv'
  <2>1. OfCall(c) = {}
    BY <1>9 DEF ThenHandlerAfterCatch, TrackerAgrees
  <2>2. Moves({})
    BY <1>9, <2>1, DropsNone DEF ThenHandlerAfterCatch, Moves, TypeOK
  <2> QED
    BY <2>2, MovesKeepTracker
<1>10. ASSUME NEW c \in Calls, UNCHANGED <<tracker, call>>,
              \/ stage' = stage
              \/ stage[c] = "fetching" /\ stage' = [stage EXCEPT ![c] = "responded"]
              \/ stage[c] = "fetching" /\ stage' = [stage EXCEPT ![c] = "failed"]
              \/ stage[c] = "responded" /\ stage' = [stage EXCEPT ![c] = "reading"]
       PROVE  TrackerInv'
  <2>1. Moves({})
    BY <1>10, DropsNone DEF Moves, TypeOK
  <2> QED
    BY <2>1, MovesKeepTracker
<1>11. ASSUME NEW c \in Calls, Microtask(c)
       PROVE  TrackerInv'
  <2>1. CASE RequestAborted(c)
    BY <1>10, <2>1 DEF RequestAborted
  <2>2. CASE ThenHandler(c)
    BY <1>10, <2>2 DEF ThenHandler
  <2>3. CASE ReadLine(c)
    BY <1>10, <2>3 DEF ReadLine
  <2>4. CASE ReadGarbage(c)
    BY <1>10, <2>4 DEF ReadGarbage
  <2> QED
    BY <1>7, <1>8, <1>9, <1>11, <2>1, <2>2, <2>3, <2>4 DEF Microtask
<1>12. ASSUME NEW c \in Calls, Network(c) \/ FfTimer(c)
       PROVE  TrackerInv'
  BY <1>10, <1>12 DEF Network, Respond, RequestFails, ChunkArrives, StreamStops, FfTimer
<1>13. CASE UNCHANGED vars
  <2>1. Moves({})
    BY <1>13, DropsNone DEF Moves, vars, request
  <2> QED
    BY <2>1, MovesKeepTracker
<1> QED
  BY <1>1, <1>2, <1>3, <1>4, <1>5, <1>11, <1>12, <1>13 DEF Next, Caller

\* The strengthened invariant of the tracker.
THEOREM TrackerInvariant == Spec => []TrackerInv
<1>1. Init => TrackerInv
  <2> SUFFICES ASSUME Init PROVE TrackerAgrees /\ EntryArgs /\ NotStarted /\ TypeOK
    BY DEF TrackerInv
  <2>1. TypeOK
    BY PubsubAssumption DEF Init, TypeOK, Started, Stages, AnySignal
  <2> QED
    BY <2>1 DEF Init, TrackerAgrees, EntryArgs, NotStarted, OfCall, Started, Stages
<1>2. TypeOK' /\ TrackerInv /\ [Next]_vars => TrackerInv'
  BY NextKeepsTracker
<1> QED
  BY <1>1, <1>2, TypeCorrect, PTL DEF Spec

\* The tracker and the requests agree in every reachable state, whatever the
\* callers do: no key is taken twice, no running request is out of reach of
\* unsubscribe and no finished one blocks its key.
THEOREM TrackerCorrect == Spec => []TrackerAgrees
<1>1. TrackerInv => TrackerAgrees
  BY DEF TrackerInv
<1> QED
  BY <1>1, TrackerInvariant, PTL
-----------------------------------------------------------------------------

\* A promise is only rejected for a refused call or by the catch handler.
RejectedStage ==
  \A c \in Calls : promise[c] = "rejected" => stage[c] \in {"refused", "caught", "ended"}

\* Of what callers do, only subscribe() touches a request.
LEMMA CallerRequests ==
  Caller => \/ UNCHANGED request
            \/ \E c \in Calls, t \in Topics, h \in Handlers :
                 (\E o \in Options : Subscribe(c, t, h, o)) \/ SubscribeRefused(c, t, h)
BY DEF Caller, Unsubscribe, UnsubscribeAll, AbortSignal

\* What was cancelled stays so.
LEMMA CancelledGrows == [Next]_vars => cancelled \subseteq cancelled'
<1>1. ASSUME NEW c \in Calls, NEW t \in Topics, NEW h \in Handlers, NEW o \in Options,
             Subscribe(c, t, h, o)
      PROVE  UNCHANGED cancelled
  BY <1>1 DEF Subscribe
<1>2. ASSUME NEW t \in Topics, NEW h \in Handlers, Unsubscribe(t, h)
      PROVE  cancelled \subseteq cancelled'
  BY <1>2 DEF Unsubscribe
<1>3. ASSUME NEW t \in Topics, UnsubscribeAll(t) PROVE cancelled \subseteq cancelled'
  BY <1>3 DEF UnsubscribeAll
<1>4. ASSUME NEW s \in Signals, AbortSignal(s) PROVE cancelled \subseteq cancelled'
  BY <1>4 DEF AbortSignal
<1>5. Caller => cancelled \subseteq cancelled'
  <2>1. ASSUME NEW c \in Calls, NEW t \in Topics, NEW h \in Handlers, SubscribeRefused(c, t, h)
        PROVE  UNCHANGED cancelled
    BY <2>1 DEF SubscribeRefused, tracker
  <2> QED
    BY <1>1, <1>2, <1>3, <1>4, <2>1 DEF Caller
<1>6. ASSUME NEW c \in Calls, Microtask(c) PROVE UNCHANGED cancelled
  BY <1>6 DEF Microtask, RequestAborted, CatchHandler, ThenHandler, ThenHandlerAfterCatch,
     ReadLine, ReadGarbage, FinishReading, tracker
<1>7. ASSUME NEW c \in Calls, Network(c) \/ FfTimer(c) PROVE UNCHANGED cancelled
  BY <1>7 DEF Network, Respond, RequestFails, ChunkArrives, StreamStops, FfTimer, tracker
<1>8. UNCHANGED vars => UNCHANGED cancelled
  BY DEF vars, tracker
<1> QED
  BY <1>5, <1>6, <1>7, <1>8 DEF Next

\* A promise is rejected only by a refusal or by the catch handler of its call.
LEMMA NextKeepsRejectedStage ==
  ASSUME TypeOK, RejectedStage, [Next]_vars
  PROVE  RejectedStage'
<1> USE DEF RejectedStage, TypeOK, Settle, tracker
<1>1. ASSUME NEW c \in Calls, NEW t \in Topics, NEW h \in Handlers, NEW o \in Options,
             Subscribe(c, t, h, o)
      PROVE  RejectedStage'
  BY <1>1 DEF Subscribe
<1>2. ASSUME NEW c \in Calls, Microtask(c)
      PROVE  RejectedStage'
  BY <1>2 DEF Microtask, RequestAborted, CatchHandler, ThenHandler, ThenHandlerAfterCatch,
       ReadLine, ReadGarbage, FinishReading
<1>3. ASSUME NEW c \in Calls, Network(c) \/ FfTimer(c)
      PROVE  RejectedStage'
  BY <1>3 DEF Network, Respond, RequestFails, ChunkArrives, StreamStops, FfTimer
<1>4. CASE UNCHANGED request
  BY <1>4 DEF request
<1>5. ASSUME NEW c \in Calls, NEW t \in Topics, NEW h \in Handlers, SubscribeRefused(c, t, h)
      PROVE  RejectedStage'
  BY <1>5 DEF SubscribeRefused
<1> QED
  BY <1>1, <1>2, <1>3, <1>4, <1>5, CallerRequests DEF Next, vars

\* A caller told that subscribe() failed finds its key free of that
\* subscription, so that it may subscribe the same handler again.
THEOREM RejectedCorrect == Spec => []RejectedIsReleased
<1>1. Init => RejectedStage
  BY DEF Init, RejectedStage
<1>2. TypeOK /\ RejectedStage /\ [Next]_vars => RejectedStage'
  BY NextKeepsRejectedStage
<1>3. TrackerInv /\ RejectedStage => RejectedIsReleased
  BY DEF TrackerInv, TrackerAgrees, RejectedStage, RejectedIsReleased, Started
<1> QED
  BY <1>1, <1>2, <1>3, TypeCorrect, TrackerInvariant, PTL DEF Spec

-----------------------------------------------------------------------------

Careful == "resubscribe" \notin Habits /\ "shareOptions" \notin Habits

\* With careful callers two calls that started have different keys, and every
\* listener sits on the signal its own call was given, never on a controller.
CarefulInv ==
  /\ \A c, d \in Calls :
       /\ stage[c] \in Started /\ stage[d] \in Started
       /\ call[c].topic = call[d].topic /\ call[c].handler = call[d].handler
       => c = d
  /\ \A l \in listeners :
       /\ l.signal \in Signals
       /\ \E c \in Calls :
            /\ stage[c] \in Started /\ call[c].signal = l.signal
            /\ call[c].topic = l.topic /\ call[c].handler = l.handler

\* A careful caller's subscribe() puts no listener on a controller and leaves
\* every listener with the one call that made it.
LEMMA SubscribeKeepsCareful ==
  ASSUME Careful, TypeOK, CarefulInv, NEW c \in Calls, NEW t \in Topics, NEW h \in Handlers,
         NEW o \in Options, Subscribe(c, t, h, o)
  PROVE  CarefulInv'
<1>1. /\ stage[c] \notin Started /\ stage'[c] \in Started
      /\ call'[c].topic = t /\ call'[c].handler = h /\ call'[c].signal = optSignal[o]
      /\ \A d \in Calls \ {c} : call'[d] = call[d] /\ stage'[d] = stage[d]
  BY DEF Subscribe, TypeOK, Started, Stages
<1>2. \A d \in Calls : stage[d] \in Started => <<call[d].topic, call[d].handler>> # <<t, h>>
  BY DEF Careful, Subscribe, CallerMay
<1>3. \A d, e \in Calls :
        /\ stage'[d] \in Started /\ stage'[e] \in Started
        /\ call'[d].topic = call'[e].topic /\ call'[d].handler = call'[e].handler
        => d = e
  BY <1>1, <1>2 DEF CarefulInv
<1>4. ASSUME NEW l \in listeners'
      PROVE  /\ l.signal \in Signals
             /\ \E d \in Calls :
                  /\ stage'[d] \in Started /\ call'[d].signal = l.signal
                  /\ call'[d].topic = l.topic /\ call'[d].handler = l.handler
  <2>1. CASE l \in listeners
    BY <1>1, <2>1 DEF CarefulInv
  <2>2. CASE l \notin listeners
    <3>1. l \in Listener /\ l = [signal |-> optSignal[o], topic |-> t, handler |-> h]
      BY <2>2 DEF Subscribe
    <3>2. optSignal[o] \notin Calls
      BY DEF Careful, Subscribe, CallerMay
    <3>3. l.signal \in Signals /\ l.signal = optSignal[o] /\ l.topic = t /\ l.handler = h
      BY <3>1, <3>2 DEF Listener
    <3> QED
      BY <3>3, <1>1
  <2> QED
    BY <2>1, <2>2
<1> QED
  BY <1>3, <1>4 DEF CarefulInv

\* No step of a careful client breaks the ownership of listeners.
LEMMA NextKeepsCareful ==
  ASSUME Careful, TypeOK, CarefulInv, [Next]_vars
  PROVE  CarefulInv'
<1>1. ASSUME NEW c \in Calls, NEW t \in Topics, NEW h \in Handlers, NEW o \in Options,
             Subscribe(c, t, h, o)
      PROVE  CarefulInv'
  BY <1>1, SubscribeKeepsCareful
<1>2. ASSUME UNCHANGED <<listeners, call>>,
             \A c \in Calls : stage'[c] \in Started <=> stage[c] \in Started
      PROVE  CarefulInv'
  BY <1>2 DEF CarefulInv
<1>3. ASSUME NEW c \in Calls, NEW t \in Topics, NEW h \in Handlers, SubscribeRefused(c, t, h)
      PROVE  CarefulInv'
  BY <1>2, <1>3 DEF SubscribeRefused, tracker, Started, Stages, TypeOK
<1>4. ASSUME NEW c \in Calls, Microtask(c)
      PROVE  CarefulInv'
  BY <1>2, <1>4 DEF Microtask, RequestAborted, CatchHandler, ThenHandler,
       ThenHandlerAfterCatch, ReadLine, ReadGarbage, FinishReading, Remove, tracker,
       Started, Stages, TypeOK
<1>5. ASSUME NEW c \in Calls, Network(c) \/ FfTimer(c)
      PROVE  CarefulInv'
  BY <1>2, <1>5 DEF Network, Respond, RequestFails, ChunkArrives, StreamStops, FfTimer,
       tracker, Started, Stages, TypeOK
<1>6. CASE UNCHANGED <<listeners, call, stage>>
  BY <1>2, <1>6
<1>7. Caller => \/ UNCHANGED <<listeners, call, stage>>
                \/ \E c \in Calls, t \in Topics, h \in Handlers :
                     (\E o \in Options : Subscribe(c, t, h, o)) \/ SubscribeRefused(c, t, h)
  BY DEF Caller, Unsubscribe, UnsubscribeAll, AbortSignal, Remove, request
<1> QED
  BY <1>1, <1>3, <1>4, <1>5, <1>6, <1>7 DEF Next, vars, tracker, request

\* Without listeners on controllers a sweep stays what it was started with.
LEMMA SweptExact ==
  ASSUME CarefulInv, TypeOK, NEW S \in SUBSET subs
  PROVE  Swept(S) = S
<1>1. Closed(S)
  BY PubsubAssumption DEF CarefulInv, TypeOK, Closed, Controllers, Entry
<1>2. Swept(S) \subseteq S
  BY <1>1 DEF Swept
<1> QED
  BY <1>2, SweptContains

\* What ends a subscription, as the property states it.
OwnCause(e) ==
  LET c == e.controller IN
  \/ CatchHandler(c) \/ FinishReading(c)
  \/ Unsubscribe(e.topic, e.handler) \/ UnsubscribeAll(e.topic)
  \/ call[c].signal \in Signals /\ AbortSignal(call[c].signal)

\* In a careful client a step that drops an entry of the tracker is a step of
\* that entry's own call, an unsubscribe for it, or the abort of its signal.
LEMMA NextHasOwnCause ==
  ASSUME TrackerInv, CarefulInv, [Next]_vars, NEW e \in subs, e \notin subs'
  PROVE  OwnCause(e)
<1> USE DEF TrackerInv
<1> DEFINE d == e.controller
<1>1. /\ d \in Calls /\ stage[d] \in Started
      /\ call[d].topic = e.topic /\ call[d].handler = e.handler
  BY DEF TrackerAgrees, OfCall, EntryArgs, TypeOK, Entry
<1>2. ASSUME NEW t \in Topics, NEW h \in Handlers, Unsubscribe(t, h)
      PROVE  OwnCause(e)
  <2>1. e \in Keyed(t, h)
    BY <1>2, SweptExact DEF Unsubscribe, Remove, Keyed
  <2> QED
    BY <1>2, <2>1 DEF Keyed, OwnCause
<1>3. ASSUME NEW t \in Topics, UnsubscribeAll(t)
      PROVE  OwnCause(e)
  <2>1. e.topic = t
    BY <1>3, SweptExact DEF UnsubscribeAll, Remove
  <2> QED
    BY <1>3, <2>1 DEF OwnCause
<1>4. ASSUME NEW s \in Signals, AbortSignal(s)
      PROVE  OwnCause(e)
  <2> DEFINE hit == UNION {Keyed(l.topic, l.handler) : l \in {k \in listeners : k.signal = s}}
  <2>1. hit \in SUBSET subs
    BY DEF Keyed
  <2>2. subs' = subs \ Swept(hit)
    BY <1>4 DEF AbortSignal
  <2>3. e \in hit
    <3> HIDE DEF hit
    <3> QED
      BY <2>1, <2>2, SweptExact
  <2>4. PICK l \in listeners : l.signal = s /\ l.topic = e.topic /\ l.handler = e.handler
    BY <2>3 DEF Keyed
  <2>5. call[d].signal = s
    BY <1>1, <2>4 DEF CarefulInv
  <2> QED
    BY <1>4, <2>5 DEF OwnCause
<1>5. ASSUME NEW c \in Calls, stage[c] \in Started,
             Remove(Keyed(call[c].topic, call[c].handler))
      PROVE  d = c
  <2>1. e \in Keyed(call[c].topic, call[c].handler)
    BY <1>5, SweptExact DEF Remove, Keyed
  <2> QED
    BY <1>1, <1>5, <2>1 DEF Keyed, CarefulInv
<1>6. ASSUME NEW c \in Calls, Microtask(c)
      PROVE  OwnCause(e)
  <2>1. CASE CatchHandler(c)
    BY <1>5, <2>1 DEF CatchHandler, OwnCause, Started, Stages
  <2>2. CASE FinishReading(c)
    BY <1>5, <2>2 DEF FinishReading, OwnCause, Started, Stages
  <2> QED
    BY <1>6, <2>1, <2>2 DEF Microtask, RequestAborted, ThenHandler, ThenHandlerAfterCatch,
         ReadLine, ReadGarbage, tracker
<1>7. ASSUME NEW c \in Calls
      PROVE  ~Network(c) /\ ~FfTimer(c)
  BY DEF Network, Respond, RequestFails, ChunkArrives, StreamStops, FfTimer, tracker
<1>8. ASSUME NEW c \in Calls, NEW t \in Topics, NEW h \in Handlers
      PROVE  ~SubscribeRefused(c, t, h) /\ \A o \in Options : ~Subscribe(c, t, h, o)
  BY DEF SubscribeRefused, Subscribe, tracker
<1>9. ~UNCHANGED vars
  BY DEF vars, tracker
<1> QED
  BY <1>2, <1>3, <1>4, <1>6, <1>7, <1>8, <1>9 DEF Next, Caller

\* With callers that neither subscribe a key again nor share options objects,
\* no subscription is ever ended on behalf of another one.
THEOREM CarefulCorrect == ASSUME Careful PROVE Spec => OnlyOwnCauseEnds
<1>1. Init => CarefulInv
  BY DEF Init, CarefulInv, Started
<1>2. TypeOK /\ CarefulInv /\ [Next]_vars => CarefulInv'
  BY NextKeepsCareful
<1>3. TrackerInv /\ CarefulInv /\ [Next]_vars => [\A e \in subs \ subs' : OwnCause(e)]_vars
  BY NextHasOwnCause
<1>4. [][\A e \in subs \ subs' : OwnCause(e)]_vars => OnlyOwnCauseEnds
  BY PTL DEF OnlyOwnCauseEnds, OwnCause
<1> QED
  BY <1>1, <1>2, <1>3, <1>4, TypeCorrect, TrackerInvariant, PTL DEF Spec
-----------------------------------------------------------------------------

\* A live subscription is listened to on the signal it was made with, if it was
\* made with one.
ListenedTo ==
  \A e \in subs :
    call[e.controller].signal \in Signals =>
      \E l \in listeners : /\ l.signal = call[e.controller].signal
                           /\ l.topic = e.topic /\ l.handler = e.handler

\* What any step but a subscription does to the tracker: entries go, listeners
\* stay, and the calls of the entries that stay keep their arguments.
LEMMA OthersDrop ==
  ASSUME [Next]_vars,
         ~\E c \in Calls, t \in Topics, h \in Handlers, o \in Options : Subscribe(c, t, h, o)
  PROVE  (\E R : Drops(R)) /\ UNCHANGED call
<1>1. ASSUME UNCHANGED tracker PROVE \E R : Drops(R)
  BY <1>1, DropsNone
<1>2. ASSUME NEW c \in Calls, NEW t \in Topics, NEW h \in Handlers, SubscribeRefused(c, t, h)
      PROVE  (\E R : Drops(R)) /\ UNCHANGED call
  BY <1>1, <1>2 DEF SubscribeRefused
<1>3. ASSUME NEW t \in Topics, NEW h \in Handlers, Unsubscribe(t, h)
      PROVE  (\E R : Drops(R)) /\ UNCHANGED call
  BY <1>3, RemoveDrops DEF Unsubscribe, Keyed
<1>4. ASSUME NEW t \in Topics, UnsubscribeAll(t)
      PROVE  (\E R : Drops(R)) /\ UNCHANGED call
  BY <1>4, RemoveDrops DEF UnsubscribeAll
<1>5. ASSUME NEW s \in Signals, AbortSignal(s)
      PROVE  (\E R : Drops(R)) /\ UNCHANGED call
  <2>1. \E R : Drops(R)
    BY <1>5, AbortDrops
  <2> QED
    BY <1>5, <2>1 DEF AbortSignal
<1>6. ASSUME NEW c \in Calls, CatchHandler(c) \/ FinishReading(c)
      PROVE  (\E R : Drops(R)) /\ UNCHANGED call
  BY <1>6, RemoveDrops DEF CatchHandler, FinishReading, Keyed
<1>7. ASSUME NEW c \in Calls, Microtask(c)
      PROVE  (\E R : Drops(R)) /\ UNCHANGED call
  <2>1. CASE CatchHandler(c) \/ FinishReading(c)
    BY <1>6, <2>1
  <2>2. CASE ~(CatchHandler(c) \/ FinishReading(c))
    <3>1. UNCHANGED <<tracker, call>>
      BY <1>7, <2>2 DEF Microtask, RequestAborted, ThenHandler, ThenHandlerAfterCatch,
         ReadLine, ReadGarbage
    <3> QED
      BY <1>1, <3>1
  <2> QED
    BY <2>1, <2>2
<1>8. ASSUME NEW c \in Calls, Network(c) \/ FfTimer(c)
      PROVE  (\E R : Drops(R)) /\ UNCHANGED call
  <2>1. UNCHANGED <<tracker, call>>
    BY <1>8 DEF Network, Respond, RequestFails, ChunkArrives, StreamStops, FfTimer
  <2> QED
    BY <1>1, <2>1
<1>9. CASE UNCHANGED vars
  BY <1>1, <1>9 DEF vars
<1> QED
  BY <1>2, <1>3, <1>4, <1>5, <1>7, <1>8, <1>9 DEF Next, Caller

\* Subscriptions come with their listener and listeners are never removed.
LEMMA NextKeepsListenedTo ==
  ASSUME TrackerInv, ListenedTo, [Next]_vars
  PROVE  ListenedTo'
<1> USE DEF TrackerInv
<1>1. ASSUME NEW c \in Calls, NEW t \in Topics, NEW h \in Handlers, NEW o \in Options,
             Subscribe(c, t, h, o)
      PROVE  ListenedTo'
  <2> DEFINE new == [topic |-> t, handler |-> h, controller |-> c]
             own == [signal |-> optSignal[o], topic |-> t, handler |-> h]
  <2>1. /\ subs' = subs \cup {new} /\ stage[c] = "unused"
        /\ listeners' = listeners \cup {l \in Listener : l = own}
        /\ call'[c].signal = optSignal[o]
        /\ \A d \in Calls \ {c} : call'[d] = call[d]
    BY <1>1 DEF Subscribe, TypeOK
  <2>2. \A e \in subs : e.controller \in Calls \ {c}
    BY <2>1 DEF TrackerAgrees, OfCall, TypeOK, Entry, Started
  <2>3. optSignal[o] \in Signals => own \in Listener
    BY DEF Listener
  <2>4. new.controller = c /\ new.topic = t /\ new.handler = h
    OBVIOUS
  <2>5. own.signal = optSignal[o] /\ own.topic = t /\ own.handler = h
    OBVIOUS
  <2> HIDE DEF new, own
  <2> SUFFICES ASSUME NEW e \in subs', call'[e.controller].signal \in Signals
               PROVE  \E l \in listeners' : /\ l.signal = call'[e.controller].signal
                                            /\ l.topic = e.topic /\ l.handler = e.handler
    BY DEF ListenedTo
  <2>6. CASE e \in subs
    BY <2>1, <2>2, <2>6 DEF ListenedTo
  <2>7. CASE e = new
    <3>1. own \in listeners'
      BY <2>1, <2>3, <2>4, <2>7
    <3> QED
      BY <2>1, <2>4, <2>5, <2>7, <3>1
  <2> QED
    BY <2>1, <2>6, <2>7
<1>2. ASSUME NEW R, Drops(R), UNCHANGED call
      PROVE  ListenedTo'
  BY <1>2 DEF Drops, ListenedTo
<1> QED
  BY <1>1, <1>2, OthersDrop

\* The abort of a signal leaves no subscription behind that was made with it.
LEMMA AbortHits ==
  ASSUME ListenedTo, NEW s \in Signals, AbortSignal(s), NEW e \in subs'
  PROVE  call'[e.controller].signal # s
<1> DEFINE hit == UNION {Keyed(l.topic, l.handler) : l \in {k \in listeners : k.signal = s}}
<1>1. hit \in SUBSET subs
  BY DEF Keyed
<1>2. subs' = subs \ Swept(hit) /\ UNCHANGED call
  BY DEF AbortSignal
<1>3. e \in subs /\ e \notin hit
  <2> HIDE DEF hit
  <2> QED
    BY <1>1, <1>2, SweptContains
<1>4. ~\E l \in listeners : l.signal = s /\ e \in Keyed(l.topic, l.handler)
  BY <1>3
<1> QED
  BY <1>2, <1>3, <1>4 DEF ListenedTo, Keyed

\* A signal is aborted by nobody but its owner: removing entries aborts controllers.
LEMMA SignalsAbortedByCallers ==
  ASSUME TypeOK, [Next]_vars, NEW s \in Signals, s \in aborted' \ aborted
  PROVE  AbortSignal(s)
<1>1. ASSUME NEW S \in SUBSET subs, Remove(S) PROVE FALSE
  <2>1. Controllers(Swept(S)) \subseteq Calls
    BY SweptContains DEF TypeOK, Controllers, Entry
  <2> QED
    BY <1>1, <2>1, PubsubAssumption DEF Remove
<1>2. ASSUME NEW t \in Topics PROVE ~UnsubscribeAll(t) /\ \A h \in Handlers : ~Unsubscribe(t, h)
  BY <1>1 DEF Unsubscribe, UnsubscribeAll, Keyed
<1>3. ASSUME NEW r \in Signals, AbortSignal(r) PROVE AbortSignal(s)
  <2> DEFINE hit == UNION {Keyed(l.topic, l.handler) : l \in {k \in listeners : k.signal = r}}
  <2>1. hit \in SUBSET subs
    BY DEF Keyed
  <2>2. aborted' = aborted \cup {r} \cup Controllers(Swept(hit))
    BY <1>3 DEF AbortSignal
  <2>3. Controllers(Swept(hit)) \subseteq Calls
    <3> HIDE DEF hit
    <3> QED
      BY <2>1, SweptContains DEF TypeOK, Controllers, Entry
  <2> QED
    BY <1>3, <2>2, <2>3, PubsubAssumption
<1>4. ASSUME NEW c \in Calls PROVE ~Microtask(c)
  <2>1. ~CatchHandler(c) /\ ~FinishReading(c)
    BY <1>1 DEF CatchHandler, FinishReading, Keyed
  <2> QED
    BY <2>1 DEF Microtask, RequestAborted, ThenHandler, ThenHandlerAfterCatch, ReadLine,
       ReadGarbage, tracker
<1>5. ASSUME NEW c \in Calls PROVE ~Network(c) /\ ~FfTimer(c)
  BY DEF Network, Respond, RequestFails, ChunkArrives, StreamStops, FfTimer, tracker
<1>6. ASSUME NEW c \in Calls, NEW t \in Topics, NEW h \in Handlers
      PROVE  ~SubscribeRefused(c, t, h) /\ \A o \in Options : ~Subscribe(c, t, h, o)
  BY DEF SubscribeRefused, Subscribe, tracker
<1>7. ~UNCHANGED vars
  BY DEF vars, tracker
<1> QED
  BY <1>2, <1>3, <1>4, <1>5, <1>6, <1>7 DEF Next, Caller

\* Whoever aborts a signal ends at once every live subscription made with it,
\* however many there are and whoever made them.
THEOREM SignalCorrect == Spec => SignalForwarded
<1>1. Init => ListenedTo
  BY DEF Init, ListenedTo
<1>2. TrackerInv /\ ListenedTo /\ [Next]_vars => ListenedTo'
  BY NextKeepsListenedTo
<1>3. TypeOK /\ ListenedTo /\ [Next]_vars =>
        [\A s \in Signals : s \in aborted' \ aborted =>
           \A e \in subs' : call'[e.controller].signal # s]_vars
  BY SignalsAbortedByCallers, AbortHits
<1> QED
  BY <1>1, <1>2, <1>3, TypeCorrect, TrackerInvariant, PTL DEF Spec, SignalForwarded

-----------------------------------------------------------------------------

\* Between the abort of a subscription and the end of its loop no task runs that
\* could end its body otherwise: its microtask is pending all that time.
LEMMA AbortedStaysSilent ==
  ASSUME TypeOK, [Next]_vars, NEW c \in (aborted \cap Calls) \ fatal,
         stream[c] = "open", lines[c] = 0
  PROVE  c \notin fatal' /\ stream'[c] = "open"
<1>1. stage[c] = "reading" => ~Idle
  BY DEF Idle, MicrotaskPending
<1>2. ASSUME NEW d \in Calls, Microtask(d) PROVE c \notin fatal' /\ stream'[c] = "open"
  BY <1>2 DEF Microtask, RequestAborted, CatchHandler, ThenHandler, ThenHandlerAfterCatch,
     ReadLine, ReadGarbage, FinishReading, TypeOK
<1>3. ASSUME NEW d \in Calls, Network(d) \/ FfTimer(d) PROVE c \notin fatal' /\ stream'[c] = "open"
  BY <1>1, <1>3 DEF Network, Respond, RequestFails, ChunkArrives, StreamStops, FfTimer, TypeOK
<1>4. Caller \/ UNCHANGED vars => UNCHANGED <<stream, fatal>>
  <2>1. ASSUME NEW d \in Calls, NEW t \in Topics, NEW h \in Handlers,
               (\E o \in Options : Subscribe(d, t, h, o)) \/ SubscribeRefused(d, t, h)
        PROVE  UNCHANGED <<stream, fatal>>
    BY <2>1 DEF Subscribe, SubscribeRefused
  <2>2. UNCHANGED request \/ UNCHANGED vars => UNCHANGED <<stream, fatal>>
    BY DEF request, vars
  <2> QED
    BY <2>1, <2>2, CallerRequests
<1> QED
  BY <1>2, <1>3, <1>4 DEF Next

\* A subscription that was aborted while its body was healthy ends without an
\* error, whatever the connection does meanwhile.
THEOREM SilentCorrect == Spec => AbortIsSilent
<1>1. TypeOK /\ [Next]_vars =>
        [\A c \in (aborted \cap Calls) \ fatal :
           stream[c] = "open" /\ lines[c] = 0 => c \notin fatal' /\ stream'[c] = "open"]_vars
  BY AbortedStaysSilent
<1> QED
  BY <1>1, TypeCorrect, PTL DEF Spec, AbortIsSilent
-----------------------------------------------------------------------------

\* How far a promise and its timer are when the handlers of the request run.
Told ==
  \A c \in Calls :
    /\ stage[c] \in {"fetching", "failed"} => promise[c] = "pending" \/ timer[c] = "fired"
    /\ stage[c] = "caught" => promise[c] = "rejected" \/ timer[c] = "fired"

\* A controller is aborted by its caller's doing or by the end of its own call.
AbortedByOwner ==
  \A c \in Calls : c \in aborted /\ c \notin cancelled => stage[c] \in Final

ReportInv == Told /\ AbortedByOwner /\ EndIsReported

\* A controller that is aborted in a step is that of an entry dropped in it.
LEMMA AbortedIsDropped ==
  ASSUME TypeOK, NEW R, Drops(R), NEW c \in Calls, c \in aborted' \ aborted
  PROVE  \E e \in subs \ subs' : e.controller = c
BY PubsubAssumption DEF Drops, Controllers

\* With careful callers every step that aborts a controller either cancels the
\* call or is its last one.
LEMMA NextKeepsAbortedByOwner ==
  ASSUME TrackerInv, CarefulInv, AbortedByOwner, [Next]_vars
  PROVE  AbortedByOwner'
<1> USE DEF TrackerInv
<1> SUFFICES ASSUME NEW c \in Calls, c \in aborted', c \notin cancelled'
             PROVE  stage'[c] \in Final
  BY DEF AbortedByOwner
<1>1. cancelled \subseteq cancelled'
  BY CancelledGrows
<1>2. CASE c \in aborted
  <2>1. stage[c] \in Final
    BY <1>1, <1>2 DEF AbortedByOwner
  <2>2. ASSUME NEW d \in Calls, Microtask(d) PROVE stage'[c] \in Final
    BY <2>1, <2>2 DEF Final, Microtask, RequestAborted, CatchHandler, ThenHandler,
       ThenHandlerAfterCatch, ReadLine, ReadGarbage, FinishReading, TypeOK
  <2>3. ASSUME NEW d \in Calls, Network(d) \/ FfTimer(d) PROVE stage'[c] \in Final
    BY <2>1, <2>3 DEF Final, Network, Respond, RequestFails, ChunkArrives, StreamStops,
       FfTimer, TypeOK
  <2>4. Caller \/ UNCHANGED vars => stage'[c] = stage[c]
    <3>1. ASSUME NEW d \in Calls, NEW t \in Topics, NEW h \in Handlers,
                 (\E o \in Options : Subscribe(d, t, h, o)) \/ SubscribeRefused(d, t, h)
          PROVE  stage'[c] = stage[c]
      BY <2>1, <3>1 DEF Final, Subscribe, SubscribeRefused, TypeOK
    <3>2. UNCHANGED request \/ UNCHANGED vars => stage' = stage
      BY DEF request, vars
    <3> QED
      BY <3>1, <3>2, CallerRequests
  <2> QED
    BY <2>1, <2>2, <2>3, <2>4 DEF Next
<1>3. CASE c \notin aborted
  <2>1. ~\E d \in Calls, t \in Topics, h \in Handlers, o \in Options : Subscribe(d, t, h, o)
    BY <1>3 DEF Subscribe
  <2>2. PICK e \in subs \ subs' : e.controller = c
    BY <1>3, <2>1, OthersDrop, AbortedIsDropped
  <2>3. OwnCause(e)
    BY <2>2, NextHasOwnCause
  <2>4. CASE CatchHandler(c) \/ FinishReading(c)
    BY <2>4 DEF CatchHandler, FinishReading, Final, TypeOK
  <2>5. CASE Unsubscribe(e.topic, e.handler) \/ UnsubscribeAll(e.topic)
    BY <2>2, <2>5 DEF Unsubscribe, UnsubscribeAll, Keyed, Controllers
  <2>6. CASE AbortSignal(call[c].signal)
    BY <2>2, <2>6 DEF AbortSignal, Controllers
  <2> QED
    BY <2>2, <2>3, <2>4, <2>5, <2>6 DEF OwnCause
<1> QED
  BY <1>2, <1>3

\* The handlers tell the caller, unless the timer has told it already.
LEMMA NextKeepsTold ==
  ASSUME TypeOK, Told, [Next]_vars
  PROVE  Told'
<1> USE DEF Told, TypeOK, Settle
<1>1. ASSUME NEW c \in Calls, NEW t \in Topics, NEW h \in Handlers, NEW o \in Options,
             Subscribe(c, t, h, o)
      PROVE  Told'
  BY <1>1 DEF Subscribe
<1>2. ASSUME NEW c \in Calls, Microtask(c) PROVE Told'
  BY <1>2 DEF Microtask, RequestAborted, CatchHandler, ThenHandler, ThenHandlerAfterCatch,
     ReadLine, ReadGarbage, FinishReading
<1>3. ASSUME NEW c \in Calls, Network(c) \/ FfTimer(c) PROVE Told'
  BY <1>3 DEF Network, Respond, RequestFails, ChunkArrives, StreamStops, FfTimer
<1>4. ASSUME NEW c \in Calls, NEW t \in Topics, NEW h \in Handlers, SubscribeRefused(c, t, h)
      PROVE  Told'
  BY <1>4 DEF SubscribeRefused
<1>5. CASE UNCHANGED request
  BY <1>5 DEF request
<1> QED
  BY <1>1, <1>2, <1>3, <1>4, <1>5, CallerRequests DEF Next, vars

\* A subscription that ends has been cancelled or has told of its end.
LEMMA NextKeepsReported ==
  ASSUME TypeOK, ReportInv, [Next]_vars
  PROVE  EndIsReported'
<1> USE DEF ReportInv, TypeOK, Settle
<1> SUFFICES ASSUME NEW c \in Calls, stage'[c] = "ended", c \notin cancelled'
             PROVE  \/ promise'[c] = "rejected" \/ c \in fatal'
                    \/ stream'[c] = "ended" \/ timer'[c] = "fired"
  BY DEF EndIsReported
<1>1. cancelled \subseteq cancelled'
  BY CancelledGrows
<1>2. CASE stage[c] = "ended"
  <2>1. \/ promise[c] = "rejected" \/ c \in fatal
        \/ stream[c] = "ended" \/ timer[c] = "fired"
    BY <1>1, <1>2 DEF EndIsReported
  <2>2. ASSUME NEW d \in Calls, Microtask(d)
        PROVE  \/ promise'[c] = "rejected" \/ c \in fatal'
               \/ stream'[c] = "ended" \/ timer'[c] = "fired"
    BY <1>2, <2>1, <2>2 DEF Microtask, RequestAborted, CatchHandler, ThenHandler,
       ThenHandlerAfterCatch, ReadLine, ReadGarbage, FinishReading
  <2>3. ASSUME NEW d \in Calls, Network(d) \/ FfTimer(d)
        PROVE  \/ promise'[c] = "rejected" \/ c \in fatal'
               \/ stream'[c] = "ended" \/ timer'[c] = "fired"
    BY <1>2, <2>1, <2>3 DEF Network, Respond, RequestFails, ChunkArrives, StreamStops, FfTimer
  <2>4. ASSUME Caller \/ UNCHANGED vars
        PROVE  /\ promise'[c] = promise[c] /\ fatal' = fatal
               /\ stream'[c] = stream[c] /\ timer'[c] = timer[c]
    <3>1. ASSUME NEW d \in Calls, NEW t \in Topics, NEW h \in Handlers, NEW o \in Options,
                 Subscribe(d, t, h, o)
          PROVE  /\ promise'[c] = promise[c] /\ fatal' = fatal
                 /\ stream'[c] = stream[c] /\ timer'[c] = timer[c]
      BY <1>2, <3>1 DEF Subscribe
    <3>2. ASSUME NEW d \in Calls, NEW t \in Topics, NEW h \in Handlers,
                 SubscribeRefused(d, t, h)
          PROVE  /\ promise'[c] = promise[c] /\ fatal' = fatal
                 /\ stream'[c] = stream[c] /\ timer'[c] = timer[c]
      BY <1>2, <3>2 DEF SubscribeRefused
    <3>3. CASE UNCHANGED request
      BY <3>3 DEF request
    <3> QED
      BY <2>4, <3>1, <3>2, <3>3, CallerRequests DEF vars
  <2> QED
    BY <2>1, <2>2, <2>3, <2>4 DEF Next
<1>3. CASE stage[c] # "ended"
  <2>1. ThenHandlerAfterCatch(c) \/ FinishReading(c)
    <3>1. ASSUME NEW d \in Calls, Microtask(d)
          PROVE  ThenHandlerAfterCatch(c) \/ FinishReading(c)
      BY <1>3, <3>1 DEF Microtask, RequestAborted, CatchHandler, ThenHandler,
         ThenHandlerAfterCatch, ReadLine, ReadGarbage, FinishReading
    <3>2. ASSUME NEW d \in Calls PROVE ~Network(d) /\ ~FfTimer(d)
      BY <1>3 DEF Network, Respond, RequestFails, ChunkArrives, StreamStops, FfTimer
    <3>3. ASSUME NEW d \in Calls, NEW t \in Topics, NEW h \in Handlers
          PROVE  ~SubscribeRefused(d, t, h) /\ \A o \in Options : ~Subscribe(d, t, h, o)
      BY <1>3 DEF Subscribe, SubscribeRefused
    <3>4. ~UNCHANGED request
      BY <1>3 DEF request
    <3> QED
      BY <3>1, <3>2, <3>3, <3>4, CallerRequests DEF Next, vars
  <2>2. CASE ThenHandlerAfterCatch(c)
    BY <2>2 DEF ThenHandlerAfterCatch, Told
  <2>3. CASE FinishReading(c)
    <3>1. c \in aborted => stage[c] \in Final
      BY <1>1 DEF AbortedByOwner
    <3> QED
      BY <2>3, <3>1 DEF FinishReading, Final
  <2> QED
    BY <2>1, <2>2, <2>3
<1> QED
  BY <1>2, <1>3

\* With callers that neither subscribe a key again nor share options objects, no
\* subscription that its caller did not cancel ends without a word.
THEOREM ReportedCorrect == ASSUME Careful PROVE Spec => []EndIsReported
<1>1. Init => CarefulInv /\ ReportInv
  BY DEF Init, CarefulInv, Started, ReportInv, Told, AbortedByOwner, EndIsReported
<1>2. TypeOK /\ CarefulInv /\ [Next]_vars => CarefulInv'
  BY NextKeepsCareful
<1>3. TrackerInv /\ CarefulInv /\ ReportInv /\ [Next]_vars => ReportInv'
  <2>1. TrackerInv => TypeOK
    BY DEF TrackerInv
  <2> QED
    BY <2>1, NextKeepsTold, NextKeepsAbortedByOwner, NextKeepsReported DEF ReportInv
<1>4. ReportInv => EndIsReported
  BY DEF ReportInv
<1> QED
  BY <1>1, <1>2, <1>3, <1>4, TypeCorrect, TrackerInvariant, PTL DEF Spec

-----------------------------------------------------------------------------
(* The refinement of PubsubRegistry, of which the fairness is left to TLC: *)
(* with careful callers every step of the client is a step of the registry *)
(* or a stutter.                                                           *)

\* Careful callers hand no call's controller to another call.
OwnSignals ==
  \A c \in Calls : stage[c] \in Started => call[c].signal \in Signals \cup {NoSignal}

RefinementInv == TrackerInv /\ CarefulInv /\ ListenedTo /\ OwnSignals

\* Only subscribe() gives a call its signal, and only from a caller's options.
LEMMA NextKeepsOwnSignals ==
  ASSUME Careful, TypeOK, OwnSignals, [Next]_vars
  PROVE  OwnSignals'
<1>1. ASSUME NEW c \in Calls, NEW t \in Topics, NEW h \in Handlers, NEW o \in Options,
             Subscribe(c, t, h, o)
      PROVE  OwnSignals'
  <2>1. optSignal[o] \in Signals \cup {NoSignal}
    BY <1>1 DEF Careful, Subscribe, CallerMay, TypeOK, AnySignal
  <2>2. /\ call'[c].signal = optSignal[o]
        /\ \A d \in Calls \ {c} : call'[d] = call[d] /\ stage'[d] = stage[d]
    BY <1>1 DEF Subscribe, TypeOK
  <2> QED
    BY <2>1, <2>2 DEF OwnSignals
<1>2. CASE ~\E c \in Calls, t \in Topics, h \in Handlers, o \in Options : Subscribe(c, t, h, o)
  <2>1. UNCHANGED call
    BY <1>2, OthersDrop
  <2>2. \A c \in Calls : stage'[c] \in Started => stage[c] \in Started
    <3>1. ASSUME NEW d \in Calls, Microtask(d) \/ Network(d) \/ FfTimer(d)
          PROVE  \A c \in Calls : stage'[c] \in Started => stage[c] \in Started
      BY <3>1 DEF Microtask, RequestAborted, CatchHandler, ThenHandler, ThenHandlerAfterCatch,
         ReadLine, ReadGarbage, FinishReading, Network, Respond, RequestFails, ChunkArrives,
         StreamStops, FfTimer, TypeOK, Started, Stages
    <3>2. ASSUME NEW d \in Calls, NEW t \in Topics, NEW h \in Handlers,
                 SubscribeRefused(d, t, h)
          PROVE  \A c \in Calls : stage'[c] \in Started => stage[c] \in Started
      BY <3>2 DEF SubscribeRefused, TypeOK, Started, Stages
    <3>3. ASSUME UNCHANGED request
          PROVE  \A c \in Calls : stage'[c] \in Started => stage[c] \in Started
      BY <3>3 DEF request
    <3> QED
      BY <1>2, <3>1, <3>2, <3>3, CallerRequests DEF Next, vars
  <2> QED
    BY <2>1, <2>2 DEF OwnSignals
<1> QED
  BY <1>1, <1>2

-----------------------------------------------------------------------------

\* The subscription a caller sees for an entry of the tracker.
Seen(e) == [topic |-> e.topic, handler |-> e.handler, call |-> e.controller,
            signal |-> call[e.controller].signal]

\* Entries that leave the tracker take just the subscriptions seen for them.
LEMMA SeenAfterDrop ==
  ASSUME NEW S, subs' = subs \ S, UNCHANGED call
  PROVE  liveBar' = {Seen(e) : e \in subs \ S}
BY DEF liveBar, Seen

\* A request that leaves the stages of an open connection has its connection over.
LEMMA ConnectionStep ==
  ASSUME NEW c \in Calls, UNCHANGED liveBar,
         \A d \in Calls \ {c} : stage'[d] = stage[d] /\ stream'[d] = stream[d],
         \/ connBar'[c] = connBar[c]
         \/ connBar[c] = "open" /\ connBar'[c] = "over"
  PROVE  [Registry!Next]_Registry!registryVars
<1>1. \A d \in Calls \ {c} : connBar'[d] = connBar[d]
  BY DEF connBar
<1>2. connBar = [d \in Calls |-> connBar[d]] /\ connBar' = [d \in Calls |-> connBar'[d]]
  BY DEF connBar
<1>3. CASE connBar'[c] = connBar[c]
  <2>1. connBar' = connBar
    BY <1>1, <1>2, <1>3
  <2> QED
    BY <2>1 DEF Registry!registryVars
<1>4. CASE connBar[c] = "open" /\ connBar'[c] = "over"
  <2>1. connBar' = [connBar EXCEPT ![c] = "over"]
    BY <1>1, <1>2, <1>4
  <2>2. Registry!ConnectionOver(c)
    BY <1>4, <2>1 DEF Registry!ConnectionOver
  <2> QED
    BY <2>2 DEF Registry!Next
<1> QED
  BY <1>3, <1>4

\* Cleaning up after a call, its handlers drop its own entry or find none.
LEMMA CleanupStep ==
  ASSUME RefinementInv, NEW c \in Calls, stage[c] \in Started,
         Remove(Keyed(call[c].topic, call[c].handler)), UNCHANGED call
  PROVE  \/ UNCHANGED liveBar
         \/ /\ \E r \in liveBar : r.call = c /\ liveBar' = liveBar \ {r}
            /\ c \notin aborted
<1> USE DEF RefinementInv, TrackerInv
<1> DEFINE own == Keyed(call[c].topic, call[c].handler)
<1>1. own \in SUBSET subs
  BY DEF Keyed
<1>2. subs' = subs \ own
  <2>1. subs' = subs \ Swept(own)
    BY DEF Remove
  <2> HIDE DEF own
  <2> QED
    BY <1>1, <2>1, SweptExact
<1>3. liveBar' = {Seen(e) : e \in subs \ own}
  <2> HIDE DEF own
  <2> QED
    BY <1>2, SeenAfterDrop
<1>4. ASSUME NEW e \in own
      PROVE  e \in subs /\ e.controller = c /\ own = {e}
  <2>1. /\ e \in subs /\ e.topic = call[c].topic /\ e.handler = call[c].handler
        /\ e.controller \in Calls
    BY DEF Keyed, TypeOK, Entry
  <2>2. stage[e.controller] \in Started
    BY <2>1 DEF TrackerAgrees, OfCall
  <2>3. e.controller = c
    BY <2>1, <2>2 DEF CarefulInv, EntryArgs
  <2>4. \A f \in own : f = e
    BY <2>1 DEF TrackerAgrees, Keyed
  <2> QED
    BY <2>1, <2>3, <2>4
<1>5. CASE own = {}
  <2>1. liveBar' = liveBar
    BY <1>3, <1>5 DEF liveBar, Seen
  <2> QED
    BY <2>1
<1>6. CASE own # {}
  <2>1. PICK e \in own : e \in subs /\ e.controller = c /\ own = {e}
    BY <1>4, <1>6
  <2>2. Seen(e) \in liveBar /\ Seen(e).call = c
    BY <2>1 DEF liveBar, Seen
  <2>3. \A f \in subs : Seen(f) = Seen(e) => f = e
    <3>1. ASSUME NEW f \in subs, Seen(f) = Seen(e)
          PROVE  f.topic = e.topic /\ f.handler = e.handler
      BY <3>1 DEF Seen
    <3> QED
      BY <2>1, <3>1 DEF TrackerAgrees
  <2>4. liveBar' = liveBar \ {Seen(e)}
    <3>1. liveBar = {Seen(f) : f \in subs}
      BY DEF liveBar, Seen
    <3> HIDE DEF own
    <3> QED
      BY <1>3, <2>1, <2>3, <3>1
  <2>5. c \notin aborted
    BY <2>1 DEF TrackerAgrees, OfCall
  <2> QED
    BY <2>2, <2>4, <2>5
<1> QED
  BY <1>5, <1>6

-----------------------------------------------------------------------------

\* subscribe() is the registry's Subscribe.
LEMMA SubscribeRefines ==
  ASSUME RefinementInv, OwnSignals', NEW c \in Calls, NEW t \in Topics, NEW h \in Handlers,
         NEW o \in Options, Subscribe(c, t, h, o)
  PROVE  Registry!Next
<1> USE DEF RefinementInv, TrackerInv
<1> DEFINE entry == [topic |-> t, handler |-> h, controller |-> c]
           sub   == [topic |-> t, handler |-> h, call |-> c, signal |-> optSignal[o]]
<1>1. /\ stage[c] = "unused" /\ stage'[c] = "fetching" /\ subs' = subs \cup {entry}
      /\ call'[c].signal = optSignal[o] /\ UNCHANGED stream
      /\ \A d \in Calls \ {c} : call'[d] = call[d] /\ stage'[d] = stage[d]
  BY DEF Subscribe, TypeOK
<1>2. optSignal[o] \in Signals \cup {NoSignal}
  BY <1>1 DEF OwnSignals, Started, Stages
<1>3. \A e \in subs : e.controller \in Calls \ {c}
  BY <1>1 DEF TrackerAgrees, OfCall, TypeOK, Entry, Started
<1>4. liveBar' = liveBar \cup {sub}
  <2>1. \A e \in subs : call'[e.controller] = call[e.controller]
    BY <1>1, <1>3
  <2>2. /\ entry.topic = t /\ entry.handler = h /\ entry.controller = c
        /\ call'[entry.controller].signal = optSignal[o]
    BY <1>1
  <2> HIDE DEF entry
  <2> QED
    BY <1>1, <2>1, <2>2 DEF liveBar
<1>5. connBar[c] = "none" /\ connBar' = [connBar EXCEPT ![c] = "open"]
  BY <1>1 DEF connBar
<1>6. ~\E r \in liveBar : r.topic = t /\ r.handler = h
  BY DEF liveBar, Subscribe, Keyed
<1>7. Registry!Subscribe(c, t, h, optSignal[o])
  BY <1>4, <1>5, <1>6 DEF Registry!Subscribe
<1> QED
  BY <1>2, <1>7 DEF Registry!Next

\* unsubscribe() is the registry's, of one handler or of all.
LEMMA UnsubscribeRefines ==
  ASSUME RefinementInv, NEW t \in Topics,
         UnsubscribeAll(t) \/ \E h \in Handlers : Unsubscribe(t, h)
  PROVE  Registry!Next
<1> USE DEF RefinementInv, TrackerInv
<1>1. UNCHANGED <<connBar, call>>
  BY DEF UnsubscribeAll, Unsubscribe, connBar, request
<1>2. CASE UnsubscribeAll(t)
  <2> DEFINE all == {e \in subs : e.topic = t}
  <2>1. liveBar' = {Seen(e) : e \in subs \ all}
    <3>1. all \in SUBSET subs
      OBVIOUS
    <3>2. subs' = subs \ Swept(all)
      BY <1>2 DEF UnsubscribeAll, Remove
    <3> HIDE DEF all
    <3> QED
      BY <1>1, <3>1, <3>2, SweptExact, SeenAfterDrop
  <2>2. liveBar' = {r \in liveBar : r.topic # t}
    BY <2>1 DEF liveBar, Seen
  <2> QED
    BY <1>1, <2>2 DEF Registry!Next, Registry!UnsubscribeAll
<1>3. ASSUME NEW h \in Handlers, Unsubscribe(t, h) PROVE Registry!Next
  <2>1. liveBar' = {Seen(e) : e \in subs \ Keyed(t, h)}
    <3>1. Keyed(t, h) \in SUBSET subs
      BY DEF Keyed
    <3> QED
      BY <1>1, <1>3, <3>1, SweptExact, SeenAfterDrop DEF Unsubscribe, Remove
  <2>2. liveBar' = {r \in liveBar : ~(r.topic = t /\ r.handler = h)}
    BY <2>1 DEF liveBar, Seen, Keyed
  <2> QED
    BY <1>1, <2>2 DEF Registry!Next, Registry!Unsubscribe
<1> QED
  BY <1>2, <1>3

\* An abort cancels exactly the subscriptions that were made with the signal.
LEMMA AbortRefines ==
  ASSUME RefinementInv, NEW s \in Signals, AbortSignal(s)
  PROVE  Registry!Next
<1> USE DEF RefinementInv, TrackerInv
<1> DEFINE hit == UNION {Keyed(l.topic, l.handler) : l \in {k \in listeners : k.signal = s}}
<1>1. UNCHANGED <<connBar, call>>
  BY DEF AbortSignal, connBar, request
<1>2. hit \in SUBSET subs
  BY DEF Keyed
<1>3. subs' = subs \ hit
  <2>1. subs' = subs \ Swept(hit)
    BY DEF AbortSignal
  <2> HIDE DEF hit
  <2> QED
    BY <1>2, <2>1, SweptExact
<1>4. ASSUME NEW e \in subs
      PROVE  e \in hit <=> call[e.controller].signal = s
  <2>1. /\ e.controller \in Calls /\ stage[e.controller] \in Started
        /\ e.topic = call[e.controller].topic /\ e.handler = call[e.controller].handler
    BY DEF TypeOK, Entry, TrackerAgrees, OfCall, EntryArgs
  <2>2. e \in hit <=> \E l \in listeners :
                        l.signal = s /\ l.topic = e.topic /\ l.handler = e.handler
    BY DEF Keyed
  <2>3. ASSUME NEW l \in listeners, l.signal = s, l.topic = e.topic, l.handler = e.handler
        PROVE  call[e.controller].signal = s
    BY <2>1, <2>3 DEF CarefulInv
  <2> QED
    BY <2>2, <2>3 DEF ListenedTo
<1>5. liveBar' = {Seen(e) : e \in subs \ hit}
  <2> HIDE DEF hit
  <2> QED
    BY <1>1, <1>3, SeenAfterDrop
<1>6. liveBar' = {r \in liveBar : r.signal # s}
  <2> HIDE DEF hit
  <2> QED
    BY <1>4, <1>5 DEF liveBar, Seen
<1>7. Registry!Cancel(s)
  BY <1>1, <1>6 DEF Registry!Cancel
<1> QED
  BY <1>7 DEF Registry!Next

\* The catch handler and the end of a body forget the call's own subscription.
LEMMA FinalRefines ==
  ASSUME RefinementInv, NEW c \in Calls, CatchHandler(c) \/ FinishReading(c)
  PROVE  [Registry!Next]_Registry!registryVars
<1> USE DEF RefinementInv, TrackerInv
<1>1. /\ stage[c] \in Started /\ UNCHANGED <<call, stream>>
      /\ Remove(Keyed(call[c].topic, call[c].handler))
      /\ \A d \in Calls \ {c} : stage'[d] = stage[d]
      /\ connBar'[c] = "over"
      /\ connBar[c] \in {"open", "over"}
      /\ c \notin aborted => connBar[c] = "over"
  BY DEF CatchHandler, FinishReading, TypeOK, Started, Stages, connBar
<1>2. CASE UNCHANGED liveBar
  BY <1>1, <1>2, ConnectionStep
<1>3. CASE /\ \E r \in liveBar : r.call = c /\ liveBar' = liveBar \ {r}
           /\ c \notin aborted
  <2>1. UNCHANGED connBar
    BY <1>1, <1>3 DEF connBar
  <2>2. Registry!Forget(c)
    BY <1>1, <1>3, <2>1 DEF Registry!Forget
  <2> QED
    BY <2>2 DEF Registry!Next
<1> QED
  BY <1>1, <1>2, <1>3, CleanupStep

\* Everything else moves a connection towards its end, or is not seen.
LEMMA RequestRefines ==
  ASSUME TypeOK, NEW c \in Calls, Microtask(c) \/ Network(c) \/ FfTimer(c),
         ~CatchHandler(c), ~FinishReading(c)
  PROVE  [Registry!Next]_Registry!registryVars
<1>1. UNCHANGED <<subs, call>>
  BY DEF Microtask, RequestAborted, ThenHandler, ThenHandlerAfterCatch, ReadLine, ReadGarbage,
     Network, Respond, RequestFails, ChunkArrives, StreamStops, FfTimer, tracker
<1>2. UNCHANGED liveBar
  BY <1>1 DEF liveBar
<1>3. \A d \in Calls \ {c} : stage'[d] = stage[d] /\ stream'[d] = stream[d]
  BY DEF Microtask, RequestAborted, ThenHandler, ThenHandlerAfterCatch, ReadLine, ReadGarbage,
     Network, Respond, RequestFails, ChunkArrives, StreamStops, FfTimer, TypeOK
<1>4. \/ connBar'[c] = connBar[c]
      \/ connBar[c] = "open" /\ connBar'[c] = "over"
  BY DEF Microtask, RequestAborted, ThenHandler, ThenHandlerAfterCatch, ReadLine, ReadGarbage,
     Network, Respond, RequestFails, ChunkArrives, StreamStops, FfTimer, TypeOK, connBar
<1> QED
  BY <1>2, <1>3, <1>4, ConnectionStep

-----------------------------------------------------------------------------

\* What PubsubRegistry promises without fairness holds of the client: a
\* subscription ends only by an unsubscribe for it, its own signal or the end of
\* its own connection, and never while another one takes its key.
THEOREM RegistryImplemented ==
  ASSUME Careful
  PROVE  Spec => Registry!Init /\ [][Registry!Next]_Registry!registryVars
<1>1. Init => Registry!Init
  BY DEF Init, Registry!Init, liveBar, connBar
<1>2. Init => CarefulInv /\ ListenedTo /\ OwnSignals
  BY DEF Init, CarefulInv, ListenedTo, OwnSignals, Started
<1>3. TypeOK /\ CarefulInv /\ [Next]_vars => CarefulInv'
  BY NextKeepsCareful
<1>4. TrackerInv /\ ListenedTo /\ [Next]_vars => ListenedTo'
  BY NextKeepsListenedTo
<1>5. TypeOK /\ OwnSignals /\ [Next]_vars => OwnSignals'
  BY NextKeepsOwnSignals
<1>6. RefinementInv /\ OwnSignals' /\ [Next]_vars => [Registry!Next]_Registry!registryVars
  <2> SUFFICES ASSUME RefinementInv, OwnSignals', [Next]_vars
               PROVE  [Registry!Next]_Registry!registryVars
    OBVIOUS
  <2>1. ASSUME NEW c \in Calls, Microtask(c) \/ Network(c) \/ FfTimer(c)
        PROVE  [Registry!Next]_Registry!registryVars
    BY <2>1, FinalRefines, RequestRefines DEF RefinementInv, TrackerInv
  <2>2. ASSUME NEW c \in Calls, NEW t \in Topics, NEW h \in Handlers, SubscribeRefused(c, t, h)
        PROVE  UNCHANGED Registry!registryVars
    <3>1. UNCHANGED <<subs, call, stream>> /\ \A d \in Calls \ {c} : stage'[d] = stage[d]
      BY <2>2 DEF SubscribeRefused, tracker, RefinementInv, TrackerInv, TypeOK
    <3>2. stage[c] = "unused" /\ stage'[c] = "refused"
      BY <2>2 DEF SubscribeRefused, RefinementInv, TrackerInv, TypeOK
    <3> QED
      BY <3>1, <3>2 DEF Registry!registryVars, liveBar, connBar
  <2>3. ASSUME UNCHANGED vars PROVE UNCHANGED Registry!registryVars
    BY <2>3 DEF vars, tracker, request, Registry!registryVars, liveBar, connBar
  <2> QED
    BY <2>1, <2>2, <2>3, SubscribeRefines, UnsubscribeRefines, AbortRefines DEF Next, Caller
<1>7. TrackerInv /\ CarefulInv /\ ListenedTo /\ OwnSignals => RefinementInv
  BY DEF RefinementInv
<1> QED
  BY <1>1, <1>2, <1>3, <1>4, <1>5, <1>6, <1>7, TypeCorrect, TrackerInvariant, PTL DEF Spec
=============================================================================
