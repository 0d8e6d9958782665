-------------------------- MODULE HttpFetchProofs --------------------------
(***************************************************************************)
(* Theorems about HttpFetch, for any requests and signals.                 *)
(***************************************************************************)
EXTENDS HttpFetch, TLAPS

\* Leaving fetch() with a legal result keeps the types.
LEMMA LeaveType ==
  ASSUME TypeOK, NEW r \in Requests, NEW how \in Settled,
         NEW what \in Errors \cup {"response"}, Leave(r, how, what),
         body' \in [Requests -> {"none", "open", "ended", "lost", "aborted"}]
  PROVE  TypeOK'
BY DEF TypeOK, Leave

\* Every step of fetch(), of its caller and of the network keeps the types.
LEMMA NextKeepsType ==
  ASSUME TypeOK, [Next]_vars
  PROVE  TypeOK'
<1> USE DEF signals
<1>1. ASSUME NEW r \in Requests, NEW s \in Signals \cup {NoSignal}, Fetch(r, s)
      PROVE  TypeOK'
  BY <1>1 DEF Fetch, TypeOK
<1>2. ASSUME NEW s \in Signals, AbortSignal(s)
      PROVE  TypeOK'
  BY <1>2 DEF AbortSignal, TypeOK
<1>3. ASSUME NEW r \in Requests, Elapse(r)
      PROVE  TypeOK'
  BY <1>3 DEF Elapse, TypeOK
<1>4. ASSUME NEW r \in Requests, NEW a \in Answers, Respond(r, a)
      PROVE  TypeOK'
  BY <1>4 DEF Respond, TypeOK
<1>5. ASSUME NEW r \in Requests,
             NetworkFails(r) \/ FetchAborts(r) \/ ReturnResponse(r) \/ ThrowUnread(r)
      PROVE  TypeOK'
  <2>1. body' \in [Requests -> {"none", "open", "ended", "lost", "aborted"}]
    BY <1>5 DEF NetworkFails, FetchAborts, ReturnResponse, ThrowUnread, TypeOK
  <2> QED
    BY <1>5, <2>1, LeaveType
       DEF NetworkFails, FetchAborts, ReturnResponse, ThrowUnread, Settled, Errors
<1>6. ASSUME NEW r \in Requests, ThrowAnswered(r)
      PROVE  TypeOK'
  <2>1. body' \in [Requests -> {"none", "open", "ended", "lost", "aborted"}]
    BY <1>6 DEF ThrowAnswered, TypeOK
  <2> QED
    BY <1>6, <2>1, LeaveType DEF ThrowAnswered, Settled, Errors
<1>7. ASSUME NEW r \in Requests, NEW how \in {"ended", "lost"}, BodyStops(r, how)
      PROVE  TypeOK'
  BY <1>7 DEF BodyStops, TypeOK
<1>8. ASSUME NEW r \in Requests, BodyAborts(r)
      PROVE  TypeOK'
  BY <1>8 DEF BodyAborts, TypeOK
<1>9. CASE UNCHANGED vars
  BY <1>9 DEF vars, TypeOK
<1> QED
  BY <1>1, <1>2, <1>3, <1>4, <1>5, <1>6, <1>7, <1>8, <1>9 DEF Next, Network, Microtask

\* Type correctness of every variable of a request.
THEOREM TypeCorrect == Spec => []TypeOK
<1>1. Init => TypeOK
  BY DEF Init, TypeOK
<1>2. TypeOK /\ [Next]_vars => TypeOK'
  BY NextKeepsType
<1> QED
  BY <1>1, <1>2, PTL DEF Spec

-----------------------------------------------------------------------------

\* A request that has not left fetch() has no result, one that is not answered
\* no answer, and one that has not started does not listen.
Progress ==
  \A r \in Requests :
    /\ stage[r] \notin Settled => result[r] = "none"
    /\ stage[r] = "idle" => r \notin listening
    /\ stage[r] \in {"idle", "sent"} => answer[r] = "none"
    /\ stage[r] = "answered" => answer[r] # "none"

ResultInv == Progress /\ ResultFitsAnswer /\ ListenersReleased

\* Every step keeps the outcome of a request in line with its stage, its answer
\* and its listener.
LEMMA NextKeepsResult ==
  ASSUME TypeOK, ResultInv, [Next]_vars
  PROVE  ResultInv'
<1> USE DEF ResultInv, Progress, ResultFitsAnswer, ListenersReleased, TypeOK, Settled, Answers
<1>1. ASSUME NEW r \in Requests, NEW s \in Signals \cup {NoSignal}, Fetch(r, s)
      PROVE  ResultInv'
  <2>1. /\ signalOf'[r] = s /\ stage'[r] = "sent" /\ stage[r] = "idle"
        /\ \A q \in Requests \ {r} : signalOf'[q] = signalOf[q] /\ stage'[q] = stage[q]
        /\ UNCHANGED <<aborted, answer, result>>
        /\ listening' = listening \/ (s \in Signals /\ listening' = listening \cup {r})
    BY <1>1 DEF Fetch
  <2>2. Progress'
    BY <2>1
  <2>3. ResultFitsAnswer'
    BY <2>1
  <2>4. ListenersReleased'
    BY <2>1
  <2> QED
    BY <2>2, <2>3, <2>4
<1>2. ASSUME NEW s \in Signals, AbortSignal(s)
      PROVE  ResultInv'
  BY <1>2 DEF AbortSignal
<1>3. ASSUME NEW r \in Requests, Elapse(r)
      PROVE  ResultInv'
  BY <1>3 DEF Elapse
<1>4. ASSUME NEW r \in Requests, NEW a \in Answers, Respond(r, a)
      PROVE  ResultInv'
  BY <1>4 DEF Respond, signals
<1>5. ASSUME NEW r \in Requests, NetworkFails(r) \/ ReturnResponse(r) \/ ThrowUnread(r)
      PROVE  ResultInv'
  BY <1>5 DEF NetworkFails, ReturnResponse, ThrowUnread, Leave
<1>6. ASSUME NEW r \in Requests, FetchAborts(r)
      PROVE  ResultInv'
  BY <1>6 DEF FetchAborts, FetchAborted, Leave
<1>7. ASSUME NEW r \in Requests, ThrowAnswered(r)
      PROVE  ResultInv'
  BY <1>7 DEF ThrowAnswered, Leave
<1>8. ASSUME NEW r \in Requests,
             BodyAborts(r) \/ \E how \in {"ended", "lost"} : BodyStops(r, how)
      PROVE  ResultInv'
  BY <1>8 DEF BodyAborts, BodyStops, signals
<1>9. CASE UNCHANGED vars
  BY <1>9 DEF vars, signals
<1> QED
  BY <1>1, <1>2, <1>3, <1>4, <1>5, <1>6, <1>7, <1>8, <1>9 DEF Next, Network, Microtask

\* The strengthened invariant of a request.
LEMMA ResultInvariant == Spec => []ResultInv
<1>1. Init => ResultInv
  BY DEF Init, ResultInv, Progress, ResultFitsAnswer, ListenersReleased, Settled
<1>2. TypeOK /\ ResultInv /\ [Next]_vars => ResultInv'
  BY NextKeepsResult
<1> QED
  BY <1>1, <1>2, TypeCorrect, PTL DEF Spec

\* However fetch() is left, nothing of it stays on the caller's signal.
THEOREM ListenersCorrect == Spec => []ListenersReleased
<1>1. ResultInv => ListenersReleased
  BY DEF ResultInv
<1> QED
  BY <1>1, ResultInvariant, PTL

\* What fetch() settles with agrees with what the daemon answered.
THEOREM ResultCorrect == Spec => []ResultFitsAnswer
<1>1. ResultInv => ResultFitsAnswer
  BY DEF ResultInv
<1> QED
  BY <1>1, ResultInvariant, PTL

-----------------------------------------------------------------------------

\* The condition of the timer asks for a timeout that is no number and positive.
LEMMA NoTimeoutArms == \A t : ~ArmsTimer(t)
BY DEF ArmsTimer

\* The combined signal of a request hears of nothing but the caller's abort.
OnlyCallersAborts ==
  /\ armed = {}
  /\ \A r \in combined : signalOf[r] \in aborted

\* Whatever timeout a client is made with, no request of it ever has a timer: its
\* combined signal is aborted by the caller or not at all, however long it takes
\* (http.ts, where AbortSignal.timeout is to be pushed).  It is why
\* GlobalTimeoutSettles fails.
THEOREM TimerNeverArmed == Spec => []OnlyCallersAborts
<1> DEFINE Inv == OnlyCallersAborts /\ \A r \in combined : stage[r] # "idle"
<1>1. Init => Inv
  BY DEF Init, OnlyCallersAborts
<1>2. TypeOK /\ ResultInv /\ Inv /\ [Next]_vars => Inv'
  <2> SUFFICES ASSUME TypeOK, ResultInv, Inv, [Next]_vars PROVE Inv'
    OBVIOUS
  <2> USE DEF TypeOK, OnlyCallersAborts
  <2>1. ASSUME NEW r \in Requests, NEW s \in Signals \cup {NoSignal}, Fetch(r, s)
        PROVE  Inv'
    <3>1. /\ stage[r] = "idle" /\ stage'[r] = "sent" /\ signalOf'[r] = s
          /\ \A q \in Requests \ {r} : stage'[q] = stage[q] /\ signalOf'[q] = signalOf[q]
          /\ UNCHANGED aborted
          /\ combined' = combined \/ (s \in aborted /\ combined' = combined \cup {r})
      BY <2>1 DEF Fetch
    <3>2. armed' = {}
      BY <2>1, NoTimeoutArms DEF Fetch
    <3> QED
      BY <3>1, <3>2
  <2>2. ASSUME NEW s \in Signals, AbortSignal(s)
        PROVE  Inv'
    <3>1. \A r \in listening : stage[r] # "idle"
      BY DEF ResultInv, Progress
    <3> QED
      BY <2>2, <3>1 DEF AbortSignal
  <2>3. ASSUME NEW r \in Requests, Elapse(r)
        PROVE  Inv'
    BY <2>3 DEF Elapse
  <2>4. ASSUME NEW r \in Requests, Network(r) \/ Microtask(r)
        PROVE  Inv'
    <3>1. UNCHANGED <<armed, aborted, signalOf, combined>>
      BY <2>4 DEF Network, Microtask, NetworkFails, ThrowAnswered, Respond, BodyStops, FetchAborts,
         ReturnResponse, ThrowUnread, BodyAborts, Leave, signals
    <3>2. \A q \in Requests : stage'[q] = "idle" => stage[q] = "idle"
      BY <2>4 DEF Network, Microtask, NetworkFails, ThrowAnswered, Respond, BodyStops, FetchAborts,
         ReturnResponse, ThrowUnread, BodyAborts, Leave
    <3> QED
      BY <3>1, <3>2
  <2>5. CASE UNCHANGED vars
    BY <2>5 DEF vars, signals
  <2> QED
    BY <2>1, <2>2, <2>3, <2>4, <2>5 DEF Next
<1> QED
  BY <1>1, <1>2, TypeCorrect, ResultInvariant, PTL DEF Spec
=============================================================================
