------------------------------ MODULE HttpFetch ------------------------------
(***************************************************************************)
(* HTTP.fetch with the options Client gives it: how a request settles, and *)
(* what the caller's AbortSignal and the client's global timeout do to it, *)
(* up to and after the moment the response is handed to the caller.        *)
(***************************************************************************)
EXTENDS Naturals, FiniteSets

CONSTANTS
  Requests,   \* identities of the calls of fetch()
  Signals,    \* AbortSignals of the callers
  NoSignal    \* opts.signal is undefined

ASSUME HttpAssumption == NoSignal \notin Signals

VARIABLES
  timeout,    \* opts.timeout of the client, after parseTimeout
  overdue,    \* requests that are out for longer than the global timeout
  aborted,    \* signals that are aborted
  signalOf,   \* opts.signal of each request
  listening,  \* requests whose combined signal still listens to opts.signal
  combined,   \* requests whose combined signal is aborted
  armed,      \* requests with an AbortSignal.timeout
  stage,      \* how far fetch() is
  answer,     \* what the daemon answered
  result,     \* what fetch() resolved or rejected with
  body        \* the response body

signals == <<timeout, overdue, aborted, signalOf, listening, combined, armed>>
vars == <<signals, stage, answer, result, body>>

Timeouts == {"undefined", "NaN", "zero", "positive"}
Answers  == {"ok", "error", "deadline"}    \* deadline: one of the three timeout phrases
Errors   == {"HTTPError", "TimeoutError", "AbortError", "NetworkError"}
Settled  == {"returned", "thrown"}

\* The types of the requests' variables.
TypeOK ==
  /\ timeout \in Timeouts
  /\ overdue \subseteq Requests
  /\ aborted \subseteq Signals
  /\ signalOf \in [Requests -> Signals \cup {NoSignal}]
  /\ listening \subseteq Requests
  /\ combined \subseteq Requests
  /\ armed \subseteq Requests
  /\ stage \in [Requests -> {"idle", "sent", "answered"} \cup Settled]
  /\ answer \in [Requests -> Answers \cup {"none"}]
  /\ result \in [Requests -> Errors \cup {"none", "response"}]
  /\ body \in [Requests -> {"none", "open", "ended", "lost", "aborted"}]

Init ==
  /\ timeout \in Timeouts
  /\ overdue = {}
  /\ aborted = {}
  /\ signalOf = [r \in Requests |-> NoSignal]
  /\ listening = {}
  /\ combined = {}
  /\ armed = {}
  /\ stage = [r \in Requests |-> "idle"]
  /\ answer = [r \in Requests |-> "none"]
  /\ result = [r \in Requests |-> "none"]
  /\ body = [r \in Requests |-> "none"]

-----------------------------------------------------------------------------

\* opts.timeout != null && isNaN(opts.timeout) && opts.timeout > 0
ArmsTimer(t) == t # "undefined" /\ t = "NaN" /\ t = "positive"

\* Mutant: native fetch is given the combined signal, which finally clears.
CombinedAborted(r) == r \in combined

\* Mutant: no signal is given to native fetch.
NeverAborted(r) == FALSE

\* The signal native fetch was given, which is opts.signal, is aborted.
FetchAborted(r) == signalOf[r] \in aborted

\* fetch(): options are merged, the combined signal is made (it takes over an
\* abort that has already happened, or listens) and the request goes out.
Fetch(r, s) ==
  /\ stage[r] = "idle"
  /\ signalOf' = [signalOf EXCEPT ![r] = s]
  /\ listening' = listening \cup {q \in {r} : s \in Signals \ aborted}
  /\ combined' = combined \cup {q \in {r} : s \in aborted}
  /\ armed' = armed \cup {q \in {r} : ArmsTimer(timeout)}
  /\ stage' = [stage EXCEPT ![r] = "sent"]
  /\ UNCHANGED <<timeout, overdue, aborted, answer, result, body>>

\* A caller aborts its signal.
AbortSignal(s) ==
  /\ s \notin aborted
  /\ aborted' = aborted \cup {s}
  /\ combined' = combined \cup {r \in listening : signalOf[r] = s}
  /\ UNCHANGED <<timeout, overdue, signalOf, listening, armed, stage, answer, result, body>>

\* The global timeout of the client has gone by since the request was sent.
Elapse(r) ==
  /\ stage[r] \in {"sent", "answered"} /\ r \notin overdue
  /\ timeout = "positive"
  /\ overdue' = overdue \cup {r}
  /\ combined' = combined \cup (armed \cap {r})
  /\ UNCHANGED <<timeout, aborted, signalOf, listening, armed, stage, answer, result, body>>

\* The head of the response arrives.
Respond(r, a) ==
  /\ stage[r] = "sent" /\ ~FetchAborted(r)
  /\ stage' = [stage EXCEPT ![r] = "answered"]
  /\ answer' = [answer EXCEPT ![r] = a]
  /\ body' = [body EXCEPT ![r] = "open"]
  /\ UNCHANGED <<signals, result>>

\* Mutant: the combined signal is only cleared on success.
LeaveForgets(r, how, what) ==
  /\ stage' = [stage EXCEPT ![r] = how]
  /\ result' = [result EXCEPT ![r] = what]
  /\ listening' = listening \ {q \in {r} : how = "returned"}
  /\ UNCHANGED <<timeout, overdue, aborted, signalOf, combined, armed, answer>>

\* fetch() is left; its finally block clears the combined signal.
Leave(r, how, what) ==
  /\ stage' = [stage EXCEPT ![r] = how]
  /\ result' = [result EXCEPT ![r] = what]
  /\ listening' = listening \ {r}
  /\ UNCHANGED <<timeout, overdue, aborted, signalOf, combined, armed, answer>>

\* The connection fails before there is a response.
NetworkFails(r) ==
  /\ stage[r] = "sent" /\ ~FetchAborted(r)
  /\ Leave(r, "thrown", "NetworkError")
  /\ UNCHANGED body

\* Native fetch rejects because its signal is aborted.
FetchAborts(r) ==
  /\ stage[r] = "sent" /\ FetchAborted(r)
  /\ Leave(r, "thrown", "AbortError")
  /\ UNCHANGED body

\* Mutant: a response is returned whatever its status.
ReturnAny(r) ==
  /\ stage[r] = "answered"
  /\ Leave(r, "returned", "response")
  /\ UNCHANGED body

\* response.ok: iterator() and ndjson() are attached, the response returned.
ReturnResponse(r) ==
  /\ stage[r] = "answered" /\ answer[r] = "ok"
  /\ Leave(r, "returned", "response")
  /\ UNCHANGED body

\* !response.ok: handleError reads the message out of the body and throws.
ThrowAnswered(r) ==
  /\ stage[r] = "answered" /\ answer[r] # "ok"
  /\ body[r] = "open" /\ ~FetchAborted(r)
  /\ body' = [body EXCEPT ![r] = "ended"]
  /\ Leave(r, "thrown", IF answer[r] = "deadline" THEN "TimeoutError" ELSE "HTTPError")

\* Mutant: handleError lets the error of reading the body escape.
ThrowReadError(r) ==
  /\ stage[r] = "answered" /\ answer[r] # "ok"
  /\ body[r] \in {"lost", "aborted"}
  /\ Leave(r, "thrown", "ReadError")
  /\ UNCHANGED body

\* !response.ok, and the body cannot be read: handleError takes the message of
\* that error instead and throws an HTTPError all the same.
ThrowUnread(r) ==
  /\ stage[r] = "answered" /\ answer[r] # "ok"
  /\ body[r] \in {"lost", "aborted"}
  /\ Leave(r, "thrown", "HTTPError")
  /\ UNCHANGED body

\* The body ends, or its connection breaks; handleError reads an error's body.
BodyStops(r, how) ==
  /\ body[r] = "open" /\ ~FetchAborted(r)
  /\ how = "ended" => stage[r] = "returned"
  /\ body' = [body EXCEPT ![r] = how]
  /\ UNCHANGED <<signals, stage, answer, result>>

\* The body is errored because the signal native fetch was given is aborted.
BodyAborts(r) ==
  /\ body[r] = "open" /\ FetchAborted(r)
  /\ body' = [body EXCEPT ![r] = "aborted"]
  /\ UNCHANGED <<signals, stage, answer, result>>

-----------------------------------------------------------------------------

Network(r) ==
  \/ NetworkFails(r) \/ ThrowAnswered(r)
  \/ \E a \in Answers : Respond(r, a)
  \/ \E how \in {"ended", "lost"} : BodyStops(r, how)

Microtask(r) ==
  FetchAborts(r) \/ ReturnResponse(r) \/ ThrowUnread(r) \/ BodyAborts(r)

Next ==
  \/ \E s \in Signals : AbortSignal(s)
  \/ \E r \in Requests :
       \/ \E s \in Signals \cup {NoSignal} : Fetch(r, s)
       \/ Network(r) \/ Microtask(r) \/ Elapse(r)

\* Clocks run and microtasks are drained; nothing is assumed of the network.
Fairness == \A r \in Requests : WF_vars(Microtask(r)) /\ WF_vars(Elapse(r))

Spec == Init /\ [][Next]_vars /\ Fairness

-----------------------------------------------------------------------------

\* A request that has settled leaves nothing on its caller's signal, however
\* it settled (the finally block of fetch); a caller may use one signal for
\* any number of requests.
ListenersReleased ==
  \A r \in listening : stage[r] \notin Settled /\ signalOf[r] \in Signals

\* What the caller gets agrees with what happened on the wire: a response is
\* an ok one, an AbortError needs an abort, and the two HTTP errors an answer
\* that is not ok (fetch and errorHandler).
ResultFitsAnswer ==
  \A r \in Requests :
    /\ result[r] = "response" => answer[r] = "ok"
    /\ result[r] \in {"HTTPError", "TimeoutError"} => answer[r] \in {"error", "deadline"}
    /\ result[r] = "AbortError" => signalOf[r] \in aborted /\ answer[r] = "none"

\* Aborting the caller's signal settles a request that is out, an error body
\* that is being read included.
AbortSettles ==
  \A r \in Requests :
    signalOf[r] \in aborted /\ stage[r] # "idle" ~> stage[r] \in Settled

\* Aborting the caller's signal ends the body of a response that fetch() has
\* already returned: pubsub and every streaming command cancel this way.
AbortEndsBody ==
  \A r \in Requests : signalOf[r] \in aborted ~> body[r] # "open"

\* The global timeout ends a request that takes longer (README.md, "To set a
\* global timeout for *all* requests pass a value for the `timeout` option").
GlobalTimeoutSettles ==
  \A r \in Requests : r \in overdue ~> stage[r] \in Settled
=============================================================================
