------------------------------- MODULE Commands -------------------------------
(***************************************************************************)
(* The life of one call of any command of the client: what it asks the     *)
(* daemon, how it reads the answer and how it ends.  The requests          *)
(* themselves are HttpFetch's and a streamed body is AddAll's; what is     *)
(* modelled here is what a command makes of them: which requests it sends, *)
(* in which order, again or not at all, and what its caller gets.          *)
(*                                                                         *)
(* The caller may abort its signal, leave the loop over the results, or    *)
(* hand in a source that throws; the daemon may refuse, answer nonsense,   *)
(* fail after it began to answer, or disappear.                            *)
(***************************************************************************)
EXTENDS CommandTable, SearchParams, Naturals, FiniteSets

CONSTANTS
  MaxItems,   \* most items of a source of requests
  MaxLines,   \* most lines of an answer
  Wordy       \* the kinds of arguments that can be the word null

ASSUME CommandsAssumption == MaxItems \in Nat /\ MaxLines \in Nat

VARIABLES
  cmd,        \* the command
  options,    \* its options
  words,      \* the arguments that are the word null
  source,     \* the items the caller's source holds, and whether it throws
  iterable,   \* the platform's response bodies are async iterables
  op,         \* the call
  format,     \* the option format of block.put
  asked,      \* items taken from the source
  sent,       \* the requests that went out
  conn,       \* the connection of the current request
  head,       \* the head of its response
  wrote,      \* the lines the daemon wrote
  upload,     \* the streamed body of the request
  ending,     \* how the response body ended
  taken,      \* lines the command has read
  due,        \* values of the last line that are not yielded yet
  gave,       \* values the caller got from this response
  aborted,    \* the caller's signal is aborted
  combined,   \* anySignal([controller.signal, options.signal]) is aborted
  listening   \* the combined signal listens to its sources

call     == <<cmd, options, words, source, iterable>>
request  == <<conn, upload>>
response == <<head, wrote, ending>>
reading  == <<taken, due, gave>>
signals  == <<aborted, combined, listening>>
vars     == <<call, op, format, asked, sent, request, response, reading, signals>>

Settled  == {"done", "thrown", "stopped", "swallowed"}
LineKinds == {"value", "batch", "other", "bad"}

\* The formats block.put tries for those that go-ipfs does not know.
Fallback == [f \in {"dag-pb", "dag-cbor"} |-> IF f = "dag-pb" THEN "protobuf" ELSE "cbor"]
Formats  == {"any"} \cup DOMAIN Fallback

\* A source of requests may throw when asked for the next item, the input of
\* an upload when it is looked at, a stream in the middle too.
Sources(c) ==
  CASE c.each = "many"   -> [items : 0..MaxItems, fails : {"never", "next"}]
    [] c.each = "one"    -> [items : {1}, fails : {"never"}]
    [] c.body = "stream" -> [items : {1}, fails : {"never", "next", "content"}]
    [] c.body = "bytes"  -> [items : {1}, fails : {"never", "next"}]
    [] OTHER             -> [items : {1}, fails : {"never"}]

\* The types of a call's variables: it has read no more lines than were written and
\* given no more values than those lines hold.
TypeOK ==
  /\ cmd \in KuboRPCClient
  /\ options \in OptionChoices
  /\ words \in SUBSET (1..Len(cmd.args))
  /\ source \in Sources(cmd)
  /\ iterable \in BOOLEAN
  /\ op \in {"idle", "pulling", "peeking", "posting", "waiting", "reading"} \cup Settled
  /\ format \in Formats \cup {Fallback[f] : f \in DOMAIN Fallback}
  /\ asked \in 0..source.items
  /\ \A i \in 1..Len(sent) : sent[i].item \in 0..source.items
  /\ conn \in {"none", "open", "dead"}
  /\ upload \in {"none", "open", "whole", "failed"}
  /\ head \in {"none", "ok", "error"}
  /\ wrote \in Seq(LineKinds)
  /\ ending \in {"open", "whole", "trailer", "lost"}
  /\ taken \in 0..Len(wrote)
  /\ due \in 0..2
  /\ gave + due \in 0..2 * taken
  /\ aborted \in BOOLEAN /\ combined \in BOOLEAN /\ listening \in BOOLEAN

NoRequest == conn = "none" /\ head = "none" /\ wrote = <<>> /\ ending = "open" /\ upload = "none"

Init ==
  /\ cmd \in KuboRPCClient
  /\ options \in OptionChoices
  /\ words \in SUBSET {i \in 1..Len(cmd.args) : cmd.args[i] \in Wordy}
  /\ source \in Sources(cmd)
  /\ iterable \in IF cmd.reads \in {"ndjson", "bytes"} THEN BOOLEAN ELSE {TRUE}
  /\ op = "idle"
  /\ format \in IF cmd.retries THEN Formats ELSE {"any"}
  /\ asked = 0 /\ sent = <<>>
  /\ NoRequest
  /\ taken = 0 /\ due = 0 /\ gave = 0
  /\ aborted = FALSE /\ combined = FALSE /\ listening = FALSE

-----------------------------------------------------------------------------
(* How a call ends.                                                        *)

Streams  == cmd.body # "none"
HasSignal == options.signal = "text"

\* The signal that native fetch was given is aborted.
Cut == IF Streams THEN combined ELSE aborted

\* A connection that is given up.
Hangup == conn' = IF conn = "open" THEN "dead" ELSE conn

\* fromStream: a loop over the body that is left cancels it, where bodies are
\* async iterables; elsewhere it only gives back the lock.
LeaveBody == IF iterable THEN Hangup ELSE UNCHANGED conn

\* The finally block of an upload clears its combined signal.
Settle(how) ==
  /\ op' = how
  /\ listening' = FALSE
  /\ UNCHANGED <<format, asked, combined, aborted>>

\* The call fails: block.put tries once more in the other format, whatever the
\* error was; isOnline returns false.
Fail ==
  \/ /\ cmd.retries /\ format \in DOMAIN Fallback
     /\ op' = "peeking"
     /\ format' = Fallback[format]
     /\ asked' = 0
     /\ combined' = aborted
     /\ listening' = (HasSignal /\ ~aborted)
     /\ UNCHANGED aborted
  \/ /\ ~(cmd.retries /\ format \in DOMAIN Fallback)
     /\ Settle(IF cmd.swallows THEN "swallowed" ELSE "thrown")

-----------------------------------------------------------------------------
(* The request.                                                            *)

Call ==
  /\ op = "idle"
  /\ op' = IF cmd.each # "none" THEN "pulling" ELSE IF Streams THEN "peeking" ELSE "posting"
  /\ combined' = (Streams /\ aborted)
  /\ listening' = (Streams /\ HasSignal /\ ~aborted)
  /\ UNCHANGED <<call, format, asked, sent, request, response, reading, aborted>>

\* An argument that the command checks itself.
CallRefused ==
  /\ op = "idle" /\ cmd.checks
  /\ Settle("thrown")
  /\ UNCHANGED <<call, sent, request, response, reading>>

\* multipartRequest looks at the first entry of the body.
Peek ==
  /\ op = "peeking" /\ source.fails # "next"
  /\ op' = "posting"
  /\ asked' = 1
  /\ UNCHANGED <<call, format, sent, request, response, reading, signals>>

PeekFails ==
  /\ op = "peeking" /\ source.fails = "next"
  /\ Fail
  /\ UNCHANGED <<call, sent, request, response, reading>>

\* The next item of a source of requests, and the end of the source.
Pull ==
  /\ op = "pulling" /\ asked < source.items
  /\ op' = "posting"
  /\ asked' = asked + 1
  /\ UNCHANGED <<call, format, sent, request, response, reading, signals>>

PullEnds ==
  /\ op = "pulling" /\ asked = source.items /\ source.fails = "never"
  /\ Settle(IF cmd.last /\ gave = 0 THEN "thrown" ELSE "done")
  /\ UNCHANGED <<call, sent, request, response, reading>>

PullFails ==
  /\ op = "pulling" /\ asked = source.items /\ source.fails = "next"
  /\ Settle("thrown")
  /\ UNCHANGED <<call, sent, request, response, reading>>

Passed == IF cmd.sends = "own" THEN [o \in Options |-> "undefined"] ELSE options

Query ==
  TransformSearchParams(ToUrlSearchParams(
    [i \in 1..Len(cmd.args) |-> IF i \in words THEN "null" ELSE cmd.args[i]],
    Merged(cmd.before, Passed, cmd.after)))

\* Mutant: the request is sent whatever became of the signal.
PostAnyway ==
  /\ op = "posting"
  /\ op' = "waiting"
  /\ sent' = Append(sent, [item |-> asked, format |-> format, query |-> Query])
  /\ conn' = "open"
  /\ upload' = IF cmd.body = "stream" THEN "open" ELSE "whole"
  /\ head' = "none" /\ wrote' = <<>> /\ ending' = "open"
  /\ taken' = 0 /\ due' = 0 /\ gave' = 0
  /\ UNCHANGED <<call, format, asked, signals>>

\* client.post.
Post ==
  /\ op = "posting" /\ ~Cut
  /\ op' = "waiting"
  /\ sent' = Append(sent, [item |-> asked, format |-> format, query |-> Query])
  /\ conn' = "open"
  /\ upload' = IF cmd.body = "stream" THEN "open" ELSE "whole"
  /\ head' = "none" /\ wrote' = <<>> /\ ending' = "open"
  /\ taken' = 0 /\ due' = 0 /\ gave' = 0
  /\ UNCHANGED <<call, format, asked, signals>>

PostAborted ==
  /\ op = "posting" /\ Cut
  /\ Fail
  /\ UNCHANGED <<call, sent, request, response, reading>>

\* The streamed body, as far as native fetch pulls it.
BodySent ==
  /\ conn = "open" /\ upload = "open" /\ source.fails # "content"
  /\ upload' = "whole"
  /\ UNCHANGED <<call, op, format, asked, sent, conn, response, reading, signals>>

\* The source throws: the controller is aborted.
BodyFails ==
  /\ conn = "open" /\ upload = "open" /\ source.fails = "content"
  /\ upload' = "failed"
  /\ combined' = TRUE
  /\ Hangup
  /\ UNCHANGED <<call, op, format, asked, sent, response, reading, aborted, listening>>

AbortSignal ==
  /\ HasSignal /\ ~aborted
  /\ aborted' = TRUE
  /\ combined' = (combined \/ listening)
  /\ IF ~Streams \/ listening THEN Hangup ELSE UNCHANGED conn
  /\ UNCHANGED <<call, op, format, asked, sent, upload, response, reading, listening>>

-----------------------------------------------------------------------------
(* The answer.                                                             *)

\* A command that does not read the answer is done with its head; the body
\* stays as it is.
FetchResolves ==
  /\ op = "waiting" /\ head = "ok"
  /\ IF cmd.reads = "unread"
     THEN Settle("done")
     ELSE op' = "reading" /\ UNCHANGED <<format, asked, signals>>
  /\ UNCHANGED <<call, sent, request, response, reading>>

FetchRejects ==
  /\ op = "waiting"
  /\ \/ head = "error"
     \/ head = "none" /\ (Cut \/ ending = "lost")
  /\ Fail
  /\ Hangup
  /\ UNCHANGED <<call, sent, upload, response, reading>>

AtOnce == cmd.reads \in {"json", "text", "buffer", "empty"}

\* pin.ls leaves its loop after a batch.
LoopLeft == cmd.return /\ taken > 0 /\ wrote[taken] = "batch"

\* The command awaits more of the body: all it read was given away.
Awaits == op = "reading" /\ due = 0 /\ ~LoopLeft

\* json(), text() and arrayBuffer() wait for the whole body.  JSON has to parse
\* and to have the fields the command maps; the mapping of block.put is outside
\* its try.
ReadWhole ==
  /\ Awaits /\ AtOnce /\ ending \in {"whole", "trailer"}
  /\ LET good == CASE cmd.reads = "json"  -> wrote = <<"value">>
                   [] cmd.reads = "empty" -> wrote = <<>>
                   [] OTHER               -> TRUE
     IN IF good THEN Settle("done")
        ELSE Fail \/ (cmd.retries /\ Settle("thrown"))
  /\ UNCHANGED <<call, sent, request, response, reading>>

\* A line, or a chunk of a body that is passed on: a batch is given one by one.
TakeLine ==
  /\ Awaits /\ ~AtOnce
  /\ taken < Len(wrote) /\ wrote[taken + 1] # "bad"
  /\ taken' = taken + 1
  /\ due' = CASE wrote[taken + 1] = "batch" -> 2
              [] wrote[taken + 1] = "value" -> 1
              [] wrote[taken + 1] = "other" -> 0
  /\ UNCHANGED <<call, op, format, asked, sent, request, response, gave, signals>>

\* Mutant: what is not a result is given as well.
YieldAny ==
  /\ op = "reading" /\ taken > 0
  /\ due' = IF due = 0 THEN 0 ELSE due - 1
  /\ gave' = gave + 1
  /\ UNCHANGED <<call, op, format, asked, sent, request, response, taken, signals>>

YieldValue ==
  /\ op = "reading" /\ due > 0
  /\ due' = due - 1
  /\ gave' = gave + 1
  /\ UNCHANGED <<call, op, format, asked, sent, request, response, taken, signals>>

\* Mutant: the body is left as it is.
TakeBadOnly ==
  /\ Awaits /\ ~AtOnce
  /\ taken < Len(wrote) /\ wrote[taken + 1] = "bad"
  /\ Fail
  /\ UNCHANGED <<call, sent, request, response, reading>>

\* A line that does not parse, or whose mapping throws: the loop is left.
TakeBad ==
  /\ Awaits /\ ~AtOnce
  /\ taken < Len(wrote) /\ wrote[taken + 1] = "bad"
  /\ Fail
  /\ LeaveBody
  /\ UNCHANGED <<call, sent, upload, response, reading>>

\* Mutant: a body that breaks off is taken for one that ends.
ReadEndsOnLoss ==
  /\ Awaits /\ ~AtOnce /\ taken = Len(wrote) /\ ending # "open"
  /\ IF cmd.each # "none"
     THEN op' = "pulling" /\ UNCHANGED <<format, asked, signals>>
     ELSE Settle(IF cmd.last /\ gave = 0 THEN "thrown" ELSE "done")
  /\ UNCHANGED <<call, sent, request, response, reading>>

\* The body is over: on to the next item.
ReadEnds ==
  /\ Awaits /\ ~AtOnce /\ taken = Len(wrote) /\ ending \in {"whole", "trailer"}
  /\ IF cmd.each # "none"
     THEN op' = "pulling" /\ UNCHANGED <<format, asked, signals>>
     ELSE Settle(IF cmd.last /\ gave = 0 THEN "thrown" ELSE "done")
  /\ UNCHANGED <<call, sent, request, response, reading>>

ReturnEarly ==
  /\ op = "reading" /\ due = 0 /\ LoopLeft
  /\ Settle("done")
  /\ LeaveBody
  /\ UNCHANGED <<call, sent, upload, response, reading>>

\* Mutant: native fetch was not given the signal.
ReadBreaksOnLoss ==
  /\ Awaits /\ ending = "lost"
  /\ Fail
  /\ Hangup
  /\ UNCHANGED <<call, sent, upload, response, reading>>

\* The body is errored; lines that were not read yet are gone with it.
ReadBreaks ==
  /\ Awaits /\ (Cut \/ ending = "lost")
  /\ Fail
  /\ Hangup
  /\ UNCHANGED <<call, sent, upload, response, reading>>

\* The caller breaks out of its loop, and so does the command.
ConsumerStops ==
  /\ op = "reading" /\ gave > 0 /\ ~cmd.last
  /\ Settle("stopped")
  /\ LeaveBody
  /\ UNCHANGED <<call, sent, upload, response, reading>>

-----------------------------------------------------------------------------
(* The daemon and the network.                                             *)

DaemonAnswers(status) ==
  /\ conn = "open" /\ head = "none"
  /\ head' = status
  /\ UNCHANGED <<call, op, format, asked, sent, request, wrote, ending, reading, signals>>

DaemonWrites(line) ==
  /\ conn = "open" /\ head = "ok"
  /\ Len(wrote) < IF AtOnce THEN 1 ELSE MaxLines
  /\ wrote' = Append(wrote, line)
  /\ UNCHANGED <<call, op, format, asked, sent, request, head, ending, reading, signals>>

\* A whole answer, to a whole body; or a failure in the middle, in a trailer.
DaemonEnds(how) ==
  /\ conn = "open" /\ head = "ok"
  /\ how = "whole" => upload = "whole"
  /\ ending' = how
  /\ conn' = "dead"
  /\ UNCHANGED <<call, op, format, asked, sent, upload, head, wrote, reading, signals>>

ConnectionBreaks ==
  /\ conn = "open"
  /\ ending' = "lost"
  /\ conn' = "dead"
  /\ UNCHANGED <<call, op, format, asked, sent, upload, head, wrote, reading, signals>>

-----------------------------------------------------------------------------

Client ==
  \/ Peek \/ PeekFails \/ Pull \/ PullEnds \/ PullFails \/ Post \/ PostAborted
  \/ FetchResolves \/ FetchRejects \/ ReadWhole
  \/ TakeLine \/ YieldValue \/ TakeBad \/ ReadEnds \/ ReturnEarly \/ ReadBreaks

Network ==
  \/ \E status \in {"ok", "error"} : DaemonAnswers(status)
  \/ \E line \in cmd.lines : DaemonWrites(line)
  \/ \E how \in {"whole", "trailer"} : DaemonEnds(how)
  \/ ConnectionBreaks

Next ==
  \/ Call \/ CallRefused \/ AbortSignal \/ ConsumerStops
  \/ Client \/ BodySent \/ BodyFails \/ Network

\* A call that can go on does: the promises it awaits are served, the sources
\* it reads answer and its results are taken.  Nothing is assumed of the daemon.
Spec == Init /\ [][Next]_vars /\ WF_vars(Client)

-----------------------------------------------------------------------------

\* A call that is over holds nothing: not the caller's signal, and not its
\* connection, unless it is one of those that never read their answer
\* (pin/remote/rm.ts and its like) or left the body of a browser that has no
\* async iterable streams (lib/http.ts, reader.releaseLock()).
Released ==
  op \in Settled => /\ ~listening
                    /\ conn = "open" => cmd.reads = "unread" \/ ~iterable

Count(line) == Cardinality({i \in 1..Len(wrote) : wrote[i] = line})

\* What a call that ends normally gave its caller is all of an answer to all
\* that was asked, of a source that did not throw, unless the daemon put an
\* error in a trailer.
DoneIsAnswered ==
  op = "done" =>
    /\ source.fails # "never" => ending = "trailer"
    /\ cmd.each # "none" => asked = source.items
    /\ sent = <<>> => source.items = 0
    /\ sent # <<>> =>
         /\ head = "ok"
         /\ \/ cmd.reads = "unread" \/ LoopLeft
            \/ ending \in {"whole", "trailer"} /\ (~AtOnce => gave = Count("value") + 2 * Count("batch"))

\* A command asks the daemon for nothing once its signal is aborted, and for
\* nothing twice: a retry of block.put is in another format and a pin request
\* for the next item of its source.
OnlyFreshRequests ==
  [][sent' # sent =>
       /\ ~aborted
       /\ \A i \in 1..Len(sent) :
            LET last == sent'[Len(sent')]
            IN /\ last.item >= sent[i].item
               /\ last.item = sent[i].item => last.format # sent[i].format]_vars

Given(o) == IF o = "timeout" THEN options[o] \in {"number", "duration"} ELSE options[o] = "text"

\* The daemon gets every option that has a value and every parameter that the
\* command adds or fixes, each under its own name, and nothing that stands for
\* no value.
ParametersFit(query) ==
  LET own   == cmd.after \cup {n \in cmd.before : n \in Options => Passed[n] = "undefined"}
      given == IF cmd.sends = "own" THEN {} ELSE {o \in Options : Given(o)}
  IN /\ {p[1] : p \in query.pairs} = UNION {WireNames(o) : o \in own \cup given}
     /\ \A p \in query.pairs : p[2] \in {"text", "duration"}

\* A query holds the arguments of the call and the parameters that stand for a value.
QueryFits ==
  \A i \in 1..Len(sent) : sent[i].query.arg = cmd.args /\ ParametersFit(sent[i].query)

\* The daemon gets as many arguments as the command was called with.
ArgumentsArrive == \A i \in 1..Len(sent) : Len(sent[i].query.arg) = Len(cmd.args)

\* Aborting the signal ends a call that has begun, wherever it is.
AbortSettles == (aborted /\ op # "idle") ~> (op \in Settled)
=============================================================================
