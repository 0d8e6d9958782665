------------------------------- MODULE AddAll -------------------------------
(***************************************************************************)
(* One call of addAll(): the caller's source of entries is streamed as a   *)
(* multipart body (lib/multipart-request.node.ts) while the daemon's       *)
(* results are read from the response (add-all.ts).  add(), dag.import,    *)
(* files.write and the other uploads run the same multipartRequest with a  *)
(* source of one entry or a response of no results.                        *)
(*                                                                         *)
(* The source may throw between two entries or in the content of one, the  *)
(* caller may abort its signal or stop iterating, the daemon may answer an *)
(* error, fail after it began to answer, or disappear.                     *)
(***************************************************************************)
EXTENDS Naturals, Sequences

CONSTANT MaxEntries   \* most entries of a source

ASSUME AddAllAssumption == MaxEntries \in Nat

VARIABLES
  source,    \* what the caller's iterable holds and whether it throws
  op,        \* the addAll generator
  peeked,    \* the peekable holds the first entry
  taken,     \* entries taken from the source
  files,     \* the streamFiles generator
  sent,      \* parts of the body the daemon has; Cut for one that breaks off
  complete,  \* the daemon has the closing boundary
  conn,      \* the connection
  head,      \* the head of the response
  results,   \* results the daemon wrote
  ending,    \* how the response body ended
  yielded,   \* results the caller got
  aborted,   \* the caller's signal is aborted
  combined,  \* anySignal([controller.signal, options.signal]) is aborted
  listening  \* the combined signal listens to its sources

upload   == <<peeked, taken, files, sent, complete>>
response == <<head, results, ending>>
signals  == <<aborted, combined, listening>>
vars     == <<source, op, upload, conn, response, yielded, signals>>

\* fails: never, when asked for the entry after the last, or in the middle of
\* the content of the last
Sources == {s \in [entries : 0..MaxEntries, fails : {"never", "next", "content"}] :
              s.entries = 0 => s.fails # "content"}
Cut     == MaxEntries + 1
Settled == {"done", "thrown", "stopped"}

\* The types of an upload's variables: no more results are yielded than came.
TypeOK ==
  /\ source \in Sources
  /\ op \in {"idle", "peeking", "posting", "waiting", "reading"} \cup Settled
  /\ peeked \in BOOLEAN
  /\ taken \in 0..MaxEntries
  /\ files \in {"none", "open", "closed", "failed"}
  /\ sent \in Seq(1..Cut)
  /\ complete \in BOOLEAN
  /\ conn \in {"none", "open", "dead"}
  /\ head \in {"none", "ok", "error"}
  /\ results \in 0..MaxEntries
  /\ ending \in {"open", "whole", "trailer", "lost"}
  /\ yielded \in 0..results
  /\ aborted \in BOOLEAN /\ combined \in BOOLEAN /\ listening \in BOOLEAN

Init ==
  /\ source \in Sources
  /\ op = "idle"
  /\ peeked = FALSE /\ taken = 0
  /\ files = "none" /\ sent = <<>> /\ complete = FALSE
  /\ conn = "none" /\ head = "none" /\ results = 0 /\ ending = "open"
  /\ yielded = 0
  /\ aborted = FALSE /\ combined = FALSE /\ listening = FALSE

-----------------------------------------------------------------------------
(* The caller's side of addAll.                                            *)

\* A connection that is given up.
Hangup == conn' = IF conn = "open" THEN "dead" ELSE conn

\* Mutant: the combined signal is only cleared when all went well.
SettleForgets(how) ==
  /\ op' = how
  /\ listening' = (listening /\ how # "done")
  /\ UNCHANGED <<aborted, combined>>

\* The generator ends in its finally block: the combined signal is cleared.
Settle(how) ==
  /\ op' = how
  /\ listening' = FALSE
  /\ UNCHANGED <<aborted, combined>>

\* The first next(): the signals are combined.
Start ==
  /\ op = "idle"
  /\ op' = "peeking"
  /\ combined' = aborted
  /\ listening' = ~aborted
  /\ UNCHANGED <<source, upload, conn, response, yielded, aborted>>

\* multipartRequest waits for the first entry and puts it back.
Peek ==
  /\ op = "peeking"
  /\ source.entries = 0 => source.fails = "never"
  /\ op' = "posting"
  /\ peeked' = (source.entries > 0)
  /\ taken' = IF source.entries > 0 THEN 1 ELSE 0
  /\ UNCHANGED <<source, files, sent, complete, conn, response, yielded, signals>>

\* The first entry is no good, or the source throws: nothing was sent yet.
PeekFails ==
  /\ op = "peeking"
  /\ source.entries = 0 /\ source.fails = "next"
  /\ Settle("thrown")
  /\ UNCHANGED <<source, upload, conn, response, yielded>>

\* client.post: native fetch starts, unless its signal is aborted already.
Post ==
  /\ op = "posting" /\ ~combined
  /\ op' = "waiting"
  /\ files' = "open"
  /\ conn' = "open"
  /\ UNCHANGED <<source, peeked, taken, sent, complete, response, yielded, signals>>

PostAborted ==
  /\ op = "posting" /\ combined
  /\ Settle("thrown")
  /\ UNCHANGED <<source, upload, conn, response, yielded>>

\* A caller aborts its signal; the connection goes at once, the generator
\* finds out later.
AbortSignal ==
  /\ ~aborted
  /\ aborted' = TRUE
  /\ combined' = (combined \/ listening)
  /\ IF listening THEN Hangup ELSE UNCHANGED conn
  /\ UNCHANGED <<source, op, upload, response, yielded, listening>>

FetchResolves ==
  /\ op = "waiting" /\ head = "ok"
  /\ op' = "reading"
  /\ UNCHANGED <<source, upload, conn, response, yielded, signals>>

FetchRejects ==
  /\ op = "waiting"
  /\ \/ head = "error"
     \/ head = "none" /\ (combined \/ ending = "lost")
  /\ Settle("thrown")
  /\ Hangup
  /\ UNCHANGED <<source, upload, response, yielded>>

\* Mutant: progress events are yielded as if they were results.
YieldProgress ==
  /\ op = "reading" /\ ending = "open"
  /\ yielded' = yielded + 1
  /\ UNCHANGED <<source, op, upload, conn, response, signals>>

YieldResult ==
  /\ op = "reading" /\ yielded < results
  /\ yielded' = yielded + 1
  /\ UNCHANGED <<source, op, upload, conn, response, signals>>

\* Mutant: a body that breaks off is taken for one that ends.
ReadEndsOnLoss ==
  /\ op = "reading" /\ yielded = results
  /\ ending # "open"
  /\ Settle("done")
  /\ UNCHANGED <<source, upload, conn, response, yielded>>

\* The response body is over: ndjson() is done, whatever a trailer says.
ReadEnds ==
  /\ op = "reading" /\ yielded = results
  /\ ending \in {"whole", "trailer"}
  /\ Settle("done")
  /\ UNCHANGED <<source, upload, conn, response, yielded>>

\* Mutant: the signal is not handed to client.post.
ReadIgnoresAbort ==
  /\ op = "reading"
  /\ ending = "lost"
  /\ Settle("thrown")
  /\ UNCHANGED <<source, upload, conn, response, yielded>>

\* The response body is errored, by an abort or with its connection; results
\* that were not read yet are gone with it.
ReadThrows ==
  /\ op = "reading"
  /\ combined \/ ending = "lost"
  /\ Settle("thrown")
  /\ UNCHANGED <<source, upload, conn, response, yielded>>

\* Mutant: the body is only unlocked, and the upload goes on.
ConsumerLeaves ==
  /\ op = "reading" /\ yielded > 0
  /\ Settle("stopped")
  /\ UNCHANGED <<source, upload, conn, response, yielded>>

\* The caller breaks out of its loop: the response body is cancelled.
ConsumerStops ==
  /\ op = "reading" /\ yielded > 0
  /\ Settle("stopped")
  /\ Hangup
  /\ UNCHANGED <<source, upload, response, yielded>>

-----------------------------------------------------------------------------
(* streamFiles, which runs as far as native fetch pulls the body.          *)

NextEntry == IF peeked THEN 1 ELSE taken + 1

\* The whole part of the next entry.
SendPart ==
  /\ conn = "open" /\ files = "open"
  /\ NextEntry <= source.entries
  /\ ~(NextEntry = source.entries /\ source.fails = "content")
  /\ sent' = Append(sent, NextEntry)
  /\ taken' = NextEntry
  /\ peeked' = FALSE
  /\ UNCHANGED <<source, op, files, complete, conn, response, yielded, signals>>

\* Mutant: the controller is not aborted.
SourceFailsQuietly ==
  /\ conn = "open" /\ files = "open"
  /\ \/ /\ NextEntry > source.entries /\ source.fails = "next"
        /\ UNCHANGED <<sent, taken, peeked>>
     \/ /\ NextEntry = source.entries /\ source.fails = "content"
        /\ sent' = Append(sent, Cut)
        /\ taken' = NextEntry
        /\ peeked' = FALSE
  /\ files' = "failed"
  /\ complete' = TRUE
  /\ UNCHANGED <<source, op, conn, response, yielded, signals>>

\* The source throws: the controller is aborted, which hangs up, and only then
\* the closing boundary is written.
SourceFails ==
  /\ conn = "open" /\ files = "open"
  /\ \/ /\ NextEntry > source.entries /\ source.fails = "next"
        /\ UNCHANGED <<sent, taken, peeked>>
     \/ /\ NextEntry = source.entries /\ source.fails = "content"
        /\ sent' = Append(sent, Cut)
        /\ taken' = NextEntry
        /\ peeked' = FALSE
  /\ files' = "failed"
  /\ combined' = (combined \/ listening)
  /\ IF listening THEN Hangup ELSE UNCHANGED conn
  /\ complete' = (conn' = "open")
  /\ UNCHANGED <<source, op, response, yielded, aborted, listening>>

\* All entries are written, and the closing boundary.
CloseBody ==
  /\ conn = "open" /\ files = "open"
  /\ NextEntry > source.entries /\ source.fails = "never"
  /\ files' = "closed"
  /\ complete' = TRUE
  /\ UNCHANGED <<source, op, peeked, taken, sent, conn, response, yielded, signals>>

-----------------------------------------------------------------------------
(* The daemon and the network.                                             *)

DaemonAnswers(status) ==
  /\ conn = "open" /\ head = "none"
  /\ head' = status
  /\ UNCHANGED <<source, op, upload, conn, results, ending, yielded, signals>>

\* A part that was added is reported.
DaemonWrites ==
  /\ conn = "open" /\ head = "ok"
  /\ results < Len(sent) /\ sent[results + 1] # Cut
  /\ results' = results + 1
  /\ UNCHANGED <<source, op, upload, conn, head, ending, yielded, signals>>

\* The body was taken as a whole and all its parts are reported.
DaemonEnds ==
  /\ conn = "open" /\ head = "ok"
  /\ complete /\ results = Len(sent)
  /\ ending' = "whole"
  /\ conn' = "dead"
  /\ UNCHANGED <<source, op, upload, head, results, yielded, signals>>

\* The daemon fails after it began to answer: the response ends properly, with
\* the error in a trailer (X-Stream-Error).
DaemonFails ==
  /\ conn = "open" /\ head = "ok"
  /\ ending' = "trailer"
  /\ conn' = "dead"
  /\ UNCHANGED <<source, op, upload, head, results, yielded, signals>>

ConnectionBreaks ==
  /\ conn = "open"
  /\ ending' = "lost"
  /\ conn' = "dead"
  /\ UNCHANGED <<source, op, upload, head, results, yielded, signals>>

-----------------------------------------------------------------------------

Client ==
  \/ Peek \/ PeekFails \/ Post \/ PostAborted
  \/ FetchResolves \/ FetchRejects \/ ReadEnds \/ ReadThrows
  \/ YieldResult

StreamFiles == SendPart \/ SourceFails \/ CloseBody

Network ==
  \/ \E status \in {"ok", "error"} : DaemonAnswers(status)
  \/ DaemonWrites \/ DaemonEnds \/ DaemonFails \/ ConnectionBreaks

Next == Start \/ AbortSignal \/ ConsumerStops \/ Client \/ StreamFiles \/ Network

\* The generators run when they can; nothing is assumed of the caller, whose
\* loop may be left, nor of the daemon.
Fairness == WF_vars(Client) /\ WF_vars(StreamFiles)

Spec == Init /\ [][Next]_vars /\ Fairness

-----------------------------------------------------------------------------

\* The daemon takes no upload for whole that is not: the closing boundary comes
\* after every part of a source that did not throw, in the order of the source,
\* none lost by the peek and none twice (multipart-request.node.ts, where the
\* closing boundary is written in a finally block, on errors too).
AcceptedIsWhole ==
  complete => /\ source.fails = "never"
              /\ sent = [i \in 1..source.entries |-> i]

\* An addAll that ends normally gave the caller a result for every entry of a
\* source that did not throw, unless the daemon put an error in a trailer.
DoneIsWhole ==
  op = "done" /\ ending # "trailer" => source.fails = "never" /\ yielded = source.entries

\* A settled addAll leaves nothing on the caller's signal, however it settled.
SignalReleased == op \in Settled => ~listening

\* An error of the source ends addAll with an error, unless the caller has left
\* its loop: it is never lost with the body it broke off.
SourceErrorThrows == (files = "failed") ~> (op \in {"thrown", "stopped"})
=============================================================================
