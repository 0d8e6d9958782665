---------------------------- MODULE UploadsProofs ----------------------------
(***************************************************************************)
(* Proofs about addAll: AddAll for sources of any length, BrowserUpload    *)
(* for forms of any files and any sequence of progress events.             *)
(***************************************************************************)
EXTENDS TransferRefinement, InductionProofs

Live == {"peeking", "posting", "waiting", "reading"}

\* An open connection belongs to an addAll that can still hang it up.
CanHangUp ==
  /\ op \in Live /\ ~combined => listening
  /\ conn = "open" => op \in {"waiting", "reading"} /\ ~combined /\ ending = "open"
  /\ op \in {"idle", "peeking", "posting"} =>
       conn = "none" /\ ending = "open" /\ files = "none"

\* The parts written so far are the first entries of the source, in order, and
\* the entry that was peeked at comes first.
InOrder ==
  /\ taken \in 0..source.entries
  /\ peeked => taken = 1 /\ sent = <<>>
  /\ ~peeked => Len(sent) = taken
  /\ files \in {"none", "open", "closed"} => \A i \in 1..Len(sent) : sent[i] = i
  /\ files = "none" => sent = <<>>
  /\ files = "closed" => source.fails = "never" /\ Len(sent) = source.entries
  /\ complete => files = "closed"

UploadInv == TypeOK /\ CanHangUp /\ InOrder

\* The two halves of TypeOK, which the provers take in turn.
FlagsOK ==
  /\ peeked \in BOOLEAN /\ complete \in BOOLEAN
  /\ aborted \in BOOLEAN /\ combined \in BOOLEAN /\ listening \in BOOLEAN
ValuesOK ==
  /\ source \in Sources
  /\ op \in {"idle", "peeking", "posting", "waiting", "reading"} \cup Settled
  /\ taken \in 0..MaxEntries
  /\ files \in {"none", "open", "closed", "failed"}
  /\ sent \in Seq(1..Cut)
  /\ conn \in {"none", "open", "dead"}
  /\ head \in {"none", "ok", "error"}
  /\ results \in 0..MaxEntries
  /\ ending \in {"open", "whole", "trailer", "lost"}
  /\ yielded \in 0..results

\* The halves are the whole.
LEMMA TypeHalves == TypeOK <=> FlagsOK /\ ValuesOK
BY DEF TypeOK, FlagsOK, ValuesOK

\* addAll begins with nothing sent.
LEMMA InitUpload == Init => UploadInv
<1> SUFFICES ASSUME Init PROVE UploadInv
  OBVIOUS
<1>1. source \in Sources /\ source.entries \in 0..MaxEntries /\ MaxEntries \in Nat
  BY AddAllAssumption DEF Init, Sources
<1>2. sent = <<>> /\ sent \in Seq(1..Cut) /\ Len(sent) = 0
  BY DEF Init
<1>3. TypeOK
  <2>1. FlagsOK
    BY Zenon DEF Init, FlagsOK
  <2>2. ValuesOK
    BY <1>1, <1>2 DEF Init, ValuesOK
  <2> QED
    BY <2>1, <2>2, TypeHalves
<1>4. CanHangUp
  BY DEF Init, CanHangUp, Live
<1>5. InOrder
  BY <1>1, <1>2 DEF Init, InOrder
<1> QED
  BY <1>3, <1>4, <1>5 DEF UploadInv

\* A step that leaves the upload alone leaves the order of its parts alone.
LEMMA OrderKept ==
  ASSUME InOrder, UNCHANGED <<source, upload>>
  PROVE  InOrder'
BY DEF InOrder, upload

\* What addAll, its caller, the daemon and the network do does not touch the
\* parts, and gives up the connection before the signals are cleared.
LEMMA OthersKeep ==
  ASSUME UploadInv,
         \/ Start \/ AbortSignal \/ ConsumerStops
         \/ PeekFails \/ PostAborted \/ FetchResolves \/ FetchRejects
         \/ YieldResult \/ ReadEnds \/ ReadThrows \/ Network
  PROVE  UploadInv'
<1> USE DEF UploadInv
<1>1. UNCHANGED <<source, upload>>
  BY DEF Start, AbortSignal, ConsumerStops, PeekFails, PostAborted, FetchResolves,
     FetchRejects, YieldResult, ReadEnds, ReadThrows, Network, DaemonAnswers,
     DaemonWrites, DaemonEnds, DaemonFails, ConnectionBreaks
<1>2. InOrder'
  BY <1>1, OrderKept
<1>3. CASE Start \/ AbortSignal \/ ConsumerStops
  <2>1. FlagsOK'
    BY <1>3, <1>1, TypeHalves, Zenon DEF FlagsOK, upload, signals, Start, AbortSignal, ConsumerStops, Settle
  <2>2. ValuesOK'
    BY <1>3, <1>1, TypeHalves DEF ValuesOK, upload, response, Settled, Start, AbortSignal, ConsumerStops, Settle, Hangup
  <2>3. CanHangUp'
    BY <1>3, <1>1 DEF TypeOK, CanHangUp, Live, Settled, upload, response, signals,
       Start, AbortSignal, ConsumerStops, Settle, Hangup
  <2> QED
    BY <1>2, <2>1, <2>2, <2>3 DEF TypeOK, FlagsOK, ValuesOK
<1>4. CASE PeekFails \/ PostAborted \/ FetchResolves \/ FetchRejects
  <2>1. FlagsOK'
    BY <1>4, <1>1, TypeHalves, Zenon DEF FlagsOK, upload, signals, PeekFails, PostAborted, FetchResolves, FetchRejects, Settle
  <2>2. ValuesOK'
    BY <1>4, <1>1, TypeHalves DEF ValuesOK, upload, response, Settled, PeekFails, PostAborted, FetchResolves, FetchRejects, Settle, Hangup
  <2>3. CanHangUp'
    BY <1>4, <1>1 DEF TypeOK, CanHangUp, Live, Settled, upload, response, signals,
       PeekFails, PostAborted, FetchResolves, FetchRejects, Settle, Hangup
  <2> QED
    BY <1>2, <2>1, <2>2, <2>3 DEF TypeOK, FlagsOK, ValuesOK
<1>5. CASE YieldResult \/ ReadEnds \/ ReadThrows
  <2>1. FlagsOK'
    BY <1>5, <1>1, TypeHalves, Zenon DEF FlagsOK, upload, signals, YieldResult, ReadEnds, ReadThrows, Settle
  <2>2. ValuesOK'
    BY <1>5, <1>1, TypeHalves DEF ValuesOK, upload, response, Settled, YieldResult, ReadEnds, ReadThrows, Settle, Hangup
  <2>3. CanHangUp'
    BY <1>5, <1>1 DEF TypeOK, CanHangUp, Live, Settled, upload, response, signals,
       YieldResult, ReadEnds, ReadThrows, Settle, Hangup
  <2> QED
    BY <1>2, <2>1, <2>2, <2>3 DEF TypeOK, FlagsOK, ValuesOK
<1>6. CASE Network
  <2>1. CASE \E status \in {"ok", "error"} : DaemonAnswers(status)
    BY <1>1, <1>2, <2>1 DEF TypeOK, CanHangUp, Live, upload, signals, DaemonAnswers
  <2>2. CASE DaemonWrites
    <3>1. peeked = FALSE /\ Len(sent) = taken
      BY <2>2 DEF DaemonWrites, InOrder, TypeOK
    <3>2. results' \in 0..MaxEntries /\ yielded' \in 0..results'
      BY <2>2, <3>1, AddAllAssumption DEF DaemonWrites, TypeOK
    <3> QED
      BY <1>1, <1>2, <2>2, <3>2 DEF TypeOK, CanHangUp, Live, upload, signals, DaemonWrites
  <2>3. CASE DaemonEnds \/ DaemonFails \/ ConnectionBreaks
    BY <1>1, <1>2, <2>3 DEF TypeOK, CanHangUp, Live, upload, signals,
       DaemonEnds, DaemonFails, ConnectionBreaks
  <2> QED
    BY <1>6, <2>1, <2>2, <2>3 DEF Network
<1> QED
  BY <1>3, <1>4, <1>5, <1>6

\* The peek and the start of the request keep the order of the entries.
LEMMA PeekKeeps ==
  ASSUME UploadInv, Peek \/ Post
  PROVE  UploadInv'
<1> USE DEF UploadInv
<1>1. CASE Peek
  BY <1>1, AddAllAssumption DEF Peek, TypeOK, CanHangUp, InOrder, Live, Settled, response, signals,
     Sources
<1>2. CASE Post
  BY <1>2 DEF Post, TypeOK, CanHangUp, InOrder, Live, Settled, response, signals, Sources
<1> QED
  BY <1>1, <1>2

\* streamFiles appends the next entry, or breaks off without a closing boundary
\* that anybody could read.
LEMMA StreamKeeps ==
  ASSUME UploadInv, StreamFiles
  PROVE  UploadInv'
<1> USE DEF UploadInv
<1>1. /\ source \in Sources /\ source.entries \in 0..MaxEntries
      /\ sent \in Seq(1..Cut) /\ MaxEntries \in Nat /\ Cut = MaxEntries + 1
  BY AddAllAssumption DEF TypeOK, Sources, Cut
<1>2. conn = "open" => listening /\ op \in {"waiting", "reading"}
  BY DEF CanHangUp, Live
<1>3. CASE SendPart
  <2>1. NextEntry = Len(sent) + 1 /\ NextEntry \in 1..source.entries /\ files = "open"
    BY <1>1, <1>3 DEF SendPart, NextEntry, InOrder, TypeOK
  <2>2. sent' = Append(sent, NextEntry) /\ taken' = NextEntry /\ peeked' = FALSE
    BY <1>3 DEF SendPart
  <2>3. /\ sent' \in Seq(1..Cut) /\ Len(sent') = Len(sent) + 1
        /\ \A i \in 1..Len(sent) : sent'[i] = sent[i]
        /\ sent'[Len(sent) + 1] = NextEntry
    BY <1>1, <2>1, <2>2
  <2>4. InOrder'
    BY <1>1, <1>3, <2>1, <2>2, <2>3 DEF InOrder, SendPart
  <2>5. FlagsOK'
    BY <1>3, <2>2, TypeHalves, Zenon DEF SendPart, FlagsOK, signals
  <2>6. ValuesOK'
    BY <1>1, <1>3, <2>1, <2>2, <2>3, TypeHalves DEF SendPart, ValuesOK, response
  <2>7. CanHangUp'
    BY <1>3 DEF SendPart, CanHangUp, response, signals
  <2> QED
    BY <2>4, <2>5, <2>6, <2>7 DEF TypeOK, FlagsOK, ValuesOK
<1>4. CASE SourceFails
  <2>1. conn' = "dead" /\ complete' = FALSE /\ files' = "failed" /\ combined' = TRUE
    BY <1>2, <1>4 DEF SourceFails, Hangup, TypeOK
  <2>2. /\ taken' \in 0..source.entries /\ sent' \in Seq(1..Cut)
        /\ peeked' => taken' = 1 /\ sent' = <<>>
        /\ ~peeked' => Len(sent') = taken'
        /\ peeked' \in BOOLEAN
    <3>1. CASE UNCHANGED <<sent, taken, peeked>>
      BY <1>1, <3>1 DEF InOrder, TypeOK
    <3>2. CASE /\ NextEntry = source.entries
               /\ sent' = Append(sent, Cut) /\ taken' = NextEntry /\ peeked' = FALSE
      <4>1. NextEntry = Len(sent) + 1 /\ NextEntry \in 0..source.entries
        BY <1>1, <3>2 DEF NextEntry, InOrder, TypeOK
      <4>2. Cut \in 1..Cut /\ sent' \in Seq(1..Cut) /\ Len(sent') = Len(sent) + 1
        BY <1>1, <3>2
      <4> QED
        BY <3>2, <4>1, <4>2
    <3> QED
      BY <1>4, <3>1, <3>2 DEF SourceFails
  <2> QED
    BY <1>1, <1>2, <1>4, <2>1, <2>2
       DEF SourceFails, TypeOK, CanHangUp, InOrder, Live, response
<1>5. CASE CloseBody
  <2>1. ~peeked /\ Len(sent) = source.entries
    BY <1>1, <1>5 DEF CloseBody, NextEntry, InOrder, TypeOK
  <2> QED
    BY <1>1, <1>5, <2>1 DEF CloseBody, TypeOK, CanHangUp, InOrder, response, signals
<1> QED
  BY <1>3, <1>4, <1>5 DEF StreamFiles

\* The strengthened invariant of an upload: a body that is broken off is broken
\* off because its connection can always be hung up while it is open.
LEMMA UploadInvariant == Spec => []UploadInv
<1>1. UploadInv /\ UNCHANGED vars => UploadInv'
  BY DEF UploadInv, TypeOK, CanHangUp, InOrder, vars, upload, response, signals
<1>2. UploadInv /\ [Next]_vars => UploadInv'
  BY <1>1, OthersKeep, PeekKeeps, StreamKeeps DEF Next, Client
<1> QED
  BY InitUpload, <1>2, PTL DEF Spec

\* The daemon never takes a broken, shortened or reordered upload for whole.
THEOREM AcceptedCorrect == Spec => []AcceptedIsWhole
<1>1. UploadInv => AcceptedIsWhole
  <2> SUFFICES ASSUME UploadInv, complete
               PROVE  source.fails = "never" /\ sent = [i \in 1..source.entries |-> i]
    BY DEF AcceptedIsWhole
  <2>1. /\ source.fails = "never" /\ sent \in Seq(1..Cut)
        /\ Len(sent) = source.entries /\ \A i \in 1..Len(sent) : sent[i] = i
    BY DEF UploadInv, InOrder, TypeOK
  <2> QED
    BY <2>1
<1> QED
  BY <1>1, UploadInvariant, PTL

\* Type correctness of every variable of an upload.
THEOREM TypeCorrect == Spec => []TypeOK
<1>1. UploadInv => TypeOK
  BY DEF UploadInv
<1> QED
  BY <1>1, UploadInvariant, PTL
-----------------------------------------------------------------------------

\* What the daemon ended whole it had whole, and an addAll that is done has read
\* to the end of its body.
EndsWhole ==
  /\ ending = "whole" => complete /\ results = Len(sent)
  /\ op = "done" => ending \in {"whole", "trailer"} /\ yielded = results

\* Once the body is over neither parts nor results are added, and addAll gives no
\* result after its end.
LEMMA NextKeepsEnd ==
  ASSUME UploadInv, EndsWhole, [Next]_vars
  PROVE  EndsWhole'
<1> USE DEF EndsWhole, Settled
<1>1. conn = "open" => ending = "open" /\ op \in {"waiting", "reading"}
  BY DEF UploadInv, CanHangUp
<1>2. CASE Start \/ AbortSignal \/ ConsumerStops
  BY <1>2 DEF Start, AbortSignal, ConsumerStops, Settle, upload, response
<1>3. CASE PeekFails \/ PostAborted \/ FetchResolves \/ FetchRejects
  BY <1>3 DEF PeekFails, PostAborted, FetchResolves, FetchRejects, Settle, upload, response
<1>4. CASE YieldResult \/ ReadEnds \/ ReadThrows
  BY <1>4 DEF YieldResult, ReadEnds, ReadThrows, Settle, upload, response
<1>5. CASE Peek \/ Post
  BY <1>5 DEF Peek, Post, response
<1>6. CASE StreamFiles
  BY <1>1, <1>6 DEF StreamFiles, SendPart, SourceFails, CloseBody, response
<1>7. CASE Network
  BY <1>1, <1>7 DEF Network, DaemonAnswers, DaemonWrites, DaemonEnds, DaemonFails,
     ConnectionBreaks, upload
<1>8. CASE UNCHANGED vars
  BY <1>8 DEF vars, upload, response
<1> QED
  BY <1>2, <1>3, <1>4, <1>5, <1>6, <1>7, <1>8 DEF Next, Client

\* An addAll that ends normally has given a result for every entry of its source,
\* unless the daemon said otherwise in a trailer.
THEOREM DoneCorrect == Spec => []DoneIsWhole
<1>1. Init => EndsWhole
  BY DEF Init, EndsWhole
<1>2. UploadInv /\ EndsWhole /\ [Next]_vars => EndsWhole'
  BY NextKeepsEnd
<1>3. UploadInv /\ EndsWhole => DoneIsWhole
  BY DEF UploadInv, InOrder, EndsWhole, DoneIsWhole
<1> QED
  BY <1>1, <1>2, <1>3, UploadInvariant, PTL DEF Spec

\* However addAll ends, it leaves nothing on the caller's signal.
THEOREM SignalCorrect == Spec => []SignalReleased
<1>1. Init => SignalReleased
  BY DEF Init, SignalReleased
<1>2. SignalReleased /\ [Next]_vars => SignalReleased'
  <2> SUFFICES ASSUME SignalReleased, [Next]_vars PROVE SignalReleased'
    OBVIOUS
  <2> USE DEF SignalReleased, Settled
  <2>1. CASE Start \/ AbortSignal \/ ConsumerStops
    BY <2>1 DEF Start, AbortSignal, ConsumerStops, Settle
  <2>2. CASE Client
    BY <2>2 DEF Client, Peek, PeekFails, Post, PostAborted, FetchResolves, FetchRejects,
       ReadEnds, ReadThrows, YieldResult, Settle, signals
  <2>3. CASE StreamFiles \/ Network
    BY <2>3 DEF StreamFiles, SendPart, SourceFails, CloseBody, Network, DaemonAnswers,
       DaemonWrites, DaemonEnds, DaemonFails, ConnectionBreaks, signals
  <2>4. CASE UNCHANGED vars
    BY <2>4 DEF vars, signals
  <2> QED
    BY <2>1, <2>2, <2>3, <2>4 DEF Next
<1> QED
  BY <1>1, <1>2, PTL DEF Spec

-----------------------------------------------------------------------------
(* AddAll implements Transfer.                                             *)

\* Whatever addAll gives up for has a reason that its caller, its daemon or its
\* source can be asked about, and no result is ahead of its entry.
Reasons ==
  /\ op \in Live /\ aborted => combined
  /\ combined => aborted \/ files = "failed"
  /\ files = "failed" =>
       source.fails # "never" /\ receivedBar = Promise!Whole /\ conn = "dead"
  /\ results <= receivedBar
  /\ op = "reading" => head = "ok"
  /\ ending = "trailer" => head = "ok"

\* Before the source fails all that is written is whole.
LEMMA ReceivedAll ==
  ASSUME UploadInv, files # "failed"
  PROVE  receivedBar = Len(sent) /\ receivedBar \in Nat
<1>1. /\ sent \in Seq(1..Cut) /\ Len(sent) \in Nat /\ MaxEntries \in Nat
      /\ source.entries \in 0..MaxEntries
  BY AddAllAssumption DEF UploadInv, TypeOK, Sources
<1>2. Len(sent) <= source.entries /\ \A i \in 1..Len(sent) : sent[i] = i
  BY <1>1 DEF UploadInv, InOrder, TypeOK
<1>3. sent # <<>> => sent[Len(sent)] # Cut
  BY <1>1, <1>2 DEF Cut
<1> QED
  BY <1>1, <1>3 DEF receivedBar

\* While the connection is open the call runs, and nothing has happened to it.
LEMMA OpenIsConnected ==
  ASSUME UploadInv, Reasons, conn = "open"
  PROVE  /\ op \in {"waiting", "reading"} /\ ending = "open" /\ ~combined /\ listening
         /\ Promise!Connected
         /\ files # "failed"
         /\ receivedBar = Len(sent) /\ receivedBar \in Nat
<1>1. op \in {"waiting", "reading"} /\ ~combined /\ ending = "open" /\ listening
  BY DEF UploadInv, CanHangUp, Live
<1>2. ~aborted /\ files # "failed"
  BY <1>1 DEF Reasons, Live
<1>3. outcomeBar = "running" /\ troubleBar \in {"none", "refused"}
  BY <1>1 DEF outcomeBar, troubleBar
<1> QED
  BY <1>1, <1>2, <1>3, ReceivedAll DEF Promise!Connected

\* A part is one more entry for the daemon, and one of the good ones.
LEMMA SendPartReceives ==
  ASSUME UploadInv, SendPart
  PROVE  receivedBar' = receivedBar + 1 /\ receivedBar < Promise!Whole
<1>1. /\ sent \in Seq(1..Cut) /\ Len(sent) \in Nat /\ Cut = MaxEntries + 1 /\ MaxEntries \in Nat
      /\ source.entries \in 0..MaxEntries /\ files = "open"
  BY AddAllAssumption DEF UploadInv, TypeOK, Sources, Cut, SendPart
<1>2. NextEntry = Len(sent) + 1 /\ NextEntry \in 1..source.entries
  BY <1>1 DEF SendPart, NextEntry, UploadInv, InOrder, TypeOK
<1>3. receivedBar = Len(sent)
  BY <1>1, ReceivedAll
<1>4. receivedBar' = Len(sent) + 1
  <2> DEFINE len == Len(sent')
  <2>1. sent' # <<>> /\ len = Len(sent) + 1 /\ sent'[len] = NextEntry
    BY <1>1, <1>2 DEF SendPart
  <2>2. NextEntry # Cut
    BY <1>1, <1>2
  <2>3. receivedBar' = len
    BY <2>1, <2>2 DEF receivedBar
  <2> QED
    BY <2>1, <2>3
<1>5. Len(sent) < Promise!Whole
  BY <1>1, <1>2 DEF SendPart, Promise!Whole
<1> QED
  BY <1>3, <1>4, <1>5

\* The source has given all its good entries when it fails, and no other.
LEMMA SourceFailsWhole ==
  ASSUME UploadInv, Reasons, SourceFails
  PROVE  /\ source.fails # "never" /\ receivedBar' = Promise!Whole'
         /\ receivedBar' = receivedBar
         /\ conn' = "dead" /\ ~complete /\ complete' = FALSE
         /\ files' = "failed" /\ combined' = TRUE
         /\ UNCHANGED <<source, op, response, yielded, aborted, listening>>
<1>1. /\ conn = "open" /\ files = "open"
      /\ UNCHANGED <<source, op, response, yielded, aborted, listening>>
      /\ files' = "failed"
  BY DEF SourceFails
<1>2. listening /\ receivedBar = Len(sent) /\ receivedBar \in Nat
  BY <1>1, OpenIsConnected
<1>3. conn' = "dead" /\ complete' = FALSE /\ combined' = TRUE /\ ~complete
  BY <1>1, <1>2 DEF SourceFails, Hangup, UploadInv, TypeOK, InOrder
<1>4. /\ source.entries \in Nat /\ Len(sent) \in Nat /\ taken \in 0..source.entries
      /\ sent \in Seq(1..Cut) /\ MaxEntries \in Nat /\ Cut = MaxEntries + 1
  BY <1>2, AddAllAssumption DEF UploadInv, InOrder, TypeOK, Sources, Cut
<1>5. NextEntry = Len(sent) + 1
  <2>1. peeked \in BOOLEAN
    BY DEF UploadInv, TypeOK
  <2>2. CASE peeked
    BY <2>2 DEF UploadInv, InOrder, NextEntry
  <2>3. CASE ~peeked
    BY <2>3 DEF UploadInv, InOrder, NextEntry
  <2> QED
    BY <2>1, <2>2, <2>3
<1>6. CASE /\ NextEntry > source.entries /\ source.fails = "next"
           /\ UNCHANGED <<sent, taken, peeked>>
  <2>1. receivedBar' = receivedBar
    BY <1>6 DEF receivedBar
  <2>2. Len(sent) = source.entries
    <3>1. Len(sent) <= source.entries
      BY <1>4 DEF UploadInv, InOrder
    <3> QED
      BY <1>4, <1>5, <1>6, <3>1
  <2>3. Promise!Whole' = source.entries
    BY <1>1, <1>6 DEF Promise!Whole
  <2> QED
    BY <1>1, <1>2, <1>3, <1>6, <2>1, <2>2, <2>3
<1>7. CASE /\ NextEntry = source.entries /\ source.fails = "content"
           /\ sent' = Append(sent, Cut)
  <2>1. sent' # <<>> /\ Len(sent') = Len(sent) + 1 /\ sent'[Len(sent')] = Cut
    BY <1>4, <1>7
  <2>2. receivedBar' = Len(sent)
    <3> DEFINE len == Len(sent')
    <3>1. len = Len(sent) + 1 /\ sent'[len] = Cut /\ sent' # <<>>
      BY <2>1
    <3>2. receivedBar' = len - 1
      BY <3>1 DEF receivedBar
    <3> QED
      BY <1>4, <3>1, <3>2
  <2>3. Promise!Whole' = source.entries - 1
    BY <1>1, <1>7 DEF Promise!Whole
  <2> QED
    BY <1>1, <1>2, <1>3, <1>4, <1>5, <1>7, <2>2, <2>3
<1> QED
  BY <1>6, <1>7 DEF SourceFails

\* Every step of addAll keeps its reasons.
LEMMA NextKeepsReasons ==
  ASSUME UploadInv, Reasons, [Next]_vars
  PROVE  Reasons'
<1> USE DEF Settled
<1>1. ASSUME UNCHANGED <<source, sent>>
      PROVE  receivedBar' = receivedBar /\ Promise!Whole' = Promise!Whole
  BY <1>1 DEF receivedBar, Promise!Whole
<1>2. op \in Live /\ ~combined => listening
  BY DEF UploadInv, CanHangUp
<1>3. CASE Start \/ AbortSignal \/ ConsumerStops
  <2>1. receivedBar' = receivedBar /\ Promise!Whole' = Promise!Whole
    BY <1>1, <1>3 DEF Start, AbortSignal, ConsumerStops, upload
  <2>2. CASE Start
    BY <2>1, <2>2 DEF Start, upload, response, Reasons, Live
  <2>3. CASE AbortSignal
    <3>1. aborted' /\ UNCHANGED <<source, op, files, head, results, ending>>
      BY <2>3 DEF AbortSignal, upload, response
    <3>2. op' \in Live => combined'
      BY <1>2, <2>3, <3>1, Zenon DEF AbortSignal
    <3>3. conn = "dead" => conn' = "dead"
      BY <2>3 DEF AbortSignal, Hangup
    <3> QED
      BY <2>1, <3>1, <3>2, <3>3 DEF Reasons
  <2>4. CASE ConsumerStops
    BY <2>1, <2>4 DEF ConsumerStops, Settle, Hangup, upload, response, Reasons, Live
  <2> QED
    BY <1>3, <2>2, <2>3, <2>4
<1>4. CASE PeekFails \/ PostAborted \/ FetchResolves \/ FetchRejects
  BY <1>1, <1>4 DEF PeekFails, PostAborted, FetchResolves, FetchRejects, Settle, Hangup,
     upload, response, signals, Reasons, Live
<1>5. CASE YieldResult \/ ReadEnds \/ ReadThrows
  BY <1>1, <1>5 DEF YieldResult, ReadEnds, ReadThrows, Settle, upload, response, signals,
     Reasons, Live
<1>6. CASE Peek \/ Post
  <2>1. files = "none"
    BY <1>6 DEF Peek, Post, UploadInv, CanHangUp
  <2> QED
    BY <1>1, <1>6, <2>1 DEF Peek, Post, response, signals, Reasons, Live
<1>7. CASE SendPart
  <2>1. conn = "open" /\ files = "open" /\ files' = "open"
    BY <1>7 DEF SendPart
  <2>2. receivedBar = Len(sent) /\ receivedBar \in Nat
    BY <2>1, ReceivedAll
  <2>3. receivedBar' = receivedBar + 1
    BY <1>7, SendPartReceives
  <2>4. results <= receivedBar'
    BY <2>2, <2>3 DEF Reasons, UploadInv, TypeOK
  <2> QED
    BY <1>7, <2>1, <2>4 DEF SendPart, response, signals, Reasons
<1>8. CASE SourceFails
  BY <1>8, SourceFailsWhole DEF response, Reasons
<1>9. CASE CloseBody
  BY <1>1, <1>9 DEF CloseBody, response, signals, Reasons
<1>10. CASE DaemonAnswers("ok") \/ DaemonAnswers("error")
  <2>1. op # "reading" \/ head # "none"
    BY DEF Reasons
  <2> QED
    BY <1>1, <1>10, <2>1, OpenIsConnected DEF DaemonAnswers, upload, signals, Reasons
<1>11. CASE DaemonWrites
  <2>1. receivedBar = Len(sent) /\ receivedBar \in Nat /\ results < Len(sent) /\ results \in Nat
    BY <1>11, OpenIsConnected DEF DaemonWrites, UploadInv, TypeOK
  <2>2. receivedBar' = receivedBar /\ results' = results + 1
    BY <1>1, <1>11 DEF DaemonWrites, upload
  <2>3. results' <= receivedBar'
    BY <2>1, <2>2
  <2> QED
    BY <1>1, <1>11, <2>3 DEF DaemonWrites, upload, signals, Reasons
<1>12. CASE DaemonEnds \/ DaemonFails \/ ConnectionBreaks
  BY <1>1, <1>12 DEF DaemonEnds, DaemonFails, ConnectionBreaks, upload, signals, Reasons
<1>13. CASE UNCHANGED vars
  BY <1>1, <1>13 DEF vars, upload, response, signals, Reasons
<1> QED
  BY <1>3, <1>4, <1>5, <1>6, <1>7, <1>8, <1>9, <1>10, <1>11, <1>12, <1>13
     DEF Next, Client, StreamFiles, Network

-----------------------------------------------------------------------------
(* Step by step.                                                           *)

ReasonedInv == UploadInv /\ EndsWhole /\ Reasons

\* What the caller does is seen as it is; only its break ends the call at once.
LEMMA CallerRefines ==
  ASSUME ReasonedInv, Start \/ AbortSignal \/ ConsumerStops
  PROVE  [Promise!Next]_Promise!transferVars
<1>1. /\ UNCHANGED <<source, receivedBar, complete, yielded, troubleBar>>
  BY DEF Start, AbortSignal, ConsumerStops, upload, response, receivedBar, troubleBar
<1>2. CASE Start
  <2>1. outcomeBar = "idle" /\ outcomeBar' = "running" /\ UNCHANGED aborted
    BY <1>2 DEF Start, outcomeBar
  <2> QED
    BY <1>1, <2>1 DEF Promise!Begin, Promise!Next
<1>3. CASE AbortSignal
  <2>1. ~aborted /\ aborted' = TRUE /\ UNCHANGED outcomeBar
    BY <1>3 DEF AbortSignal, outcomeBar
  <2> QED
    BY <1>1, <2>1 DEF Promise!Abort, Promise!Next
<1>4. CASE ConsumerStops
  <2>1. /\ outcomeBar = "running" /\ outcomeBar' = "stopped" /\ UNCHANGED aborted
        /\ yielded > 0
    BY <1>4 DEF ConsumerStops, Settle, outcomeBar
  <2>2. Promise!End("stopped")
    BY <1>1, <2>1 DEF Promise!End, Promise!MayEnd
  <2> QED
    BY <2>2 DEF Promise!Next, Promise!Ends
<1> QED
  BY <1>2, <1>3, <1>4

\* The steps of the generator before its end are its own business, but for the
\* results that it gives.
LEMMA WorkRefines ==
  ASSUME ReasonedInv, Peek \/ Post \/ FetchResolves \/ YieldResult
  PROVE  [Promise!Next]_Promise!transferVars
<1>1. UNCHANGED <<source, outcomeBar, aborted, receivedBar, complete, troubleBar>>
  BY DEF Peek, Post, FetchResolves, YieldResult, upload, response, signals,
     outcomeBar, receivedBar, troubleBar
<1>2. CASE Peek \/ Post \/ FetchResolves
  BY <1>1, <1>2 DEF Peek, Post, FetchResolves, Promise!transferVars
<1>3. CASE YieldResult
  <2>1. op = "reading" /\ head = "ok" /\ yielded < results /\ yielded' = yielded + 1
    BY <1>3 DEF YieldResult, ReasonedInv, Reasons
  <2>2. outcomeBar = "running" /\ troubleBar # "refused"
    BY <2>1 DEF outcomeBar, troubleBar
  <2>3. yielded < receivedBar
    <3>1. sent \in Seq(1..Cut) /\ Len(sent) \in Nat /\ results \in Nat /\ yielded \in Nat
      BY AddAllAssumption DEF ReasonedInv, UploadInv, TypeOK
    <3>2. receivedBar \in Int /\ results <= receivedBar
      BY <3>1 DEF receivedBar, ReasonedInv, Reasons
    <3> QED
      BY <2>1, <3>1, <3>2
  <2> QED
    BY <1>1, <2>1, <2>2, <2>3 DEF Promise!Give, Promise!Next
<1> QED
  BY <1>2, <1>3

\* addAll throws for a reason.
LEMMA ThrowRefines ==
  ASSUME ReasonedInv, PeekFails \/ PostAborted \/ FetchRejects \/ ReadThrows
  PROVE  [Promise!Next]_Promise!transferVars
<1>1. /\ op \in Live /\ op' = "thrown"
      /\ UNCHANGED <<source, upload, response, yielded, aborted>>
  BY DEF PeekFails, PostAborted, FetchRejects, ReadThrows, Settle, Live
<1>2. /\ outcomeBar = "running" /\ outcomeBar' = "thrown"
      /\ UNCHANGED <<source, aborted, receivedBar, complete, yielded, troubleBar>>
  BY <1>1 DEF upload, response, outcomeBar, receivedBar, troubleBar, Live
<1>3. \/ aborted
      \/ troubleBar \in {"refused", "lost"}
      \/ source.fails # "never" /\ receivedBar = Promise!Whole
  <2>1. CASE PeekFails
    <3>1. sent = <<>>
      BY <2>1 DEF PeekFails, ReasonedInv, UploadInv, CanHangUp, InOrder
    <3> QED
      BY <2>1, <3>1 DEF PeekFails, receivedBar, Promise!Whole
  <2>2. CASE combined
    BY <2>2 DEF ReasonedInv, Reasons
  <2>3. CASE ending = "lost"
    BY <2>3 DEF troubleBar
  <2>4. CASE FetchRejects /\ head = "error"
    BY <2>4 DEF troubleBar, ReasonedInv, Reasons
  <2> QED
    BY <2>1, <2>2, <2>3, <2>4 DEF PostAborted, FetchRejects, ReadThrows
<1>4. Promise!End("thrown")
  BY <1>2, <1>3 DEF Promise!End, Promise!MayEnd
<1> QED
  BY <1>4 DEF Promise!Next, Promise!Ends

\* addAll is done when the daemon took the whole source and the caller has its
\* results, or when the daemon said in a trailer that it failed.
LEMMA DoneRefines ==
  ASSUME ReasonedInv, ReadEnds
  PROVE  [Promise!Next]_Promise!transferVars
<1>1. /\ op = "reading" /\ op' = "done" /\ yielded = results
      /\ ending \in {"whole", "trailer"}
      /\ UNCHANGED <<source, upload, response, yielded, aborted>>
  BY DEF ReadEnds, Settle
<1>2. /\ outcomeBar = "running" /\ outcomeBar' = "done"
      /\ UNCHANGED <<source, aborted, receivedBar, complete, yielded, troubleBar>>
  BY <1>1 DEF upload, response, outcomeBar, receivedBar, troubleBar
<1>3. CASE ending = "whole"
  <2>1. complete /\ yielded = Len(sent) /\ Len(sent) = source.entries
    BY <1>1, <1>3 DEF ReasonedInv, EndsWhole, UploadInv, InOrder
  <2>2. Promise!End("done")
    BY <1>2, <2>1 DEF Promise!End, Promise!MayEnd
  <2> QED
    BY <2>2 DEF Promise!Next, Promise!Ends
<1>4. CASE ending = "trailer"
  <2>1. Promise!End("done")
    BY <1>2, <1>4 DEF Promise!End, Promise!MayEnd, troubleBar
  <2> QED
    BY <2>1 DEF Promise!Next, Promise!Ends
<1> QED
  BY <1>1, <1>3, <1>4

\* A part is an entry, the closing boundary says that it was the last; a source
\* that fails says nothing to the daemon.
LEMMA StreamRefines ==
  ASSUME ReasonedInv, StreamFiles
  PROVE  [Promise!Next]_Promise!transferVars
<1> USE DEF ReasonedInv
<1>1. conn = "open" /\ files = "open"
  BY DEF StreamFiles, SendPart, SourceFails, CloseBody
<1>2. Promise!Connected /\ receivedBar = Len(sent) /\ ~complete
  BY <1>1, OpenIsConnected DEF UploadInv, InOrder
<1>3. UNCHANGED <<source, outcomeBar, aborted, yielded, troubleBar>>
  BY DEF StreamFiles, SendPart, SourceFails, CloseBody, response, signals, outcomeBar, troubleBar
<1>4. CASE SendPart
  <2>1. UNCHANGED complete
    BY <1>4 DEF SendPart
  <2>2. receivedBar' = receivedBar + 1 /\ receivedBar < Promise!Whole
    BY <1>4, SendPartReceives
  <2> QED
    BY <1>2, <1>3, <2>1, <2>2 DEF Promise!Receive, Promise!Next
<1>5. CASE SourceFails
  <2>1. receivedBar' = receivedBar /\ complete' = complete
    BY <1>2, <1>5, SourceFailsWhole DEF UploadInv, TypeOK
  <2> QED
    BY <1>3, <2>1 DEF Promise!transferVars
<1>6. CASE CloseBody
  <2>1. complete' = TRUE /\ UNCHANGED receivedBar /\ source.fails = "never"
    BY <1>6 DEF CloseBody, receivedBar
  <2>2. receivedBar = source.entries
    <3>1. /\ source.entries \in Nat /\ taken \in Nat /\ taken <= source.entries
          /\ NextEntry > source.entries /\ peeked \in BOOLEAN
      BY <1>6, AddAllAssumption DEF CloseBody, UploadInv, TypeOK, InOrder, Sources
    <3>2. CASE peeked
      BY <3>1, <3>2 DEF NextEntry, UploadInv, InOrder
    <3>3. CASE ~peeked
      BY <1>2, <3>1, <3>3 DEF NextEntry, UploadInv, InOrder
    <3> QED
      BY <3>1, <3>2, <3>3
  <2> QED
    BY <1>2, <1>3, <2>1, <2>2 DEF Promise!Accept, Promise!Next
<1> QED
  BY <1>4, <1>5, <1>6 DEF StreamFiles

\* An error of the daemon or the network is seen at once, its answers only when
\* the caller has them.
LEMMA NetworkRefines ==
  ASSUME ReasonedInv, Network
  PROVE  [Promise!Next]_Promise!transferVars
<1> USE DEF ReasonedInv
<1>1. conn = "open"
  BY DEF Network, DaemonAnswers, DaemonWrites, DaemonEnds, DaemonFails, ConnectionBreaks
<1>2. Promise!Connected /\ ending = "open"
  BY <1>1, OpenIsConnected
<1>3. UNCHANGED <<source, outcomeBar, aborted, receivedBar, complete, yielded>>
  BY DEF Network, DaemonAnswers, DaemonWrites, DaemonEnds, DaemonFails, ConnectionBreaks,
     upload, signals, outcomeBar, receivedBar
<1>4. ASSUME NEW how \in {"refused", "trailer", "lost"},
             how \in {"refused", "trailer"} => troubleBar = "none", troubleBar' = how
      PROVE  Promise!Next
  <2>1. Promise!Fail(how)
    BY <1>2, <1>3, <1>4 DEF Promise!Fail
  <2> QED
    BY <2>1 DEF Promise!Next
<1>5. CASE DaemonAnswers("ok") \/ DaemonWrites \/ DaemonEnds
  BY <1>2, <1>3, <1>5 DEF DaemonAnswers, DaemonWrites, DaemonEnds, troubleBar,
     Promise!transferVars
<1>6. CASE DaemonAnswers("error")
  <2>1. troubleBar = "none" /\ troubleBar' = "refused"
    BY <1>2, <1>6 DEF DaemonAnswers, troubleBar
  <2> QED
    BY <1>4, <2>1
<1>7. CASE DaemonFails
  <2>1. troubleBar = "none" /\ troubleBar' = "trailer"
    BY <1>2, <1>7 DEF DaemonFails, troubleBar
  <2> QED
    BY <1>4, <2>1
<1>8. CASE ConnectionBreaks
  <2>1. troubleBar' = "lost"
    BY <1>8 DEF ConnectionBreaks, troubleBar
  <2> QED
    BY <1>4, <2>1
<1> QED
  BY <1>5, <1>6, <1>7, <1>8 DEF Network

\* What Transfer promises without fairness holds of addAll: no entry goes out
\* once the call is over or aborted, an upload that broke off is not taken for
\* whole, no result is given before its entry, and nothing is thrown without a
\* reason.
THEOREM TransferImplemented ==
  Spec => Promise!Init /\ [][Promise!Next]_Promise!transferVars
<1>1. Init => Promise!Init
  BY AddAllAssumption DEF Init, Sources, Promise!Init, outcomeBar, receivedBar, troubleBar
<1>2. Init => EndsWhole
  BY DEF Init, EndsWhole
<1>3. Init => Reasons
  BY DEF Init, Reasons, Live, receivedBar
<1>4. UploadInv /\ EndsWhole /\ [Next]_vars => EndsWhole'
  BY NextKeepsEnd
<1>5. UploadInv /\ Reasons /\ [Next]_vars => Reasons'
  BY NextKeepsReasons
<1>6. UploadInv /\ EndsWhole /\ Reasons /\ [Next]_vars
        => [Promise!Next]_Promise!transferVars
  <2> SUFFICES ASSUME ReasonedInv, [Next]_vars
               PROVE  [Promise!Next]_Promise!transferVars
    BY DEF ReasonedInv
  <2>1. CASE UNCHANGED vars
    BY <2>1 DEF vars, upload, response, signals, outcomeBar, receivedBar, troubleBar,
       Promise!transferVars
  <2> QED
    BY <2>1, CallerRefines, WorkRefines, ThrowRefines, DoneRefines, StreamRefines,
       NetworkRefines DEF Next, Client
<1> QED
  BY <1>1, <1>2, <1>3, <1>4, <1>5, <1>6, UploadInvariant, PTL DEF Spec

-----------------------------------------------------------------------------
(* The parts of a form.                                                    *)

Part == [name : Nat, start : Nat, end : Nat]

\* Where the next part begins.
EndOf(ps) == IF ps = <<>> THEN 0 ELSE ps[Len(ps)].end

\* The parts lie one after the other.
Chain(ps) ==
  /\ ps \in Seq(Part)
  /\ ps # <<>> => ps[1].start = 0
  /\ \A i \in 1..Len(ps) : ps[i].start <= ps[i].end
  /\ \A i \in 1..Len(ps) - 1 : ps[i + 1].start = ps[i].end
  /\ \A i, j \in 1..Len(ps) : i <= j => ps[i].end <= ps[j].end

\* A part that begins where the others end.
LEMMA ChainGrows ==
  ASSUME NEW ps, Chain(ps), NEW k \in Nat, NEW size \in Nat,
         NEW part, part = [name |-> k, start |-> EndOf(ps), end |-> EndOf(ps) + size]
  PROVE  Chain(Append(ps, part))
<1>1. /\ ps \in Seq(Part) /\ Len(ps) \in Nat /\ (ps # <<>> => Len(ps) \in 1..Len(ps))
      /\ \A i \in 1..Len(ps) : ps[i] \in Part
  BY EmptySeq, LenProperties DEF Chain
<1>2. EndOf(ps) \in Nat /\ \A i \in 1..Len(ps) : ps[i].end <= EndOf(ps)
  BY <1>1 DEF EndOf, Part, Chain
<1>3. part \in Part /\ part.start = EndOf(ps) /\ part.end \in Nat /\ EndOf(ps) <= part.end
  BY <1>2 DEF Part
<1> DEFINE more == Append(ps, part)
           n == Len(ps) + 1
<1>4. /\ more \in Seq(Part) /\ Len(more) = n
      /\ \A i \in 1..Len(ps) : more[i] = ps[i]
      /\ more[n] = part
  BY <1>1, <1>3, AppendProperties
<1>5. n \in Nat /\ \A i \in 1..n : i \in 1..Len(ps) \/ i = n
  BY <1>1
<1>6. ps = <<>> => n = 1 /\ EndOf(ps) = 0
  BY EmptySeq DEF EndOf
<1>7. ps # <<>> => EndOf(ps) = ps[Len(ps)].end /\ 1 \in 1..Len(ps)
  BY <1>1 DEF EndOf
<1> HIDE DEF more, n
<1>8. more[1].start = 0
  BY <1>3, <1>4, <1>6, <1>7 DEF Chain
<1>9. \A i \in 1..n : more[i].start <= more[i].end
  BY <1>2, <1>3, <1>4, <1>5 DEF Chain
<1>10. ASSUME NEW i \in 1..n - 1 PROVE more[i + 1].start = more[i].end
  <2>1. i \in 1..Len(ps)
    BY <1>1 DEF n
  <2>2. CASE i = Len(ps)
    BY <1>3, <1>4, <1>7, <2>1, <2>2, EmptySeq DEF n
  <2>3. CASE i # Len(ps)
    <3>1. i \in 1..Len(ps) - 1 /\ i + 1 \in 1..Len(ps)
      BY <1>1, <2>1, <2>3
    <3> QED
      BY <1>4, <2>1, <3>1 DEF Chain
  <2> QED
    BY <2>2, <2>3
<1>11. ASSUME NEW i \in 1..n, NEW j \in 1..n, i <= j PROVE more[i].end <= more[j].end
  <2>1. CASE j = n
    <3>1. more[j].end = part.end
      BY <1>4, <2>1
    <3>2. CASE i = n
      BY <1>3, <2>1, <3>2, <3>1
    <3>3. CASE i \in 1..Len(ps)
      <4>1. more[i].end = ps[i].end /\ ps[i].end \in Nat /\ ps[i].end <= EndOf(ps)
        BY <1>1, <1>2, <1>4, <3>3 DEF Part
      <4> QED
        BY <1>2, <1>3, <3>1, <4>1
    <3> QED
      BY <1>5, <3>2, <3>3
  <2>2. CASE j # n
    <3>1. i \in 1..Len(ps) /\ j \in 1..Len(ps)
      BY <1>1, <1>11, <2>2 DEF n
    <3> QED
      BY <1>4, <1>11, <3>1 DEF Chain
  <2> QED
    BY <2>1, <2>2
<1> QED
  BY <1>4, <1>8, <1>9, <1>10, <1>11 DEF Chain, more

\* The form of any source has such parts.
LEMMA PartsAreChain ==
  ASSUME form.sizes \in Seq(Nat)
  PROVE  Chain(PartsOf(Len(form.sizes)))
<1> DEFINE n == Len(form.sizes)
           Parts == Seq(Part)
           AfterEntry(ps, i) ==
             IF form.sizes[i] = Directory THEN ps
             ELSE LET start == IF ps = <<>> THEN 0 ELSE ps[Len(ps)].end
                  IN Append(ps, [name |-> i, start |-> start, end |-> start + form.sizes[i]])
           G == [i \in 1..n |-> [ps \in Parts |-> AfterEntry(ps, i)]]
           At(ps, i) == IF i = 0 THEN <<>> ELSE AfterEntry(ps[i - 1], i)
           Is(ps) == ps = [i \in 0..n |-> At(ps, i)]
           chosen == CHOOSE ps : Is(ps)
<1>1. n \in Nat /\ \A i \in 1..n : form.sizes[i] \in Nat
  BY LenProperties
<1>0. n \in Nat
  BY <1>1
<1>2. ASSUME NEW i \in 1..n, NEW ps
      PROVE  AfterEntry(ps, i) = IF form.sizes[i] = Directory THEN ps
                                 ELSE Append(ps, [name |-> i, start |-> EndOf(ps),
                                                  end |-> EndOf(ps) + form.sizes[i]])
  BY DEF EndOf
<1>3. PartsOf(n) = chosen[n]
  BY DEF PartsOf
<1>4. <<>> \in Parts
  BY EmptySeq
<1> HIDE DEF n, AfterEntry
<1>5. ASSUME NEW i \in 1..n, NEW ps \in Parts PROVE AfterEntry(ps, i) \in Parts
  <2>1. EndOf(ps) \in Nat
    <3>1. ps # <<>> => ps[Len(ps)] \in Part
      BY EmptySeq, LenProperties
    <3> QED
      BY <3>1 DEF EndOf, Part
  <2> DEFINE part == [name |-> i, start |-> EndOf(ps), end |-> EndOf(ps) + form.sizes[i]]
  <2>2. part \in Part
    BY <1>1, <2>1 DEF Part
  <2> HIDE DEF part
  <2>3. Append(ps, part) \in Parts
    BY <2>2, AppendProperties
  <2> QED
    BY <1>2, <2>3 DEF part
<1> HIDE DEF Parts
<1>6. G \in [1..n -> [Parts -> Parts]]
  BY <1>5
<1>7. PICK f \in [0..n -> Parts] : f[0] = <<>> /\ \A i \in 1..n : f[i] = G[i][f[i - 1]]
  <2> HIDE DEF G
  <2>1. \E f \in [0..n -> Parts] : Recurs(f, <<>>, n, G)
    BY <1>0, <1>4, <1>6, Recursion
  <2> QED
    BY <2>1 DEF Recurs
<1>8. Is(f)
  <2>1. ASSUME NEW i \in 0..n PROVE f[i] = At(f, i)
    <3>1. i # 0 => i - 1 \in 0..n /\ f[i - 1] \in Parts /\ i \in 1..n
      BY <1>0, <1>7
    <3> QED
      BY <1>7, <3>1
  <2> HIDE DEF At
  <2> QED
    BY <1>7, <2>1
<1>9. Is(chosen)
  BY <1>8
<1> HIDE DEF chosen
<1>10. \A i \in 0..n : chosen[i] = At(chosen, i)
  <2> HIDE DEF At
  <2> QED
    BY <1>9
<1>11. chosen[0] = <<>> /\ \A i \in 1..n : chosen[i] = AfterEntry(chosen[i - 1], i)
  BY <1>0, <1>10
<1> DEFINE In == {i \in Nat : i <= n => Chain(chosen[i])}
<1>12. 0 \in In
  <2>1. Chain(<<>>)
    <3>1. <<>> \in Seq(Part) /\ Len(<<>>) = 0
      BY EmptySeq
    <3> QED
      BY <3>1 DEF Chain
  <2> QED
    BY <1>11, <2>1
<1>13. ASSUME NEW i \in Nat, i \in In PROVE i + 1 \in In
  <2> SUFFICES ASSUME i + 1 <= n PROVE Chain(chosen[i + 1])
    OBVIOUS
  <2> DEFINE j == i + 1
             ps == chosen[i]
             part == [name |-> j, start |-> EndOf(ps), end |-> EndOf(ps) + form.sizes[j]]
  <2>1. Chain(ps) /\ j \in 1..n /\ j \in Nat /\ j - 1 = i
    BY <1>0, <1>13
  <2>2. form.sizes[j] \in Nat
    BY <1>1, <2>1
  <2>3. chosen[j] = AfterEntry(ps, j)
    BY <1>11, <2>1
  <2> HIDE DEF j, ps
  <2>4. Chain(Append(ps, part))
    <3>1. \E new : new = part
      OBVIOUS
    <3> HIDE DEF part
    <3> QED
      BY <2>1, <2>2, ChainGrows DEF part
  <2>5. chosen[j] = IF form.sizes[j] = Directory THEN ps ELSE Append(ps, part)
    BY <1>2, <2>1, <2>3
  <2>6. Chain(chosen[j])
    BY <2>1, <2>4, <2>5
  <2> QED
    BY <2>6 DEF j
<1> HIDE DEF In
<1>14. n \in In
  BY <1>0, <1>12, <1>13, SetInduction
<1> QED
  BY <1>0, <1>3, <1>14 DEF In, n

-----------------------------------------------------------------------------
(* Positions in a form.                                                    *)

\* Products grow with their factors.
LEMMA Products ==
  ASSUME NEW a \in Nat, NEW b \in Nat, NEW t \in Nat, a <= b
  PROVE  a * t \in Nat /\ a * t <= b * t
BY Z3

\* So do quotients.
LEMMA Quotients ==
  ASSUME NEW x \in Nat, NEW y \in Nat, NEW d \in Nat \ {0}
  PROVE  /\ x \div d \in Nat /\ (x \div d) * d <= x
         /\ x <= y => x \div d <= y \div d
         /\ (d * x) \div d = x
OBVIOUS

\* The share of t that a of d bytes are: no more than t, all of it in the end,
\* and never less when more bytes are sent.
LEMMA Shares ==
  ASSUME NEW a \in Nat, NEW b \in Nat, NEW t \in Nat, NEW d \in Nat \ {0}, a <= b, b <= d
  PROVE  /\ (a * t) \div d \in Nat /\ (a * t) \div d <= (b * t) \div d
         /\ (b * t) \div d \in Nat /\ (b * t) \div d <= t
         /\ ((a * t) \div d) * d <= a * t
         /\ (d * t) \div d = t
<1>1. a * t \in Nat /\ b * t \in Nat /\ d * t \in Nat /\ a * t <= b * t /\ b * t <= d * t
  BY Products
<1> DEFINE at == a * t
           bt == b * t
           dt == d * t
<1>2. at \in Nat /\ bt \in Nat /\ dt \in Nat /\ at <= bt /\ bt <= dt
  BY <1>1
<1> HIDE DEF at, bt, dt
<1>3. /\ at \div d \in Nat /\ at \div d <= bt \div d /\ (at \div d) * d <= at
      /\ bt \div d \in Nat /\ bt \div d <= dt \div d
  BY <1>2, Quotients
<1>4. dt \div d = t
  BY Quotients DEF dt
<1> QED
  BY <1>3, <1>4 DEF at, bt, dt

\* The position in a form, of bytes sent and of more bytes.
LEMMA Positions ==
  ASSUME total \in Nat, computable \in BOOLEAN, NEW a \in 0..BodySize, NEW b \in 0..BodySize, a <= b
  PROVE  /\ BodySize \in Nat \ {0}
         /\ Position(a) \in Nat /\ Position(a) <= Position(b) /\ Position(b) <= total
         /\ computable => Position(a) * BodySize <= a * total
         /\ ~computable => Position(a) = total
         /\ Position(BodySize) = total
<1>1. BodySize \in Nat \ {0}
  BY BrowserUploadAssumption DEF BodySize
<1>2. a \in Nat /\ b \in Nat /\ b <= BodySize
  BY <1>1
<1> HIDE DEF BodySize
<1> QED
  BY <1>1, <1>2, Shares DEF Position

\* The part that a position is in: the first that ends after it, from the one
\* in progress on.
InProgress(n, position) ==
  /\ n \in index..Len(partsList) + 1
  /\ \A i \in index..n - 1 : partsList[i].end <= position
  /\ n <= Len(partsList) => partsList[n].end > position

\* Report finds it.
LEMMA ReportsOf ==
  ASSUME Chain(partsList), index \in 1..Len(partsList) + 1, NEW position \in Nat, Report(position)
  PROVE  \E n : /\ InProgress(n, position) /\ index' = n
                /\ reports' = reports \o [i \in 1..n - index |->
                                [bytes |-> Size(index + i - 1), part |-> index + i - 1]] \o
                     IF n > Len(partsList) THEN <<>>
                     ELSE <<[bytes |-> position - partsList[n].start, part |-> n]>>
<1> DEFINE last == Len(partsList)
           S == {i \in index..last + 1 : i <= last => partsList[i].end > position}
<1>1. last \in Nat /\ index \in Nat /\ \A i \in 1..last : partsList[i].end \in Nat
  <2>1. last \in Nat /\ \A i \in 1..last : partsList[i] \in Part
    BY LenProperties DEF Chain
  <2>2. \A part \in Part : part.end \in Nat
    BY DEF Part
  <2> QED
    BY <2>1, <2>2
<1> HIDE DEF last
<1>2. last + 1 \in S /\ S \subseteq Nat
  BY <1>1 DEF last
<1>3. PICK n \in S : \A i \in S : n <= i
  <2> HIDE DEF S
  <2> QED
    BY <1>2, LeastExists
<1>4. InProgress(n, position)
  <2>1. ASSUME NEW i \in index..n - 1 PROVE partsList[i].end <= position
    <3>1. i \notin S /\ i \in index..last + 1 /\ i \in 1..last
      BY <1>1, <1>3 DEF last
    <3> QED
      BY <1>1, <3>1
  <2> QED
    BY <1>3, <2>1 DEF InProgress, last
<1>5. \A i : i \in Passed(position) <=> i \in index..n - 1
  <2>1. ASSUME NEW i \in Passed(position) PROVE i \in index..n - 1
    <3>1. i \in index..last /\ \A j \in index..i : partsList[j].end <= position
      BY <2>1 DEF Passed, last
    <3>2. n \in index..last + 1 /\ (n <= last => partsList[n].end > position)
      BY <1>3
    <3>3. CASE n <= i
      <4>1. n \in index..i /\ n \in 1..last
        BY <1>1, <3>1, <3>2, <3>3 DEF last
      <4> QED
        BY <1>1, <3>1, <3>2, <4>1
    <3> QED
      BY <1>1, <3>1, <3>2, <3>3
  <2>2. ASSUME NEW i \in index..n - 1 PROVE i \in Passed(position)
    <3>1. i \in index..last /\ \A j \in index..i : j \in index..n - 1
      BY <1>1, <1>3, <2>2
    <3> QED
      BY <1>4, <3>1 DEF InProgress, Passed, last
  <2> QED
    BY <2>1, <2>2
<1> DEFINE next == IF Passed(position) = {} THEN index
                   ELSE 1 + (CHOOSE i \in Passed(position) : \A j \in Passed(position) : j <= i)
<1>6. next = n
  <2>1. CASE n = index
    <3>1. Passed(position) = {}
      BY <1>1, <1>5, <2>1
    <3> QED
      BY <2>1, <3>1
  <2>2. CASE n # index
    <3>1. n - 1 \in index..n - 1 /\ n \in Nat
      BY <1>1, <1>3, <2>2
    <3>2. n - 1 \in Passed(position) /\ \A j \in Passed(position) : j \in Nat /\ j <= n - 1
      BY <1>1, <1>5, <3>1
    <3> DEFINE m == CHOOSE i \in Passed(position) : \A j \in Passed(position) : j <= i
    <3>3. m \in Passed(position) /\ \A j \in Passed(position) : j <= m
      BY <3>2
    <3> HIDE DEF m
    <3>4. m = n - 1
      BY <3>1, <3>2, <3>3
    <3>5. Passed(position) # {} /\ 1 + m = n
      BY <3>1, <3>2, <3>4
    <3> QED
      BY <3>5 DEF m
  <2> QED
    BY <2>1, <2>2
<1>7. /\ index' = next
      /\ reports' = reports \o [i \in 1..next - index |->
                      [bytes |-> Size(index + i - 1), part |-> index + i - 1]] \o
           IF next > Len(partsList) THEN <<>>
           ELSE <<[bytes |-> position - partsList[next].start, part |-> next]>>
  BY DEF Report, Size
<1> HIDE DEF next
<1> QED
  BY <1>4, <1>6, <1>7

-----------------------------------------------------------------------------
(* What the progress function is told.                                     *)

Told == [bytes : Nat, part : Nat]

\* A report of a part says no more than was sent and no more than there is.
Honest(report, sentTo) ==
  /\ report.part \in 1..Len(partsList)
  /\ report.bytes \in 0..Size(report.part)
  /\ partsList[report.part].start + report.bytes <= sentTo

\* After one of a part comes one of the same, or of the next when it is done.
Follows(one, other) ==
  \/ one.part = other.part /\ one.bytes <= other.bytes
  \/ other.part = one.part + 1 /\ one.bytes = Size(one.part)

Steady(s, sentTo) ==
  /\ s \in Seq(Told)
  /\ \A i \in 1..Len(s) : Honest(s[i], sentTo)
  /\ \A i \in 1..Len(s) - 1 : Follows(s[i], s[i + 1])

\* Reports after reports: what is known of st, that is s and then t.
Joins(s, t, st, sentTo) ==
  /\ Steady(st, sentTo)
  /\ Len(st) = Len(s) + Len(t) /\ Len(s) \in Nat /\ Len(t) \in Nat
  /\ s # <<>> => st[1] = s[1]
  /\ s = <<>> => st = t
  /\ t = <<>> => st = s
  /\ t # <<>> => st[Len(s) + Len(t)] = t[Len(t)]

LEMMA Joined ==
  ASSUME NEW sentTo, NEW s, NEW t, Steady(s, sentTo), Steady(t, sentTo),
         s # <<>> /\ t # <<>> => Follows(s[Len(s)], t[1])
  PROVE  Joins(s, t, s \o t, sentTo)
<1>1. /\ s \in Seq(Told) /\ t \in Seq(Told) /\ Len(s) \in Nat /\ Len(t) \in Nat
      /\ (s = <<>> <=> Len(s) = 0) /\ (t = <<>> <=> Len(t) = 0)
  BY EmptySeq, LenProperties DEF Steady
<1> DEFINE st == s \o t
<1>2. /\ st \in Seq(Told) /\ Len(st) = Len(s) + Len(t)
      /\ \A i \in 1..Len(s) + Len(t) : st[i] = IF i <= Len(s) THEN s[i] ELSE t[i - Len(s)]
  BY <1>1, ConcatProperties
<1>3. (s = <<>> => st = t) /\ (t = <<>> => st = s)
  BY <1>1, ConcatEmptySeq
<1> HIDE DEF st
<1>4. /\ \A i \in 1..Len(s) : st[i] = s[i]
      /\ \A i \in 1..Len(t) : st[Len(s) + i] = t[i]
  <2>1. ASSUME NEW i \in 1..Len(s) PROVE st[i] = s[i]
    BY <1>1, <1>2
  <2>2. ASSUME NEW i \in 1..Len(t) PROVE st[Len(s) + i] = t[i]
    <3> DEFINE j == Len(s) + i
    <3>1. j \in 1..Len(s) + Len(t) /\ ~(j <= Len(s)) /\ j - Len(s) = i
      BY <1>1
    <3> HIDE DEF j
    <3>2. st[j] = t[i]
      BY <1>2, <3>1
    <3> QED
      BY <3>2 DEF j
  <2> QED
    BY <2>1, <2>2
<1>5. ASSUME NEW i \in 1..Len(st) PROVE Honest(st[i], sentTo)
  <2>1. i \in 1..Len(s) \/ (i - Len(s) \in 1..Len(t) /\ i = Len(s) + (i - Len(s)))
    BY <1>1, <1>2
  <2> QED
    BY <1>4, <2>1 DEF Steady
<1>6. ASSUME NEW i \in 1..Len(st) - 1 PROVE Follows(st[i], st[i + 1])
  <2>1. CASE i \in 1..Len(s) - 1
    <3>1. i \in 1..Len(s) /\ i + 1 \in 1..Len(s)
      BY <1>1, <2>1
    <3> QED
      BY <1>4, <2>1, <3>1 DEF Steady
  <2>2. CASE i = Len(s)
    <3>1. Len(s) \in 1..Len(s) /\ 1 \in 1..Len(t) /\ Len(s) # 0 /\ Len(t) # 0
      BY <1>1, <1>2, <2>2
    <3>2. st[i] = s[Len(s)] /\ st[i + 1] = t[1]
      BY <1>4, <2>2, <3>1
    <3> QED
      BY <1>1, <3>1, <3>2
  <2>3. CASE i > Len(s)
    <3> DEFINE j == i - Len(s)
    <3>1. /\ j \in 1..Len(t) - 1 /\ j \in 1..Len(t) /\ j + 1 \in 1..Len(t)
          /\ i = Len(s) + j /\ i + 1 = Len(s) + (j + 1)
      BY <1>1, <1>2, <2>3
    <3> HIDE DEF j
    <3>2. st[i] = t[j] /\ st[i + 1] = t[j + 1]
      BY <1>4, <3>1
    <3> QED
      BY <3>1, <3>2 DEF Steady
  <2> QED
    BY <1>1, <1>2, <2>1, <2>2, <2>3
<1>7. s # <<>> => st[1] = s[1]
  <2>1. s # <<>> => 1 \in 1..Len(s)
    BY <1>1
  <2> QED
    BY <1>4, <2>1
<1>8. t # <<>> => st[Len(s) + Len(t)] = t[Len(t)]
  <2>1. t # <<>> => Len(t) \in 1..Len(t)
    BY <1>1
  <2> QED
    BY <1>4, <2>1
<1> QED
  BY <1>1, <1>2, <1>3, <1>5, <1>6, <1>7, <1>8 DEF Joins, Steady, st

\* The last reports of the parts that were passed.
LEMMA EndsAreSteady ==
  ASSUME Chain(partsList), NEW first \in Nat \ {0}, NEW n \in Nat, first <= n,
         n <= Len(partsList) + 1, NEW sentTo \in Nat,
         \A i \in first..n - 1 : partsList[i].end <= sentTo,
         NEW ends, ends = [i \in 1..n - first |->
                             [bytes |-> Size(first + i - 1), part |-> first + i - 1]]
  PROVE  /\ Steady(ends, sentTo) /\ Len(ends) = n - first
         /\ n # first => ends[1].part = first
         /\ n # first => ends[n - first] = [bytes |-> Size(n - 1), part |-> n - 1]
<1>1. /\ Len(partsList) \in Nat
      /\ \A i \in 1..Len(partsList) :
           /\ partsList[i].start \in Nat /\ partsList[i].end \in Nat
           /\ partsList[i].start <= partsList[i].end
  <2>1. Len(partsList) \in Nat /\ \A i \in 1..Len(partsList) : partsList[i] \in Part
    BY LenProperties DEF Chain
  <2>2. \A part \in Part : part.start \in Nat /\ part.end \in Nat
    BY DEF Part
  <2> QED
    BY <2>1, <2>2 DEF Chain
<1> DEFINE len == n - first
<1>2. /\ len \in Nat
      /\ \A i \in 1..len : first + i - 1 \in 1..Len(partsList) /\ first + i - 1 \in first..n - 1
  BY <1>1
<1>3. \A i \in 1..Len(partsList) :
        /\ Size(i) \in Nat /\ partsList[i].start + Size(i) = partsList[i].end
  BY <1>1 DEF Size
<1> HIDE DEF Size
<1>0. ends = [i \in 1..len |-> [bytes |-> Size(first + i - 1), part |-> first + i - 1]]
  OBVIOUS
<1>4. \A i \in 1..len : /\ ends[i] = [bytes |-> Size(first + i - 1), part |-> first + i - 1]
                        /\ ends[i].part = first + i - 1
                        /\ ends[i].bytes = Size(first + i - 1)
  OBVIOUS
<1>5. ends \in [1..len -> Told]
  <2>1. ASSUME NEW i \in 1..len
        PROVE  [bytes |-> Size(first + i - 1), part |-> first + i - 1] \in Told
    <3> DEFINE k == first + i - 1
    <3>1. k \in 1..Len(partsList) /\ k \in Nat
      BY <1>1, <1>2
    <3>2. Size(k) \in Nat
      BY <1>3, <3>1
    <3> HIDE DEF k
    <3>3. [bytes |-> Size(k), part |-> k] \in Told
      BY ONLY <3>1, <3>2 DEF Told
    <3> QED
      BY <3>3 DEF k
  <2> HIDE DEF len
  <2> QED
    BY ONLY <1>0, <2>1
<1> HIDE DEF len
<1>6. ends \in Seq(Told)
  BY ONLY <1>2, <1>5, SeqDef
<1>7. Len(ends) = len
  BY ONLY <1>2, <1>5, <1>6, LenProperties
<1>8. ASSUME NEW i \in 1..len PROVE Honest(ends[i], sentTo)
  <2> DEFINE k == first + i - 1
  <2>1. /\ k \in 1..Len(partsList) /\ k \in first..n - 1
        /\ ends[i].part = k /\ ends[i].bytes = Size(k)
    BY <1>2, <1>4
  <2>2. partsList[k].end <= sentTo
    BY <2>1
  <2> HIDE DEF k
  <2>3. Size(k) \in 0..Size(k) /\ partsList[k].start + Size(k) <= sentTo
    <3>1. Size(k) \in Nat /\ partsList[k].start + Size(k) = partsList[k].end
      BY <1>3, <2>1
    <3> QED
      BY <2>2, <3>1
  <2> QED
    BY <2>1, <2>3 DEF Honest
<1>9. ASSUME NEW i \in 1..len - 1 PROVE Follows(ends[i], ends[i + 1])
  <2>1. /\ i \in 1..len /\ i + 1 \in 1..len
        /\ first + (i + 1) - 1 = (first + i - 1) + 1
    BY <1>2
  <2> QED
    BY <1>4, <2>1 DEF Follows
<1>10. n # first => 1 \in 1..len /\ len \in 1..len /\ first + len - 1 = n - 1 /\ first + 1 - 1 = first
  BY <1>2 DEF len
<1> QED
  BY <1>4, <1>6, <1>7, <1>8, <1>9, <1>10 DEF Steady, len

\* What is honest stays so when more is sent.
LEMMA SteadyGrows ==
  ASSUME NEW s, NEW a \in Nat, NEW b \in Nat, a <= b, Chain(partsList), Steady(s, a)
  PROVE  Steady(s, b)
<1>1. ASSUME NEW report \in Told, Honest(report, a) PROVE Honest(report, b)
  <2>1. partsList[report.part].start \in Nat /\ report.bytes \in Nat
    <3>1. \A i \in 1..Len(partsList) : partsList[i] \in Part
      BY LenProperties DEF Chain
    <3> QED
      BY <1>1, <3>1 DEF Honest, Told, Part
  <2> QED
    BY <1>1, <2>1 DEF Honest
<1>2. \A i \in 1..Len(s) : s[i] \in Told
  BY LenProperties DEF Steady
<1> QED
  BY <1>1, <1>2 DEF Steady

-----------------------------------------------------------------------------
(* The invariant of an upload.                                             *)

\* How far the reports are: the last one is of the part in progress, up to the
\* position, or all of the last part; nothing is told before anything is sent.
UpToDate ==
  /\ reports = <<>> => index = 1 /\ (loaded = 0 \/ partsList = <<>>)
  /\ reports # <<>> =>
       /\ reports[1].part = 1
       /\ \/ /\ index <= Len(partsList)
             /\ reports[Len(reports)] =
                  [bytes |-> Position(loaded) - partsList[index].start, part |-> index]
             /\ partsList[index].start <= Position(loaded)
             /\ partsList[index].end > Position(loaded)
          \/ /\ index = Len(partsList) + 1 /\ partsList # <<>>
             /\ reports[Len(reports)] = [bytes |-> Size(Len(partsList)), part |-> Len(partsList)]

XhrInv ==
  /\ XhrTypeOK
  /\ form.sizes \in Seq(Nat)
  /\ Chain(partsList) /\ total = EndOf(partsList)
  /\ xhr \in {"unused", "buffering"} =>
       partsList = <<>> /\ loaded = 0 /\ index = 1 /\ reports = <<>>
  /\ xhr \in {"answering", "resolved"} => loaded = BodySize
  /\ Steady(reports, Position(loaded))
  /\ UpToDate

\* The parts lie in the form.
Within(ps, t) ==
  /\ t \in Nat /\ Len(ps) \in Nat
  /\ \A i \in 1..Len(ps) :
       /\ ps[i].start \in Nat /\ ps[i].end \in Nat
       /\ ps[i].start <= ps[i].end /\ ps[i].end <= t
  /\ ps = <<>> <=> Len(ps) = 0
  /\ ps = <<>> => t = 0

LEMMA ChainWithin ==
  ASSUME NEW ps, Chain(ps)
  PROVE  Within(ps, EndOf(ps))
<1>1. /\ Len(ps) \in Nat /\ (ps = <<>> <=> Len(ps) = 0)
      /\ \A i \in 1..Len(ps) : ps[i] \in Part
  BY EmptySeq, LenProperties DEF Chain
<1>2. \A part \in Part : part.start \in Nat /\ part.end \in Nat
  BY DEF Part
<1>3. ps # <<>> => Len(ps) \in 1..Len(ps)
  BY <1>1
<1>4. EndOf(ps) \in Nat /\ (ps = <<>> => EndOf(ps) = 0)
  BY <1>1, <1>2, <1>3 DEF EndOf
<1>5. ASSUME NEW i \in 1..Len(ps)
      PROVE  /\ ps[i].start \in Nat /\ ps[i].end \in Nat
             /\ ps[i].start <= ps[i].end /\ ps[i].end <= EndOf(ps)
  <2>1. ps # <<>> /\ i <= Len(ps)
    BY <1>1
  <2> QED
    BY <1>1, <1>2, <1>3, <2>1 DEF Chain, EndOf
<1> QED
  BY <1>1, <1>4, <1>5 DEF Within

LEMMA PartsWithin ==
  ASSUME Chain(partsList), total = EndOf(partsList)
  PROVE  /\ total \in Nat /\ Len(partsList) \in Nat
         /\ \A i \in 1..Len(partsList) :
              /\ partsList[i].start \in Nat /\ partsList[i].end \in Nat
              /\ partsList[i].start <= partsList[i].end /\ partsList[i].end <= total
              /\ Size(i) \in Nat /\ partsList[i].start + Size(i) = partsList[i].end
         /\ partsList = <<>> <=> Len(partsList) = 0
         /\ partsList = <<>> => total = 0
<1>1. Within(partsList, total)
  BY ChainWithin
<1>2. \A i \in 1..Len(partsList) : Size(i) \in Nat /\ partsList[i].start + Size(i) = partsList[i].end
  BY <1>1 DEF Size, Within
<1> QED
  BY <1>1, <1>2 DEF Within

\* What the run checks follows from it.
LEMMA ToldFaithfully ==
  ASSUME XhrInv
  PROVE  ProgressFaithful
<1>1. /\ total \in Nat /\ Len(partsList) \in Nat /\ loaded \in 0..BodySize /\ BodySize \in Nat \ {0}
      /\ computable \in BOOLEAN
      /\ \A i \in 1..Len(partsList) : partsList[i].start \in Nat /\ partsList[i].end <= total /\ partsList[i].end \in Nat
  BY PartsWithin, BrowserUploadAssumption DEF XhrInv, XhrTypeOK, BodySize
<1>2. /\ Position(loaded) \in Nat
      /\ computable => Position(loaded) * BodySize <= loaded * total
      /\ Position(BodySize) = total
  BY <1>1, Positions
<1>3. /\ Steady(reports, Position(loaded)) /\ Len(reports) \in Nat
      /\ \A i \in 1..Len(reports) : reports[i] \in Told
  BY LenProperties DEF XhrInv, Steady
<1>4. ASSUME NEW i \in 1..Len(reports)
      PROVE  /\ reports[i].bytes \in 0..Size(reports[i].part)
             /\ computable =>
                  (partsList[reports[i].part].start + reports[i].bytes) * BodySize <= loaded * total
  <2> DEFINE at == partsList[reports[i].part].start + reports[i].bytes
             p == Position(loaded)
  <2>1. /\ reports[i].bytes \in 0..Size(reports[i].part)
        /\ at <= p /\ reports[i].part \in 1..Len(partsList) /\ reports[i].bytes \in Nat
    BY <1>3 DEF Steady, Honest, Told
  <2>2. at \in Nat /\ p \in Nat /\ BodySize \in Nat /\ loaded * total \in Nat
    <3>1. at \in Nat /\ p \in Nat
      <4>1. partsList[reports[i].part].start \in Nat
        BY <1>1, <2>1
      <4> QED
        BY <1>2, <2>1, <4>1
    <3>2. loaded \in Nat /\ loaded <= BodySize /\ total \in Nat /\ BodySize \in Nat
      BY <1>1
    <3>3. loaded * total \in Nat
      BY <3>2, Products
    <3> QED
      BY <3>1, <3>2, <3>3
  <2> HIDE DEF at, p
  <2>3. at * BodySize <= p * BodySize /\ at * BodySize \in Nat /\ p * BodySize \in Nat
    BY <2>1, <2>2, Products
  <2>4. computable => at * BodySize <= loaded * total
    <3> DEFINE most == loaded * total
               told == at * BodySize
               sentTo == p * BodySize
    <3>1. computable => sentTo <= most
      BY <1>2 DEF p
    <3>2. most \in Nat /\ told \in Nat /\ sentTo \in Nat /\ told <= sentTo
      BY <2>2, <2>3
    <3> HIDE DEF most, told, sentTo
    <3>3. computable => told <= most
      BY <3>1, <3>2
    <3> QED
      BY <3>3 DEF most, told
  <2> QED
    BY <2>1, <2>4 DEF at
<1>5. \A i \in 1..Len(reports) - 1 :
        \/ reports[i].part = reports[i + 1].part /\ reports[i].bytes <= reports[i + 1].bytes
        \/ /\ reports[i + 1].part = reports[i].part + 1
           /\ reports[i].bytes = Size(reports[i].part)
  BY <1>3 DEF Steady, Follows
<1>6. ASSUME xhr = "resolved", partsList # <<>>
      PROVE  /\ reports[1].part = 1
             /\ reports[Len(reports)] = [bytes |-> Size(Len(partsList)), part |-> Len(partsList)]
  <2>1. loaded = BodySize /\ Position(loaded) = total /\ loaded # 0
    BY <1>1, <1>2, <1>6 DEF XhrInv
  <2>2. reports # <<>>
    BY <1>6, <2>1 DEF XhrInv, UpToDate
  <2>3. ~(index <= Len(partsList) /\ partsList[index].end > Position(loaded))
    <3>1. index \in 1..Len(partsList) + 1
      BY DEF XhrInv, XhrTypeOK
    <3> QED
      BY <1>1, <2>1, <3>1
  <2> QED
    BY <2>2, <2>3 DEF XhrInv, UpToDate
<1> QED
  BY <1>4, <1>5, <1>6 DEF ProgressFaithful, XhrInv

\* An upload begins with nothing sent and nothing told.
LEMMA XhrStartMakes ==
  ASSUME form.sizes \in Seq(Nat), computable \in BOOLEAN,
         NEW state \in {"unused", "buffering"}, XhrStart(state)
  PROVE  XhrInv
<1>1. /\ xhr = state /\ partsList = <<>> /\ total = 0 /\ loaded = 0 /\ index = 1
      /\ reports = <<>> /\ xhrAborted = FALSE
  BY DEF XhrStart
<1>2. Len(<<>>) = 0 /\ \A S : <<>> \in Seq(S)
  BY EmptySeq
<1>3. Chain(partsList) /\ total = EndOf(partsList)
  BY <1>1, <1>2 DEF Chain, EndOf
<1>4. Steady(reports, Position(loaded))
  BY <1>1, <1>2 DEF Steady
<1>5. XhrTypeOK
  <2>1. loaded \in 0..total + Framing
    BY <1>1, BrowserUploadAssumption
  <2>2. Len(partsList) = 0
    BY <1>1, <1>2
  <2>3. index \in 1..Len(partsList) + 1 /\ \A i \in 1..Len(partsList) : FALSE
    BY <1>1, <2>2
  <2>4. xhr \in {"unused", "buffering", "sending", "answering", "resolved", "rejected"}
    BY <1>1
  <2> QED
    BY <1>1, <2>1, <2>3, <2>4 DEF XhrTypeOK
<1> QED
  BY <1>1, <1>3, <1>4, <1>5 DEF XhrInv, UpToDate

\* A progress event tells of all that was sent since the last one.
LEMMA ProgressTells ==
  ASSUME XhrInv, NEW bytes \in 1..BodySize, Progress(bytes)
  PROVE  Steady(reports, Position(loaded))' /\ UpToDate' /\ index' \in 1..Len(partsList) + 1
<1> DEFINE old == Position(loaded)
           p == Position(bytes)
           last == Len(partsList)
<1>1. /\ loaded' = bytes /\ bytes > loaded /\ Report(p)
      /\ UNCHANGED <<form, computable, partsList, total, xhrAborted>>
  BY DEF Progress
<1>2. /\ total \in Nat /\ last \in Nat
      /\ \A i \in 1..last :
           /\ partsList[i].start \in Nat /\ partsList[i].end \in Nat
           /\ partsList[i].start <= partsList[i].end /\ partsList[i].end <= total
           /\ Size(i) \in Nat /\ partsList[i].start + Size(i) = partsList[i].end
      /\ partsList = <<>> <=> last = 0
      /\ partsList = <<>> => total = 0
  BY PartsWithin DEF XhrInv
<1>3. /\ loaded \in 0..BodySize /\ bytes \in 0..BodySize /\ loaded <= bytes
      /\ computable \in BOOLEAN /\ index \in 1..last + 1
      /\ Chain(partsList) /\ Steady(reports, old)
  BY <1>1, <1>2, BrowserUploadAssumption DEF XhrInv, XhrTypeOK, BodySize
<1>4. /\ old \in Nat /\ p \in Nat /\ old <= p /\ p <= total
      /\ BodySize \in Nat \ {0}
  <2>1. total \in Nat /\ computable \in BOOLEAN
    BY <1>2, <1>3
  <2>2. loaded \in 0..BodySize /\ bytes \in 0..BodySize /\ loaded <= bytes
    BY <1>3
  <2> HIDE DEF last
  <2>3. BodySize \in Nat \ {0} /\ old \in Nat /\ old <= p
    BY <2>1, <2>2, Positions
  <2>4. p \in Nat /\ p <= total
    BY <2>1, <2>2, Positions
  <2> QED
    BY <2>3, <2>4
<1>5. (Position(loaded))' = p /\ \A i : Size(i)' = Size(i)
  BY <1>1 DEF Position, Size, BodySize
<1>6. \A s : Steady(s, p)' <=> Steady(s, p)
  BY <1>1, <1>5 DEF Steady, Honest, Follows
<1> HIDE DEF old, p, last
<1>7. PICK n : /\ InProgress(n, p) /\ index' = n
               /\ reports' = reports \o [i \in 1..n - index |->
                               [bytes |-> Size(index + i - 1), part |-> index + i - 1]] \o
                    IF n > last THEN <<>>
                    ELSE <<[bytes |-> p - partsList[n].start, part |-> n]>>
  BY <1>1, <1>3, <1>4, ReportsOf DEF last
<1> DEFINE ends == [i \in 1..n - index |->
                      [bytes |-> Size(index + i - 1), part |-> index + i - 1]]
           now == [bytes |-> p - partsList[n].start, part |-> n]
           tail == IF n > last THEN <<>> ELSE <<now>>
<1>8. /\ n \in index..last + 1 /\ n \in Nat \ {0} /\ index \in Nat \ {0} /\ index <= n
      /\ \A i \in index..n - 1 : partsList[i].end <= p
      /\ n <= last => n \in 1..last /\ partsList[n].end > p
  BY <1>2, <1>3, <1>7 DEF InProgress, last
<1>9. /\ Steady(ends, p) /\ Len(ends) = n - index
      /\ n # index => ends[1].part = index
      /\ n # index => ends[n - index] = [bytes |-> Size(n - 1), part |-> n - 1]
  <2>1. n <= Len(partsList) + 1
    BY <1>2, <1>8 DEF last
  <2> QED
    BY <1>3, <1>4, <1>8, <2>1, EndsAreSteady
<1>10. Steady(reports, p)
  BY <1>3, <1>4, SteadyGrows
<1>11. /\ ends = <<>> <=> n = index
       /\ ends # <<>> => Len(ends) = n - index
  BY <1>8, <1>9, EmptySeq DEF Steady
<1> HIDE DEF ends, now, tail
<1>12. /\ reports # <<>> => reports[1].part = 1
       /\ reports = <<>> => index = 1
       /\ reports # <<>> =>
            \/ /\ index <= last
               /\ reports[Len(reports)] = [bytes |-> old - partsList[index].start, part |-> index]
               /\ partsList[index].start <= old
            \/ /\ index = last + 1 /\ last # 0
               /\ reports[Len(reports)] = [bytes |-> Size(last), part |-> last]
  BY <1>2 DEF XhrInv, UpToDate, old, last
<1>13. n <= last => partsList[n].start <= p
  <2> SUFFICES ASSUME n <= last PROVE partsList[n].start <= p
    OBVIOUS
  <2>1. CASE n = 1
    <3>1. partsList[1].start = 0
      BY <1>2, <1>8, <2>1 DEF Chain, XhrInv, last
    <3> QED
      BY <1>4, <2>1, <3>1
  <2>2. CASE n # index
    <3>1. n - 1 \in index..n - 1 /\ n - 1 \in 1..last - 1 /\ (n - 1) + 1 = n
      BY <1>2, <1>8, <2>2
    <3>2. partsList[(n - 1) + 1].start = partsList[n - 1].end
      BY <1>3, <3>1 DEF Chain, last
    <3> QED
      BY <1>8, <3>1, <3>2
  <2>3. CASE n = index /\ n # 1
    <3>1. partsList[index].start <= old
      BY <1>2, <1>8, <1>12, <2>3
    <3> QED
      BY <1>2, <1>4, <1>8, <2>3, <3>1
  <2> QED
    BY <2>1, <2>2, <2>3
<1>14. /\ n <= last => Len(tail) = 1 /\ tail[1] = now /\ tail # <<>>
       /\ n > last => tail = <<>>
       /\ n <= last => now.part = n /\ now.bytes = p - partsList[n].start
       /\ Steady(tail, p)
  <2>1. n <= last => now \in Told /\ Honest(now, p) /\ now.part = n
                     /\ now.bytes = p - partsList[n].start
    <3> SUFFICES ASSUME n <= last PROVE now \in Told /\ Honest(now, p) /\ now.part = n
                                        /\ now.bytes = p - partsList[n].start
      OBVIOUS
    <3>1. n \in 1..last /\ p - partsList[n].start \in 0..Size(n) /\ p - partsList[n].start \in Nat
      <4> DEFINE start == partsList[n].start
                 end == partsList[n].end
                 size == Size(n)
      <4>1. n \in 1..last /\ start \in Nat /\ end \in Nat /\ size \in Nat
        BY <1>2, <1>8
      <4>2. start + size = end /\ start <= p /\ end > p
        BY <1>2, <1>8, <1>13, <4>1
      <4> HIDE DEF start, end, size
      <4>3. p - start \in 0..size /\ p - start \in Nat
        BY <1>4, <4>1, <4>2
      <4> QED
        BY <4>1, <4>3 DEF start, size
    <3>2. now.part = n /\ now.bytes = p - partsList[n].start /\ now \in Told
      BY <1>8, <3>1 DEF now, Told
    <3>3. partsList[n].start + now.bytes <= p
      BY <1>2, <1>4, <3>1, <3>2
    <3> QED
      BY <3>1, <3>2, <3>3 DEF Honest, last
  <2>2. CASE n > last
    <3>1. tail = <<>> /\ ~(n <= last)
      BY <1>2, <1>8, <2>2 DEF tail
    <3>2. Steady(<<>>, p)
      <4>1. <<>> \in Seq(Told) /\ Len(<<>>) = 0
        BY EmptySeq
      <4> QED
        BY <4>1 DEF Steady
    <3> QED
      BY <2>2, <3>1, <3>2
  <2>3. CASE n <= last
    <3>1. tail = <<now>> /\ ~(n > last)
      BY <1>2, <1>8, <2>3 DEF tail
    <3>2. <<now>> \in Seq(Told) /\ Len(<<now>>) = 1 /\ <<now>>[1] = now
      BY <2>1, <2>3
    <3>3. Steady(<<now>>, p) /\ <<now>> # <<>>
      <4> DEFINE s == <<now>>
      <4>1. s \in Seq(Told) /\ Len(s) = 1 /\ s[1] = now
        BY <3>2
      <4> HIDE DEF s
      <4>2. \A i \in 1..Len(s) : i = 1
        BY <4>1
      <4>3. s # <<>>
        BY <4>1, EmptySeq
      <4>4. Steady(s, p)
        BY <2>1, <2>3, <4>1, <4>2 DEF Steady
      <4> QED
        BY <4>3, <4>4 DEF s
    <3> QED
      BY <2>1, <2>3, <3>1, <3>2, <3>3
  <2> QED
    BY <1>2, <1>8, <2>2, <2>3
<1>15. reports # <<>> /\ ends # <<>> => Follows(reports[Len(reports)], ends[1])
  <2> SUFFICES ASSUME reports # <<>>, ends # <<>> PROVE Follows(reports[Len(reports)], ends[1])
    OBVIOUS
  <2>1. n # index /\ ends[1].part = index /\ index <= last /\ index \in 1..last
    BY <1>2, <1>8, <1>9, <1>11
  <2>2. ends[1].bytes = Size(index)
    <3>1. 1 \in 1..n - index /\ index + 1 - 1 = index
      BY <1>8, <2>1
    <3> QED
      BY <3>1 DEF ends
  <2>3. reports[Len(reports)].part = index /\ reports[Len(reports)].bytes <= Size(index)
    <3>1. /\ reports[Len(reports)] = [bytes |-> old - partsList[index].start, part |-> index]
          /\ partsList[index].start <= old
      BY <1>2, <1>8, <1>12, <2>1
    <3>2. Len(reports) \in 1..Len(reports)
      BY EmptySeq, LenProperties, <1>10 DEF Steady
    <3>3. Honest(reports[Len(reports)], old)
      BY <1>3, <3>2 DEF Steady
    <3> QED
      BY <1>2, <2>1, <3>1, <3>3 DEF Honest
  <2> QED
    BY <2>1, <2>2, <2>3 DEF Follows
<1> DEFINE before == reports \o ends
<1>16. /\ Steady(before, p) /\ Len(before) = Len(reports) + Len(ends)
       /\ Len(reports) \in Nat /\ Len(ends) \in Nat
       /\ reports # <<>> => before[1] = reports[1]
       /\ reports = <<>> => before = ends
       /\ ends = <<>> => before = reports
       /\ ends # <<>> => before[Len(reports) + Len(ends)] = ends[Len(ends)]
  <2>1. Joins(reports, ends, before, p)
    BY <1>9, <1>10, <1>15, Joined
  <2> HIDE DEF before
  <2> QED
    BY <2>1 DEF Joins
<1> HIDE DEF before
<1>17. before # <<>> /\ tail # <<>> => Follows(before[Len(before)], tail[1])
  <2> SUFFICES ASSUME before # <<>>, tail # <<>> PROVE Follows(before[Len(before)], tail[1])
    OBVIOUS
  <2>1. n <= last /\ tail[1] = now /\ now.part = n /\ now.bytes = p - partsList[n].start
    BY <1>2, <1>8, <1>14
  <2>2. CASE ends # <<>>
    <3>1. /\ before[Len(before)] = [bytes |-> Size(n - 1), part |-> n - 1]
          /\ n - 1 + 1 = n
      BY <1>8, <1>9, <1>11, <1>16, <2>2
    <3> QED
      BY <2>1, <3>1 DEF Follows
  <2>3. CASE ends = <<>>
    <3>1. before = reports /\ n = index /\ reports # <<>>
      BY <1>11, <1>16, <2>3
    <3>2. reports[Len(reports)] = [bytes |-> old - partsList[index].start, part |-> index]
      BY <1>2, <1>8, <1>12, <2>1, <3>1
    <3>3. old - partsList[n].start <= p - partsList[n].start
      BY <1>2, <1>4, <1>8, <2>1
    <3> QED
      BY <2>1, <3>1, <3>2, <3>3 DEF Follows
  <2> QED
    BY <2>2, <2>3
<1>18. reports' = before \o tail
  BY <1>7 DEF before, ends, tail, now
<1>19. /\ Steady(reports', p) /\ Len(reports') = Len(before) + Len(tail)
       /\ Len(before) \in Nat /\ Len(tail) \in Nat
       /\ before # <<>> => reports'[1] = before[1]
       /\ before = <<>> => reports' = tail
       /\ tail = <<>> => reports' = before
       /\ tail # <<>> => reports'[Len(before) + Len(tail)] = tail[Len(tail)]
  <2>1. Joins(before, tail, before \o tail, p)
    BY <1>14, <1>16, <1>17, Joined
  <2>2. Joins(before, tail, reports', p)
    BY <1>18, <2>1
  <2> QED
    BY <2>2 DEF Joins
<1>20. Steady(reports, Position(loaded))'
  <2>1. Steady(reports', p)
    BY <1>19
  <2> QED
    BY <1>1, <1>5, <2>1 DEF Steady, Honest, Follows
<1>21. UpToDate'
  <2>1. CASE reports' = <<>>
    <3>1. before = <<>> /\ tail = <<>>
      <4>1. Len(reports') = 0
        BY <2>1, EmptySeq
      <4>2. Len(before) = 0 /\ Len(tail) = 0
        BY <1>19, <4>1
      <4> QED
        BY <1>14, <1>16, <4>2, EmptySeq DEF Steady
    <3>2. reports = <<>> /\ ends = <<>>
      <4>1. Len(before) = 0
        BY <3>1, EmptySeq
      <4>2. Len(reports) = 0 /\ Len(ends) = 0
        BY <1>16, <4>1
      <4> QED
        BY <1>9, <1>10, <4>2, EmptySeq DEF Steady
    <3>3. n = 1 /\ n > last
      BY <1>2, <1>8, <1>11, <1>12, <1>14, <3>1, <3>2
    <3>4. partsList' = <<>> /\ index' = 1
      BY <1>1, <1>2, <1>7, <3>3
    <3> QED
      BY <2>1, <3>4 DEF UpToDate
  <2>2. CASE reports' # <<>>
    <3>1. reports'[1].part = 1
      <4>1. CASE reports # <<>>
        <5>1. before # <<>>
          <6>1. Len(reports) # 0
            BY <1>10, <4>1, EmptySeq DEF Steady
          <6>2. Len(before) # 0
            BY <1>16, <6>1
          <6> QED
            BY <6>2, EmptySeq
        <5> QED
          BY <1>12, <1>16, <1>19, <4>1, <5>1
      <4>2. CASE reports = <<>> /\ ends # <<>>
        BY <1>9, <1>11, <1>12, <1>16, <1>19, <4>2
      <4>3. CASE reports = <<>> /\ ends = <<>>
        <5>1. before = <<>> /\ reports' = tail /\ n = 1
          BY <1>11, <1>12, <1>16, <1>19, <4>3
        <5>2. tail # <<>>
          BY <2>2, <5>1
        <5>3. tail[1] = now /\ now.part = n
          BY <1>2, <1>8, <1>14, <5>2
        <5> QED
          BY <5>1, <5>3
      <4> QED
        BY <4>1, <4>2, <4>3
    <3>2. CASE n <= last
      <4>1. reports'[Len(reports')] = now
        BY <1>14, <1>19, <3>2
      <4>2. now = [bytes |-> p - partsList[n].start, part |-> n]
        BY DEF now
      <4>3. n <= Len(partsList) /\ partsList[n].start <= p /\ partsList[n].end > p
        BY <1>8, <1>13, <3>2 DEF last
      <4> QED
        BY <1>1, <1>5, <1>7, <2>2, <3>1, <4>1, <4>2, <4>3 DEF UpToDate
    <3>3. CASE n > last
      <4>1. n = last + 1 /\ reports' = before /\ before # <<>>
        BY <1>2, <1>8, <1>14, <1>19, <2>2, <3>3
      <4>2. last # 0 /\ before[Len(before)] = [bytes |-> Size(last), part |-> last]
        <5>1. CASE ends # <<>>
          <6>1. n # index /\ n - 1 = last
            <7>1. n # index
              BY <1>11, <5>1
            <7> QED
              BY <1>2, <4>1, <7>1
          <6> QED
            BY <1>2, <1>8, <1>9, <1>11, <1>16, <5>1, <6>1
        <5>2. CASE ends = <<>>
          <6>1. before = reports /\ index = last + 1 /\ reports # <<>> /\ ~(index <= last)
            BY <1>2, <1>11, <1>16, <4>1, <5>2
          <6> QED
            BY <1>12, <6>1
        <5> QED
          BY <5>1, <5>2
      <4>3. partsList # <<>> /\ index' = Len(partsList) + 1
        BY <1>2, <1>7, <4>1, <4>2 DEF last
      <4>4. reports'[Len(reports')] = [bytes |-> Size(Len(partsList)), part |-> Len(partsList)]
        BY <4>1, <4>2 DEF last
      <4> QED
        BY <1>1, <1>5, <2>2, <3>1, <4>3, <4>4 DEF UpToDate
    <3> QED
      BY <1>2, <1>8, <3>2, <3>3
  <2> QED
    BY <2>1, <2>2
<1> QED
  BY <1>2, <1>7, <1>8, <1>20, <1>21 DEF last

\* Every step of an upload keeps the invariant.
LEMMA XhrNextKeeps ==
  ASSUME XhrInv, XhrNext \/ UNCHANGED xhrVars
  PROVE  XhrInv'
<1>1. CASE /\ UNCHANGED <<form, computable, partsList, total, loaded, index, reports>>
           /\ xhrAborted' \in BOOLEAN
           /\ xhr' \in {"unused", "buffering", "sending", "answering", "resolved", "rejected"}
           /\ xhr' \in {"unused", "buffering"} => xhr = xhr'
           /\ xhr' \in {"answering", "resolved"} => xhr \in {"answering", "resolved"}
  <2>1. UNCHANGED <<Position(loaded), BodySize>> /\ \A i : Size(i)' = Size(i)
    BY <1>1 DEF Position, BodySize, Size
  <2>2. XhrTypeOK'
    BY <1>1 DEF XhrInv, XhrTypeOK
  <2>3. Chain(partsList)' /\ total' = EndOf(partsList)' /\ form'.sizes \in Seq(Nat)
    BY <1>1 DEF XhrInv, Chain, EndOf
  <2>4. Steady(reports, Position(loaded))'
    BY <1>1, <2>1 DEF XhrInv, Steady, Honest, Follows
  <2>5. UpToDate'
    BY <1>1, <2>1 DEF XhrInv, UpToDate
  <2> QED
    BY <1>1, <2>1, <2>2, <2>3, <2>4, <2>5 DEF XhrInv
<1>2. CASE BufferForm
  <2>1. /\ xhr = "buffering" /\ xhr' = "sending"
        /\ partsList' = PartsOf(Len(form.sizes)) /\ total' = EndOf(partsList')
        /\ UNCHANGED <<form, computable, loaded, index, reports, xhrAborted>>
    BY <1>2 DEF BufferForm, EndOf
  <2>2. partsList = <<>> /\ loaded = 0 /\ index = 1 /\ reports = <<>> /\ form.sizes \in Seq(Nat)
    BY <2>1 DEF XhrInv
  <2>3. Chain(partsList')
    BY <2>1, <2>2, PartsAreChain
  <2>4. /\ total' \in Nat /\ Len(partsList') \in Nat
        /\ \A i \in 1..Len(partsList') :
             /\ partsList'[i].start \in Nat /\ partsList'[i].end \in Nat
             /\ partsList'[i].start <= partsList'[i].end /\ partsList'[i].end <= total'
    <3> DEFINE ps == partsList'
               t == total'
    <3>1. Chain(ps) /\ t = EndOf(ps)
      BY <2>1, <2>3
    <3> HIDE DEF ps, t
    <3>2. Within(ps, t)
      BY <3>1, ChainWithin
    <3> QED
      BY <3>2 DEF Within, ps, t
  <2>5. XhrTypeOK'
    <3>1. loaded' \in 0..total' + Framing /\ index' \in 1..Len(partsList') + 1
      BY <2>1, <2>2, <2>4, BrowserUploadAssumption
    <3> QED
      BY <2>1, <2>4, <3>1 DEF XhrInv, XhrTypeOK
  <2>6. Steady(reports, Position(loaded))'
    <3>1. <<>> \in Seq(Told) /\ Len(<<>>) = 0
      BY EmptySeq
    <3> QED
      BY <2>1, <2>2, <3>1 DEF Steady
  <2>7. UpToDate'
    BY <2>1, <2>2 DEF UpToDate
  <2>8. Chain(partsList)' /\ total' = EndOf(partsList)' /\ form'.sizes \in Seq(Nat)
    BY <2>1, <2>2, <2>3 DEF Chain, EndOf
  <2> QED
    BY <2>1, <2>5, <2>6, <2>7, <2>8 DEF XhrInv
<1>3. CASE BufferFails \/ AbortForm \/ XhrLoads \/ XhrFails
  BY <1>1, <1>3 DEF BufferFails, AbortForm, XhrLoads, XhrFails, XhrInv, XhrTypeOK
<1>4. ASSUME NEW bytes \in 1..BodySize, Progress(bytes) PROVE XhrInv'
  <2>1. /\ xhr = "sending" /\ loaded' = bytes
        /\ xhr' = IF bytes = BodySize THEN "answering" ELSE "sending"
        /\ UNCHANGED <<form, computable, partsList, total, xhrAborted>>
    BY <1>4 DEF Progress
  <2>2. Steady(reports, Position(loaded))' /\ UpToDate' /\ index' \in 1..Len(partsList) + 1
    BY <1>4, ProgressTells
  <2>3. BodySize' = BodySize /\ loaded' \in 0..total + Framing
    <3>1. total \in Nat
      BY PartsWithin DEF XhrInv
    <3> QED
      BY <2>1, <3>1, BrowserUploadAssumption DEF BodySize
  <2>4. XhrTypeOK'
    BY <2>1, <2>2, <2>3 DEF XhrInv, XhrTypeOK
  <2>5. Chain(partsList)' /\ total' = EndOf(partsList)' /\ form'.sizes \in Seq(Nat)
    BY <2>1 DEF XhrInv, Chain, EndOf
  <2> QED
    BY <2>1, <2>2, <2>3, <2>4, <2>5 DEF XhrInv
<1>5. CASE UNCHANGED xhrVars
  BY <1>1, <1>5 DEF xhrVars, XhrInv, XhrTypeOK
<1> QED
  BY <1>2, <1>3, <1>4, <1>5 DEF XhrNext

\* Whatever files are uploaded, and however the browser fires its events, the
\* progress function (src/add-all.ts, createOnUploadProgress) is told part by
\* part, in order, of what was sent and no more, and in the end of all of it.
THEOREM ProgressCorrect == UploadsSpec => []ProgressFaithful
<1>1. UploadsInit => XhrInv
  <2> SUFFICES ASSUME UploadsInit PROVE XhrInv
    OBVIOUS
  <2>1. CASE XhrUnused
    <3>1. <<>> \in Seq(Nat)
      BY EmptySeq
    <3>2. form.sizes \in Seq(Nat) /\ computable \in BOOLEAN /\ XhrStart("unused")
      BY <2>1, <3>1 DEF XhrUnused
    <3> QED
      BY <3>2, XhrStartMakes
  <2>2. CASE XhrInit
    <3>1. PICK n \in 0..MaxFiles : form.sizes \in [1..n -> 0..Directory]
      BY <2>2 DEF XhrInit
    <3>2. n \in Nat /\ \A k \in 0..Directory : k \in Nat
      <4>1. MaxFiles \in Nat /\ MaxSize \in Nat
        BY BrowserUploadAssumption
      <4> QED
        BY <4>1 DEF Directory
    <3>3. form.sizes \in [1..n -> Nat]
      BY <3>1, <3>2
    <3>4. form.sizes \in Seq(Nat)
      BY <3>2, <3>3, SeqDef
    <3> QED
      BY <2>2, <3>4, XhrStartMakes DEF XhrInit
  <2> QED
    BY <2>1, <2>2 DEF UploadsInit
<1>2. XhrInv /\ [UploadsNext]_<<platform, vars, xhrVars>> => XhrInv'
  BY XhrNextKeeps DEF UploadsNext
<1>3. XhrInv => ProgressFaithful
  BY ToldFaithfully
<1> QED
  BY <1>1, <1>2, <1>3, PTL DEF UploadsSpec
=============================================================================
