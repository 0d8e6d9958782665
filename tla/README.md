# A TLA+ model of kubo-rpc-client

TLA+ modules, TLC configurations and TLAPS proofs for `src/src` of
kubo-rpc-client, the JavaScript client of a Kubo daemon's HTTP RPC API. Paths
below are relative to `src/src/` unless they start with `test/` or `README.md`.

## 1. The system

A client is an object with some hundred asynchronous commands. Each one builds
search parameters and perhaps a multipart body, makes one POST through
`lib/core.ts` and `lib/http.ts`, and maps the answer, which may be a stream of
NDJSON that lives as long as the caller likes. JavaScript runs one task at a
time, so the hard part is not memory but what may come between two turns of the
event loop: another call, an abort, the end of a body, a timer, the next chunk.

| Component | State | Operations | Interacts with | Correct means |
|---|---|---|---|---|
| **pubsub subscriptions** (`pubsub/subscribe.ts`, `subscription-tracker.ts`, `unsubscribe.ts`) | a map of topics to (handler, controller), abort listeners on the callers' signals, one request, timer and promise per call | subscribe, unsubscribe, abort, the catch and then handlers, the reading of messages | HTTP layer, callers' signals and options objects | the tracker and the requests agree; a subscription ends for its own reasons only; its end is reported, unless it was asked for; promises settle |
| **one HTTP request** (`lib/http.ts`, `lib/core.ts`, `lib/http/error.ts`) | a combined signal, an optional timer, a response and its body | fetch, the error handler, the clean-up, the body | every command | settles as the wire says; an abort ends request and body; nothing stays on the caller's signal |
| **NDJSON** (`lib/http.ts:213`) | decoder state, text after the last line feed, generator position | take a chunk, yield a value, end | every streaming command | the values are those of the lines, whatever the chunks, as soon as they are there |
| **codec and hasher registries** (`lib/multicodecs.ts`, `lib/multihashes.ts`) | two tables of the same codecs | get (with a lazy loader), add, remove | dag, block | the tables agree; nothing is displaced; a get is served |
| **base registry** (`lib/multibases.ts`) | two tables | the same, with different tests | pubsub, public API | the same |
| **addAll and other uploads** (`add-all.ts`, `lib/multipart-request*.ts`) | a peeked source, a body in flight, a response, two signals | peek, post, stream parts, read results, abort | HTTP layer, NDJSON, the caller's iterable | no broken body passes for whole; errors of the source reach the caller; signals are released |
| **a call of any command** (`client.ts`, the hundred `create...()` functions) | the request it is at, the lines it has read, the values it has given | call, next item, post, read, give, leave, retry, fail | HTTP layer, the caller's source, signal and loop | what it gives is the whole answer to all that was asked; nothing is asked twice or after an abort; it ends when its signal is aborted; it leaves nothing open |
| **search params** (`lib/to-url-search-params.ts`, `lib/core.ts:140`) | none | merge, format, filter, rename | every command | every option that has a value arrives, once, under its own name; nothing else does |
| **DAG reads** (`dag/get.ts`, `lib/resolve.ts`) | a walk over blocks | resolve, get | registries, HTTP layer | the walk finds what the path names, or fails |
| **ls** (`ls.ts`) | a listing that is read, a stat request per link | read a line, ask, give | HTTP layer, files/stat | entries in the daemon's order, none passed over |
| **conversions** (`lib/files/*`, `lib/pins/*`, `dht/map-event.ts`) | none but a peeked iterator | normalise, parse, map | uploads, pins, routing | nothing of an input is lost, repeated or made up, but for the file streams of section 6 |
| **browser uploads** (`lib/multipart-request.browser.ts`, `lib/http/fetch.browser.ts`, `add-all.ts:59`) | a form and its parts, an XMLHttpRequest, the part in progress | read the source, send, report | the caller's progress function | progress is told file by file, and all of it |

Hard behaviours: cleanups that run later than they were meant to (and find
somebody else's entry), listeners that outlive what they were made for,
options objects that are written to, a timer that answers for a request that is
still out, sources that fail half-way, aborts at every point of a
request, chunk boundaries in the middle of a character, state looked up before
an `await` and used after it, promises that are awaited later than they are
made, bodies that are left unread. `PROJECT.json` lists each one at its line under
`hazards`, with the properties that cover it or the reason none does yet.

## 2. The modules

| Code | Specification | Its model-checking module | Proofs |
|---|---|---|---|
| pubsub subscriptions | `Pubsub`; abstract promise: `PubsubRegistry`; mapping: `PubsubRefinement` | `MCPubsub`, `MCPubsubRefinement` | `PubsubProofs` |
| one HTTP request | `HttpFetch` | `MCHttpFetch` | `HttpFetchProofs` |
| NDJSON | `Ndjson` | `MCNdjson` | `NdjsonProofs` |
| codec and hasher registries | `Multicodecs`; abstract promise: `CodecRegistry`; mapping: `CodecRefinement` | `MCRegistries` | `RegistriesProofs` |
| base registry | `Multibases` | `MCRegistries` | `RegistriesProofs` |
| addAll in Node | `AddAll`; abstract promise: `Transfer`; mapping: `TransferRefinement` | `MCUploads` | `UploadsProofs` |
| addAll in a browser, upload progress | `BrowserUpload` | `MCUploads` | `UploadsProofs` |
| what each command is | `CommandTable` | | |
| options and search params | `SearchParams`, `Without` | | |
| a call of any command | `Commands` | `MCCommands` | `CommandsProofs` |
| `dag.get` | `DagResolve`, `Without` | `MCReads` | `ReadsProofs` |
| `ls` | `Ls` | `MCReads` | `ReadsProofs` |
| inputs, mtimes, routing events | `Conversions` | `MCReads` | `ReadsProofs` |

`Registries`, `Uploads` and `Reads` put modules that share no state side by
side, so that one run checks them: a behaviour is one of one of them, and a
variable that says which, or the value `"unused"`, keeps the others still. They
add no behaviour and no interaction, because the code has none. `Without` is
`Array.filter()` as a recursive function, which the provers can unfold where
they have no definition of `SelectSeq`. `InductionProofs` holds the induction
that proofs about sequences share (section 4).

An `MC` module only gives constants their values (and a symmetry set). In each
specification an operator marked *Mutant* is a plausible bug in the operator
that follows it or that it names; no action of `Next` uses one. `PROJECT.json`
pairs every checked property with a mutant that breaks it.

### Pubsub

A *call* of `subscribe()` stands for everything it makes: its AbortController,
its POST to `pubsub/sub`, its promise, its 1000 ms timer and the reading of its
body. `subs` is the tracker's `_subs`, `listeners` the abort listeners it puts
on external signals and never takes off, `optSignal` the field `signal` of the
callers' options objects, which `subscribe()` overwrites.

* `Subscribe`, `SubscribeRefused`, `Unsubscribe`, `UnsubscribeAll` and
  `AbortSignal` are the callers' steps. Each is synchronous in the code, so it
  is one action, with all the listeners it sets off: `Swept` is the set of
  entries that are gone once aborting a controller has run the listeners on its
  signal, which unsubscribe again, and so on.
* `RequestAborted`, `CatchHandler`, `ThenHandler`, `ThenHandlerAfterCatch`,
  `ReadLine`, `ReadGarbage`, `FinishReading` are microtasks. The promise chain
  is `client.post(...).catch(...).then(...)`: the catch handler returns nothing,
  so the then handler runs after it with no response.
* `Respond`, `RequestFails`, `ChunkArrives`, `StreamStops` (network) and
  `FfTimer` are tasks, and so are only taken when no microtask is pending
  (`Idle`). Callers may act between any two microtasks, since their own code may
  run in one.

`Habits` says what callers do besides subscribing a handler once with an
options object of its own and a signal that is not aborted. Each habit costs
them something:

* `resubscribe`: the late cleanup, or the old signal, of a handler's first
  subscription ends its second one (the two runs that refute something).
* `shareOptions`: the first call leaves its controller's signal in the object, so
  the second call takes that for the caller's, and unsubscribing the first
  handler ends the second subscription.
* `abortedSignal`: a signal that is aborted already fires no event, and the
  request is not given it either, so the subscription is made and stays.

`PubsubRegistry` says what callers are
promised: a key has at most one live subscription, one that ends is ended
by its own caller or its own connection, and a connection that is over frees
its key. `PubsubRefinement` maps tracker entries to live subscriptions.

### HttpFetch

`Fetch` makes the combined signal (`anySignal`), which *listens* to the caller's
signal until the `finally` block of `fetch()` clears it. Native fetch is given
`opts.signal`, not the combined one, so `FetchAborted` looks at the caller's
signal. `ArmsTimer` is the condition of `lib/http.ts:131` as it stands. The
error handler reads the body of an answer that is not ok (`ThrowAnswered`), or
cannot (`ThrowUnread`). After `fetch()` has returned the body goes on:
`BodyStops`, `BodyAborts`. Native fetch itself (undici or a browser) is external.

### Ndjson

A body is a sequence of bytes of six kinds: any one-byte character, the two
bytes of a two-byte character, a line feed, white space, and a character that is
no JSON. `TakeChunk` decodes, appends, splits; `TakeLine` is one turn of the
inner loop, which may yield; `EndOfBody` flushes. The reference definition
(`Values`, `Text`, `Piece`) cuts the whole body at its line feeds and decodes each
piece by itself: it knows of no chunks and of no buffer.

### Multicodecs

`byName` and `byCode` are the two tables. A get that misses (`GetLoads`) awaits
its loader; when it resolves the get looks again under the key it was asked for
and adds what was loaded under the keys *of the codec* (`LoadAdds`,
`LoadClashes`, `LoadComesSecond`). Loaded codecs are new objects, told apart by
the get they were made for; whoever was handed one may add or remove it
(`AddCodec`, `RemoveCodec`). A loader brings the codec it was asked for, or one
that has neither name nor code, as that of `test/dag.spec.ts:87`: both tables
then hold it under `"undefined"`, row `Nameless`, and every later one is refused
(`LoadClashes`), while codecs with a name never are (`GetServed`).

`CodecRegistry` says what one would like to think of instead: *one set* of codecs,
no two alike in name or in code. Whoever asks, by either key, is given the one of
the set or loads one; adding refuses what is like a member, removing takes out
all that is like the given codec. `CodecRefinement` takes what the table of names
holds for the set. `OneRegistry` thus says that the table of codes is never
anything but another way to look it up; and that no codec in use is displaced
(`NeverDisplaced`, which has a theorem of its own and no run).

### AddAll

`op` is the `addAll` generator and `files` the generator `streamFiles`, which
native fetch pulls. `Peek` waits for the first entry before the request is made
(so that bad input fails early). If the source throws, `SourceFails`
aborts the combined signal and then the generator's `finally` writes the closing
boundary to nobody: what matters is that the connection is gone first. The
daemon answers, writes results, ends, fails after its head is out (an error in a
trailer) or disappears. `add()` is `addAll()` of one entry, and the others use
the same multipart request.

`Transfer` is what a caller is promised of this, without connections, combined
signals or buffered results: entries reach the daemon while the call runs and
nobody has aborted it (`Receive`), only a source that is whole is taken for whole
(`Accept`), a result is given for an entry that the daemon has (`Give`), and the call
ends for a reason (`MayEnd`): an error needs an abort, a refusal or loss, or a
source that failed after all its good entries have gone. `TransferRefinement` takes
for received what was written but for a part that breaks off, and for *trouble*
the end of the response or, before that, its status. Peeking, posting and the
results that the daemon has written but the caller has not are not seen.

### Multibases

The third registry is a different program. `AddBase` throws only if *both* the
name and the prefix are taken (`lib/multibases.ts:36`), so that a base with the
name of one and the prefix of none takes the name over; `LoadBase` looks again
under both keys of what was loaded, adds it only if both are free, and returns
it in any case, so a get never rejects because another one was faster.
`TablesAgree` is false here by design; `BasesKept` says what is left: only a
caller of `addBase` displaces anything, and only half of it.

### BrowserUpload

The browser's `multipartRequest` reads the whole source into a form
(`BufferForm`) and counts the bytes of each part. `Progress` is any progress
event of the XMLHttpRequest, with more bytes than the one before, the framing of
the form among them; `Report` is `createOnUploadProgress`, which gives the last
report of every part that was passed and one of the part in progress.
`computable = FALSE` is an electron renderer, where `lib/http/fetch.node.ts`
sends `total: 0` and the position is Infinity. `AbortForm` during `buffering`
changes nothing: `onabort` is set when the request is made.

### CommandTable and SearchParams

Each `create...()` function is one record: its endpoint, arguments, the
parameters it adds before or after the caller's options, its body, how it reads
the answer, and the few switches that make commands differ (`retries` of
`block.put`, `swallows` of `isOnline`, `return` of `pin.ls`, `last` of `add`,
`pin.add` and `pin.rm`). The groups are those of `createKuboRPCClient()`
(`client.ts:127`).

`SearchParams` has the three steps from a call to the wire: the spread of the
command's parameters and the caller's options (`Merged`), `toUrlSearchParams`,
and Client's `transformSearchParams`. Values are told apart by whether they are
there: `undefined`, `null`, a text, a timeout as a number or as a duration.

### Commands

One call, from its first statement to its end. `op` is where it waits: for the
next item of a source (`pulling`), the first entry of a body (`peeking`), to make
the request (`posting`), for the head (`waiting`) or for the body (`reading`).

* A command with a body posts with `anySignal` of its own controller and the
  caller's signal (`combined`, `listening`), the others with the caller's signal.
* The pin commands make one request per item; `gave` counts the values of the
  current response, and the run checks each in turn.
* `Fail` is what an error does: it ends the call, or makes `block.put` start
  over in the other format, or `isOnline` give false.
* `TakeBad`, `ReturnEarly` and `ConsumerStops` leave a loop in the middle. What
  becomes of the body is decided by `fromStream` (`LeaveBody`): a stream that is
  an async iterable is cancelled, as in Node; in a browser without those the
  generator's `finally` only gives back the reader's lock (`lib/http.ts:281`), and
  the body stays. `iterable` says which of the two platforms it is.
* The daemon answers, writes values, batches (a non-streaming answer to a command that
  expects a stream), lines that are no results, and lines whose mapping throws;
  it ends, fails in a trailer, which fetch does not show, or disappears.

### DagResolve, Ls, Conversions

`DagResolve` is the generator `resolve()` with its consumer: `first()` stops it
after one step, `last()` runs it to its end. `Named` is the reference: what a
path names, with links standing for what they point to. `FindsNode` compares the
two for every path and every pair of blocks in the bounds.

`Ls` has all promises of a line made before one is awaited (`MapLinks`), which
is what `links.map(mapLink)` does; `yield *` over them awaits each in turn.
Its stat requests go on after `ls` has ended: nobody tells them.

`Conversions` are functions over small sets of inputs, each applied once. A
thing is what the code's predicates (`isBytes`, `isBlob`, `isFileObject`,
`_readableState`, `Symbol.iterator in ...`) can tell of a value. What becomes of
one depends on what came first: an `fs.ReadStream` is a content if the first thing
is one, or in `add`; in other sources of `addAll` `toFileObject` finds its path and
no content (`Pathed`). `ConversionsKeep` names this loss as its exception
(`LostByAddAll`; section 6 says what happens). Mtimes are
computed with integers, with `Kilo` in place of 1000.

## 3. The runs

All passing runs end with the whole state space explored.

| Run | What it shows | Bounds (distinct states) |
|---|---|---|
| PubsubAnyCaller | `TrackerAgrees`: a key has one entry, and a call an entry exactly while its controller is not aborted and it is not over. `RejectedIsReleased`: a rejected promise means a free key. `SignalForwarded`, `AbortIsSilent`. All habits | 3 calls, 2 handlers, 1 topic, 1 signal, 1 options object, 1 line per chunk (705,833) |
| PubsubCareful | For callers that neither resubscribe nor share options objects: `ImplementsRegistry`, `Pubsub` implements `PubsubRegistry`, its fairness included; `OnlyOwnCauseEnds`, `EndIsReported`; and `PromiseSettles`, `AbortedEnds`, even if the daemon never answers | 2 calls, 2 handlers, 2 options objects, 1 signal, no symmetry (78,248). Two keys allow no third call to start |
| HttpFetch | `ResultFitsAnswer`, `ListenersReleased`, `AbortSettles`, `AbortEndsBody` | 2 requests that may share one of 2 signals (98,894) |
| Ndjson | `ChunkingIrrelevant`, `Prompt` | all bodies of up to 5 bytes of 6 kinds in all chunkings (141,150) |
| Registries | `TablesAgree`, `GetServed`, with loaders that may bring a codec without a name; `OneRegistry`: `Multicodecs` implements `CodecRegistry`; `BasesKept`, with loaders that bring any base that shares the key that was asked for | 4 gets, 3 rows; 3 gets, 2 names, 2 prefixes (233,321) |
| Uploads | `AcceptedIsWhole`, `DoneIsWhole`, `SignalReleased`, `SourceErrorThrows` in Node, and `ImplementsTransfer`: `AddAll` implements `Transfer`, its fairness included, so that an abort and every failure of the daemon or the network end the call; `ProgressFaithful` in a browser | up to 4 entries; up to 3 files of up to 2 bytes, 2 bytes of framing, every sequence of progress events (17,859) |
| Commands | `Released`, `DoneIsAnswered`, `OnlyFreshRequests`, `QueryFits`, `AbortSettles` for each of the 92 commands | up to 2 items of a source, 3 lines of an answer, 4 sets of options (568,044) |
| Reads | `FindsNode`, `EntriesInOrder`, `ConversionsKeep` | 2 blocks, maps nested twice with 1 key, paths of up to 3 parts of 3 kinds; listings of up to 2 lines of up to 2 links; iterables of up to 3 things; seconds of 64 nanoseconds (173,698) |

Four more runs each refute one statement that a comment, a document or a test
makes; `PROJECT.json` quotes it under `findings`.

| Run | Refuted | What happens |
|---|---|---|
| PubsubResubscribe | `OnlyOwnCauseEnds` | unsubscribe a handler and subscribe it again: the catch handler of the first call runs later, cleans up by (topic, handler), and ends the second |
| PubsubStaleSignal | `EndIsReported` | a subscription with a signal fails; the handler is subscribed again without one; the signal, aborted later, ends it, and nobody is told |
| ConfigSetNull | `ArgumentsArrive` | `config.set(key, null)`: the argument's text is `null`, `transformSearchParams` drops it, and what is left of the request reads the key instead of setting it |
| HttpTimeout | `GlobalTimeoutSettles` | the timer's condition is never true, and its signal would not reach native fetch |

### Why the bounds are enough

*Pubsub.* Every interference is between two calls (an old one's late cleanup and
a new one, or two that share a signal); a third call lets a chain of listeners
form and lets a key be used twice while a second one is live. Handlers are
compared for equality only and topics are never mixed, so two handlers of one
topic show what two topics would; with `UnsubscribeAll` more. One line per
chunk separates "between chunks" from "between lines". The bound `MaxLines` is
only on the lines of one chunk. The number of calls bounds a history, which is
the only unbounded thing. *HttpFetch.* Requests meet only on a signal.
*Ndjson.* Five bytes hold a two-byte character across a boundary, between two
lines, next to a carriage return. *Registries.* Two gets race for a row, one by
its name and one by its code; a third holds a codec to add or remove, a fourth
comes after. Names and codes of a row are model values; a get by name and one by
code of one row and another row are all it takes. A base is displaced by halves
with two names and two prefixes, and two loads overlap while a third base is
held. *Uploads.* `MaxEntries = 4` separates first, middle and last entries; the
peek concerns the first, failures the last. Three files give a first, a middle
and a last one, each of which may be empty, and a directory between them; with 2
bytes of framing the position lags behind the bytes that were sent. *Commands.*
Two items show what one leaves for the next; three lines a first, a middle and a
last one, or a batch between values. Commands share no state, so one call is
enough. *Reads.* Two blocks make cycles and diamonds; three parts lead through a
map, a link and a map inside the next block; two links of a line are answered
in both orders, and a second line follows. Three things are one before, at and
after the peeked one; with `Kilo = 4` every case of a boundary between seconds
is enumerated, negative times included. The proofs below lift the bounds of
all safety properties.

Deadlock is checked in the pubsub runs (an idle client can always unsubscribe).
In the others a run really stops once its requests, gets
or uploads are settled, and deadlock is not checked.

### Fairness

* Microtasks are drained by the engine: weak fairness of the microtasks of each
  call or request.
* The event loop serves a timer that is due between any two other tasks: strong
  fairness of `FfTimer`, which needs `Idle`, a state that a busy call leaves
  again and again. In `HttpFetch` time goes on: weak fairness of `Elapse`.
* A generator that can run runs: weak fairness of `Client` and `StreamFiles` in
  `AddAll`.
* A call of a command goes on: weak fairness of `Client` in `Commands`, that is,
  promises it awaits are served, its source answers and its results are taken.
  The caller's own steps (calling, aborting, leaving the loop) have none.
* Nothing is assumed of the network, the daemon or the callers.

## 4. Proofs

`tlapm` proves, for every value of the constants that the named assumptions
allow (they only keep the kinds of values apart):

| Theorem | Statement | Inductive invariant |
|---|---|---|
| `PubsubProofs!TypeCorrect` | `Spec => []TypeOK` | itself |
| `PubsubProofs!TrackerCorrect` | `Spec => []TrackerAgrees` | `TrackerInv`: also, an entry's key is that of the call that owns it, and a call that was not started has no entry |
| `PubsubProofs!RejectedCorrect` | `Spec => []RejectedIsReleased` | `TrackerInv`, and a rejected call is refused or past its catch handler |
| `PubsubProofs!SignalCorrect` | `Spec => SignalForwarded` | `TrackerInv` and `ListenedTo`: a live subscription is listened to on the signal it was made with |
| `PubsubProofs!SilentCorrect` | `Spec => AbortIsSilent` | `TypeOK` |
| `PubsubProofs!CarefulCorrect` | `OnlyOwnCauseEnds` if `Habits` allows neither resubscribing nor sharing options | `CarefulInv`: a key belongs to one call ever, and each listener to the one call that made it |
| `PubsubProofs!ReportedCorrect` | `[]EndIsReported` for the same callers | `ReportInv`: also, which promises and timers go with which handler (`Told`), and a controller its caller did not abort is aborted by the end of its own call only (`AbortedByOwner`) |
| `PubsubProofs!RegistryImplemented` | for the same callers, the client implements the initial states and steps of `PubsubRegistry` | `RefinementInv`: `TrackerInv`, `CarefulInv`, `ListenedTo`, and no call is given another call's controller (`OwnSignals`) |
| `HttpFetchProofs!TypeCorrect`, `ListenersCorrect`, `ResultCorrect` | `TypeOK`, `ListenersReleased`, `ResultFitsAnswer` | `ResultInv`: also which answers, results and stages go together (`Progress`) |
| `HttpFetchProofs!TimerNeverArmed` | `[]OnlyCallersAborts`: no request ever has a timer, whatever the timeout, and a combined signal is aborted by its caller or not at all | itself, with `ResultInv`: a request that was not sent does not listen |
| `NdjsonProofs!TypeCorrect`, `ChunkingCorrect`, `PromptCorrect` | `TypeOK`, `ChunkingIrrelevant`, `Prompt` for bodies of any length in any chunks | `IInv`: the decoder and the buffer hold what the bytes of the incomplete line give when they are decoded in one go (`OnLine`), the values up to some line end are yielded, and the lines that wait are those from there to the last byte read (`Settled`, `Pending`) |
| `RegistriesProofs!TablesCorrect`, `NeverDisplacedCorrect`, `ServedCorrect` | `TablesAgree`, `NeverDisplaced`, `GetServed` | `RegistryInv`: also, every codec is a row of the multicodec table, which is what makes the two deletions of a removal agree |
| `RegistriesProofs!TypesCorrect`, `BasesCorrect` | `TypesOK`, `BasesKept` of both registries side by side | `ClientInv`: `RegistryInv`, and a base stands under its own name and its own prefix (`UnderOwnKeys`) |
| `RegistriesProofs!OneRegistryCorrect` | `RegistriesSpec => OneRegistry`, the whole refinement, which has no fairness | `ClientInv`, and a get that is out was given a key (`KeyGiven`) |
| `UploadsProofs!TypeCorrect`, `AcceptedCorrect` | `TypeOK`, `AcceptedIsWhole` for sources of any length | `UploadInv`: also, while the connection is open the combined signal can still hang up (`CanHangUp`), and what was sent is a prefix of the source (`InOrder`) |
| `UploadsProofs!DoneCorrect`, `SignalCorrect` | `DoneIsWhole`, `SignalReleased` | `UploadInv` and `EndsWhole`: a body that ended whole has a result for every part, and addAll gives none after its end |
| `UploadsProofs!TransferImplemented` | the initial states and steps of `AddAll` are those of `Transfer`, for sources of any length | the same and `Reasons`: an abort reaches the combined signal while the call lives and a combined signal that is aborted was so by the caller or by the source, a source that failed has sent all its good entries and has no connection, and results follow their entries |
| `UploadsProofs!ProgressCorrect` | `UploadsSpec => []ProgressFaithful` for forms of any files and any progress events | `XhrInv`: the parts are a chain whose end is the total (`Chain`), the reports say no more than was sent and follow one another (`Steady`), and the last one is of the part in progress, up to the position (`UpToDate`) |
| `CommandsProofs!TypeCorrect`, `ReleasedCorrect`, `DoneCorrect` | `TypeOK`, `Released`, `DoneIsAnswered` for every command, number of items and number of lines | `IInv`: which places a call can be at (`Places`), when it has a connection (`Hung`), that what it gave and what is due are the values of the lines taken (`Tally`), how far its requests are (`Asked`), that a source that throws is found out (`Thrown`), what a call that is done has read (`Answered`), and that an abort reached an upload or will (`Told`) |
| `CommandsProofs!FreshCorrect` | `Spec => OnlyFreshRequests` | `IInv` and `Fresh`: the requests that went out are for earlier items, or the first try in the other format |
| `CommandsProofs!ParametersCorrect` | every query fits its options (`ParametersFit`) | its own statement, with the types |
| `CommandsProofs!QueryCorrect` | `[]QueryFits` if no argument can read `null` or `undefined` (`Wordy = {}`, as in the run) | the same and `Complete`: a query without such a word holds the arguments of its call |
| `ReadsProofs!TypeCorrect` | `Spec => []TypeOK` for listings, paths and conversions | `IInv`: `WalkInv`, `LsInv`, and a conversion has not begun or has the result of the code's function for its input (`Converts`) |
| `ReadsProofs!EntriesCorrect` | `[]EntriesInOrder` for listings of any length | `LsInv`: the entries are the links of the lines before and those of this line up to the one that is awaited, whose promises are fulfilled (`Given`) |
| `ReadsProofs!ConversionsCorrect` | `[]ConversionsKeep`, its exceptions included, for inputs of any length, any times and events | `Converts`; the work is in the lemmas about `Each` and `AllInOne` |
| `ReadsProofs!FoundCorrect` | `[]FindsNode` for any blocks and paths of any length | `WalkInv`: from where the walk is, the parts that are left name what the whole path names (`OnTheWay`) |

*Pubsub.* Every step is either a subscription
or *moves*: it drops a set of entries together with their controllers
(`Drops`), and a call that becomes final has no entry outside that set. A second family of
lemmas is about `Swept`, the least closed set: it contains what was to be
removed, is closed, and for careful callers, whose controllers nobody listens
to, is nothing more. The refinement is proved action by action: each step of the
client is a `PubsubRegistry` step, or changes neither the live subscriptions nor
the connections that are over.

*Ndjson.* A byte more is one step more of the decoder and of the split
(`DecodeSteps`, `SplitSteps`), and it does to the end of the text what it does to
the line it belongs to (`ByteSplits`): this is why a chunk may begin inside a
character. `ChunkSplits` follows by induction on the length of the chunk. A line
feed completes a line and leaves the decoder as it was at the start, which is why
the reference may decode each line by itself.

*Registries.* `LookupIsUnder` says that either table finds what the set has under
a key, `FreeIsNotTaken` that the two tests of `addCodec` are the one of the set,
`RemoveIsMinus` that two deletions take out one codec. All three need that codecs
are rows of the multicodec table: with a codec whose code is that of another name
a removal would leave half an entry, and the refinement would fail.

*Transfer.* One lemma per kind of step, of the caller, of the generator while it
works, throws or is done, of the source and of the network. What takes the effort
is that an error has its reason (`ThrowRefines`): the abort a generator finds
may be that of the source, and then the last good entry must have gone, which
`SourceFailsWhole` shows for both ways in which a source fails.

*Conversions.* An iterable is cut into files by one function by recursion over its
places (`Each`), or is one file (`AllInOne`). That the contents of the files, one after
another, are the places of the input up to the first thing that is no good, without
the things that have no content there, is an
induction over how many things were looked at (`EachKeeps`), with the contents of
one file more (`ContentsIsLast`) on one side and one place more of the filter
(`KeptGrows`) on the other. Times are an exercise in division with remainder: a
`Date` and a bigint from 1970 on are never refused (`MillisFit`, `Remainder`).

*Commands.* The 92 rows of `KuboRPCClient` are looked at once, in the lemma
`TableFits`: each fits one pattern (`Fits`) that says which columns go together,
such as that a command that retries has a body of bytes and is read at once. The
proofs about steps use the pattern and no row.

*Induction over data.* The induction schemes of the library take an operator,
which no prover here can instantiate. `InductionProofs` proves induction over a
*set* of naturals instead (`SetInduction`), from the well-foundedness of `<`, and
from it that a function by recursion over the places of a sequence exists
(`Recursion`) and what `Without` gives. With these the recursive functions
`LinksOf`, `Named`, `PartsOf`, `Contents` and `Positions`, the references of four properties,
are unfolded for sequences of any length, and so are `Decode`, `SplitLines` and `Values` of `Ndjson`, where
`SameSteps` says that two functions agree that begin and go on alike.

*Positions.* `ProgressCorrect` needs some integer division (`Shares`): the position
grows with the bytes sent, never exceeds their share of the total, and is the
total in the end. Two facts follow that a test would hardly show: an empty file
at a position is passed together with the one before it, and of two events in a
part the later one never tells less, although both are rounded.

## 5. What is only model-checked

* Liveness: `PromiseSettles`, `AbortedEnds`, `AbortSettles`, `AbortEndsBody`,
  `SourceErrorThrows`, and the fairness of `PubsubRegistry` in
  `ImplementsRegistry` and of `Transfer` in `ImplementsTransfer`. These are beyond
  the prover, which has no rules for fairness and ENABLED.

Every safety property of a passing run is proved.

## 6. Abstractions, and what is not modelled

* A message is a line: fields of messages and results are not modelled, and
  lines that are skipped, handed over or reported through `onError(err, false)`
  are one action. Handlers and `onError` are taken not to throw.
* The mapping of a result (camel case, CIDs, multiaddrs) is a value or, if it
  throws, a bad line.
* URLs and headers are left out of `HttpFetch`; so are `basicAuth`, redirects
  and the debug log.
* When a signal given to native fetch is aborted the connection is hung up at
  once and fetch rejects, or its body errors, a microtask later. This and the
  daemon's behaviour are external and marked so in `PROJECT.json`.
* `DagResolve` gives maps the keys they have; a string has none, although
  JavaScript finds `length` and indices in one.
* In `Ls` an abort of the caller's signal is a listing that is lost.

Not modelled, and why:

* `lib/agent.ts`, `get-endpoint-config.ts`: constants of the client.
* `index.ts`, `lib/errors.ts` and the interfaces in the `index.ts` of each group:
  types and their documentation.
* `lib/glob-source.ts`: a walk over a file system by a library.
* `lib/files/format-mode.ts`, `format-mtime.ts`, `lib/mode-to-string.ts`,
  `lib/object-to-camel*.ts`, `lib/http-rpc-wire-format.ts`,
  `lib/to-url-string.ts`, `normalizeOptions` of `lib/core.ts`: conversions of
  single values without state, whose inputs are texts.
* Two browser uploads with one signal: `onabort` is one slot, and the later
  upload takes it from the earlier one.
* The branch of `fromStream` for streams of node-fetch, which native fetch does
  not return, and `fetch.rn.ts`.

### What else the code does

Met while modelling, without a run of their own:

* `lib/files/utils.ts:86`: the milliseconds of a `Date` are multiplied by 1000
  and sent as nanoseconds; `TimeKept` therefore speaks of its seconds only.
* `lib/to-url-search-params.ts`: `headers` in the options is sent as a parameter
  as well; `QueryFits` counts it among the options.
* `searchParams` given as a `URLSearchParams` in the options spreads to nothing.
* `lib/files/normalise-candidate-multiple.ts:71`: after a first chunk of bytes,
  what is no bytes or text is converted with `toString()`; `garbled` of
  `Conversions` marks the contents that this can happen to.
* `lib/files/normalise-candidate-multiple.ts:82`: an `fs.ReadStream` that follows a
  text, a Blob, an iterable or a file object in the source of `addAll` goes to
  `toFileObject` as it is. It has a path and no content property, so that an empty
  entry is uploaded under its path, and nobody is told. The comment at line 66 says
  of such streams that "we need to pass it as the content", but only a source whose
  first element is one gets that. Content is lost in no other way:
  `ConversionsKeep` has this as its exception, `LostByAddAll`; without the exception
  TLC refutes it with `addAll` of a directory and a stream.
* `ls.ts:68`: a stat request that rejects before its promise is awaited is an
  unhandled rejection; the stat requests get neither the signal nor the headers.
* `dag/get.ts:15`: with `localResolve` the walk ends after the first part of the
  path, even if the block holds the rest; `FindsNode` only asks that the rest
  lead on from there.
* `dht/map-event.ts:44`: the peer ID of a FINAL_PEER event without responses
  stays a string; and if the event has no ID at all it throws, before it looks at
  the responses, although the peer may be the first of them. `PeersKept` names this
  as its exception.
* `lib/files/utils.ts:92`: a bigint before 1970 is divided towards zero, so that its
  nanoseconds are negative and it is refused, unless it is a whole second.
* `lib/http/fetch.browser.ts:33`: an abort while the form is being read is lost.
* `pin/remote/rm.ts`, `rm-all.ts`, `service/add.ts` and `service/rm.ts` never read
  their answer, which keeps its body open.

## 7. Plan

The modules of the plan are written, every safety property of a passing run is
proved, and three components are shown to implement an abstract promise. What
would come next:

1. An abstract call that the 92 commands of `Commands` implement, as addAll does
   `Transfer`.
2. Two browser uploads that share a signal, which need `BrowserUpload` with more
   than one upload and the one slot `onabort`.
