------------------------------ MODULE Conversions ------------------------------
(***************************************************************************)
(* What the client makes of inputs of many shapes: the entries of add()    *)
(* and addAll(), the items of pin.addAll() and pin.rmAll(), mtimes, and    *)
(* the routing events the daemon sends.                                    *)
(*                                                                         *)
(* A thing is told apart by what the code asks of it: bytes, text, a blob, *)
(* a readable (fs.ReadStream), a nested iterable of bytes, a file object,  *)
(* one whose content is no content, a path without content, an integer, a  *)
(* fraction, any other object, null.  An input is one of them or an        *)
(* iterable or browser stream of some.                                     *)
(***************************************************************************)
EXTENDS Integers, Sequences, Without

CONSTANTS
  MaxThings,   \* most things of an iterable
  Kilo         \* milliseconds of a second, and so on down: 1000

ASSUME ConversionsAssumption == MaxThings \in Nat /\ Kilo \in Nat \ {0, 1}

Things   == {"bytes", "text", "blob", "readable", "chunks", "file", "bad file", "path",
             "integer", "fraction", "object", "null"}
PinThings == {"cid", "text", "pinnable", "object"}

One(t)  == [one |-> TRUE, of |-> <<t>>]
Many(s) == [one |-> FALSE, of |-> s]
InputsOf(T) == {One(t) : t \in T} \cup {Many(s) : s \in UNION {[1..n -> T] : n \in 0..MaxThings}}

-----------------------------------------------------------------------------
(* Entries.  A file is the positions in the input of the things its        *)
(* content consists of, none for a path; garbled is a content into which   *)
(* went what is no content, as a text or a number.                         *)

Outcome(files, garbled, thrown) == [files |-> files, garbled |-> garbled, thrown |-> thrown]
Refused == Outcome(<<>>, FALSE, TRUE)

\* What normaliseContent takes, and what toFileObject does: an entry with a path and
\* no content property has no content, be it a directory or an fs.ReadStream.
Content == {"bytes", "text", "blob", "readable", "chunks"}
Entry   == Content \cup {"file", "path"}
Pathed  == {"path", "readable"}

\* One entry for each thing, up to the first that is none; the bare ones are empty.
Each(things, kinds, bare) ==
  LET good == {i \in 1..Len(things) : \A j \in 1..i : things[j] \in kinds}
  IN Outcome([i \in good |-> IF things[i] \in bare THEN <<>> ELSE <<i>>], FALSE,
             good # 1..Len(things))

\* Mutant: the thing that was peeked at is not pushed back.
AllButPeeked(things) ==
  IF things = <<>> THEN Outcome(<< <<>> >>, FALSE, FALSE)
  ELSE IF Head(things) \notin {"integer", "bytes", "text"} THEN Refused
  ELSE Outcome(<<[i \in 1..Len(things) - 1 |-> i + 1]>>, FALSE, FALSE)

\* All things become one content, as the first one says: numbers are bytes,
\* and what follows bytes or text is converted with toString().
AllInOne(things) ==
  LET fits == IF Head(things) = "integer" THEN {"integer"} ELSE {"bytes", "text"}
      Has(t) == \E i \in 1..Len(things) : things[i] = t
  IN IF things = <<>> THEN Outcome(<< <<>> >>, FALSE, FALSE)
     ELSE IF Head(things) \notin {"integer", "bytes", "text"} THEN Refused
     ELSE Outcome(<<[i \in 1..Len(things) |-> i]>>,
                  \E i \in 1..Len(things) : things[i] \notin fits,
                  Head(things) # "integer" /\ Has("null"))

\* addAll takes no single things; a readable is one of those, too.  Only if the first
\* thing is a readable is each made the content of an entry before toFileObject sees it.
NormaliseMultiple(input) ==
  LET things == input.of
  IN IF input.one THEN Refused
     ELSE IF things = <<>> THEN Outcome(<<>>, FALSE, FALSE)
     ELSE CASE Head(things) = "readable" -> Each(things, Content, {})
            [] Head(things) = "bytes"    -> AllInOne(things)
            [] Head(things) \in {"text", "blob", "chunks", "file", "bad file", "path"} ->
                 Each(things, Entry, Pathed)
            [] OTHER -> Refused

\* add takes one thing, or the chunks of one; a readable is taken for its chunks.
NormaliseSingle(input) ==
  IF input.one THEN Each(input.of, Entry, {"path"}) ELSE AllInOne(input.of)

-----------------------------------------------------------------------------
(* Pins: a CID, a path, an object with one of them, or an iterable.        *)

Pinnable == {"cid", "text", "pinnable"}

NormalisePins(input) == Each(input.of, Pinnable, {})

-----------------------------------------------------------------------------
(* Modification times, in the forms that add() and files.write() take.     *)

NanosOfSecond == Kilo * Kilo * Kilo

\* {secs, nsecs}, a UnixFS TimeSpec and process.hrtime() as "pair"; "other" is an
\* object without secs.
Mtimes ==
  [form : {"none", "other"}]
  \cup [form : {"pair"}, secs : -1..1, nsecs : {-1, 0, 1, NanosOfSecond - 1, NanosOfSecond}]
  \cup [form : {"date"}, ms : -2 * Kilo..2 * Kilo]
  \cup [form : {"bigint"}, ns : -NanosOfSecond..2 * NanosOfSecond]

\* Division of bigints, towards zero.
Quotient(a, b) == IF a < 0 THEN -((-a) \div b) ELSE a \div b

Mtime(m) ==
  CASE m.form = "pair"   -> [secs |-> m.secs, nsecs |-> m.nsecs]
    [] m.form = "date"   -> LET secs == m.ms \div Kilo
                            IN [secs |-> secs, nsecs |-> (m.ms - secs * Kilo) * Kilo]
    [] m.form = "bigint" -> LET secs == Quotient(m.ns, NanosOfSecond)
                            IN [secs |-> secs, nsecs |-> m.ns - secs * NanosOfSecond]

\* Nothing, a time, or an error.
ParseMtime(m) ==
  LET fits == Mtime(m).nsecs \in 0..NanosOfSecond - 1
  IN IF m.form \in {"none", "other"} THEN [thrown |-> FALSE, times |-> {}]
     ELSE [thrown |-> ~fits, times |-> IF fits THEN {Mtime(m)} ELSE {}]

-----------------------------------------------------------------------------
(* Routing events.  Peers are counted: the one of the event's own ID is 0, *)
(* those of its responses follow.                                          *)

EventTypes == {"SENDING_QUERY", "PEER_RESPONSE", "FINAL_PEER", "QUERY_ERROR", "PROVIDER",
               "VALUE", "ADDING_PEER", "DIALING_PEER", "unknown"}

\* responses: how many, -1 if the field is missing.
Events == [type : EventTypes, id : BOOLEAN, responses : -1..2]

Mapped(peers) == [thrown |-> FALSE, peers |-> peers]
Unmapped      == [thrown |-> TRUE, peers |-> {}]

MapEvent(event) ==
  LET own       == IF event.id THEN Mapped({0}) ELSE Unmapped
      responses == IF event.responses = -1 THEN Unmapped ELSE Mapped(1..event.responses)
  IN CASE event.type \in {"SENDING_QUERY", "QUERY_ERROR", "VALUE"} -> Mapped({})
       [] event.type = "PEER_RESPONSE" ->
            IF event.id THEN Mapped({0} \cup 1..event.responses) ELSE Unmapped
       [] event.type = "FINAL_PEER" ->
            IF ~event.id THEN Unmapped
            ELSE IF event.responses > 0 THEN Mapped({1}) ELSE own
       [] event.type = "PROVIDER" -> responses
       [] event.type = "ADDING_PEER" -> IF event.responses > 0 THEN Mapped({1}) ELSE Unmapped
       [] event.type = "DIALING_PEER" -> own
       [] OTHER -> Unmapped

-----------------------------------------------------------------------------
(* One conversion.                                                         *)

VARIABLES
  conversion,   \* "unused", or what is converted
  input,
  output        \* <<>> before the conversion

convertVars == <<conversion, input, output>>

ConvertInit ==
  /\ output = <<>>
  /\ \/ conversion \in {"add", "addAll"} /\ input \in InputsOf(Things) \ {One("chunks")}
     \/ conversion = "pins"   /\ input \in InputsOf(PinThings)
     \/ conversion = "mtime"  /\ input \in Mtimes
     \/ conversion = "events" /\ input \in Events

Convert ==
  /\ conversion # "unused" /\ output = <<>>
  /\ output' = CASE conversion = "add"    -> <<NormaliseSingle(input)>>
                 [] conversion = "addAll" -> <<NormaliseMultiple(input)>>
                 [] conversion = "pins"   -> <<NormalisePins(input)>>
                 [] conversion = "mtime"  -> <<ParseMtime(input)>>
                 [] conversion = "events" -> <<MapEvent(input)>>
  /\ UNCHANGED <<conversion, input>>

-----------------------------------------------------------------------------

\* The contents of the files, one after the other.
Contents(files) ==
  LET Upto[i \in 0..Len(files)] == IF i = 0 THEN <<>> ELSE Upto[i - 1] \o files[i]
  IN Upto[Len(files)]

\* The places of all things but the bare ones.
Positions(things, bare) ==
  LET Places == 1..Len(things)
  IN Without([i \in Places |-> i], {i \in Places : things[i] \in bare})

\* Everything up to an error goes into the entries, once and in order, however
\* they are cut; and only an iterable of different things is garbled.
ThingsKept(things, bare, outcome) ==
  LET got == Contents(outcome.files)
      all == IF outcome.garbled THEN [i \in 1..Len(things) |-> i] ELSE Positions(things, bare)
  IN /\ \E n \in 0..Len(all) : got = SubSeq(all, 1, n)
     /\ ~outcome.thrown => got = all
     /\ outcome.garbled => \E i, j \in 1..Len(things) : things[i] # things[j]

\* The exception: addAll loses the content of an fs.ReadStream, of which it
\* takes the path, unless the first thing is such a stream, too.
LostByAddAll(things) ==
  IF things # <<>> /\ Head(things) # "readable" THEN {"readable"} ELSE {}

\* The things that arrive without a content: directories, and that exception.
BareOf(things) ==
  {"path"} \cup (IF conversion = "addAll" THEN LostByAddAll(things) ELSE {})

\* A time is one the daemon takes, and the given one: all of it, but for a Date
\* only its second, since its milliseconds are scaled to microseconds.  It is
\* there unless none was given, and refused only if its nanoseconds are no part of
\* a second or a bigint lies before 1970.
TimeKept(m, result) ==
  /\ \A t \in result.times :
       /\ t.nsecs \in 0..NanosOfSecond - 1
       /\ m.form = "pair" => t = [secs |-> m.secs, nsecs |-> m.nsecs]
       /\ m.form = "bigint" => t.secs * NanosOfSecond + t.nsecs = m.ns
       /\ m.form = "date" => t.secs = m.ms \div Kilo
  /\ result.times = {} /\ m.form \notin {"none", "other"} => result.thrown
  /\ result.thrown =>
       \/ m.form = "pair" /\ m.nsecs \notin 0..NanosOfSecond - 1
       \/ m.form = "bigint" /\ m.ns < 0

\* The peers an event is about: a final peer is the first of the responses if it was
\* looked for (dht.findPeer), and the event's own if it ends a query (dht.query).
PeersOf(event) ==
  CASE event.type = "PEER_RESPONSE" -> {0} \cup 1..event.responses
    [] event.type = "FINAL_PEER"    -> IF event.responses > 0 THEN {1} ELSE {0}
    [] event.type = "PROVIDER"      -> 1..event.responses
    [] event.type = "ADDING_PEER"   -> {1}
    [] event.type = "DIALING_PEER"  -> {0}
    [] OTHER                        -> {}

\* The peers that came with it.
PeersIn(event) == (IF event.id THEN {0} ELSE {}) \cup 1..event.responses

\* An event is given with all peers it is about and no other.  It is refused only
\* if it is unknown, one of them or the list of providers is missing, or, the
\* exception, a final peer is among the responses but the event has no ID.
PeersKept(event, result) ==
  /\ ~result.thrown => result.peers = PeersOf(event) /\ result.peers \subseteq PeersIn(event)
  /\ result.thrown =>
       \/ event.type = "unknown"
       \/ ~(PeersOf(event) \subseteq PeersIn(event))
       \/ event.type = "PROVIDER" /\ event.responses = -1
       \/ event.type = "FINAL_PEER" /\ ~event.id

\* No conversion repeats or makes up anything of an input it accepts, and none
\* loses anything of it but what LostByAddAll names.
ConversionsKeep ==
  output # <<>> =>
    CASE conversion \in {"add", "addAll", "pins"} ->
           ThingsKept(input.of, BareOf(input.of), output[1])
      [] conversion = "mtime"  -> TimeKept(input, output[1])
      [] conversion = "events" -> PeersKept(input, output[1])
=============================================================================
