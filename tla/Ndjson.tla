------------------------------- MODULE Ndjson -------------------------------
(***************************************************************************)
(* The ndjson() generator of lib/http.ts: a response body that arrives in  *)
(* arbitrary chunks of bytes is decoded, cut into lines and parsed, one    *)
(* value for each line.                                                    *)
(*                                                                         *)
(* A byte is "v" (any one-byte character), "L" and "T" (lead and trail of  *)
(* a two-byte character "m"), "n" (line feed), "r" (carriage return or     *)
(* other white space) or "b" (a character that makes JSON.parse throw).    *)
(* The decoder turns a lead or trail byte without its partner into "?".    *)
(***************************************************************************)
EXTENDS Naturals, Sequences

CONSTANTS Bytes, MaxLength

ASSUME NdjsonAssumption ==
  /\ Bytes \subseteq {"v", "L", "T", "n", "r", "b"}
  /\ MaxLength \in Nat

Chars == {"v", "m", "n", "r", "b", "?"}
Line  == Seq(Chars \ {"n"})
Value == Seq(Chars \ {"n", "b"})

VARIABLES
  doc,       \* history: the whole body
  received,  \* how many of its bytes were read
  lead,      \* the decoder holds back a lead byte
  buf,       \* the text after the last line feed
  todo,      \* lines of the current chunk that are not parsed yet
  out,       \* the values that were yielded, as their text
  status     \* what the generator is doing

vars == <<doc, received, lead, buf, todo, out, status>>

Bodies == UNION {[1..n -> Bytes] : n \in 0..MaxLength}

\* The types of the reader's variables: no line feed is left in a line, and what
\* was yielded is JSON.
TypeOK ==
  /\ doc \in Bodies
  /\ received \in 0..Len(doc)
  /\ lead \in BOOLEAN
  /\ buf \in Line
  /\ todo \in Seq(Line)
  /\ out \in Seq(Value)
  /\ status \in {"pull", "yield", "done", "failed", "broken", "stopped"}

Init ==
  /\ doc \in Bodies
  /\ received = 0
  /\ lead = FALSE
  /\ buf = <<>>
  /\ todo = <<>>
  /\ out = <<>>
  /\ status = "pull"

-----------------------------------------------------------------------------

\* TextDecoder on one more byte, in stream mode.
DecodeByte(acc, byte) ==
  LET held == IF acc.lead THEN Append(acc.text, "?") ELSE acc.text IN
  CASE byte = "T" -> [lead |-> FALSE, text |-> Append(acc.text, IF acc.lead THEN "m" ELSE "?")]
    [] byte = "L" -> [lead |-> TRUE, text |-> held]
    [] OTHER      -> [lead |-> FALSE, text |-> Append(held, byte)]

Decode(held, bytes) ==
  LET After[i \in 0..Len(bytes)] ==
        IF i = 0 THEN [lead |-> held, text |-> <<>>] ELSE DecodeByte(After[i - 1], bytes[i])
  IN After[Len(bytes)]

\* decoder.decode() at the end: a byte held back becomes a replacement.
FlushDecoder(held) == IF held THEN <<"?">> ELSE <<>>

\* One more character of a text that is split.
SplitChar(acc, ch) ==
  IF ch = "n" THEN [lines |-> Append(acc.lines, acc.rest), rest |-> <<>>]
  ELSE [lines |-> acc.lines, rest |-> Append(acc.rest, ch)]

\* text.split(/\r?\n/): the lines that are complete, and what follows the last
\* line feed; the carriage return is trimmed off the line later.
SplitLines(text) ==
  LET Upto[i \in 0..Len(text)] ==
        IF i = 0 THEN [lines |-> <<>>, rest |-> <<>>] ELSE SplitChar(Upto[i - 1], text[i])
  IN Upto[Len(text)]

Trim(line) ==
  LET solid == {i \in 1..Len(line) : line[i] # "r"} IN
  IF solid = {} THEN <<>>
  ELSE SubSeq(line, CHOOSE i \in solid : \A j \in solid : i <= j,
                    CHOOSE i \in solid : \A j \in solid : j <= i)

\* JSON.parse accepts the line.
Parses(line) == \A i \in 1..Len(line) : line[i] # "b"

\* Mutant: every chunk is decoded by itself.
TakeAlone(n) ==
  LET bytes == SubSeq(doc, received + 1, received + n)
      split == SplitLines(buf \o Decode(FALSE, bytes).text \o
                          FlushDecoder(Decode(FALSE, bytes).lead)) IN
  /\ status = "pull"
  /\ received' = received + n
  /\ lead' = FALSE
  /\ todo' = split.lines
  /\ buf' = split.rest
  /\ status' = IF split.lines # <<>> THEN "yield" ELSE "pull"
  /\ UNCHANGED <<doc, out>>

\* Mutant: the rest of the chunk is not made the new buffer.
TakeKeepsText(n) ==
  LET decoded == Decode(lead, SubSeq(doc, received + 1, received + n))
      split   == SplitLines(buf \o decoded.text) IN
  /\ status = "pull"
  /\ received' = received + n
  /\ lead' = decoded.lead
  /\ todo' = split.lines
  /\ buf' = buf \o decoded.text
  /\ status' = IF split.lines # <<>> THEN "yield" ELSE "pull"
  /\ UNCHANGED <<doc, out>>

\* Mutant: the last complete line waits for the chunk after it.
TakeHoldsBack(n) ==
  LET decoded == Decode(lead, SubSeq(doc, received + 1, received + n))
      split   == SplitLines(buf \o decoded.text) IN
  /\ status = "pull"
  /\ received' = received + n
  /\ lead' = decoded.lead
  /\ todo' = IF split.rest = <<>> THEN <<>> ELSE split.lines
  /\ buf' = split.rest
  /\ status' = IF todo' # <<>> THEN "yield" ELSE "pull"
  /\ UNCHANGED <<doc, out>>

\* The next chunk, of n bytes: decode, append to buf, split; what follows the
\* last line feed is the new buf.
TakeChunk(n) ==
  LET decoded == Decode(lead, SubSeq(doc, received + 1, received + n))
      split   == SplitLines(buf \o decoded.text) IN
  /\ status = "pull"
  /\ received' = received + n
  /\ lead' = decoded.lead
  /\ todo' = split.lines
  /\ buf' = split.rest
  /\ status' = IF split.lines # <<>> THEN "yield" ELSE "pull"
  /\ UNCHANGED <<doc, out>>

\* One turn of the loop over the lines: skip a blank one, yield the value of
\* another; if JSON.parse throws, the generator is finished.
TakeLine ==
  LET line == Trim(Head(todo)) IN
  /\ status = "yield"
  /\ todo' = Tail(todo)
  /\ IF Parses(line)
     THEN /\ out' = IF line = <<>> THEN out ELSE Append(out, line)
          /\ status' = IF Len(todo) > 1 THEN "yield" ELSE "pull"
     ELSE status' = "failed" /\ UNCHANGED out
  /\ UNCHANGED <<doc, received, lead, buf>>

\* The body ended: what is left in the decoder and in buf is the last line.
EndOfBody ==
  LET line == Trim(buf \o FlushDecoder(lead)) IN
  /\ status = "pull" /\ received = Len(doc)
  /\ IF Parses(line)
     THEN /\ out' = IF line = <<>> THEN out ELSE Append(out, line)
          /\ status' = "done"
     ELSE status' = "failed" /\ UNCHANGED out
  /\ UNCHANGED <<doc, received, lead, buf, todo>>

\* The body breaks off (lost connection, abort): the source throws.
BodyBreaks ==
  /\ status = "pull"
  /\ status' = "broken"
  /\ UNCHANGED <<doc, received, lead, buf, todo, out>>

\* The consumer breaks out of its loop after a value.
ConsumerStops ==
  /\ status \in {"pull", "yield"} /\ out # <<>>
  /\ status' = "stopped"
  /\ UNCHANGED <<doc, received, lead, buf, todo, out>>

Next ==
  \/ \E n \in 1..(Len(doc) - received) : TakeChunk(n)
  \/ TakeLine \/ EndOfBody \/ BodyBreaks \/ ConsumerStops

Spec == Init /\ [][Next]_vars

-----------------------------------------------------------------------------
(* What the generator computes, said of the whole body at once.            *)

\* A line ends at a line feed, the last one after the last byte.
EndsLine(i) == i = Len(doc) + 1 \/ doc[i] = "n"

\* The line feed before the i-th byte, 0 if there is none.
FeedBefore(i) == CHOOSE k \in 0..i - 1 : /\ k = 0 \/ doc[k] = "n"
                                        /\ \A j \in k + 1..i - 1 : doc[j] # "n"

\* The bytes of the line that ends at the i-th byte, decoded in one go and trimmed.
Piece(i)    == SubSeq(doc, FeedBefore(i) + 1, i - 1)
Whole(bytes) == Decode(FALSE, bytes).text \o FlushDecoder(Decode(FALSE, bytes).lead)
Text(i)     == Trim(Whole(Piece(i)))

\* Every line that ends up to the i-th byte is JSON.
Valid(i) == \A j \in 1..i : EndsLine(j) => Parses(Text(j))

\* The values of the lines that end up to each byte: the texts of those that are
\* not blank, up to the first that is no JSON.
Values ==
  LET Upto[i \in 0..Len(doc) + 1] ==
        IF i = 0 THEN <<>>
        ELSE IF EndsLine(i) /\ Valid(i) /\ Text(i) # <<>> THEN Append(Upto[i - 1], Text(i))
        ELSE Upto[i - 1]
  IN Upto

\* However the body was cut into chunks, even inside a character or between
\* the two characters of a line end, the generator yields the value of every
\* line of it, in order, and fails only at a line that is no JSON.
ChunkingIrrelevant ==
  status \in {"done", "failed"} =>
    /\ out = Values[Len(doc) + 1]
    /\ status = "done" <=> Valid(Len(doc) + 1)

\* No value waits for bytes it does not need: when the generator asks for more,
\* or is cut off, it has yielded every line that is complete and nothing of
\* the incomplete one (pubsub hands out messages as they come in).
Prompt ==
  status \in {"pull", "broken"} => out = Values[received]
=============================================================================
