----------------------------- MODULE BrowserUpload -----------------------------
(***************************************************************************)
(* addAll with a progress function in a browser: the whole source is read  *)
(* into a form (lib/multipart-request.browser.ts), an XMLHttpRequest sends *)
(* it (lib/http/fetch.browser.ts), and what it says of its progress is     *)
(* turned into progress of the single files (add-all.ts).  An electron     *)
(* renderer sends the same form with lib/http/fetch.node.ts, which says    *)
(* how many bytes it has sent but not of how many.                         *)
(***************************************************************************)
EXTENDS Naturals, Sequences

CONSTANTS
  MaxFiles,   \* most entries of the source
  MaxSize,    \* most bytes of an entry
  Framing     \* bytes of a form that belong to no content

ASSUME BrowserUploadAssumption ==
  MaxFiles \in Nat /\ MaxSize \in Nat /\ Framing \in Nat \ {0}

\* Entries without content, directories, are no parts.
Directory == MaxSize + 1

VARIABLES
  form,        \* the entries of the source, and whether it throws at its end
  computable,  \* progress events have a total
  xhr,         \* the request
  partsList,   \* the parts of the form
  total,       \* the bytes of all parts
  loaded,      \* the bytes of the body that were sent
  index,       \* the part that is in progress
  reports,     \* what the progress function was called with: bytes, part
  xhrAborted   \* the combined signal of addAll is aborted

xhrVars == <<form, computable, xhr, partsList, total, loaded, index, reports, xhrAborted>>

XhrStart(state) ==
  /\ xhr = state
  /\ partsList = <<>> /\ total = 0 /\ loaded = 0 /\ index = 1
  /\ reports = <<>> /\ xhrAborted = FALSE

XhrInit ==
  /\ form \in [sizes : UNION {[1..n -> 0..Directory] : n \in 0..MaxFiles}, fails : BOOLEAN]
  /\ computable \in BOOLEAN
  /\ XhrStart("buffering")

\* The types of an upload: its parts lie within the total.
XhrTypeOK ==
  /\ xhr \in {"unused", "buffering", "sending", "answering", "resolved", "rejected"}
  /\ \A i \in 1..Len(partsList) : 0 <= partsList[i].start /\ partsList[i].start <= partsList[i].end
                                  /\ partsList[i].end <= total
  /\ loaded \in 0..total + Framing
  /\ index \in 1..Len(partsList) + 1
  /\ computable \in BOOLEAN /\ xhrAborted \in BOOLEAN

-----------------------------------------------------------------------------

BodySize == total + Framing

\* The parts of the first n entries, each beginning where the last one ends.
PartsOf(n) ==
  LET Upto[i \in 0..n] ==
        IF i = 0 THEN <<>>
        ELSE IF form.sizes[i] = Directory THEN Upto[i - 1]
        ELSE LET start == IF Upto[i - 1] = <<>> THEN 0 ELSE Upto[i - 1][Len(Upto[i - 1])].end
             IN Append(Upto[i - 1], [name |-> i, start |-> start, end |-> start + form.sizes[i]])
  IN Upto[n]

\* The source is read to its end before anything is sent.
BufferForm ==
  /\ xhr = "buffering" /\ ~form.fails
  /\ partsList' = PartsOf(Len(form.sizes))
  /\ total' = IF partsList' = <<>> THEN 0 ELSE partsList'[Len(partsList')].end
  /\ xhr' = "sending"
  /\ UNCHANGED <<form, computable, loaded, index, reports, xhrAborted>>

BufferFails ==
  /\ xhr = "buffering" /\ form.fails
  /\ xhr' = "rejected"
  /\ UNCHANGED <<form, computable, partsList, total, loaded, index, reports, xhrAborted>>

\* onabort is set when the request is made: an abort before that is not seen.
AbortForm ==
  /\ ~xhrAborted /\ xhr \in {"buffering", "sending", "answering"}
  /\ xhrAborted' = TRUE
  /\ xhr' = IF xhr = "buffering" THEN xhr ELSE "rejected"
  /\ UNCHANGED <<form, computable, partsList, total, loaded, index, reports>>

\* Without a total, loaded / 0 is no number or greater than all of them.
Position(bytes) == IF computable THEN (bytes * total) \div BodySize ELSE total

\* The parts from the current one on that end at or before the position.
Passed(position) ==
  {i \in index..Len(partsList) : \A j \in index..i : partsList[j].end <= position}

\* Mutant: only the part in progress is looked at, not those it passed.
ReportOne(position) ==
  IF index > Len(partsList) THEN UNCHANGED <<index, reports>>
  ELSE /\ reports' = Append(reports, [bytes |-> position - partsList[index].start, part |-> index])
       /\ index' = IF position < partsList[index].end THEN index ELSE index + 1

\* createOnUploadProgress: a last report of each part that was passed, and one
\* of the part that the position is in.
Report(position) ==
  LET first == index
      next  == IF Passed(position) = {} THEN index
               ELSE 1 + (CHOOSE i \in Passed(position) : \A j \in Passed(position) : j <= i)
      ends  == [i \in 1..next - first |->
                  [bytes |-> partsList[first + i - 1].end - partsList[first + i - 1].start,
                   part  |-> first + i - 1]]
  IN /\ index' = next
     /\ reports' = reports \o ends \o
          IF next > Len(partsList) THEN <<>>
          ELSE <<[bytes |-> position - partsList[next].start, part |-> next]>>

\* The request fires progress events as it likes, the last one with all bytes.
Progress(bytes) ==
  /\ xhr = "sending" /\ bytes > loaded
  /\ loaded' = bytes
  /\ Report(Position(bytes))
  /\ xhr' = IF bytes = BodySize THEN "answering" ELSE "sending"
  /\ UNCHANGED <<form, computable, partsList, total, xhrAborted>>

\* The response is handed over when it is complete; error resolves too, with a
\* response that is not ok, and addAll throws.
XhrLoads ==
  /\ xhr = "answering"
  /\ xhr' = "resolved"
  /\ UNCHANGED <<form, computable, partsList, total, loaded, index, reports, xhrAborted>>

XhrFails ==
  /\ xhr \in {"sending", "answering"}
  /\ xhr' = "rejected"
  /\ UNCHANGED <<form, computable, partsList, total, loaded, index, reports, xhrAborted>>

XhrNext ==
  \/ BufferForm \/ BufferFails \/ AbortForm \/ XhrLoads \/ XhrFails
  \/ \E bytes \in 1..BodySize : Progress(bytes)

-----------------------------------------------------------------------------

Size(p) == partsList[p].end - partsList[p].start

\* Progress is told part by part in the order of the source: of each part a
\* growing number of bytes that ends with its size before the next one begins,
\* empty files included.  What is told was sent, in proportion, and an upload
\* that is resolved was told of as a whole (add-all.ts, "Derive position from
\* the current progress").  Without a total all is told at the first event.
ProgressFaithful ==
  /\ XhrTypeOK
  /\ \A i \in 1..Len(reports) :
       /\ reports[i].bytes \in 0..Size(reports[i].part)
       /\ computable => (partsList[reports[i].part].start + reports[i].bytes) * BodySize <= loaded * total
  /\ \A i \in 1..Len(reports) - 1 :
       \/ reports[i].part = reports[i + 1].part /\ reports[i].bytes <= reports[i + 1].bytes
       \/ /\ reports[i + 1].part = reports[i].part + 1
          /\ reports[i].bytes = Size(reports[i].part)
  /\ xhr = "resolved" /\ partsList # <<>> =>
       /\ reports[1].part = 1
       /\ reports[Len(reports)] = [bytes |-> Size(Len(partsList)), part |-> Len(partsList)]
=============================================================================
