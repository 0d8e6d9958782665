----------------------------- MODULE SearchParams -----------------------------
(***************************************************************************)
(* What of a command's arguments and options reaches the daemon: the       *)
(* command's own parameters and the caller's options are merged,           *)
(* toUrlSearchParams() makes search params of them and the function that   *)
(* Client hands to HTTP.fetch filters and renames those.                   *)
(*                                                                         *)
(* An option is told apart by its name and by what matters of its value:   *)
(* "undefined" and "null" are the JavaScript values, "text" any other.  A  *)
(* timeout is a "number", a "duration" such as '2m', or else.  A query is  *)
(* the sequence of its arg values and the set of its other pairs.          *)
(***************************************************************************)
EXTENDS Sequences, Without

Options == {"hashAlg", "mtime", "mode", "timeout", "signal", "headers", "cidVersion", "stream"}

Absent == {"undefined", "null"}

\* What callers pass: nothing, all there is, options that are there but void.
OptionChoices ==
  {[o \in Options |-> "undefined"],
   [o \in Options |-> IF o = "timeout" THEN "number" ELSE "text"],
   [o \in Options |-> IF o = "timeout" THEN "duration"
                      ELSE IF o \in {"signal", "mtime"} THEN "text" ELSE "null"],
   [o \in Options |-> IF o = "signal" THEN "text" ELSE "null"]}

\* {...before, ...options, ...after}, where the command's own parameters are
\* named as they are sent.
Merged(before, options, after) ==
  [o \in Options \cup before \cup after |->
     IF o \in after \/ (o \in before /\ (o \notin Options \/ options[o] = "undefined"))
     THEN "text" ELSE options[o]]

\* A number gets a unit; isNaN(null) is false, so null becomes 'nullms'.
TimeoutOf(value) ==
  CASE value = "number" -> "duration" [] value = "null" -> "no duration" [] OTHER -> value

\* The names of an option on the wire.
PairsOf(o, value) ==
  CASE o = "hashAlg" -> {<<"hash", value>>}
    [] o = "mtime"   -> {<<"mtime", value>>, <<"mtimeNsecs", value>>}
    [] o = "timeout" -> {<<"timeout", TimeoutOf(value)>>}
    [] OTHER         -> {<<o, value>>}

\* Mutant: what is not there is sent as a word.
ToUrlSearchParamsUnfiltered(arg, options) ==
  [arg |-> arg, pairs |-> {<<o, options[o]>> : o \in DOMAIN options}]

ToUrlSearchParams(arg, options) ==
  [arg |-> arg,
   pairs |-> {p \in UNION {PairsOf(o, options[o]) : o \in DOMAIN options} : p[2] \notin Absent}]

KebabCase(name) ==
  CASE name = "mtimeNsecs" -> "mtime-nsecs"
    [] name = "cidVersion" -> "cid-version"
    [] OTHER -> name

\* By value first: the words undefined and null go, whatever they stand for.
TransformSearchParams(query) ==
  [arg |-> Without(query.arg, Absent),
   pairs |-> {<<KebabCase(p[1]), p[2]>> :
               p \in {q \in query.pairs :
                        /\ q[2] \notin Absent /\ q[1] # "signal"
                        /\ q[1] = "timeout" => q[2] = "duration"}}]

\* The names under which an option is sent.
WireNames(o) ==
  CASE o = "hashAlg"    -> {"hash"}
    [] o = "mtime"      -> {"mtime", "mtime-nsecs"}
    [] o = "cidVersion" -> {"cid-version"}
    [] o = "signal"     -> {}
    [] OTHER            -> {o}
=============================================================================
