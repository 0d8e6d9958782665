----------------------------- MODULE Multicodecs -----------------------------
(***************************************************************************)
(* The registry of block codecs (lib/multicodecs.ts) and, line for line    *)
(* the same program, the registry of hashers (lib/multihashes.ts).  A      *)
(* codec is found by name or by code in two tables that are written and    *)
(* deleted separately; getCodec looks in one of them, awaits the loader of *)
(* the options when that one is empty, and looks again before it adds.     *)
(*                                                                         *)
(* Gets in flight interleave at their await.  A loader makes a new codec   *)
(* object at every load: field `by' of a codec is the get it was made for. *)
(***************************************************************************)
EXTENDS Naturals, FiniteSets

CONSTANTS
  Names, Codes,   \* a row of the multicodec table is a name and its code
  CodeOf,
  Gets,           \* identities of the calls of getCodec
  Given,          \* the maker of the codecs of the options
  NoCodec,
  Nameless        \* the name "undefined", which codecs without a name have

ASSUME MulticodecsAssumption ==
  /\ CodeOf \in [Names -> Codes]
  /\ \A m, n \in Names : CodeOf[m] = CodeOf[n] => m = n
  /\ Names \cap Codes = {}
  /\ Given \notin Gets
  /\ Nameless \in Names

VARIABLES
  byName,   \* _codecsByName
  byCode,   \* _codecsByCode
  key,      \* the argument of each get
  stage,    \* how far each get is
  result    \* what each get resolved with

tables == <<byName, byCode>>
gets   == <<key, stage, result>>
vars   == <<tables, gets>>

Keys  == (Names \cup Codes) \ {Nameless, CodeOf[Nameless]}
Codec == [name : Names, code : Codes, by : Gets \cup {Given}]

ASSUME NoCodecAssumption == NoCodec \notin Codec \cup Keys

\* The types of the tables (_codecsByName, _codecsByCode) and of the gets.
TypeOK ==
  /\ byName \in [Names -> Codec \cup {NoCodec}]
  /\ byCode \in [Codes -> Codec \cup {NoCodec}]
  /\ key \in [Gets -> Keys \cup {NoCodec}]
  /\ stage \in [Gets -> {"idle", "loading", "found", "loaded", "rejected", "clashed"}]
  /\ result \in [Gets -> Codec \cup {NoCodec}]

\* A codec whose name and code are a row of the multicodec table.
Row(n, g) == [name |-> n, code |-> CodeOf[n], by |-> g]

\* The constructor adds the codecs of the options, which have distinct names
\* and codes: it throws otherwise, and there is no client.
Init ==
  \E given \in SUBSET (Names \ {Nameless}) :
    /\ byName = [n \in Names |-> IF n \in given THEN Row(n, Given) ELSE NoCodec]
    /\ byCode = [k \in Codes |->
                   IF \E n \in given : CodeOf[n] = k
                   THEN Row(CHOOSE n \in given : CodeOf[n] = k, Given) ELSE NoCodec]
    /\ key = [g \in Gets |-> NoCodec]
    /\ stage = [g \in Gets |-> "idle"]
    /\ result = [g \in Gets |-> NoCodec]

-----------------------------------------------------------------------------

\* addCodec throws: the name or the code of the codec is taken.
Taken(c) == byName[c.name] # NoCodec \/ byCode[c.code] # NoCodec

Add(c) ==
  /\ byName' = [byName EXCEPT ![c.name] = c]
  /\ byCode' = [byCode EXCEPT ![c.code] = c]

\* Mutant: the type of a code is not recognised.
LookupByName(k) == IF k \in Names THEN byName[k] ELSE NoCodec

\* table[key], in the table the type of the key selects.
Lookup(k) == IF k \in Names THEN byName[k] ELSE byCode[k]

\* What a loader may resolve with: the codec of the row that was asked for, in
\* a new object, or one that has neither a name nor a code.
Loadable(g) ==
  LET asked == {n \in Names : key[g] \in {n, CodeOf[n]}} IN
  {Row(n, g) : n \in asked \cup {Nameless}}

\* getCodec(k) with k in its table.
GetFinds(g, k) ==
  /\ stage[g] = "idle" /\ Lookup(k) # NoCodec
  /\ key' = [key EXCEPT ![g] = k]
  /\ stage' = [stage EXCEPT ![g] = "found"]
  /\ result' = [result EXCEPT ![g] = Lookup(k)]
  /\ UNCHANGED tables

\* getCodec(k) calls the loader.
GetLoads(g, k) ==
  /\ stage[g] = "idle" /\ Lookup(k) = NoCodec
  /\ key' = [key EXCEPT ![g] = k]
  /\ stage' = [stage EXCEPT ![g] = "loading"]
  /\ UNCHANGED <<tables, result>>

\* Mutant: the failed load is remembered in the table.
LoadRejectsForGood(g) ==
  /\ stage[g] = "loading"
  /\ stage' = [stage EXCEPT ![g] = "rejected"]
  /\ byName' = [n \in Names |-> IF n = key[g] THEN key[g] ELSE byName[n]]
  /\ UNCHANGED <<byCode, key, result>>

LoadRejects(g) ==
  /\ stage[g] = "loading"
  /\ stage' = [stage EXCEPT ![g] = "rejected"]
  /\ UNCHANGED <<tables, key, result>>

\* The loader resolves and the key is still free: the codec is added.
LoadAdds(g, c) ==
  /\ stage[g] = "loading" /\ Lookup(key[g]) = NoCodec /\ ~Taken(c)
  /\ Add(c)
  /\ stage' = [stage EXCEPT ![g] = "loaded"]
  /\ result' = [result EXCEPT ![g] = c]
  /\ UNCHANGED key

\* Mutant: the table is not looked at again after the await.
LoadClashesAlways(g, c) ==
  /\ stage[g] = "loading" /\ Taken(c)
  /\ stage' = [stage EXCEPT ![g] = "clashed"]
  /\ UNCHANGED <<tables, key, result>>

\* The same, but addCodec throws and the get rejects.
LoadClashes(g, c) ==
  /\ stage[g] = "loading" /\ Lookup(key[g]) = NoCodec /\ Taken(c)
  /\ stage' = [stage EXCEPT ![g] = "clashed"]
  /\ UNCHANGED <<tables, key, result>>

\* Another get was faster: its codec stays, this one returns its own.
LoadComesSecond(g, c) ==
  /\ stage[g] = "loading" /\ Lookup(key[g]) # NoCodec
  /\ stage' = [stage EXCEPT ![g] = "loaded"]
  /\ result' = [result EXCEPT ![g] = c]
  /\ UNCHANGED <<tables, key>>

\* addCodec(c) by somebody who was handed c by a get; it throws if c is taken.
AddCodec(g) ==
  /\ result[g] # NoCodec /\ ~Taken(result[g])
  /\ Add(result[g])
  /\ UNCHANGED gets

\* Mutant: only the name is deleted.
RemoveName(g) ==
  /\ result[g] # NoCodec
  /\ byName' = [byName EXCEPT ![result[g].name] = NoCodec]
  /\ UNCHANGED <<byCode, gets>>

\* removeCodec(c) by somebody who was handed c by a get.
RemoveCodec(g) ==
  /\ result[g] # NoCodec
  /\ byName' = [byName EXCEPT ![result[g].name] = NoCodec]
  /\ byCode' = [byCode EXCEPT ![result[g].code] = NoCodec]
  /\ UNCHANGED gets

Load(g) ==
  \/ LoadRejects(g)
  \/ \E c \in Loadable(g) : LoadAdds(g, c) \/ LoadClashes(g, c) \/ LoadComesSecond(g, c)

Next ==
  \E g \in Gets :
    \/ \E k \in Keys : GetFinds(g, k) \/ GetLoads(g, k)
    \/ Load(g) \/ AddCodec(g) \/ RemoveCodec(g)

Spec == Init /\ [][Next]_vars

-----------------------------------------------------------------------------
\* The two tables are one registry: a codec is found by its name exactly if it
\* is found by its code, and it is the same object (dag.put asks by name,
\* dag.get and resolve by code), through all races of gets and removals, of
\* codecs that somebody still holds and that were replaced meanwhile included.
TablesAgree ==
  /\ \A n \in Names : byName[n] # NoCodec =>
       byName[n].name = n /\ byCode[byName[n].code] = byName[n]
  /\ \A k \in Codes : byCode[k] # NoCodec =>
       byCode[k].code = k /\ byName[byCode[k].name] = byCode[k]

\* A get whose loader resolved with what was asked for is served: the second
\* look at the table keeps addCodec from throwing, however gets by name and by
\* code of one codec overlap with each other and with removals.  Only a codec
\* without a name may be refused (multicodecs.ts, "If not supported, attempt
\* to dynamically load this codec").
GetServed ==
  [][\A g \in Gets : \A c \in Loadable(g) : LoadClashes(g, c) => c.name = Nameless]_vars

\* A codec in use is never displaced by another: an entry changes only by being
\* removed (multicodecs.ts, the error of addCodec).
NeverDisplaced ==
  [][/\ \A n \in Names : byName[n] # NoCodec => byName'[n] \in {byName[n], NoCodec}
     /\ \A k \in Codes : byCode[k] # NoCodec => byCode'[k] \in {byCode[k], NoCodec}]_vars
=============================================================================
