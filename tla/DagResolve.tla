------------------------------ MODULE DagResolve ------------------------------
(***************************************************************************)
(* dag.get() with a path: the generator resolve() walks from a block along *)
(* the parts of the path, loading a block for every link it meets, and     *)
(* dag.get takes its first value (localResolve) or its last one.           *)
(*                                                                         *)
(* A value is a leaf, a link to a block or a map from keys to values, as   *)
(* an array is from its indices.  A leaf has no keys, although JavaScript  *)
(* finds a length and characters by index in a string.                     *)
(***************************************************************************)
EXTENDS Naturals, Sequences, Without

CONSTANTS
  Cids,        \* the blocks there are
  Keys,        \* the keys a map can have
  PathParts,   \* what the parts of a path are: keys, and "" for a double slash
  MaxParts     \* most parts of a path

ASSUME DagResolveAssumption ==
  /\ Keys \subseteq PathParts \ {""}
  /\ MaxParts \in Nat

Leaf(l)   == [is |-> l]
Link(c)   == [is |-> "link", to |-> c]
Map(f)    == [is |-> "map", at |-> f]
Leaves    == {Leaf("scalar"), Leaf("null")} \cup {Link(c) : c \in Cids}
MapsTo(V) == {Map(f) : f \in UNION {[K -> V] : K \in SUBSET Keys}}
Values    == Leaves \cup MapsTo(Leaves \cup MapsTo(Leaves))

Paths == UNION {[1..n -> PathParts] : n \in 0..MaxParts}

\* path.split('/').filter(Boolean)
PartsOf(p) == Without(p, {""})

VARIABLES
  blocks,   \* what each block decodes to
  root,     \* the cid dag.get was called with
  path,     \* the option path
  local,    \* the option localResolve
  walk,     \* the call
  parts,    \* the parts that are left
  value,    \* the value the walk has reached
  loading,  \* the cid of the block it waits for
  found     \* the result: a value and the rest of the path

getVars == <<blocks, root, path, local, walk, parts, value, loading, found>>

NoValue  == Leaf("undefined")
NotFound == [value |-> NoValue, rest |-> <<>>]

\* The types of a walk's variables (lib/resolve.ts).
GetTypeOK ==
  /\ walk \in {"unused", "loading", "walking", "done", "thrown"}
  /\ parts \in Seq(PathParts \ {""})
  /\ loading \in Cids
  /\ value \in Values \cup {NoValue} \cup UNION {MapsTo(Leaves), Leaves}
  /\ found.rest \in Seq(PathParts \ {""})

GetInit ==
  /\ blocks \in [Cids -> Values] /\ root \in Cids
  /\ path \in Paths /\ local \in BOOLEAN
  /\ walk = "loading"
  /\ parts = PartsOf(path)
  /\ value = NoValue
  /\ loading = root
  /\ found = NotFound

-----------------------------------------------------------------------------

\* getCodec, block.get and decode; any of them may reject.
Load ==
  /\ walk = "loading"
  /\ walk' = "walking"
  /\ value' = blocks[loading]
  /\ UNCHANGED <<blocks, root, path, local, parts, loading, found>>

LoadFails ==
  /\ walk = "loading"
  /\ walk' = "thrown"
  /\ UNCHANGED <<blocks, root, path, local, parts, value, loading, found>>

HasOwn(v, key) == v.is = "map" /\ key \in DOMAIN v.at

\* What resolve() yields: first() leaves it there, last() keeps it.
Yield(v, rest) == found' = [value |-> v, rest |-> rest]

\* Mutant: a link at the end of the path is not followed.
StepToLink ==
  /\ walk = "walking" /\ parts # <<>>
  /\ HasOwn(value, Head(parts))
  /\ LET here == value.at[Head(parts)]
         on == here.is = "link" /\ Len(parts) > 1
     IN /\ value' = here
        /\ parts' = Tail(parts)
        /\ Yield(here, Tail(parts))
        /\ loading' = IF on THEN here.to ELSE loading
        /\ walk' = IF local THEN "done" ELSE IF on THEN "loading" ELSE "walking"
  /\ UNCHANGED <<blocks, root, path, local>>

\* The value has the key: it is yielded, and if it is a link its block is next.
Step ==
  /\ walk = "walking" /\ parts # <<>>
  /\ HasOwn(value, Head(parts))
  /\ LET here == value.at[Head(parts)]
     IN /\ value' = here
        /\ parts' = Tail(parts)
        /\ Yield(here, Tail(parts))
        /\ loading' = IF here.is = "link" THEN here.to ELSE loading
        /\ walk' = IF local THEN "done" ELSE IF here.is = "link" THEN "loading" ELSE "walking"
  /\ UNCHANGED <<blocks, root, path, local>>

\* ERR_NO_LINK, and a TypeError for null.
NoLink ==
  /\ walk = "walking" /\ parts # <<>>
  /\ ~HasOwn(value, Head(parts))
  /\ walk' = "thrown"
  /\ UNCHANGED <<blocks, root, path, local, parts, value, loading, found>>

\* The whole path is walked: the value itself is yielded last.
Arrive ==
  /\ walk = "walking" /\ parts = <<>>
  /\ Yield(value, <<>>)
  /\ walk' = "done"
  /\ UNCHANGED <<blocks, root, path, local, parts, value, loading>>

GetNext == Load \/ LoadFails \/ Step \/ NoLink \/ Arrive

-----------------------------------------------------------------------------

\* A link stands for the block it points to.
Follow(decoded, v) == IF v.is = "link" THEN decoded[v.to] ELSE v

\* Reference: the value that the parts name, counted from v.
Named(decoded, v, names) ==
  LET At[i \in 0..Len(names)] ==
        IF i = 0 THEN v
        ELSE IF HasOwn(At[i - 1], names[i]) THEN Follow(decoded, At[i - 1].at[names[i]])
        ELSE NoValue
  IN At[Len(names)]

\* What dag.get finds is what the path names: the value itself, or with
\* localResolve a value from which the rest of the path leads there.  It finds
\* nothing that is not there.
FindsNode ==
  walk = "done" =>
    LET names  == PartsOf(path)
        wanted == Named(blocks, blocks[root], names)
    IN IF local /\ found.rest # <<>>
       THEN Named(blocks, Follow(blocks, found.value), found.rest) = wanted
       ELSE /\ found.rest = <<>>
            /\ wanted # NoValue
            /\ wanted = IF local /\ names # <<>> THEN Follow(blocks, found.value) ELSE found.value
=============================================================================
