---------------------------- MODULE CodecRegistry ----------------------------
(***************************************************************************)
(* What the registry of codecs promises, without tables: one set of        *)
(* codecs, no two of the same name or the same code; whoever asks is given *)
(* the one that is in it, and else one that is loaded for him, which goes  *)
(* into the set if nobody was faster.  Module Multicodecs implements this  *)
(* (CodecRefinement).                                                      *)
(***************************************************************************)
CONSTANTS Codec, Keys, Gets, NoCodec

VARIABLES
  registered,   \* the codecs
  key,          \* what each get asks for
  progress,     \* of each get
  result        \* what each get resolved with

registryVars == <<registered, key, progress, result>>

Alike(c, d) == c.name = d.name \/ c.code = d.code

Under(k) == {c \in registered : k \in {c.name, c.code}}
Free(c)  == \A d \in registered : ~Alike(c, d)

Init ==
  /\ registered \in SUBSET Codec
  /\ \A c, d \in registered : Alike(c, d) => c = d
  /\ key = [g \in Gets |-> NoCodec]
  /\ progress = [g \in Gets |-> "idle"]
  /\ result = [g \in Gets |-> NoCodec]

Ask(g, k) ==
  /\ progress[g] = "idle"
  /\ key' = [key EXCEPT ![g] = k]
  /\ UNCHANGED registered

\* By its name or by its code, it is the same codec.
Find(g, k) ==
  /\ Ask(g, k)
  /\ \E c \in Under(k) : result' = [result EXCEPT ![g] = c]
  /\ progress' = [progress EXCEPT ![g] = "over"]

Miss(g, k) ==
  /\ Ask(g, k)
  /\ Under(k) = {}
  /\ progress' = [progress EXCEPT ![g] = "loading"]
  /\ UNCHANGED result

\* The loader is done; what it made for the get is registered if the key is
\* still free, and is what the get resolves with.
Bring(g) ==
  /\ progress[g] = "loading"
  /\ progress' = [progress EXCEPT ![g] = "over"]
  /\ \E c \in Codec :
       /\ c.by = g
       /\ result' = [result EXCEPT ![g] = c]
       /\ IF Under(key[g]) = {} THEN Free(c) /\ registered' = registered \cup {c}
                                ELSE UNCHANGED registered
  /\ UNCHANGED key

GiveUp(g) ==
  /\ progress[g] = "loading"
  /\ progress' = [progress EXCEPT ![g] = "over"]
  /\ UNCHANGED <<registered, key, result>>

\* By somebody who was given a codec.
Add(c) ==
  /\ Free(c)
  /\ registered' = registered \cup {c}
  /\ UNCHANGED <<key, progress, result>>

\* It, or the one that has taken its place.
Remove(c) ==
  /\ registered' = {d \in registered : ~Alike(c, d)}
  /\ UNCHANGED <<key, progress, result>>

Next ==
  \E g \in Gets :
    \/ \E k \in Keys : Find(g, k) \/ Miss(g, k)
    \/ Bring(g) \/ GiveUp(g)
    \/ result[g] # NoCodec /\ (Add(result[g]) \/ Remove(result[g]))

Spec == Init /\ [][Next]_registryVars
=============================================================================
