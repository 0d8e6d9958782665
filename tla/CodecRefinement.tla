--------------------------- MODULE CodecRefinement ---------------------------
(***************************************************************************)
(* Multicodecs implements CodecRegistry: what its table of names holds is  *)
(* the set of codecs, and its table of codes is nothing but another way to *)
(* look it up.                                                             *)
(***************************************************************************)
EXTENDS Registries

registeredBar == {byName[n] : n \in Names} \ {NoCodec}

progressBar ==
  [g \in Gets |-> IF stage[g] \in {"idle", "loading"} THEN stage[g] ELSE "over"]

Codecs == INSTANCE CodecRegistry WITH registered <- registeredBar, progress <- progressBar

\* Gets by name and by code, their loaders, and adding and removing of codecs
\* that somebody still holds, are those of one set of codecs, each of its own
\* name and code: no half of a codec is ever left, found or displaced.
OneRegistry == Codecs!Spec
=============================================================================
