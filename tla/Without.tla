-------------------------------- MODULE Without --------------------------------
(***************************************************************************)
(* A sequence without some of its elements, as Array.filter() makes it.    *)
(* It is a recursive function, where SelectSeq of the library would do,    *)
(* because the provers have no definition of that one.                     *)
(***************************************************************************)
EXTENDS Naturals, Sequences

\* The elements of s that are not in S, in order.
Without(s, S) ==
  LET Kept[i \in 0..Len(s)] ==
        IF i = 0 THEN <<>>
        ELSE IF s[i] \in S THEN Kept[i - 1] ELSE Append(Kept[i - 1], s[i])
  IN Kept[Len(s)]
=============================================================================
