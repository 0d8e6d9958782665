---------------------------- MODULE InductionProofs ----------------------------
(***************************************************************************)
(* Induction over the places of a sequence, and what follows from it for   *)
(* functions by recursion and for Without.                                 *)
(*                                                                         *)
(* The library's induction schemes take an operator, which the provers     *)
(* cannot instantiate.  A set of naturals can stand for the predicate, and *)
(* the least number that it misses, which there is because < is well       *)
(* founded, for the step that fails.                                       *)
(***************************************************************************)
EXTENDS Without, SequenceTheorems, WellFoundedInduction, TLAPS

-----------------------------------------------------------------------------
(* Induction.                                                              *)

\* A set of naturals with 0 and with the successors of its members has all.
LEMMA SetInduction ==
  ASSUME NEW S, 0 \in S, \A n \in Nat : n \in S => n + 1 \in S
  PROVE  Nat \subseteq S
<1> SUFFICES ASSUME Nat \ S # {} PROVE FALSE
  OBVIOUS
<1>1. PICK x \in Nat \ S : \A y \in Nat \ S : ~ (<<y, x>> \in OpToRel(<, Nat))
  BY NatLessThanWellFounded, WFMin, Zenon
<1>2. x # 0 /\ x - 1 \in Nat /\ (x - 1) + 1 = x /\ x - 1 < x
  OBVIOUS
<1>3. <<x - 1, x>> \in OpToRel(<, Nat)
  BY <1>2, Zenon DEF OpToRel
<1>4. x - 1 \in S
  BY <1>1, <1>2, <1>3
<1> QED
  BY <1>2, <1>4

\* The same, for the least of some naturals.
LEMMA LeastExists ==
  ASSUME NEW S \in SUBSET Nat, S # {}
  PROVE  \E x \in S : \A y \in S : x <= y
<1>1. PICK x \in S : \A y \in S : ~ (<<y, x>> \in OpToRel(<, Nat))
  BY NatLessThanWellFounded, WFMin, Zenon
<1>2. ASSUME NEW y \in S PROVE ~(y < x)
  <2>1. y \in Nat /\ x \in Nat
    OBVIOUS
  <2> QED
    BY <1>1, <2>1, Zenon DEF OpToRel
<1>3. \A y \in S : x <= y
  BY <1>2
<1> QED
  BY <1>3

-----------------------------------------------------------------------------
(* Functions by recursion on the place in a sequence.                      *)

\* The first value, and what G makes of each for the next place.
Recurs(f, first, n, G) == f[0] = first /\ \A i \in 1..n : f[i] = G[i][f[i - 1]]

\* Whatever is made of the value before, there is a function of the values.
LEMMA Recursion ==
  ASSUME NEW V, NEW first \in V, NEW n \in Nat, NEW G \in [1..n -> [V -> V]]
  PROVE  \E f \in [0..n -> V] : Recurs(f, first, n, G)
<1> USE DEF Recurs
<1> DEFINE Upto(m) == \E f \in [0..m -> V] : f[0] = first /\ \A i \in 1..m : f[i] = G[i][f[i - 1]]
           S == {m \in Nat : m <= n => Upto(m)}
<1>1. 0 \in S
  <2> DEFINE f == [i \in 0..0 |-> first]
  <2>1. f \in [0..0 -> V] /\ f[0] = first /\ \A i \in 1..0 : f[i] = G[i][f[i - 1]]
    OBVIOUS
  <2> HIDE DEF f
  <2>2. Upto(0)
    BY <2>1
  <2> QED
    BY <2>2
<1>2. ASSUME NEW m \in Nat, m \in S PROVE m + 1 \in S
  <2> SUFFICES ASSUME m + 1 <= n PROVE Upto(m + 1)
    OBVIOUS
  <2>1. PICK f \in [0..m -> V] : f[0] = first /\ \A i \in 1..m : f[i] = G[i][f[i - 1]]
    BY <1>2
  <2> DEFINE g == [i \in 0..m + 1 |-> IF i = m + 1 THEN G[m + 1][f[m]] ELSE f[i]]
  <2>2. G[m + 1][f[m]] \in V
    <3>1. m + 1 \in 1..n /\ f[m] \in V
      BY <2>1
    <3> QED
      BY <3>1
  <2>3. g \in [0..m + 1 -> V] /\ g[0] = first
    BY <2>1, <2>2
  <2>4. ASSUME NEW i \in 1..m + 1 PROVE g[i] = G[i][g[i - 1]]
    <3>1. g[i - 1] = f[i - 1]
      BY <2>4
    <3>2. CASE i = m + 1
      BY <3>1, <3>2
    <3>3. CASE i # m + 1
      <4>1. i \in 1..m /\ g[i] = f[i]
        BY <3>3
      <4> QED
        BY <2>1, <3>1, <4>1
    <3> QED
      BY <3>2, <3>3
  <2> HIDE DEF g
  <2> QED
    BY <2>3, <2>4
<1> HIDE DEF S
<1>3. n \in S
  BY <1>1, <1>2, SetInduction
<1> QED
  BY <1>3 DEF S

\* A function keeps to a set when each step does.
LEMMA StaysIn ==
  ASSUME NEW V, NEW n \in Nat, NEW f, f = [i \in 0..n |-> f[i]], f[0] \in V,
         \A i \in 1..n : f[i - 1] \in V => f[i] \in V
  PROVE  f \in [0..n -> V]
<1> DEFINE S == {i \in Nat : i <= n => f[i] \in V}
<1>1. 0 \in S
  OBVIOUS
<1>2. ASSUME NEW i \in Nat, i \in S PROVE i + 1 \in S
  <2> SUFFICES ASSUME i + 1 <= n PROVE f[i + 1] \in V
    OBVIOUS
  <2>1. i + 1 \in 1..n /\ (i + 1) - 1 = i /\ f[i] \in V
    BY <1>2
  <2> QED
    BY <2>1
<1> HIDE DEF S
<1>3. Nat \subseteq S
  BY <1>1, <1>2, SetInduction
<1>4. \A i \in 0..n : f[i] \in V
  BY <1>3 DEF S
<1> QED
  BY <1>4

\* Two functions that begin with the same, and take the same step where they agree.
StepAlike(f, g, n) == f[0] = g[0] /\ \A i \in 1..n : f[i - 1] = g[i - 1] => f[i] = g[i]

\* They agree everywhere.
LEMMA SameSteps ==
  ASSUME NEW n \in Nat, NEW f, NEW g, StepAlike(f, g, n)
  PROVE  f[n] = g[n]
<1> DEFINE S == {i \in Nat : i <= n => f[i] = g[i]}
<1>0. f[0] = g[0] /\ \A i \in 1..n : f[i - 1] = g[i - 1] => f[i] = g[i]
  BY DEF StepAlike
<1>1. 0 \in S
  BY <1>0
<1>2. ASSUME NEW i \in Nat, i \in S PROVE i + 1 \in S
  <2> SUFFICES ASSUME i + 1 <= n PROVE f[i + 1] = g[i + 1]
    OBVIOUS
  <2>1. i + 1 \in 1..n /\ (i + 1) - 1 = i /\ f[i] = g[i]
    BY <1>2
  <2> QED
    BY <1>0, <2>1
<1> HIDE DEF S
<1>3. n \in S
  BY <1>1, <1>2, SetInduction
<1> QED
  BY <1>3 DEF S

\* The first of a sequence has the place 1.
LEMMA FirstOf ==
  ASSUME NEW S, NEW s \in Seq(S), s # <<>>
  PROVE  Head(s) = s[1]
OBVIOUS

-----------------------------------------------------------------------------
(* Sequences without some of their elements.                               *)

\* What is kept of the first elements of s, one element further each time.
KeptOf(kept, s, S) ==
  /\ kept[0] = <<>>
  /\ \A i \in 1..Len(s) :
       kept[i] = IF s[i] \in S THEN kept[i - 1] ELSE Append(kept[i - 1], s[i])

\* Without is the last of it.
LEMMA WithoutIsLast ==
  ASSUME NEW T, NEW S, NEW s \in Seq(T)
  PROVE  \E kept : KeptOf(kept, s, S) /\ Without(s, S) = kept[Len(s)]
<1> DEFINE len == Len(s)
           Rest == Seq(T)
           More(kept, i) == IF s[i] \in S THEN kept ELSE Append(kept, s[i])
           G == [i \in 1..len |-> [kept \in Rest |-> More(kept, i)]]
           At(kept, i) == IF i = 0 THEN <<>> ELSE More(kept[i - 1], i)
           Is(kept) == kept = [i \in 0..len |-> At(kept, i)]
           chosen == CHOOSE kept : Is(kept)
<1>1. len \in Nat /\ \A i \in 1..len : s[i] \in T
  BY LenProperties
<1>2. ASSUME NEW i \in 1..len, NEW kept \in Rest PROVE More(kept, i) \in Rest
  BY <1>1, AppendProperties
<1>3. Without(s, S) = chosen[len]
  BY DEF Without
<1>4. <<>> \in Rest
  BY EmptySeq
<1>0. len \in Nat
  BY <1>1
<1> HIDE DEF len, Rest, More
<1>5. G \in [1..len -> [Rest -> Rest]]
  BY <1>2
<1>6. PICK f \in [0..len -> Rest] : f[0] = <<>> /\ \A i \in 1..len : f[i] = G[i][f[i - 1]]
  <2> HIDE DEF G
  <2>1. \E f \in [0..len -> Rest] : Recurs(f, <<>>, len, G)
    BY <1>0, <1>4, <1>5, Recursion
  <2> QED
    BY <2>1 DEF Recurs
<1>7. ASSUME NEW i \in 1..len PROVE f[i] = More(f[i - 1], i)
  <2>1. i - 1 \in 0..len /\ f[i - 1] \in Rest
    BY <1>1, <1>6
  <2> QED
    BY <1>6, <2>1
<1>8. Is(f)
  <2>1. ASSUME NEW i \in 0..len PROVE f[i] = At(f, i)
    BY <1>1, <1>6, <1>7
  <2> HIDE DEF At
  <2> QED
    BY <1>6, <2>1
<1>9. Is(chosen)
  BY <1>8
<1> HIDE DEF chosen
<1>10. \A i \in 0..len : chosen[i] = At(chosen, i)
  <2> HIDE DEF At
  <2> QED
    BY <1>9
<1>11. KeptOf(chosen, s, S)
  <2>1. chosen[0] = <<>>
    BY <1>1, <1>10
  <2>2. ASSUME NEW i \in 1..len PROVE chosen[i] = More(chosen[i - 1], i)
    BY <1>1, <1>10
  <2> QED
    BY <2>1, <2>2 DEF KeptOf, len, More
<1> QED
  BY <1>3, <1>11 DEF len

\* It has none of the elements that are left out.
LEMMA WithoutIsSequence ==
  ASSUME NEW T, NEW S, NEW s \in Seq(T)
  PROVE  Without(s, S) \in Seq(T \ S)
<1> DEFINE len == Len(s)
<1>1. len \in Nat /\ \A i \in 1..len : s[i] \in T
  BY LenProperties
<1>2. PICK kept : KeptOf(kept, s, S) /\ Without(s, S) = kept[len]
  BY WithoutIsLast
<1>3. kept[0] = <<>> /\ \A i \in 1..len :
        kept[i] = IF s[i] \in S THEN kept[i - 1] ELSE Append(kept[i - 1], s[i])
  BY <1>2 DEF KeptOf
<1> DEFINE In == {i \in Nat : i <= len => kept[i] \in Seq(T \ S)}
<1> HIDE DEF len
<1>4. 0 \in In
  BY <1>3, EmptySeq
<1>5. ASSUME NEW i \in Nat, i \in In PROVE i + 1 \in In
  <2> SUFFICES ASSUME i + 1 <= len PROVE kept[i + 1] \in Seq(T \ S)
    OBVIOUS
  <2> DEFINE j == i + 1
  <2>1. j \in 1..len /\ j - 1 = i /\ kept[i] \in Seq(T \ S)
    BY <1>1, <1>5
  <2> HIDE DEF j
  <2>2. kept[j] = IF s[j] \in S THEN kept[i] ELSE Append(kept[i], s[j])
    BY <1>3, <2>1
  <2>3. s[j] \notin S => s[j] \in T \ S
    BY <1>1, <2>1
  <2> QED
    BY <2>1, <2>2, <2>3, AppendProperties DEF j
<1> HIDE DEF In
<1>6. len \in In
  BY <1>1, <1>4, <1>5, SetInduction
<1> QED
  BY <1>1, <1>2, <1>6 DEF In

\* What has none of them stays what it is.
LEMMA WithoutNothing ==
  ASSUME NEW T, NEW S, T \cap S = {}, NEW s \in Seq(T)
  PROVE  Without(s, S) = s
<1> DEFINE len == Len(s)
<1>1. len \in Nat /\ (\A i \in 1..len : s[i] \in T)
  BY LenProperties
<1>2. PICK kept : KeptOf(kept, s, S) /\ Without(s, S) = kept[len]
  BY WithoutIsLast
<1>3. kept[0] = <<>> /\ \A i \in 1..len : kept[i] = Append(kept[i - 1], s[i])
  BY <1>1, <1>2 DEF KeptOf
<1> DEFINE Same(k) == /\ kept[k] \in Seq(T) /\ Len(kept[k]) = k
                      /\ \A i \in 1..k : kept[k][i] = s[i]
           In == {k \in Nat : k <= len => Same(k)}
<1> HIDE DEF len
<1>4. 0 \in In
  <2>1. <<>> \in Seq(T) /\ Len(<<>>) = 0 /\ \A i \in 1..0 : FALSE
    BY EmptySeq
  <2>2. Same(0)
    BY <1>3, <2>1
  <2> QED
    BY <2>2
<1>5. ASSUME NEW k \in Nat, k \in In PROVE k + 1 \in In
  <2> SUFFICES ASSUME k + 1 <= len PROVE Same(k + 1)
    OBVIOUS
  <2> DEFINE j == k + 1
             last == kept[k]
  <2>1. j \in 1..len /\ j - 1 = k /\ j \in Nat /\ s[j] \in T
    BY <1>1
  <2>2. /\ last \in Seq(T) /\ Len(last) = k
        /\ \A i \in 1..k : last[i] = s[i]
    BY <1>1, <1>5
  <2>3. kept[j] = Append(last, s[j])
    BY <1>3, <2>1
  <2> HIDE DEF last
  <2>4. /\ kept[j] \in Seq(T) /\ Len(kept[j]) = k + 1
        /\ \A i \in 1..k : kept[j][i] = last[i]
        /\ kept[j][k + 1] = s[j]
    BY <2>1, <2>2, <2>3, AppendProperties
  <2>5. \A i \in 1..j : i \in 1..k \/ i = k + 1
    OBVIOUS
  <2>6. \A i \in 1..j : kept[j][i] = s[i]
    BY <2>2, <2>4, <2>5
  <2> QED
    BY <2>4, <2>6
<1> HIDE DEF In
<1>6. len \in In
  BY <1>1, <1>4, <1>5, SetInduction
<1>7. Same(len)
  BY <1>1, <1>6 DEF In
<1>8. kept[len] = s
  BY <1>7, SeqEqual DEF len
<1> QED
  BY <1>2, <1>8
=============================================================================
