------------------------------ MODULE ReadsProofs ------------------------------
(***************************************************************************)
(* Proofs about Reads, for listings of any lengths and for any blocks,     *)
(* keys and paths, and for inputs of any number of things.                 *)
(*                                                                         *)
(* What a path names, which links a listing has and what files contain are *)
(* recursive functions.  That they are defined, and what they are one      *)
(* part, line or file further, follows by the induction of InductionProofs.*)
(***************************************************************************)
EXTENDS Reads, InductionProofs

-----------------------------------------------------------------------------
(* The links of a listing.                                                 *)

\* The first k links of line l.
Row(l, k) == [j \in 1..k |-> <<l, j>>]

\* The links of a line after those before it.
Grown(links, lines, i) == links \o Row(i, Len(lines[i].links))

\* The function that LinksOf defines.
Builds(up, lines, n) ==
  up = [i \in 0..n |-> IF i = 0 THEN <<>> ELSE Grown(up[i - 1], lines, i)]

\* What that says of its values.
LEMMA BuildsStep ==
  ASSUME NEW up, NEW lines, NEW n \in Nat, Builds(up, lines, n)
  PROVE  /\ up[0] = <<>>
         /\ \A k \in Nat : k + 1 <= n =>
              up[k + 1] = Grown(up[k], lines, k + 1)
<1> DEFINE At(i) == IF i = 0 THEN <<>> ELSE Grown(up[i - 1], lines, i)
<1>1. up = [i \in 0..n |-> At(i)]
  BY DEF Builds
<1> HIDE DEF At
<1>2. \A i \in 0..n : up[i] = At(i)
  BY <1>1
<1>3. \A k \in Nat : At(k + 1) = Grown(up[k], lines, k + 1)
  BY DEF At
<1>4. At(0) = <<>>
  BY DEF At
<1>5. up[0] = <<>>
  BY <1>2, <1>4
<1>6. ASSUME NEW k \in Nat, k + 1 <= n PROVE up[k + 1] = Grown(up[k], lines, k + 1)
  <2>1. k + 1 \in 0..n
    BY <1>6
  <2> QED
    BY <1>2, <1>3, <2>1
<1> QED
  BY <1>5, <1>6

\* There is such a function for every number of lines.
LEMMA LinksExist ==
  ASSUME NEW lines, NEW n \in Nat
  PROVE  \E up : Builds(up, lines, n)
<1> DEFINE S == {m \in Nat : \E up : Builds(up, lines, m)}
<1>1. 0 \in S
  <2>1. Builds([i \in 0..0 |-> <<>>], lines, 0)
    BY DEF Builds
  <2> QED
    BY <2>1
<1>2. ASSUME NEW m \in Nat, m \in S PROVE m + 1 \in S
  <2>1. PICK up : Builds(up, lines, m)
    BY <1>2
  <2> DEFINE more == [i \in 0..m + 1 |->
                        IF i = m + 1 THEN Grown(up[m], lines, m + 1) ELSE up[i]]
           At(i) == IF i = 0 THEN <<>> ELSE Grown(more[i - 1], lines, i)
  <2>2. ASSUME NEW i \in 0..m + 1 PROVE more[i] = At(i)
    <3>1. CASE i = 0
      BY <2>1, <3>1, BuildsStep
    <3>2. CASE i = m + 1
      BY <3>2
    <3>3. CASE i \in 1..m
      <4>1. i - 1 \in Nat /\ (i - 1) + 1 = i /\ i <= m
        BY <3>3
      <4>2. up[i] = Grown(up[i - 1], lines, i)
        BY <2>1, <4>1, BuildsStep
      <4> QED
        BY <3>3, <4>2
    <3> QED
      BY <3>1, <3>2, <3>3
  <2>3. Builds(more, lines, m + 1)
    <3>1. more = [i \in 0..m + 1 |-> At(i)]
      BY <2>2
    <3> QED
      BY <3>1 DEF Builds
  <2> QED
    BY <2>3
<1> HIDE DEF S
<1>3. n \in S
  BY <1>1, <1>2, SetInduction
<1> QED
  BY <1>3 DEF S

\* Two listings begin with the same lines.
Agree(lines, more, n) == \A i \in 1..n : more[i] = lines[i]

\* It depends on nothing but the lines it counts.
LEMMA LinksAreOne ==
  ASSUME NEW lines, NEW more, NEW n \in Nat, NEW m \in Nat, n <= m,
         Agree(lines, more, n),
         NEW up, NEW other, Builds(up, lines, n), Builds(other, more, m)
  PROVE  up[n] = other[n]
<1> DEFINE S == {k \in Nat : k <= n => up[k] = other[k]}
<1>1. 0 \in S
  BY BuildsStep
<1>2. ASSUME NEW k \in Nat, k \in S PROVE k + 1 \in S
  <2>1. CASE k + 1 <= n
    <3>1. up[k + 1] = Grown(up[k], lines, k + 1)
      BY <2>1, BuildsStep
    <3>2. other[k + 1] = Grown(other[k], more, k + 1)
      BY <2>1, BuildsStep
    <3>3. Grown(up[k], lines, k + 1) = Grown(up[k], more, k + 1)
      <4>1. k + 1 \in 1..n
        BY <2>1
      <4> QED
        BY <4>1 DEF Grown, Agree
    <3>4. up[k] = other[k]
      BY <1>2, <2>1
    <3> QED
      BY <3>1, <3>2, <3>3, <3>4
  <2> QED
    BY <2>1
<1> HIDE DEF S
<1>3. n \in S
  BY <1>1, <1>2, SetInduction
<1> QED
  BY <1>3 DEF S

\* LinksOf is the last value of that function.
LEMMA LinksBuilt ==
  ASSUME NEW lines, NEW n \in Nat
  PROVE  \E up : Builds(up, lines, n) /\ LinksOf(lines, n) = up[n]
<1> DEFINE up == CHOOSE f : Builds(f, lines, n)
<1>1. Builds(up, lines, n)
  BY LinksExist
<1>2. LinksOf(lines, n) = up[n]
  BY DEF LinksOf, Builds, Grown, Row
<1> QED
  BY <1>1, <1>2

\* No lines have no links; a line more has its own after those before it; and
\* lines that come later do not count.
LEMMA LinksOfLines ==
  ASSUME NEW lines
  PROVE  /\ LinksOf(lines, 0) = <<>>
         /\ \A n \in Nat : LinksOf(lines, n + 1) =
                             Grown(LinksOf(lines, n), lines, n + 1)
         /\ \A more : \A n \in Nat :
              Agree(lines, more, n) => LinksOf(more, n) = LinksOf(lines, n)
<1>1. LinksOf(lines, 0) = <<>>
  BY LinksBuilt, BuildsStep
<1>2. ASSUME NEW n \in Nat
      PROVE  LinksOf(lines, n + 1) = Grown(LinksOf(lines, n), lines, n + 1)
  <2>1. PICK up : Builds(up, lines, n) /\ LinksOf(lines, n) = up[n]
    BY LinksBuilt
  <2>2. PICK other : Builds(other, lines, n + 1) /\ LinksOf(lines, n + 1) = other[n + 1]
    BY LinksBuilt
  <2>3. up[n] = other[n]
    <3> DEFINE m == n + 1
    <3>1. m \in Nat /\ n <= m /\ Builds(other, lines, m) /\ Agree(lines, lines, n)
      BY <2>2 DEF Agree
    <3> HIDE DEF m
    <3> QED
      BY <2>1, <3>1, LinksAreOne
  <2>4. other[n + 1] = Grown(other[n], lines, n + 1)
    BY <2>2, BuildsStep
  <2> QED
    BY <2>1, <2>2, <2>3, <2>4
<1>3. ASSUME NEW more, NEW n \in Nat, Agree(lines, more, n)
      PROVE  LinksOf(more, n) = LinksOf(lines, n)
  <2>1. PICK up : Builds(up, lines, n) /\ LinksOf(lines, n) = up[n]
    BY LinksBuilt
  <2>2. PICK other : Builds(other, more, n) /\ LinksOf(more, n) = other[n]
    BY LinksBuilt
  <2> QED
    BY <1>3, <2>1, <2>2, LinksAreOne
<1> QED
  BY <1>1, <1>2, <1>3

-----------------------------------------------------------------------------
(* The entries of ls.                                                      *)

\* A line that is listed has links, as many as its kind has.
LEMMA LinksOfListing ==
  ASSUME NEW l \in Listings
  PROVE  l.links \in Seq(Hashes) /\ Len(l.links) \in Nat
<1>1. CASE l \in [is : {"malformed"}, links : {<<>>}]
  <2>1. l.links = <<>>
    BY <1>1
  <2> QED
    BY <2>1, EmptySeq
<1>2. CASE l \in [is : {"file"}, links : [1..1 -> Hashes]]
  <2>1. l.links \in [1..1 -> Hashes] /\ 1 \in Nat
    BY <1>2
  <2>2. l.links \in Seq(Hashes)
    BY <2>1, SeqDef
  <2> QED
    BY <2>2, LenProperties
<1>3. CASE l \in [is : {"directory"}, links : UNION {[1..n -> Hashes] : n \in 1..MaxLinks}]
  <2>1. PICK n \in 1..MaxLinks : l.links \in [1..n -> Hashes]
    BY <1>3
  <2>2. n \in Nat
    OBVIOUS
  <2>3. l.links \in Seq(Hashes)
    BY <2>1, <2>2, SeqDef
  <2> QED
    BY <2>3, LenProperties
<1> QED
  BY <1>1, <1>2, <1>3 DEF Listings

\* A link is given by its line and its place there.
LinkPlaces == Nat \X Nat

\* The entries are the links of the lines before and those of this line up to
\* the one that is awaited; the promises of those are fulfilled.
Given ==
  /\ line = 0 => promises = <<>> /\ next = 1 /\ entries = <<>>
  /\ line > 0 => /\ LinksOf(listing, line - 1) \in Seq(LinkPlaces)
                 /\ entries = LinksOf(listing, line - 1) \o Row(line, next - 1)
                 /\ Len(promises) = Len(listing[line].links)
  /\ \A i \in 1..next - 1 : promises[i] = "fulfilled"
  /\ ls \in {"reading", "done"} => next = Len(promises) + 1
  /\ ls = "giving" => line > 0
  /\ ls = "done" => line = Len(listing) \/ listing[line].is = "file"

LsInv == LsTypeOK /\ Given

\* The first links of a line: none, one more, and how many there are.
LEMMA Rows ==
  ASSUME NEW l \in Nat, NEW k \in Nat
  PROVE  /\ Row(l, k) \in Seq(LinkPlaces) /\ Len(Row(l, k)) = k
         /\ Row(l, 0) = <<>>
         /\ Row(l, k + 1) = Append(Row(l, k), <<l, k + 1>>)
<1>1. Row(l, k) \in [1..k -> LinkPlaces] /\ Row(l, k + 1) \in [1..k + 1 -> LinkPlaces]
  BY DEF Row, LinkPlaces
<1>2. Row(l, k) \in Seq(LinkPlaces) /\ Row(l, k + 1) \in Seq(LinkPlaces)
  BY <1>1, SeqDef
<1>3. Len(Row(l, k)) = k /\ Len(Row(l, k + 1)) = k + 1
  BY <1>1, <1>2, LenProperties
<1>4. \A j \in 1..k : Row(l, k)[j] = <<l, j>> /\ Row(l, k + 1)[j] = <<l, j>>
  BY DEF Row
<1>5. Row(l, k + 1)[k + 1] = <<l, k + 1>>
  BY DEF Row
<1>6. Row(l, k + 1) = Append(Row(l, k), <<l, k + 1>>)
  <2> DEFINE longer == Append(Row(l, k), <<l, k + 1>>)
  <2>1. /\ longer \in Seq(LinkPlaces) /\ Len(longer) = k + 1
        /\ \A j \in 1..k : longer[j] = <<l, j>>
        /\ longer[k + 1] = <<l, k + 1>>
    <3>1. <<l, k + 1>> \in LinkPlaces
      BY DEF LinkPlaces
    <3> QED
      BY <1>2, <1>3, <1>4, <3>1, AppendProperties
  <2> HIDE DEF longer
  <2>2. \A j \in 1..k + 1 : longer[j] = Row(l, k + 1)[j]
    <3>1. \A j \in 1..k + 1 : j \in 1..k \/ j = k + 1
      OBVIOUS
    <3> QED
      BY <1>4, <1>5, <2>1, <3>1
  <2>3. longer = Row(l, k + 1)
    BY <1>2, <1>3, <2>1, <2>2, SeqEqual
  <2> QED
    BY <2>3 DEF longer
<1>7. Row(l, 0) = <<>>
  <2>1. Row(l, 0) \in [1..0 -> LinkPlaces] /\ 0 \in Nat
    BY DEF Row, LinkPlaces
  <2>2. Row(l, 0) \in Seq(LinkPlaces)
    BY <2>1, SeqDef
  <2>3. Len(Row(l, 0)) = 0
    BY <2>1, <2>2, LenProperties
  <2> QED
    BY <2>2, <2>3, EmptySeq
<1> QED
  BY <1>2, <1>3, <1>6, <1>7

\* A row after others grows at its end.
LEMMA AppendLast ==
  ASSUME NEW s \in Seq(LinkPlaces), NEW t \in Seq(LinkPlaces), NEW e \in LinkPlaces
  PROVE  Append(s \o t, e) = s \o Append(t, e)
OBVIOUS

\* What is given so far is in order.
LEMMA GivenInOrder ==
  ASSUME LsInv
  PROVE  EntriesInOrder
<1>1. CASE line = 0
  BY <1>1, LinksOfLines DEF LsInv, Given, LsTypeOK, EntriesInOrder
<1>2. CASE line > 0
  <2> DEFINE before == LinksOf(listing, line - 1)
             width == Len(listing[line].links)
             given == next - 1
  <2>0. /\ line \in Nat /\ line - 1 \in Nat /\ (line - 1) + 1 = line
        /\ width \in Nat /\ width = Len(promises) /\ given \in Nat /\ given <= width
        /\ ls = "done" => given = width
    <3>1. line \in 1..Len(listing) /\ listing \in Seq(Listings) /\ Len(listing) \in Nat
      BY <1>2, LenProperties DEF LsInv, LsTypeOK
    <3>2. listing[line] \in Listings /\ width \in Nat
      BY <3>1, LinksOfListing
    <3>3. width = Len(promises) /\ (ls = "done" => next = Len(promises) + 1)
      BY <1>2 DEF LsInv, Given
    <3> QED
      BY <3>1, <3>2, <3>3 DEF LsInv, LsTypeOK
  <2>1. /\ before \in Seq(LinkPlaces) /\ Len(before) \in Nat
        /\ entries = before \o Row(line, given)
    BY <1>2, LenProperties DEF LsInv, Given
  <2>2. LinksOf(listing, line) = before \o Row(line, width)
    BY <2>0, LinksOfLines DEF Grown
  <2>3. ASSUME NEW k \in Nat
        PROVE  /\ before \o Row(line, k) \in Seq(LinkPlaces)
               /\ Len(before \o Row(line, k)) = Len(before) + k
               /\ \A j \in 1..Len(before) + k :
                    (before \o Row(line, k))[j] = IF j <= Len(before) THEN before[j]
                                                  ELSE <<line, j - Len(before)>>
    <3>1. Row(line, k) \in Seq(LinkPlaces) /\ Len(Row(line, k)) = k
      BY <2>0, Rows
    <3>2. \A j \in 1..k : Row(line, k)[j] = <<line, j>>
      BY DEF Row
    <3> DEFINE both == before \o Row(line, k)
    <3>3. /\ both \in Seq(LinkPlaces) /\ Len(both) = Len(before) + k
          /\ \A j \in 1..Len(before) + k :
               both[j] = IF j <= Len(before) THEN before[j] ELSE Row(line, k)[j - Len(before)]
      <4> DEFINE row == Row(line, k)
      <4>1. row \in Seq(LinkPlaces) /\ Len(row) = k
        BY <3>1
      <4> HIDE DEF row, before
      <4>2. /\ before \o row \in Seq(LinkPlaces) /\ Len(before \o row) = Len(before) + Len(row)
            /\ \A j \in 1..Len(before) + Len(row) :
                 (before \o row)[j] = IF j <= Len(before) THEN before[j] ELSE row[j - Len(before)]
        BY <2>1, <4>1, ConcatProperties
      <4> QED
        BY <4>1, <4>2 DEF row
    <3> HIDE DEF both
    <3>4. ASSUME NEW j \in 1..Len(before) + k
          PROVE  both[j] = IF j <= Len(before) THEN before[j] ELSE <<line, j - Len(before)>>
      <4>1. j <= Len(before) \/ (~(j <= Len(before)) /\ j - Len(before) \in 1..k)
        BY <2>1
      <4>2. CASE j <= Len(before)
        BY <3>3, <4>2
      <4>3. CASE ~(j <= Len(before)) /\ j - Len(before) \in 1..k
        BY <3>2, <3>3, <4>3
      <4> QED
        BY <4>1, <4>2, <4>3
    <3> QED
      BY <3>3, <3>4 DEF both
  <2> HIDE DEF before, width, given
  <2>4. Len(entries) = Len(before) + given
    BY <2>0, <2>1, <2>3
  <2>5. entries = SubSeq(LinksOf(listing, line), 1, Len(entries))
    <3> DEFINE part == SubSeq(LinksOf(listing, line), 1, Len(entries))
    <3>1. /\ LinksOf(listing, line) \in Seq(LinkPlaces)
          /\ Len(LinksOf(listing, line)) = Len(before) + width
      BY <2>0, <2>2, <2>3
    <3>2. Len(entries) \in Nat /\ Len(entries) <= Len(LinksOf(listing, line))
      BY <2>0, <2>1, <2>4, <3>1
    <3>3. /\ part \in Seq(LinkPlaces) /\ Len(part) = Len(entries)
          /\ \A j \in 1..Len(entries) : part[j] = LinksOf(listing, line)[j]
      BY <3>1, <3>2, SubSeqProperties
    <3>4. \A j \in 1..Len(entries) : entries[j] = LinksOf(listing, line)[j]
      <4>1. \A j \in 1..Len(before) + given : j \in 1..Len(before) + width
        BY <2>0, <2>1
      <4>2. /\ entries = before \o Row(line, given)
            /\ \A j \in 1..Len(before) + given :
                 (before \o Row(line, given))[j] = IF j <= Len(before) THEN before[j]
                                                   ELSE <<line, j - Len(before)>>
        BY <2>0, <2>1, <2>3
      <4>3. \A j \in 1..Len(before) + width :
              (before \o Row(line, width))[j] = IF j <= Len(before) THEN before[j]
                                                ELSE <<line, j - Len(before)>>
        BY <2>0, <2>3
      <4> QED
        BY <2>2, <2>4, <4>1, <4>2, <4>3
    <3>5. entries \in Seq(LinkPlaces)
      BY <2>0, <2>1, <2>3
    <3> HIDE DEF part
    <3>6. part = entries
      BY <3>3, <3>4, <3>5, SeqEqual
    <3> QED
      BY <3>6 DEF part
  <2>6. Len(entries) >= Len(LinksOf(listing, line - 1))
    BY <2>0, <2>1, <2>4 DEF before
  <2>7. ls = "done" =>
          /\ entries = LinksOf(listing, line)
          /\ \A i \in 1..Len(promises) : promises[i] = "fulfilled"
          /\ line = Len(listing) \/ listing[line].is = "file"
    BY <2>0, <2>1, <2>2 DEF LsInv, Given, given
  <2> QED
    BY <2>5, <2>6, <2>7 DEF EntriesInOrder
<1> QED
  BY <1>1, <1>2 DEF LsInv, LsTypeOK

\* ls begins with nothing given.
LEMMA LsStartMakes ==
  ASSUME NEW state \in {"unused", "reading"}, LsStart(state)
  PROVE  LsInv
<1>1. Len(<<>>) = 0 /\ \A S : <<>> \in Seq(S)
  BY EmptySeq
<1>2. LsTypeOK
  BY <1>1 DEF LsStart, LsTypeOK
<1> QED
  BY <1>1, <1>2 DEF LsStart, LsInv, Given

\* Every step of ls keeps the entries in order.
LEMMA LsNextKeeps ==
  ASSUME LsInv, LsNext \/ UNCHANGED lsVars
  PROVE  LsInv'
<1>0. /\ listing \in Seq(Listings) /\ Len(listing) \in Nat /\ line \in 0..Len(listing)
      /\ promises \in Seq({"asked", "fulfilled", "rejected"}) /\ Len(promises) \in Nat
      /\ next \in 1..Len(promises) + 1
      /\ line > 0 => line - 1 \in Nat /\ (line - 1) + 1 = line
  BY LenProperties DEF LsInv, LsTypeOK
<1>1. CASE /\ UNCHANGED <<listing, line, promises, next, entries>>
           /\ ls' \in {"unused", "reading", "giving", "done", "thrown", "stopped"}
           /\ lsEnding' \in {"open", "whole", "trailer", "lost"}
           /\ ls' \in {"reading", "done"} => ls = ls' \/ next = Len(promises) + 1
           /\ ls' = "giving" => ls = "giving"
           /\ ls' = "done" => ls = "done" \/ line = Len(listing) \/ listing[line].is = "file"
  <2>1. LsTypeOK'
    BY <1>0, <1>1 DEF LsInv, LsTypeOK
  <2>2. Given'
    BY <1>0, <1>1 DEF LsInv, Given
  <2> QED
    BY <2>1, <2>2 DEF LsInv
<1>2. CASE MapLinks
  <2> DEFINE width == Len(listing[line + 1].links)
  <2>0. line + 1 \in 1..Len(listing) /\ line \in Nat
    BY <1>0, <1>2 DEF MapLinks
  <2>1. listing[line + 1] \in Listings /\ width \in Nat
    BY <1>0, <2>0, LinksOfListing
  <2>2. /\ promises' \in [1..width -> {"asked", "fulfilled", "rejected"}]
    <3>1. \A i \in 1..width : listing[line + 1].links[i] \in Hashes
      BY <2>1, LinksOfListing
    <3> QED
      BY <1>2, <3>1 DEF MapLinks, Hashes
  <2>3. promises' \in Seq({"asked", "fulfilled", "rejected"}) /\ Len(promises') = width
    <3>1. promises' \in Seq({"asked", "fulfilled", "rejected"})
      BY <2>1, <2>2, SeqDef
    <3>2. DOMAIN promises' = 1..width
      BY <2>2
    <3> HIDE DEF width
    <3> QED
      BY <2>1, <3>1, <3>2, LenProperties
  <2>4. /\ LinksOf(listing, line) \in Seq(LinkPlaces)
        /\ entries = LinksOf(listing, line)
    <3>1. CASE line = 0
      BY <3>1, LinksOfLines, EmptySeq DEF LsInv, Given
    <3>2. CASE line > 0
      <4>1. LinksOf(listing, line) = LinksOf(listing, line - 1) \o Row(line, Len(promises))
        <5>1. line - 1 \in Nat /\ (line - 1) + 1 = line /\ line \in 1..Len(listing)
          BY <1>0, <3>2
        <5>2. Len(promises) = Len(listing[line].links)
          BY <3>2 DEF LsInv, Given
        <5> QED
          BY <1>0, <5>1, <5>2, LinksOfLines DEF Grown
      <4>2. Row(line, Len(promises)) \in Seq(LinkPlaces)
        BY <1>0, <2>0, Rows
      <4>3. next - 1 = Len(promises)
        BY <1>0, <1>2 DEF MapLinks, LsInv, Given
      <4>4. entries = LinksOf(listing, line)
        BY <3>2, <4>1, <4>3 DEF LsInv, Given
      <4> QED
        BY <3>2, <4>1, <4>2, <4>4, ConcatProperties DEF LsInv, Given
    <3> QED
      BY <1>0, <3>1, <3>2
  <2>5. entries = LinksOf(listing, line) \o Row(line + 1, 0)
    <3>1. Row(line + 1, 0) = <<>>
      BY <2>0, Rows
    <3> QED
      BY <2>4, <3>1, ConcatEmptySeq
  <2>6. /\ ls' = "giving" /\ line' = line + 1 /\ next' = 1
        /\ UNCHANGED <<listing, lsEnding, entries>>
    BY <1>2 DEF MapLinks
  <2>7. LsTypeOK'
    BY <1>0, <2>0, <2>3, <2>6 DEF LsTypeOK, LsInv
  <2>8. LinksOf(listing', line' - 1) = LinksOf(listing, line) /\ line' - 1 = line /\ next' - 1 = 0
    BY <2>0, <2>6
  <2> HIDE DEF width
  <2>9. Given'
    BY <2>0, <2>3, <2>4, <2>5, <2>6, <2>8 DEF Given, width
  <2> QED
    BY <2>7, <2>9 DEF LsInv
<1>3. CASE GiveEntry
  <2>1. /\ line > 0 /\ next - 1 \in Nat /\ (next - 1) + 1 = next /\ next <= Len(promises)
        /\ promises[next] = "fulfilled" /\ entries' = Append(entries, <<line, next>>)
        /\ next' - 1 = next /\ next' = next + 1 /\ line \in Nat
        /\ UNCHANGED <<ls, listing, lsEnding, line, promises>> /\ ls = "giving"
    BY <1>0, <1>3 DEF GiveEntry, LsInv, Given
  <2>2. entries' = LinksOf(listing, line - 1) \o Row(line, next)
    <3> DEFINE before == LinksOf(listing, line - 1)
    <3>1. /\ before \in Seq(LinkPlaces)
          /\ entries = before \o Row(line, next - 1)
      BY <2>1 DEF LsInv, Given
    <3>2. /\ Row(line, next - 1) \in Seq(LinkPlaces)
          /\ Row(line, next) = Append(Row(line, next - 1), <<line, next>>)
      BY <2>1, Rows
    <3> DEFINE row == Row(line, next - 1)
    <3> HIDE DEF before, row
    <3>3. <<line, next>> \in LinkPlaces
      BY <1>0, <2>1 DEF LinkPlaces
    <3>4. Append(before \o row, <<line, next>>) = before \o Append(row, <<line, next>>)
      <4> DEFINE last == <<line, next>>
      <4>1. before \in Seq(LinkPlaces) /\ row \in Seq(LinkPlaces) /\ last \in LinkPlaces
        BY <3>1, <3>2, <3>3 DEF row
      <4> HIDE DEF last
      <4>2. Append(before \o row, last) = before \o Append(row, last)
        BY ONLY <4>1, AppendLast
      <4> QED
        BY <4>2 DEF last
    <3> QED
      BY <2>1, <3>1, <3>2, <3>4 DEF before, row
  <2>3. \A i \in 1..next : promises[i] = "fulfilled"
    <3>1. \A i \in 1..next : i \in 1..next - 1 \/ i = next
      BY <2>1
    <3> QED
      BY <2>1, <3>1 DEF LsInv, Given
  <2>4. LsTypeOK'
    BY <1>0, <2>1 DEF LsInv, LsTypeOK
  <2>5. Given'
    <3>1. /\ LinksOf(listing, line - 1) \in Seq(LinkPlaces)
          /\ Len(promises) = Len(listing[line].links)
      BY <2>1 DEF LsInv, Given
    <3>2. /\ UNCHANGED <<LinksOf(listing, line - 1), ls, listing, line, promises>>
          /\ entries' = LinksOf(listing, line - 1) \o Row(line, next' - 1)
      BY <2>1, <2>2
    <3>3. \A i \in 1..next' - 1 : promises'[i] = "fulfilled"
      BY <2>1, <2>3
    <3> DEFINE before == LinksOf(listing, line - 1)
    <3>4. /\ before' = before /\ before \in Seq(LinkPlaces)
          /\ entries' = before' \o Row(line', next' - 1)
      BY <2>1, <3>1, <3>2
    <3> HIDE DEF before
    <3>5. line' > 0 /\ ls' = "giving" /\ Len(promises') = Len(listing'[line'].links)
      BY <2>1, <3>1
    <3> QED
      BY <3>3, <3>4, <3>5 DEF Given, before
  <2> QED
    BY <2>4, <2>5 DEF LsInv
<1>4. ASSUME NEW i \in 1..Len(promises), StatAnswers(i) \/ StatFails(i) PROVE LsInv'
  <2>1. /\ promises[i] = "asked" /\ UNCHANGED <<ls, listing, lsEnding, line, next, entries>>
        /\ \E become \in {"fulfilled", "rejected"} : promises' = [promises EXCEPT ![i] = become]
    BY <1>4 DEF StatAnswers, StatFails
  <2>2. /\ promises' \in Seq({"asked", "fulfilled", "rejected"}) /\ Len(promises') = Len(promises)
        /\ \A j \in 1..Len(promises) : j # i => promises'[j] = promises[j]
    BY <1>0, <2>1, ExceptSeq
  <2>3. \A j \in 1..next - 1 : promises'[j] = "fulfilled"
    BY <1>0, <2>1, <2>2 DEF LsInv, Given
  <2>4. line > 0
    BY <1>0, EmptySeq DEF LsInv, Given
  <2>5. LsTypeOK'
    BY <1>0, <2>1, <2>2 DEF LsInv, LsTypeOK
  <2>6. Given'
    BY <2>1, <2>2, <2>3, <2>4 DEF LsInv, Given
  <2> QED
    BY <2>5, <2>6 DEF LsInv
<1>5. ASSUME NEW l \in Listings, DaemonLists(l) PROVE LsInv'
  <2>1. /\ listing' = Append(listing, l) /\ ls \in {"reading", "giving"}
        /\ UNCHANGED <<ls, lsEnding, line, promises, next, entries>>
    BY <1>5 DEF DaemonLists
  <2>2. /\ listing' \in Seq(Listings) /\ Len(listing') = Len(listing) + 1
        /\ \A i \in 1..Len(listing) : listing'[i] = listing[i]
    BY <1>0, <2>1, AppendProperties
  <2>3. line > 0 => /\ LinksOf(listing', line - 1) = LinksOf(listing, line - 1)
                    /\ listing'[line] = listing[line]
    <3>1. line > 0 => Agree(listing, listing', line - 1)
      BY <1>0, <2>2 DEF Agree
    <3>2. \A n \in Nat : Agree(listing, listing', n) => LinksOf(listing', n) = LinksOf(listing, n)
      BY LinksOfLines
    <3> QED
      BY <1>0, <2>2, <3>1, <3>2
  <2>4. LsTypeOK'
    BY <1>0, <2>1, <2>2, <2>3 DEF LsInv, LsTypeOK, Given
  <2>5. Given'
    BY <2>1, <2>3 DEF LsInv, Given
  <2> QED
    BY <2>4, <2>5 DEF LsInv
<1>6. CASE Malformed \/ GiveFails \/ ListingBreaks \/ LsConsumerStops
  BY <1>1, <1>6 DEF Malformed, GiveFails, ListingBreaks, LsConsumerStops, LsInv, LsTypeOK
<1>10. CASE ListingEnds
  <2>1. next = Len(promises) + 1
    BY <1>10 DEF ListingEnds, LsInv, Given
  <2> QED
    BY <1>1, <1>10, <2>1 DEF ListingEnds, LsInv, LsTypeOK
<1>7. CASE LineGiven
  <2>1. next = Len(promises) + 1
    BY <1>0, <1>7 DEF LineGiven
  <2> QED
    BY <1>0, <1>1, <1>7, <2>1 DEF LineGiven, LsInv, LsTypeOK
<1>8. CASE UNCHANGED lsVars
  BY <1>0, <1>1, <1>8 DEF lsVars, LsInv, LsTypeOK
<1>9. ASSUME NEW how \in {"whole", "trailer", "lost"}, BodyEnds(how) PROVE LsInv'
  BY <1>0, <1>1, <1>9 DEF BodyEnds, LsInv, LsTypeOK
<1> QED
  BY <1>2, <1>3, <1>4, <1>5, <1>6, <1>7, <1>8, <1>9, <1>10 DEF LsNext

-----------------------------------------------------------------------------
(* Paths and what they name.                                               *)

\* The parts of a path are never empty.
Names == Seq(PathParts \ {""})

\* The parts of a path are such names.
LEMMA PartsOfPath ==
  ASSUME NEW p \in Paths
  PROVE  PartsOf(p) \in Names
<1>1. PICK n \in 0..MaxParts : p \in [1..n -> PathParts]
  BY DEF Paths
<1>2. p \in Seq(PathParts)
  <2>1. MaxParts \in Nat
    BY DagResolveAssumption
  <2>2. n \in Nat
    BY <2>1
  <2> QED
    BY <1>1, <2>2, SeqDef
<1> QED
  BY <1>2, WithoutIsSequence DEF PartsOf, Names

\* What a walk can reach, and what it is when there is nothing to reach.
Nodes == Values \cup MapsTo(Leaves)

\* A value that a walk reaches has values that it can reach, links to blocks
\* there are, and is not the value that is not there.
LEMMA NodeKinds ==
  ASSUME NEW v \in Nodes
  PROVE  /\ v.is = "map" => \A key \in DOMAIN v.at : v.at[key] \in Nodes
         /\ v.is = "link" => v.to \in Cids
         /\ v # NoValue
<1>1. CASE v \in Leaves
  BY <1>1 DEF Leaves, Leaf, Link, NoValue
<1>2. ASSUME NEW V, V \subseteq Nodes, v \in MapsTo(V)
      PROVE  /\ v.is = "map" /\ \A key \in DOMAIN v.at : v.at[key] \in Nodes
  BY <1>2 DEF MapsTo, Map
<1>3. CASE v \in MapsTo(Leaves)
  <2>1. Leaves \subseteq Nodes
    BY DEF Nodes, Values
  <2>2. v.is = "map" /\ \A key \in DOMAIN v.at : v.at[key] \in Nodes
    BY <1>2, <1>3, <2>1
  <2> QED
    BY <2>2 DEF NoValue, Leaf
<1>4. CASE v \in MapsTo(Leaves \cup MapsTo(Leaves))
  <2>1. Leaves \cup MapsTo(Leaves) \subseteq Nodes
    BY DEF Nodes, Values
  <2>2. v.is = "map" /\ \A key \in DOMAIN v.at : v.at[key] \in Nodes
    BY <1>2, <1>4, <2>1
  <2> QED
    BY <2>2 DEF NoValue, Leaf
<1> QED
  BY <1>1, <1>3, <1>4 DEF Nodes, Values

\* A step down from a value.
Down(bs, v, key) == IF HasOwn(v, key) THEN Follow(bs, v.at[key]) ELSE NoValue

\* It leads to a value, or nowhere.
LEMMA DownReaches ==
  ASSUME NEW bs \in [Cids -> Values], NEW v \in Nodes \cup {NoValue}, NEW key
  PROVE  /\ Down(bs, v, key) \in Nodes \cup {NoValue}
         /\ HasOwn(v, key) => v.at[key] \in Nodes /\ Down(bs, v, key) \in Nodes
<1>1. HasOwn(v, key) => v \in Nodes
  BY DEF HasOwn, NoValue, Leaf
<1>2. HasOwn(v, key) => v.at[key] \in Nodes
  BY <1>1, NodeKinds DEF HasOwn
<1>3. ASSUME NEW w \in Nodes PROVE Follow(bs, w) \in Nodes
  <2>1. w.is = "link" => bs[w.to] \in Values
    BY NodeKinds
  <2> QED
    BY <2>1 DEF Follow, Nodes
<1> QED
  BY <1>2, <1>3 DEF Down

\* The values along a path.
Along(at, bs, v, names) ==
  /\ at[0] = v
  /\ \A i \in 1..Len(names) : at[i] = Down(bs, at[i - 1], names[i])

\* What a path names is the last of them.
LEMMA NamedIsLast ==
  ASSUME NEW bs \in [Cids -> Values], NEW v \in Nodes \cup {NoValue}, NEW names \in Names
  PROVE  \E at : Along(at, bs, v, names) /\ Named(bs, v, names) = at[Len(names)]
<1> DEFINE Ends == Nodes \cup {NoValue}
           len == Len(names)
           G == [i \in 1..len |-> [w \in Ends |-> Down(bs, w, names[i])]]
<1>0. len \in Nat
  BY LenProperties DEF Names
<1>1. v \in Ends
  OBVIOUS
<1>2. G \in [1..len -> [Ends -> Ends]]
  BY DownReaches
<1> HIDE DEF Ends, len
<1>3. PICK f \in [0..len -> Ends] : f[0] = v /\ \A i \in 1..len : f[i] = G[i][f[i - 1]]
  <2> HIDE DEF G
  <2>1. \E f \in [0..len -> Ends] : Recurs(f, v, len, G)
    BY <1>0, <1>1, <1>2, Recursion
  <2> QED
    BY <2>1 DEF Recurs
<1>4. ASSUME NEW i \in 1..len PROVE f[i] = Down(bs, f[i - 1], names[i])
  <2>1. f[i - 1] \in Ends
    BY <1>0, <1>3
  <2> QED
    BY <1>3, <2>1
<1> DEFINE At(g, i) == IF i = 0 THEN v ELSE Down(bs, g[i - 1], names[i])
           Is(g) == g = [i \in 0..len |-> At(g, i)]
<1>5. Is(f)
  <2>1. ASSUME NEW i \in 0..len PROVE f[i] = At(f, i)
    BY <1>0, <1>3, <1>4
  <2> HIDE DEF At
  <2> QED
    BY <1>3, <2>1
<1> DEFINE g == CHOOSE h : Is(h)
<1>6. Is(g)
  BY <1>5
<1>7. Named(bs, v, names) = g[len]
  BY DEF Named, Down, len
<1> HIDE DEF g
<1>8. \A i \in 0..len : g[i] = At(g, i)
  <2> HIDE DEF At
  <2> QED
    BY <1>6
<1>9. Along(g, bs, v, names)
  BY <1>0, <1>8 DEF Along, len
<1> QED
  BY <1>7, <1>9 DEF len

\* No names name the value itself; more name what the rest of them name from
\* where the first leads.
LEMMA NamedAlong ==
  ASSUME NEW bs \in [Cids -> Values], NEW v \in Nodes \cup {NoValue}, NEW names \in Names
  PROVE  /\ names = <<>> => Named(bs, v, names) = v
         /\ names # <<>> =>
              Named(bs, v, names) = Named(bs, Down(bs, v, Head(names)), Tail(names))
<1>1. PICK at : Along(at, bs, v, names) /\ Named(bs, v, names) = at[Len(names)]
  BY NamedIsLast
<1>2. names = <<>> => Named(bs, v, names) = v
  BY <1>1, EmptySeq DEF Along
<1>3. ASSUME names # <<>>
      PROVE  Named(bs, v, names) = Named(bs, Down(bs, v, Head(names)), Tail(names))
  <2> DEFINE w == Down(bs, v, Head(names))
             rest == Tail(names)
  <2>1. /\ rest \in Names /\ Len(names) \in Nat \ {0} /\ Len(rest) = Len(names) - 1
        /\ \A i \in 1..Len(rest) : rest[i] = names[i + 1]
        /\ Head(names) = names[1]
    <3>1. names \in Seq(PathParts \ {""})
      BY DEF Names
    <3>2. /\ Tail(names) \in Seq(PathParts \ {""}) /\ Len(Tail(names)) = Len(names) - 1
          /\ \A i \in 1..Len(Tail(names)) : Tail(names)[i] = names[i + 1]
      BY <1>3, <3>1, HeadTailProperties
    <3>3. Len(names) \in Nat \ {0}
      BY <1>3, <3>1, EmptySeq, LenProperties
    <3>4. Head(names) = names[1]
      BY ONLY <1>3, <3>1, FirstOf
    <3> QED
      BY <3>2, <3>3, <3>4 DEF Names
  <2>2. w \in Nodes \cup {NoValue}
    BY DownReaches
  <2> HIDE DEF w, rest
  <2>3. PICK bt : Along(bt, bs, w, rest) /\ Named(bs, w, rest) = bt[Len(rest)]
    BY <2>1, <2>2, NamedIsLast
  <2> DEFINE S == {i \in Nat : i <= Len(rest) => at[i + 1] = bt[i]}
  <2>4. 0 \in S
    <3>1. at[1] = Down(bs, at[0], names[1])
      BY <1>1, <2>1 DEF Along
    <3> QED
      BY <1>1, <2>1, <2>3, <3>1 DEF Along, w
  <2>5. ASSUME NEW i \in Nat, i \in S PROVE i + 1 \in S
    <3> SUFFICES ASSUME i + 1 <= Len(rest) PROVE at[(i + 1) + 1] = bt[i + 1]
      OBVIOUS
    <3>1. at[i + 1] = bt[i]
      BY <2>1, <2>5
    <3> DEFINE j == i + 1
    <3>2. /\ j \in 1..Len(rest) /\ j + 1 \in 1..Len(names)
          /\ j - 1 = i /\ (j + 1) - 1 = j
      BY <2>1
    <3> HIDE DEF j
    <3>3. at[j + 1] = Down(bs, at[j], names[j + 1]) /\ bt[j] = Down(bs, bt[i], rest[j])
      BY <1>1, <2>3, <3>2 DEF Along
    <3>4. at[j] = bt[i] /\ rest[j] = names[j + 1]
      BY <2>1, <3>1, <3>2 DEF j
    <3> QED
      BY <3>3, <3>4 DEF j
  <2> HIDE DEF S
  <2>6. Len(rest) \in S
    BY <2>1, <2>4, <2>5, SetInduction
  <2>7. at[Len(names)] = bt[Len(rest)]
    BY <2>1, <2>6 DEF S
  <2> QED
    BY <1>1, <2>3, <2>7 DEF w, rest
<1> QED
  BY <1>2, <1>3

-----------------------------------------------------------------------------
(* The walk of dag.get.                                                    *)

\* What the path names.
Wanted == Named(blocks, blocks[root], PartsOf(path))

\* From where the walk is, the parts that are left lead to what the path names;
\* before its first part is taken, all of them are left.
OnTheWay ==
  /\ walk \in {"loading", "walking", "done"} => blocks \in [Cids -> Values] /\ path \in Paths
  /\ walk = "loading" => Named(blocks, blocks[loading], parts) = Wanted
  /\ walk = "walking" => value \in Nodes /\ Named(blocks, value, parts) = Wanted
  /\ walk \in {"loading", "walking"} /\ local => parts = PartsOf(path)
  /\ FindsNode

WalkInv == GetTypeOK /\ root \in Cids /\ OnTheWay

\* A walk begins with the whole path before it.
LEMMA GetInitMakes ==
  ASSUME GetInit
  PROVE  WalkInv
<1>1. PartsOf(path) \in Seq(PathParts \ {""})
  BY PartsOfPath DEF GetInit, Names
<1>2. GetTypeOK
  <2>1. <<>> \in Seq(PathParts \ {""})
    BY EmptySeq
  <2> QED
    BY <1>1, <2>1 DEF GetInit, GetTypeOK, NotFound
<1>3. FindsNode
  BY DEF GetInit, FindsNode
<1> QED
  BY <1>2, <1>3 DEF GetInit, WalkInv, OnTheWay, Wanted

\* No walk, nothing to find.
LEMMA GetUnusedMakes ==
  ASSUME GetUnused
  PROVE  WalkInv
<1>1. <<>> \in Seq(PathParts \ {""})
  BY EmptySeq
<1>2. GetTypeOK
  BY <1>1 DEF GetUnused, GetTypeOK, NotFound
<1>3. FindsNode
  BY DEF GetUnused, FindsNode
<1> QED
  BY <1>2, <1>3 DEF GetUnused, WalkInv, OnTheWay

\* What a step finds is on the way, and is the end of it when no parts are left.
LEMMA StepFinds ==
  ASSUME WalkInv, Step, NEW here, here = value.at[Head(parts)]
  PROVE  /\ here \in Nodes /\ Follow(blocks, here) \in Nodes
         /\ Named(blocks, Follow(blocks, here), Tail(parts)) = Wanted
         /\ Tail(parts) \in Names
         /\ Tail(parts) = <<>> => Wanted = Follow(blocks, here)
<1>1. /\ walk = "walking" /\ parts # <<>> /\ HasOwn(value, Head(parts))
      /\ parts \in Names
      /\ blocks \in [Cids -> Values] /\ value \in Nodes
      /\ Named(blocks, value, parts) = Wanted
  BY DEF Step, WalkInv, GetTypeOK, OnTheWay, Names
<1>2. /\ here \in Nodes
      /\ Down(blocks, value, Head(parts)) = Follow(blocks, here)
      /\ Follow(blocks, here) \in Nodes
  BY <1>1, DownReaches DEF Down
<1>3. Tail(parts) \in Names
  BY <1>1, HeadTailProperties DEF Names
<1>4. Named(blocks, Follow(blocks, here), Tail(parts)) = Wanted
  BY <1>1, <1>2, NamedAlong
<1>5. Tail(parts) = <<>> => Wanted = Follow(blocks, here)
  BY <1>1, <1>2, <1>3, <1>4, NamedAlong
<1> QED
  BY <1>2, <1>3, <1>4, <1>5

\* Every step of a walk stays on the way.
LEMMA GetNextKeeps ==
  ASSUME WalkInv, GetNext \/ UNCHANGED getVars
  PROVE  WalkInv'
<1>1. CASE UNCHANGED getVars
  BY <1>1 DEF getVars, WalkInv, GetTypeOK, OnTheWay, Wanted, FindsNode
<1>2. CASE Load
  <2>1. blocks[loading] \in Values /\ Values \subseteq Nodes
    BY <1>2 DEF Load, WalkInv, GetTypeOK, OnTheWay, Nodes
  <2>2. GetTypeOK'
    BY <1>2, <2>1 DEF Load, WalkInv, GetTypeOK
  <2>3. OnTheWay'
    BY <1>2, <2>1 DEF Load, WalkInv, OnTheWay, Wanted, FindsNode
  <2> QED
    BY <1>2, <2>2, <2>3 DEF Load, WalkInv
<1>3. CASE LoadFails \/ NoLink
  <2>1. /\ walk' = "thrown"
        /\ UNCHANGED <<blocks, root, path, local, parts, value, loading, found>>
    BY <1>3 DEF LoadFails, NoLink
  <2> QED
    BY <2>1 DEF WalkInv, GetTypeOK, OnTheWay, Wanted, FindsNode
<1>4. CASE Step
  <2> DEFINE here == value.at[Head(parts)]
             rest == Tail(parts)
  <2>1. /\ here \in Nodes /\ Follow(blocks, here) \in Nodes
        /\ Named(blocks, Follow(blocks, here), rest) = Wanted
        /\ rest \in Names
        /\ rest = <<>> => Wanted = Follow(blocks, here)
    BY <1>4, StepFinds
  <2>2. /\ walk = "walking" /\ parts # <<>>
        /\ value' = here /\ parts' = rest /\ found' = [value |-> here, rest |-> rest]
        /\ loading' = IF here.is = "link" THEN here.to ELSE loading
        /\ walk' = IF local THEN "done" ELSE IF here.is = "link" THEN "loading" ELSE "walking"
        /\ UNCHANGED <<blocks, root, path, local>>
    BY <1>4 DEF Step, Yield
  <2> HIDE DEF here, rest
  <2>3. here.is = "link" => here.to \in Cids
    BY <2>1, NodeKinds
  <2>4. Wanted' = Wanted
    BY <2>2 DEF Wanted
  <2>5. GetTypeOK'
    <3>1. /\ loading' \in Cids /\ parts' \in Seq(PathParts \ {""})
          /\ found'.rest \in Seq(PathParts \ {""})
      BY <2>1, <2>2, <2>3 DEF WalkInv, GetTypeOK, Names
    <3>2. value' \in Values \cup {NoValue} \cup UNION {MapsTo(Leaves), Leaves}
      BY <2>1, <2>2 DEF Nodes
    <3>3. walk' \in {"unused", "loading", "walking", "done", "thrown"}
      BY <2>2
    <3> QED
      BY <3>1, <3>2, <3>3 DEF GetTypeOK
  <2>6. FindsNode'
    <3> SUFFICES ASSUME walk' = "done" PROVE FindsNode'
      BY DEF FindsNode
    <3>1. local /\ PartsOf(path) # <<>>
      BY <2>2 DEF WalkInv, OnTheWay
    <3>2. CASE rest # <<>>
      <4>1. /\ found'.value = here /\ found'.rest = rest
        BY <2>2
      <4>2. Named(blocks, Follow(blocks, found'.value), found'.rest) = Wanted
        BY <2>1, <4>1
      <4> QED
        BY <2>2, <3>1, <3>2, <4>1, <4>2 DEF FindsNode, Wanted
    <3>3. CASE rest = <<>>
      <4>1. Wanted = Follow(blocks, here) /\ Wanted # NoValue
        BY <2>1, <3>3, NodeKinds
      <4>2. found'.value = here /\ found'.rest = <<>>
        BY <2>2, <3>3
      <4> QED
        BY <2>2, <3>1, <4>1, <4>2 DEF FindsNode, Wanted
    <3> QED
      BY <3>2, <3>3
  <2>7. OnTheWay'
    <3>1. walk' = "loading" => Named(blocks', blocks'[loading'], parts') = Wanted'
      BY <2>1, <2>2, <2>4 DEF Follow
    <3>2. walk' = "walking" => value' \in Nodes /\ Named(blocks', value', parts') = Wanted'
      BY <2>1, <2>2, <2>4 DEF Follow
    <3>3. walk' \in {"loading", "walking"} => ~local'
      BY <2>2
    <3>4. blocks' \in [Cids -> Values] /\ path' \in Paths
      BY <2>2 DEF WalkInv, OnTheWay
    <3> QED
      BY <2>6, <3>1, <3>2, <3>3, <3>4 DEF OnTheWay
  <2> QED
    BY <2>2, <2>5, <2>7 DEF WalkInv
<1>5. CASE Arrive
  <2>1. /\ walk = "walking" /\ parts = <<>> /\ walk' = "done"
        /\ found' = [value |-> value, rest |-> <<>>]
        /\ UNCHANGED <<blocks, root, path, local, parts, value, loading>>
    BY <1>5 DEF Arrive, Yield
  <2>2. /\ value \in Nodes /\ Named(blocks, value, parts) = Wanted
        /\ blocks \in [Cids -> Values] /\ path \in Paths
    BY <2>1 DEF WalkInv, OnTheWay
  <2>3. Wanted = value /\ value # NoValue
    <3>1. <<>> \in Names
      BY EmptySeq DEF Names
    <3> QED
      BY <2>1, <2>2, <3>1, NamedAlong, NodeKinds
  <2>4. local => PartsOf(path) = <<>>
    BY <2>1 DEF WalkInv, OnTheWay
  <2>5. found'.value = value /\ found'.rest = <<>>
    BY <2>1
  <2>6. FindsNode'
    BY <2>1, <2>3, <2>4, <2>5 DEF FindsNode, Wanted
  <2>7. GetTypeOK'
    BY <2>1, <2>5, EmptySeq DEF WalkInv, GetTypeOK
  <2> QED
    BY <2>1, <2>2, <2>6, <2>7 DEF WalkInv, OnTheWay
<1> QED
  BY <1>1, <1>2, <1>3, <1>4, <1>5 DEF GetNext

-----------------------------------------------------------------------------
(* The contents of files, one after the other.                             *)

\* The content of a file is the places of the things in it.
Places == Seq(Nat)

\* The contents of the first files, one file further each time.
JoinedUpto(upto, files) ==
  upto[0] = <<>> /\ \A i \in 1..Len(files) : upto[i] = upto[i - 1] \o files[i]

\* Contents is the last of them.
LEMMA ContentsIsLast ==
  ASSUME NEW files \in Seq(Places)
  PROVE  \E upto : JoinedUpto(upto, files) /\ Contents(files) = upto[Len(files)]
<1> DEFINE len == Len(files)
           More(got, i) == got \o files[i]
           G == [i \in 1..len |-> [got \in Places |-> More(got, i)]]
           At(upto, i) == IF i = 0 THEN <<>> ELSE More(upto[i - 1], i)
           Is(upto) == upto = [i \in 0..len |-> At(upto, i)]
           chosen == CHOOSE upto : Is(upto)
<1>1. len \in Nat /\ \A i \in 1..len : files[i] \in Places
  BY LenProperties
<1>2. ASSUME NEW i \in 1..len, NEW got \in Places PROVE More(got, i) \in Places
  BY <1>1, ConcatProperties DEF Places
<1>3. Contents(files) = chosen[len]
  BY DEF Contents
<1>4. <<>> \in Places
  BY EmptySeq DEF Places
<1>5. len \in Nat
  BY <1>1
<1> HIDE DEF len, More
<1>6. G \in [1..len -> [Places -> Places]]
  BY <1>2
<1>7. PICK f \in [0..len -> Places] : f[0] = <<>> /\ \A i \in 1..len : f[i] = G[i][f[i - 1]]
  <2> HIDE DEF G
  <2>1. \E f \in [0..len -> Places] : Recurs(f, <<>>, len, G)
    BY <1>4, <1>5, <1>6, Recursion
  <2> QED
    BY <2>1 DEF Recurs
<1>8. ASSUME NEW i \in 1..len PROVE f[i] = More(f[i - 1], i)
  <2>1. i - 1 \in 0..len /\ f[i - 1] \in Places
    BY <1>5, <1>7
  <2> QED
    BY <1>7, <2>1
<1>9. Is(f)
  <2>1. ASSUME NEW i \in 0..len PROVE f[i] = At(f, i)
    BY <1>5, <1>7, <1>8
  <2> HIDE DEF At
  <2> QED
    BY <1>7, <2>1
<1>10. Is(chosen)
  BY <1>9
<1> HIDE DEF chosen
<1>11. \A i \in 0..len : chosen[i] = At(chosen, i)
  <2> HIDE DEF At
  <2> QED
    BY <1>10
<1>12. JoinedUpto(chosen, files)
  <2>1. chosen[0] = <<>>
    BY <1>5, <1>11
  <2>2. ASSUME NEW i \in 1..len PROVE chosen[i] = More(chosen[i - 1], i)
    BY <1>5, <1>11
  <2> QED
    BY <2>1, <2>2 DEF JoinedUpto, len, More
<1> QED
  BY <1>3, <1>12 DEF len

\* No files have no contents, and one has its own.
LEMMA ContentsOfFew ==
  /\ Contents(<<>>) = <<>>
  /\ \A s \in Places : Contents(<<s>>) = s
<1>1. Contents(<<>>) = <<>>
  <2>1. <<>> \in Seq(Places) /\ Len(<<>>) = 0
    BY EmptySeq
  <2>2. PICK upto : JoinedUpto(upto, <<>>) /\ Contents(<<>>) = upto[Len(<<>>)]
    BY <2>1, ContentsIsLast
  <2> QED
    BY <2>1, <2>2 DEF JoinedUpto
<1>2. ASSUME NEW s \in Places PROVE Contents(<<s>>) = s
  <2> DEFINE files == <<s>>
  <2>1. files \in Seq(Places) /\ Len(files) = 1 /\ files[1] = s
    OBVIOUS
  <2> HIDE DEF files
  <2>2. PICK upto : JoinedUpto(upto, files) /\ Contents(files) = upto[1]
    BY <2>1, ContentsIsLast
  <2>3. upto[0] = <<>> /\ upto[1] = upto[0] \o s
    <3>1. 1 \in 1..Len(files) /\ 1 - 1 = 0
      BY <2>1
    <3> QED
      BY <2>1, <2>2, <3>1 DEF JoinedUpto
  <2>4. <<>> \o s = s
    BY ConcatEmptySeq DEF Places
  <2> QED
    BY <2>2, <2>3, <2>4 DEF files
<1> QED
  BY <1>1, <1>2

-----------------------------------------------------------------------------
(* One entry for each thing.                                               *)

\* The first n places.
First(n) == [i \in 1..n |-> i]

\* They are a sequence of that length.
LEMMA FirstPlaces ==
  ASSUME NEW n \in Nat
  PROVE  First(n) \in Seq(1..n) /\ Len(First(n)) = n /\ \A i \in 1..n : First(n)[i] = i
<1>1. First(n) \in [1..n -> 1..n]
  BY DEF First
<1>2. First(n) \in Seq(1..n)
  BY <1>1, SeqDef
<1>3. Len(First(n)) = n
  BY <1>1, <1>2, LenProperties
<1> QED
  BY <1>2, <1>3 DEF First

\* What is kept of the first places is the beginning of what is kept of more.
LEMMA KeptGrows ==
  ASSUME NEW n \in Nat, NEW S, NEW kept, KeptOf(kept, First(n), S),
         NEW g \in 0..n
  PROVE  /\ \A k \in 0..n : kept[k] \in Places
         /\ kept[g] = SubSeq(kept[n], 1, Len(kept[g])) /\ Len(kept[g]) <= Len(kept[n])
<1>1. /\ kept[0] = <<>>
      /\ \A i \in 1..n : kept[i] = IF i \in S THEN kept[i - 1] ELSE Append(kept[i - 1], i)
  BY FirstPlaces DEF KeptOf
<1>2. \A k \in 0..n : kept[k] \in Places
  <2> DEFINE In == {k \in Nat : k <= n => kept[k] \in Places}
  <2>1. 0 \in In
    BY <1>1, EmptySeq DEF Places
  <2>2. ASSUME NEW k \in Nat, k \in In PROVE k + 1 \in In
    <3> SUFFICES ASSUME k + 1 <= n PROVE kept[k + 1] \in Places
      OBVIOUS
    <3> DEFINE j == k + 1
    <3>1. j \in 1..n /\ j \in Nat /\ j - 1 = k /\ kept[k] \in Places
      BY <2>2
    <3> HIDE DEF j
    <3>2. kept[j] = IF j \in S THEN kept[k] ELSE Append(kept[k], j)
      BY <1>1, <3>1
    <3> QED
      BY <3>1, <3>2, AppendProperties DEF j, Places
  <2> HIDE DEF In
  <2>3. Nat \subseteq In
    BY <2>1, <2>2, SetInduction
  <2> QED
    BY <2>3 DEF In
<1> DEFINE Begins(k) == /\ Len(kept[g]) <= Len(kept[k])
                        /\ \A i \in 1..Len(kept[g]) : kept[k][i] = kept[g][i]
           In == {k \in Nat : g <= k /\ k <= n => Begins(k)}
<1>3. 0 \in In
  <2>1. kept[g] \in Places
    BY <1>2
  <2>2. Len(kept[g]) \in Nat
    BY <2>1, LenProperties DEF Places
  <2>3. Begins(g)
    BY <2>2
  <2>4. g <= 0 => g = 0
    OBVIOUS
  <2> QED
    BY <2>3, <2>4
<1>4. ASSUME NEW k \in Nat, k \in In PROVE k + 1 \in In
  <2> SUFFICES ASSUME g <= k + 1, k + 1 <= n PROVE Begins(k + 1)
    OBVIOUS
  <2>1. kept[g] \in Places /\ Len(kept[g]) \in Nat
    <3>1. kept[g] \in Places
      BY <1>2
    <3> QED
      BY <3>1, LenProperties DEF Places
  <2>2. CASE g = k + 1
    BY <2>1, <2>2
  <2>3. CASE g <= k
    <3> DEFINE j == k + 1
               last == kept[k]
               given == kept[g]
    <3>1. j \in 1..n /\ j \in Nat /\ j - 1 = k /\ last \in Places
      BY <1>2
    <3>2. Len(given) \in Nat /\ Len(given) <= Len(last) /\ \A i \in 1..Len(given) : last[i] = given[i]
      BY <1>4, <2>1, <2>3
    <3>3. kept[j] = IF j \in S THEN last ELSE Append(last, j)
      BY <1>1, <3>1
    <3> HIDE DEF j, last, given
    <3>4. Len(last) \in Nat /\ Len(last) <= Len(kept[j]) /\ \A i \in 1..Len(last) : kept[j][i] = last[i]
      <4>1. Len(last) \in Nat
        BY <3>1, LenProperties DEF Places
      <4>2. /\ Len(Append(last, j)) = Len(last) + 1
            /\ \A i \in 1..Len(last) : Append(last, j)[i] = last[i]
        BY <3>1, AppendProperties DEF Places
      <4> QED
        BY <3>3, <4>1, <4>2
    <3>5. Len(given) <= Len(kept[j]) /\ \A i \in 1..Len(given) : kept[j][i] = given[i]
      <4>1. \A i \in 1..Len(given) : i \in 1..Len(last)
        BY <3>2, <3>4
      <4>2. Len(kept[j]) \in Nat
        <5>1. kept[j] \in Places
          BY <1>2, <3>1
        <5> QED
          BY <5>1, LenProperties DEF Places
      <4> QED
        BY <3>2, <3>4, <4>1, <4>2
    <3> QED
      BY <3>5 DEF j, given
  <2> QED
    BY <2>2, <2>3
<1> HIDE DEF In
<1>5. n \in In
  BY <1>3, <1>4, SetInduction
<1>6. Begins(n)
  BY <1>5 DEF In
<1>7. kept[g] = SubSeq(kept[n], 1, Len(kept[g]))
  <2> DEFINE whole == kept[n]
             part == kept[g]
  <2>1. whole \in Places /\ part \in Places /\ Len(whole) \in Nat /\ Len(part) \in Nat
    <3>1. whole \in Places /\ part \in Places
      BY <1>2
    <3> QED
      BY <3>1, LenProperties DEF Places
  <2>2. Len(part) <= Len(whole) /\ \A i \in 1..Len(part) : whole[i] = part[i]
    BY <1>6
  <2> HIDE DEF whole, part
  <2> DEFINE cut == SubSeq(whole, 1, Len(part))
  <2>3. \A i \in 1..Len(part) : whole[i] \in Nat
    BY <2>1, <2>2, ElementOfSeq DEF Places
  <2>4. cut \in Seq(Nat) /\ Len(cut) = Len(part) /\ \A i \in 1..Len(part) : cut[i] = whole[i]
    BY <2>1, <2>3, SubSeqProperties
  <2> HIDE DEF cut
  <2>5. cut = part
    BY <2>1, <2>2, <2>4, SeqEqual DEF Places
  <2> QED
    BY <2>5 DEF cut, whole, part
<1> QED
  BY <1>2, <1>6, <1>7

\* The things up to the first that is no entry.
GoodOf(things, kinds, len) == {i \in 1..len : \A j \in 1..i : things[j] \in kinds}

\* They are the first ones.
LEMMA GoodFirst ==
  ASSUME NEW things, NEW kinds, NEW len \in Nat
  PROVE  \E g \in 0..len : GoodOf(things, kinds, len) = 1..g
<1> USE DEF GoodOf
<1> DEFINE bad == {i \in 1..len : things[i] \notin kinds}
           good == GoodOf(things, kinds, len)
<1>1. CASE bad = {}
  <2>1. good = 1..len
    BY <1>1
  <2> QED
    BY <2>1
<1>2. CASE bad # {}
  <2>1. PICK x \in bad : \A y \in bad : x <= y
    <3>1. bad \in SUBSET Nat
      OBVIOUS
    <3> HIDE DEF bad
    <3> QED
      BY <1>2, <3>1, LeastExists
  <2>2. x \in 1..len /\ things[x] \notin kinds
    OBVIOUS
  <2>3. \A i \in 1..len : i < x => things[i] \in kinds
    BY <2>1
  <2>4. \A i \in 1..len : i \in good <=> i < x
    BY <2>2, <2>3
  <2>5. good = 1..x - 1
    BY <2>2, <2>4
  <2> QED
    BY <2>2, <2>5
<1> QED
  BY <1>1, <1>2

\* The files that Each makes have the contents of all things up to that one, but for
\* the bare ones.
LEMMA EachKeeps ==
  ASSUME NEW T, NEW things \in Seq(T), NEW kinds,
         NEW bare, NEW empty, \A t \in kinds : t \in bare <=> t \in empty
  PROVE  ThingsKept(things, bare, Each(things, kinds, empty))
<1> DEFINE len == Len(things)
           good == GoodOf(things, kinds, len)
           paths == {i \in 1..len : things[i] \in bare}
           At(i) == IF things[i] \in empty THEN <<>> ELSE <<i>>
           files == [i \in good |-> At(i)]
<1>1. len \in Nat
  BY LenProperties
<1>2. PICK g \in 0..len : good = 1..g
  <2> HIDE DEF len
  <2>1. \E g \in 0..len : GoodOf(things, kinds, len) = 1..g
    BY <1>1, GoodFirst
  <2> QED
    BY <2>1
<1>3. /\ Each(things, kinds, empty).files = files
      /\ Each(things, kinds, empty).garbled = FALSE
      /\ Each(things, kinds, empty).thrown = (good # 1..len)
  BY DEF Each, Outcome, GoodOf
<1>4. files = [i \in 1..g |-> At(i)]
  BY <1>2
<1>5. \A i \in 1..g : At(i) \in Places
  BY EmptySeq DEF Places
<1>6. good = 1..len => g = len
  BY <1>1, <1>2
<1> HIDE DEF files, At
<1>7. files \in Seq(Places) /\ Len(files) = g /\ \A i \in 1..g : files[i] = At(i)
  <2>1. files \in [1..g -> Places]
    BY <1>4, <1>5
  <2>2. files \in Seq(Places)
    BY <2>1, SeqDef
  <2>3. Len(files) = g
    BY <2>1, <2>2, LenProperties
  <2> QED
    BY <1>4, <2>2, <2>3
<1>8. PICK upto : JoinedUpto(upto, files) /\ Contents(files) = upto[g]
  BY <1>7, ContentsIsLast
<1>9. Positions(things, bare) = Without(First(len), paths)
  BY DEF Positions, First
<1>10. PICK kept : KeptOf(kept, First(len), paths) /\ Positions(things, bare) = kept[len]
  <2> HIDE DEF len, paths
  <2>1. First(len) \in Seq(1..len) /\ Len(First(len)) = len
    BY <1>1, FirstPlaces
  <2>2. PICK kept : KeptOf(kept, First(len), paths)
                    /\ Without(First(len), paths) = kept[Len(First(len))]
    BY <2>1, WithoutIsLast
  <2> QED
    BY <1>9, <2>1, <2>2
<1> HIDE DEF len, good
<1>11. \A k \in 0..len : kept[k] \in Places
  BY <1>1, <1>10, KeptGrows
<1>12. \A i \in 1..g : upto[i - 1] = kept[i - 1] => upto[i] = kept[i]
  <2> TAKE i \in 1..g
  <2>1. i \in 1..len /\ i - 1 \in 0..len /\ i \in Nat
    BY <1>1, <1>2
  <2>2. upto[i] = upto[i - 1] \o At(i)
    BY <1>7, <1>8 DEF JoinedUpto
  <2>3. kept[i] = IF i \in paths THEN kept[i - 1] ELSE Append(kept[i - 1], i)
    <3> HIDE DEF paths
    <3>1. First(len)[i] = i /\ Len(First(len)) = len
      BY <1>1, <2>1, FirstPlaces
    <3> QED
      BY <1>10, <2>1, <3>1 DEF KeptOf
  <2>4. kept[i - 1] \in Places
    BY <1>11, <2>1
  <2>5. i \in paths <=> things[i] \in empty
    <3>1. things[i] \in kinds
      BY <1>2, <2>1 DEF good, len, GoodOf
    <3> QED
      BY <2>1, <3>1 DEF len
  <2>6. \A s \in Places : s \o <<>> = s /\ s \o <<i>> = Append(s, i)
    BY <2>1 DEF Places
  <2> HIDE DEF paths
  <2>7. CASE things[i] \in empty
    <3>1. At(i) = <<>>
      BY <2>7 DEF At
    <3> QED
      BY <2>2, <2>3, <2>4, <2>5, <2>6, <2>7, <3>1
  <2>8. CASE things[i] \notin empty
    <3>1. At(i) = <<i>>
      BY <2>8 DEF At
    <3> QED
      BY <2>2, <2>3, <2>4, <2>5, <2>6, <2>8, <3>1
  <2> QED
    BY <2>7, <2>8
<1>13. upto[g] = kept[g]
  <2>1. upto[0] = kept[0]
    BY <1>8, <1>10 DEF JoinedUpto, KeptOf
  <2>2. StepAlike(upto, kept, g)
    BY <1>12, <2>1 DEF StepAlike
  <2> QED
    BY <1>2, <2>2, SameSteps
<1>14. /\ kept[g] = SubSeq(kept[len], 1, Len(kept[g]))
       /\ Len(kept[g]) \in 0..Len(kept[len])
  <2>1. kept[g] \in Places /\ kept[len] \in Places
    BY <1>1, <1>11
  <2>2. Len(kept[g]) \in Nat /\ Len(kept[len]) \in Nat
    BY <2>1, LenProperties DEF Places
  <2> HIDE DEF paths
  <2> QED
    BY <1>1, <1>10, <2>2, KeptGrows
<1> QED
  BY <1>3, <1>6, <1>8, <1>10, <1>13, <1>14 DEF ThingsKept, len

-----------------------------------------------------------------------------
(* All things in one entry.                                                *)

\* No things have no positions, and those are all of them.
LEMMA NoPositions ==
  /\ \A bare : Positions(<<>>, bare) = <<>>
  /\ 0 \in 0..Len(<<>>) /\ SubSeq(<<>>, 1, 0) = <<>>
<1> DEFINE things == <<>>
           len == Len(things)
           At(bare) == {i \in 1..len : things[i] \in bare}
<1>1. len = 0
  OBVIOUS
<1>2. First(len) \in Seq(1..len) /\ Len(First(len)) = 0
  <2> HIDE DEF len
  <2> QED
    BY <1>1, FirstPlaces
<1>3. First(len) = <<>>
  <2> HIDE DEF len
  <2> QED
    BY <1>2, EmptySeq
<1>4. ASSUME NEW bare PROVE Positions(things, bare) = Without(First(len), At(bare))
  BY DEF Positions, First
<1>5. ASSUME NEW bare PROVE Without(First(len), At(bare)) = First(len)
  <2>1. (1..len) \cap At(bare) = {}
    BY <1>1
  <2> HIDE DEF len, At
  <2> QED
    BY <1>2, <2>1, WithoutNothing
<1>6. 0 \in 0..Len(<<>>) /\ SubSeq(<<>>, 1, 0) = <<>>
  BY EmptySeq, SubSeqEmpty
<1> QED
  BY <1>3, <1>4, <1>5, <1>6

\* Refusing an input makes nothing of it.
LEMMA RefusedKeeps ==
  ASSUME NEW T, NEW things \in Seq(T), NEW bare
  PROVE  ThingsKept(things, bare, Refused)
<1> DEFINE all == Positions(things, bare)
<1>1. SubSeq(all, 1, 0) = <<>>
  BY SubSeqEmpty
<1>2. 0 \in 0..Len(all)
  <2>1. Len(things) \in Nat
    BY LenProperties
  <2>2. all \in Seq((1..Len(things)) \ {i \in 1..Len(things) : things[i] \in bare})
    BY <2>1, FirstPlaces, WithoutIsSequence DEF Positions, First
  <2> HIDE DEF all
  <2>3. Len(all) \in Nat
    BY <2>2, LenProperties
  <2> QED
    BY <2>3
<1>3. Refused.files = <<>> /\ Refused.garbled = FALSE /\ Refused.thrown = TRUE
  BY DEF Refused, Outcome
<1> HIDE DEF all
<1> QED
  BY <1>1, <1>2, <1>3, ContentsOfFew DEF ThingsKept, all

\* So do all things of one entry.
LEMMA AllInOneKeeps ==
  ASSUME NEW T, NEW things \in Seq(T), NEW bare,
         bare \cap {"integer", "bytes", "text"} = {}
  PROVE  ThingsKept(things, bare, AllInOne(things))
<1> DEFINE len == Len(things)
           outcome == AllInOne(things)
           whole == First(len)
<1>1. len \in Nat
  BY LenProperties
<1>2. /\ whole \in Seq(1..len) /\ whole \in Places /\ Len(whole) = len
      /\ SubSeq(whole, 1, len) = whole
  <2>1. whole \in Seq(1..len) /\ Len(whole) = len
    BY <1>1, FirstPlaces
  <2>2. whole \in Places
    BY <2>1, SeqMonotonic DEF Places
  <2> HIDE DEF whole
  <2> QED
    BY <2>1, <2>2, SubSeqFull
<1>3. CASE things = <<>>
  <2>1. /\ outcome.files = << <<>> >> /\ outcome.garbled = FALSE /\ outcome.thrown = FALSE
    BY <1>3 DEF AllInOne, Outcome
  <2>2. Positions(things, bare) = <<>>
    BY <1>3, NoPositions
  <2>3. Contents(<< <<>> >>) = <<>>
    BY EmptySeq, ContentsOfFew DEF Places
  <2> HIDE DEF outcome
  <2>4. ThingsKept(things, bare, outcome)
    BY <2>1, <2>2, <2>3, NoPositions DEF ThingsKept
  <2> QED
    BY <2>4 DEF outcome
<1>4. CASE things # <<>> /\ Head(things) \notin {"integer", "bytes", "text"}
  BY <1>4, RefusedKeeps DEF AllInOne
<1>5. CASE things # <<>> /\ Head(things) \in {"integer", "bytes", "text"}
  <2> DEFINE fits == IF Head(things) = "integer" THEN {"integer"} ELSE {"bytes", "text"}
  <2>1. /\ outcome.files = <<whole>>
        /\ outcome.garbled = (\E i \in 1..len : things[i] \notin fits)
    BY <1>5 DEF AllInOne, Outcome, First
  <2>2. Contents(<<whole>>) = whole
    BY <1>2, ContentsOfFew
  <2>3. things[1] \in fits /\ bare \cap fits = {} /\ 1 \in 1..len
    <3>1. Head(things) = things[1]
      BY <1>5, FirstOf
    <3>2. 1 \in 1..len
      BY <1>1, <1>5, EmptySeq
    <3> QED
      BY <1>5, <3>1, <3>2
  <2> HIDE DEF outcome, fits
  <2>4. CASE outcome.garbled
    <3>1. PICK k \in 1..len : things[k] \notin fits
      BY <2>1, <2>4
    <3>2. \E i, j \in 1..len : things[i] # things[j]
      BY <2>3, <3>1
    <3>3. len \in 0..Len(whole)
      BY <1>1, <1>2
    <3>4. ThingsKept(things, bare, outcome)
      BY <1>2, <2>1, <2>2, <2>4, <3>2, <3>3 DEF ThingsKept, First
    <3> QED
      BY <3>4 DEF outcome
  <2>5. CASE ~outcome.garbled
    <3>1. {i \in 1..len : things[i] \in bare} = {}
      BY <2>1, <2>3, <2>5
    <3>2. Positions(things, bare) = whole
      <4>1. Positions(things, bare) = Without(whole, {i \in 1..len : things[i] \in bare})
        BY DEF Positions, First
      <4>2. (1..len) \cap {} = {}
        OBVIOUS
      <4>3. Without(whole, {}) = whole
        BY <1>2, <4>2, WithoutNothing
      <4> QED
        BY <3>1, <4>1, <4>3
    <3>3. len \in 0..Len(whole)
      BY <1>1, <1>2
    <3>4. ThingsKept(things, bare, outcome)
      BY <1>2, <2>1, <2>2, <2>5, <3>2, <3>3 DEF ThingsKept
    <3> QED
      BY <3>4 DEF outcome
  <2> QED
    BY <2>4, <2>5
<1> QED
  BY <1>3, <1>4, <1>5

-----------------------------------------------------------------------------
(* All conversions.                                                        *)

\* The things of an input are a sequence.
LEMMA ThingsOfInput ==
  ASSUME NEW T, NEW i \in InputsOf(T)
  PROVE  i.of \in Seq(T)
<1>1. CASE i \in {One(t) : t \in T}
  <2>1. PICK t \in T : i.of = <<t>>
    BY <1>1 DEF One
  <2> QED
    BY <2>1
<1>2. CASE i \in {Many(s) : s \in UNION {[1..n -> T] : n \in 0..MaxThings}}
  <2>1. PICK n \in 0..MaxThings : i.of \in [1..n -> T]
    BY <1>2 DEF Many
  <2>2. n \in Nat
    BY ConversionsAssumption
  <2> QED
    BY <2>1, <2>2, SeqDef
<1> QED
  BY <1>1, <1>2 DEF InputsOf

\* addAll takes each thing for an entry, or all bytes for one, or refuses.
LEMMA MultipleKeeps ==
  ASSUME NEW T, NEW i, i.of \in Seq(T)
  PROVE  ThingsKept(i.of, {"path"} \cup LostByAddAll(i.of), NormaliseMultiple(i))
<1> DEFINE things == i.of
           bare == {"path"} \cup LostByAddAll(things)
<1>1. bare \cap {"integer", "bytes", "text"} = {}
  BY DEF LostByAddAll
<1>2. CASE i.one
  BY <1>2, RefusedKeeps DEF NormaliseMultiple
<1>3. CASE ~i.one /\ things = <<>>
  <2> DEFINE none == NormaliseMultiple(i)
  <2>1. none = Outcome(<<>>, FALSE, FALSE)
    BY <1>3 DEF NormaliseMultiple
  <2>2. none.files = <<>> /\ none.garbled = FALSE /\ none.thrown = FALSE
    BY <2>1 DEF Outcome
  <2> HIDE DEF none, bare
  <2>3. ThingsKept(<<>>, bare, none)
    BY <2>2, ContentsOfFew, NoPositions DEF ThingsKept
  <2> QED
    BY <1>3, <2>3 DEF none, bare
<1>4. CASE ~i.one /\ things # <<>> /\ Head(things) = "readable"
  <2>1. NormaliseMultiple(i) = Each(things, Content, {})
    BY <1>4 DEF NormaliseMultiple
  <2>2. \A t \in Content : t \in bare <=> t \in {}
    BY <1>4 DEF Content, LostByAddAll
  <2> HIDE DEF bare
  <2> QED
    BY <2>1, <2>2, EachKeeps DEF bare
<1>5. CASE ~i.one /\ things # <<>> /\ Head(things) # "readable"
  <2>1. \/ NormaliseMultiple(i) = Each(things, Entry, Pathed)
        \/ NormaliseMultiple(i) = AllInOne(things)
        \/ NormaliseMultiple(i) = Refused
    BY <1>5 DEF NormaliseMultiple
  <2>2. \A t \in Entry : t \in bare <=> t \in Pathed
    BY <1>5 DEF LostByAddAll, Pathed
  <2> HIDE DEF things, bare
  <2>3. things \in Seq(T)
    BY DEF things
  <2>4. ThingsKept(things, bare, NormaliseMultiple(i))
    BY <1>1, <2>1, <2>2, <2>3, EachKeeps, AllInOneKeeps, RefusedKeeps
  <2> QED
    BY <2>4 DEF things, bare
<1> QED
  BY <1>2, <1>3, <1>4, <1>5

\* What division leaves.
LEMMA Remainder ==
  ASSUME NEW a \in Int, NEW b \in Nat \ {0}
  PROVE  a - (a \div b) * b \in 0..b - 1
OBVIOUS

\* A second has some nanoseconds.
LEMMA NanosPositive == NanosOfSecond \in Nat \ {0}
<1>1. \A a, b \in Nat \ {0} : a * b \in Nat \ {0}
  OBVIOUS
<1> QED
  BY <1>1, ConversionsAssumption DEF NanosOfSecond

\* The milliseconds of a second, scaled to microseconds, are fewer than its nanoseconds.
LEMMA MillisFit ==
  ASSUME NEW k \in 0..Kilo - 1
  PROVE  k * Kilo \in 0..NanosOfSecond - 1
<1>1. Kilo \in Nat /\ Kilo >= 2 /\ k \in Nat /\ k + 1 <= Kilo
  BY ConversionsAssumption
<1>2. k * Kilo \in Nat /\ k * Kilo + Kilo <= Kilo * Kilo
  <2>1. (k + 1) * Kilo <= Kilo * Kilo
    BY <1>1
  <2> QED
    BY <1>1, <2>1
<1> DEFINE square == Kilo * Kilo
<1>3. square \in Nat /\ k * Kilo < square /\ NanosOfSecond = square * Kilo
  BY <1>1, <1>2 DEF NanosOfSecond
<1> HIDE DEF square
<1>4. square <= square * Kilo /\ square * Kilo \in Nat
  BY <1>1, <1>3
<1> QED
  BY <1>2, <1>3, <1>4

\* A time is the given one.
LEMMA TimeIsKept ==
  ASSUME NEW m \in Mtimes
  PROVE  TimeKept(m, ParseMtime(m))
<1> DEFINE N == NanosOfSecond
           fits == Mtime(m).nsecs \in 0..N - 1
           void == m.form \in {"none", "other"}
<1>1. N \in Nat \ {0}
  BY NanosPositive
<1>2. /\ ParseMtime(m).thrown = (~void /\ ~fits)
      /\ ParseMtime(m).times = IF ~void /\ fits THEN {Mtime(m)} ELSE {}
  BY DEF ParseMtime
<1>3. m.form \in {"none", "other", "pair", "date", "bigint"}
  BY DEF Mtimes
<1>4. CASE void
  BY <1>2, <1>4 DEF TimeKept
<1>5. CASE m.form = "pair"
  <2>1. Mtime(m) = [secs |-> m.secs, nsecs |-> m.nsecs]
    BY <1>5 DEF Mtime
  <2>2. Mtime(m).nsecs = m.nsecs
    BY <2>1
  <2>3. \A t \in ParseMtime(m).times : t = Mtime(m) /\ t.nsecs \in 0..N - 1
    BY <1>2
  <2>4. ParseMtime(m).times = {} => ParseMtime(m).thrown
    BY <1>2, <1>5
  <2>5. ParseMtime(m).thrown => m.nsecs \notin 0..N - 1
    BY <1>2, <2>2
  <2> QED
    BY <1>5, <2>1, <2>3, <2>4, <2>5 DEF TimeKept
<1>6. CASE m.form = "date"
  <2> DEFINE rest == m.ms - (m.ms \div Kilo) * Kilo
  <2>1. m.ms \in Int /\ Kilo \in Nat \ {0, 1}
    BY <1>6, ConversionsAssumption DEF Mtimes
  <2>2. Mtime(m).secs = m.ms \div Kilo /\ Mtime(m).nsecs = rest * Kilo
    BY <1>6 DEF Mtime
  <2>3. rest \in 0..Kilo - 1
    BY <2>1, Remainder
  <2> HIDE DEF rest
  <2>4. rest * Kilo \in 0..N - 1
    BY <2>1, <2>3, MillisFit
  <2>5. fits
    BY <2>2, <2>4
  <2> QED
    BY <1>2, <1>6, <2>2, <2>5 DEF TimeKept
<1>7. CASE m.form = "bigint"
  <2> DEFINE secs == Quotient(m.ns, N)
             whole == secs * N
  <2>1. m.ns \in Int
    BY <1>1, <1>7 DEF Mtimes
  <2>2. secs \in Int
    BY <1>1, <2>1 DEF Quotient
  <2>3. Mtime(m).secs = secs /\ Mtime(m).nsecs = m.ns - whole
    BY <1>7 DEF Mtime
  <2>4. m.ns >= 0 => m.ns - whole \in 0..N - 1
    <3> SUFFICES ASSUME m.ns >= 0 PROVE m.ns - whole \in 0..N - 1
      OBVIOUS
    <3>1. secs = m.ns \div N
      BY <2>1 DEF Quotient
    <3> HIDE DEF N
    <3> QED
      BY <1>1, <2>1, <3>1, Remainder
  <2>5. whole \in Int /\ Mtime(m).secs * N = whole
    BY <1>1, <2>2, <2>3
  <2> HIDE DEF secs, whole, N
  <2>6. Mtime(m).secs * N + Mtime(m).nsecs = m.ns
    BY <2>1, <2>3, <2>5
  <2>7. ~fits => m.ns < 0
    BY <2>1, <2>3, <2>4
  <2> QED
    BY <1>2, <1>7, <2>6, <2>7 DEF TimeKept, N
<1> QED
  BY <1>3, <1>4, <1>5, <1>6, <1>7

\* An event has the peers it is about.
LEMMA PeersAreKept ==
  ASSUME NEW event \in Events
  PROVE  PeersKept(event, MapEvent(event))
<1> DEFINE result == MapEvent(event)
           peers  == 1..event.responses
<1>1. /\ event.type \in EventTypes /\ event.id \in BOOLEAN
      /\ event.responses \in {-1, 0, 1, 2}
  BY DEF Events
<1>2. event.responses > 0 => 1 \in peers
  BY <1>1
<1> USE DEF PeersKept, PeersOf, PeersIn, MapEvent, Mapped, Unmapped
<1>3. CASE event.type \in {"SENDING_QUERY", "QUERY_ERROR", "VALUE", "unknown"}
  BY <1>3
<1>4. CASE event.type = "PEER_RESPONSE"
  BY <1>1, <1>4
<1>5. CASE event.type = "FINAL_PEER"
  BY <1>1, <1>2, <1>5
<1>6. CASE event.type = "PROVIDER"
  BY <1>1, <1>6
<1>7. CASE event.type = "ADDING_PEER"
  BY <1>1, <1>2, <1>7
<1>8. CASE event.type = "DIALING_PEER"
  BY <1>1, <1>8
<1> QED
  BY <1>1, <1>3, <1>4, <1>5, <1>6, <1>7, <1>8 DEF EventTypes

\* What a conversion makes of its input.
Result ==
  CASE conversion = "add"    -> NormaliseSingle(input)
    [] conversion = "addAll" -> NormaliseMultiple(input)
    [] conversion = "pins"   -> NormalisePins(input)
    [] conversion = "mtime"  -> ParseMtime(input)
    [] conversion = "events" -> MapEvent(input)

\* A conversion has been made or not, of an input it is for.
Converts ==
  /\ conversion \in {"unused", "add", "addAll", "pins", "mtime", "events"}
  /\ conversion \in {"add", "addAll"} => input \in InputsOf(Things)
  /\ conversion = "pins" => input \in InputsOf(PinThings)
  /\ conversion = "mtime" => input \in Mtimes
  /\ conversion = "events" => input \in Events
  /\ output # <<>> => conversion # "unused" /\ output = <<Result>>

\* What was made of it is all of it.
LEMMA ConvertedKeeps ==
  ASSUME Converts
  PROVE  ConversionsKeep
<1> SUFFICES ASSUME output # <<>> PROVE ConversionsKeep
  BY DEF ConversionsKeep
<1>1. output[1] = Result /\ conversion \in {"add", "addAll", "pins", "mtime", "events"}
  BY DEF Converts
<1>2. CASE conversion = "add"
  <2>1. input.of \in Seq(Things) /\ Result = NormaliseSingle(input)
    BY <1>2, ThingsOfInput DEF Converts, Result
  <2>2. Result = Each(input.of, Entry, {"path"}) \/ Result = AllInOne(input.of)
    BY <2>1 DEF NormaliseSingle
  <2>3. {"path"} \cap {"integer", "bytes", "text"} = {}
    OBVIOUS
  <2>4. ThingsKept(input.of, {"path"}, Result)
    BY <2>1, <2>2, <2>3, EachKeeps, AllInOneKeeps
  <2>5. BareOf(input.of) = {"path"}
    BY <1>2 DEF BareOf
  <2> QED
    BY <1>1, <1>2, <2>4, <2>5 DEF ConversionsKeep
<1>3. CASE conversion = "addAll"
  <2>1. input.of \in Seq(Things) /\ Result = NormaliseMultiple(input)
    BY <1>3, ThingsOfInput DEF Converts, Result
  <2>2. ThingsKept(input.of, {"path"} \cup LostByAddAll(input.of), Result)
    BY <2>1, MultipleKeeps
  <2>3. BareOf(input.of) = {"path"} \cup LostByAddAll(input.of)
    BY <1>3 DEF BareOf
  <2> QED
    BY <1>1, <1>3, <2>2, <2>3 DEF ConversionsKeep
<1>4. CASE conversion = "pins"
  <2>1. input.of \in Seq(PinThings) /\ Result = Each(input.of, Pinnable, {})
    BY <1>4, ThingsOfInput DEF Converts, Result, NormalisePins
  <2>2. \A t \in Pinnable : t \in {"path"} <=> t \in {}
    BY DEF Pinnable
  <2>3. ThingsKept(input.of, {"path"}, Result)
    BY <2>1, <2>2, EachKeeps
  <2>4. BareOf(input.of) = {"path"}
    BY <1>4 DEF BareOf
  <2> QED
    BY <1>1, <1>4, <2>3, <2>4 DEF ConversionsKeep
<1>5. CASE conversion = "mtime"
  <2>1. TimeKept(input, Result)
    BY <1>5, TimeIsKept DEF Converts, Result
  <2> QED
    BY <1>1, <1>5, <2>1 DEF ConversionsKeep
<1>6. CASE conversion = "events"
  <2>1. PeersKept(input, Result)
    BY <1>6, PeersAreKept DEF Converts, Result
  <2> QED
    BY <1>1, <1>6, <2>1 DEF ConversionsKeep
<1> QED
  BY <1>1, <1>2, <1>3, <1>4, <1>5, <1>6

\* A conversion begins with nothing made of its input.
LEMMA ConvertStarts ==
  ASSUME ConvertUnused \/ ConvertInit
  PROVE  Converts
BY DEF ConvertUnused, ConvertInit, Converts

\* It is made once.
LEMMA ConvertKeeps ==
  ASSUME Converts, Convert \/ UNCHANGED convertVars
  PROVE  Converts'
<1>1. CASE Convert
  <2>1. conversion \in {"add", "addAll", "pins", "mtime", "events"}
    BY <1>1 DEF Convert, Converts
  <2>2. conversion' = conversion /\ input' = input
    BY <1>1 DEF Convert
  <2>3. output' = <<Result>>
    BY <1>1, <2>1 DEF Convert, Result
  <2>4. Result' = Result
    BY <2>2 DEF Result
  <2> QED
    BY <2>1, <2>2, <2>3, <2>4 DEF Converts
<1>2. CASE UNCHANGED convertVars
  <2>1. conversion' = conversion /\ input' = input /\ output' = output
    BY <1>2 DEF convertVars
  <2>2. Result' = Result
    BY <2>1 DEF Result
  <2> QED
    BY <2>1, <2>2 DEF Converts
<1> QED
  BY <1>1, <1>2

-----------------------------------------------------------------------------
(* All three.                                                              *)

\* The inductive invariant.
IInv == WalkInv /\ LsInv /\ Converts

\* The initial states satisfy it.
LEMMA InitMakes ==
  ASSUME Init
  PROVE  IInv
<1>1. WalkInv
  BY GetInitMakes, GetUnusedMakes DEF Init
<1>2. LsInv
  BY LsStartMakes DEF Init, LsInit
<1>3. Converts
  BY ConvertStarts DEF Init
<1> QED
  BY <1>1, <1>2, <1>3 DEF IInv

\* Every step keeps it.
LEMMA NextKeeps ==
  ASSUME IInv, [Next]_readsVars
  PROVE  IInv'
<1>1. WalkInv'
  BY GetNextKeeps DEF IInv, Next, readsVars, getVars
<1>2. LsInv'
  BY LsNextKeeps DEF IInv, Next, readsVars, lsVars
<1>3. Converts'
  BY ConvertKeeps DEF IInv, Next, readsVars, convertVars
<1> QED
  BY <1>1, <1>2, <1>3 DEF IInv

\* So it always holds.
LEMMA Inductive == Spec => []IInv
  BY InitMakes, NextKeeps, PTL DEF Spec

\* The variables of dag.get, of ls and of a conversion have their types, and
\* while ls gives a line each of its links has its promise.
THEOREM TypeCorrect == Spec => []TypeOK
<1>1. IInv => TypeOK
  <2>1. Len(<<>>) = 0 /\ \A result : Len(<<result>>) = 1
    OBVIOUS
  <2>2. ASSUME Converts PROVE Len(output) <= 1
    <3>1. Len(output) = 0 \/ Len(output) = 1
      BY <2>1, <2>2 DEF Converts
    <3> DEFINE len == Len(output)
    <3>2. len = 0 \/ len = 1
      BY <3>1
    <3> HIDE DEF len
    <3>3. len <= 1
      BY ONLY <3>2
    <3> QED
      BY <3>3 DEF len
  <2> QED
    BY <2>2 DEF IInv, Converts, WalkInv, LsInv, TypeOK
<1> QED
  BY <1>1, Inductive, PTL

\* For listings of any lengths, and in whatever order the stat requests are
\* answered, ls (src/ls.ts) gives the entries as the daemon listed them.
THEOREM EntriesCorrect == Spec => []EntriesInOrder
<1>1. IInv => EntriesInOrder
  BY GivenInOrder DEF IInv
<1> QED
  BY <1>1, Inductive, PTL

\* Whatever an input consists of, as many things as it may be, add, addAll and
\* the pin commands (src/lib/files/normalise-input-multiple.ts, normalise-content.ts,
\* src/lib/pins/normalise-input.ts) repeat or make up none of them and lose none but
\* an fs.ReadStream after another kind of entry (LostByAddAll); an mtime that is
\* accepted keeps its time, and a routing event that is has its peers.
THEOREM ConversionsCorrect == Spec => []ConversionsKeep
<1>1. IInv => ConversionsKeep
  BY ConvertedKeeps DEF IInv
<1> QED
  BY <1>1, Inductive, PTL

\* For any blocks and paths, dag.get (src/dag/get.ts, src/lib/resolve.ts) finds
\* what the path names, and nothing that is not there.
THEOREM FoundCorrect == Spec => []FindsNode
<1>1. IInv => FindsNode
  BY DEF IInv, WalkInv, OnTheWay
<1> QED
  BY <1>1, Inductive, PTL
=============================================================================
