---------------------------- MODULE NdjsonProofs ----------------------------
(***************************************************************************)
(* Theorems about Ndjson, for bodies of any length and any bytes.          *)
(*                                                                         *)
(* A byte more takes one step more of the decoder and of the split, so     *)
(* after each chunk the reader holds what decoding the incomplete line in  *)
(* one go gives, and has cut off exactly the lines that the chunk ends.    *)
(***************************************************************************)
EXTENDS Ndjson, InductionProofs

-----------------------------------------------------------------------------
(* The recursive functions of Ndjson, one step further each time.          *)

Decoded == [lead : BOOLEAN, text : Seq(Chars)]
Split   == [lines : Seq(Line), rest : Line]

\* Where the decoding of bytes is after each of them.
DecodesTo(after, held, bytes) ==
  /\ after \in [0..Len(bytes) -> Decoded]
  /\ after[0] = [lead |-> held, text |-> <<>>]
  /\ \A i \in 1..Len(bytes) : after[i] = DecodeByte(after[i - 1], bytes[i])

LEMMA DecodeByteType ==
  ASSUME NEW acc \in Decoded, NEW byte \in Bytes
  PROVE  DecodeByte(acc, byte) \in Decoded
<1> DEFINE x == acc.text
<1>1. x \in Seq(Chars) /\ acc.lead \in BOOLEAN
  BY DEF Decoded
<1>2. \A ch \in Chars : Append(x, ch) \in Seq(Chars)
  BY <1>1, AppendProperties
<1> DEFINE held == IF acc.lead THEN Append(x, "?") ELSE x
<1>3. held \in Seq(Chars)
  BY <1>1, <1>2 DEF Chars
<1>4. \A ch \in Chars : Append(held, ch) \in Seq(Chars)
  BY <1>3, AppendProperties
<1>5. DecodeByte(acc, byte) =
        CASE byte = "T" -> [lead |-> FALSE, text |-> Append(x, IF acc.lead THEN "m" ELSE "?")]
          [] byte = "L" -> [lead |-> TRUE, text |-> held]
          [] OTHER      -> [lead |-> FALSE, text |-> Append(held, byte)]
  BY DEF DecodeByte
<1> HIDE DEF x, held
<1>6. CASE byte = "T"
  BY <1>2, <1>5, <1>6 DEF Decoded, Chars
<1>7. CASE byte = "L"
  BY <1>3, <1>5, <1>7 DEF Decoded
<1>8. CASE byte # "T" /\ byte # "L"
  <2>1. byte \in Chars
    BY <1>8, NdjsonAssumption DEF Chars
  <2>2. Append(held, byte) \in Seq(Chars)
    BY <1>4, <2>1
  <2> QED
    BY <1>5, <1>8, <2>2 DEF Decoded
<1> QED
  BY <1>6, <1>7, <1>8

LEMMA DecodeIsLast ==
  ASSUME NEW held \in BOOLEAN, NEW bytes \in Seq(Bytes)
  PROVE  \E after : DecodesTo(after, held, bytes) /\ Decode(held, bytes) = after[Len(bytes)]
<1> DEFINE len == Len(bytes)
           first == [lead |-> held, text |-> <<>>]
           G == [i \in 1..len |-> [acc \in Decoded |-> DecodeByte(acc, bytes[i])]]
           At(after, i) == IF i = 0 THEN first ELSE DecodeByte(after[i - 1], bytes[i])
           Is(after) == after = [i \in 0..len |-> At(after, i)]
           chosen == CHOOSE after : Is(after)
<1>0. len \in Nat
  BY LenProperties
<1>1. \A i \in 1..len : bytes[i] \in Bytes
  BY LenProperties
<1>2. Decode(held, bytes) = chosen[len]
  BY DEF Decode
<1>3. first \in Decoded
  BY EmptySeq DEF Decoded
<1> HIDE DEF len, first
<1>4. G \in [1..len -> [Decoded -> Decoded]]
  BY <1>1, DecodeByteType
<1>5. PICK f \in [0..len -> Decoded] : f[0] = first /\ \A i \in 1..len : f[i] = G[i][f[i - 1]]
  <2> HIDE DEF G
  <2>1. \E f \in [0..len -> Decoded] : Recurs(f, first, len, G)
    BY <1>0, <1>3, <1>4, Recursion
  <2> QED
    BY <2>1 DEF Recurs
<1>6. ASSUME NEW i \in 1..len PROVE f[i] = DecodeByte(f[i - 1], bytes[i])
  <2>1. i - 1 \in 0..len /\ f[i - 1] \in Decoded
    BY <1>0, <1>5
  <2> QED
    BY <1>5, <2>1
<1>7. Is(f)
  <2>1. ASSUME NEW i \in 0..len PROVE f[i] = At(f, i)
    BY <1>0, <1>5, <1>6
  <2> HIDE DEF At
  <2> QED
    BY <1>5, <2>1
<1>8. Is(chosen)
  BY <1>7
<1> HIDE DEF chosen
<1>9. chosen = [i \in 0..len |-> At(chosen, i)]
  BY <1>8
<1>10. chosen[0] = first /\ \A i \in 1..len : chosen[i] = DecodeByte(chosen[i - 1], bytes[i])
  <2>1. \A i \in 0..len : chosen[i] = At(chosen, i)
    <3> HIDE DEF At
    <3> QED
      BY <1>9
  <2> QED
    BY <1>0, <2>1
<1>11. chosen \in [0..len -> Decoded]
  <2>1. chosen = [i \in 0..len |-> chosen[i]]
    <3> HIDE DEF At
    <3> QED
      BY <1>9
  <2>2. \A i \in 1..len : chosen[i - 1] \in Decoded => chosen[i] \in Decoded
    BY <1>1, <1>10, DecodeByteType
  <2> QED
    BY <1>0, <1>3, <1>10, <2>1, <2>2, StaysIn
<1> QED
  BY <1>2, <1>10, <1>11 DEF DecodesTo, len, first

\* Nothing is decoded to nothing; a byte more takes one step more.
LEMMA DecodeSteps ==
  ASSUME NEW held \in BOOLEAN
  PROVE  /\ Decode(held, <<>>) = [lead |-> held, text |-> <<>>]
         /\ \A bytes \in Seq(Bytes) :
              /\ Decode(held, bytes) \in Decoded
              /\ \A byte \in Bytes :
                   Decode(held, Append(bytes, byte)) = DecodeByte(Decode(held, bytes), byte)
<1>1. Decode(held, <<>>) = [lead |-> held, text |-> <<>>]
  <2>1. <<>> \in Seq(Bytes) /\ Len(<<>>) = 0
    BY EmptySeq
  <2>2. PICK f : DecodesTo(f, held, <<>>) /\ Decode(held, <<>>) = f[Len(<<>>)]
    BY <2>1, DecodeIsLast
  <2> QED
    BY <2>1, <2>2 DEF DecodesTo
<1>2. ASSUME NEW bytes \in Seq(Bytes) PROVE Decode(held, bytes) \in Decoded
  <2>1. PICK f : DecodesTo(f, held, bytes) /\ Decode(held, bytes) = f[Len(bytes)]
    BY DecodeIsLast
  <2>2. Len(bytes) \in 0..Len(bytes)
    BY LenProperties
  <2> QED
    BY <2>1, <2>2 DEF DecodesTo
<1>3. ASSUME NEW bytes \in Seq(Bytes), NEW byte \in Bytes
      PROVE  Decode(held, Append(bytes, byte)) = DecodeByte(Decode(held, bytes), byte)
  <2> DEFINE len == Len(bytes)
             more == Append(bytes, byte)
  <2>1. PICK f : DecodesTo(f, held, bytes) /\ Decode(held, bytes) = f[len]
    BY DecodeIsLast
  <2>2. /\ more \in Seq(Bytes) /\ Len(more) = len + 1 /\ more[len + 1] = byte
        /\ \A i \in 1..len : more[i] = bytes[i]
    BY AppendProperties
  <2>3. len \in Nat
    BY LenProperties
  <2> HIDE DEF len, more
  <2>4. PICK g : DecodesTo(g, held, more) /\ Decode(held, more) = g[Len(more)]
    BY <2>2, DecodeIsLast
  <2>5. f[0] = g[0] /\ \A i \in 1..len : f[i] = DecodeByte(f[i - 1], bytes[i])
    BY <2>1, <2>4 DEF DecodesTo, len
  <2>6. \A i \in 1..len + 1 : g[i] = DecodeByte(g[i - 1], more[i])
    BY <2>2, <2>4 DEF DecodesTo
  <2>7. \A i \in 1..len : f[i - 1] = g[i - 1] => f[i] = g[i]
    <3> TAKE i \in 1..len
    <3>1. i \in 1..len + 1
      BY <2>3
    <3> QED
      BY <2>2, <2>5, <2>6, <3>1
  <2>8. f[len] = g[len]
    <3>1. f[0] = g[0]
      BY <2>5
    <3>2. StepAlike(f, g, len)
      BY <2>7, <3>1 DEF StepAlike
    <3> QED
      BY <2>3, <3>2, SameSteps
  <2>9. g[len + 1] = DecodeByte(g[len], byte)
    <3>1. len + 1 \in 1..len + 1 /\ (len + 1) - 1 = len
      BY <2>3
    <3> QED
      BY <2>2, <2>6, <3>1
  <2> QED
    BY <2>1, <2>2, <2>4, <2>8, <2>9 DEF more
<1> QED
  BY <1>1, <1>2, <1>3

\* Where the splitting of a text is after each of its characters.
SplitsTo(upto, text) ==
  /\ upto \in [0..Len(text) -> Split]
  /\ upto[0] = [lines |-> <<>>, rest |-> <<>>]
  /\ \A i \in 1..Len(text) : upto[i] = SplitChar(upto[i - 1], text[i])

LEMMA SplitCharType ==
  ASSUME NEW acc \in Split, NEW ch \in Chars
  PROVE  SplitChar(acc, ch) \in Split
<1>1. acc.lines \in Seq(Line) /\ acc.rest \in Line
  BY DEF Split
<1>2. <<>> \in Line
  BY EmptySeq DEF Line
<1>3. CASE ch = "n"
  <2>1. Append(acc.lines, acc.rest) \in Seq(Line)
    BY <1>1, AppendProperties
  <2> QED
    BY <1>2, <1>3, <2>1 DEF SplitChar, Split
<1>4. CASE ch # "n"
  <2>1. Append(acc.rest, ch) \in Line
    BY <1>1, <1>4, AppendProperties DEF Line
  <2> QED
    BY <1>1, <1>4, <2>1 DEF SplitChar, Split
<1> QED
  BY <1>3, <1>4

LEMMA SplitIsLast ==
  ASSUME NEW text \in Seq(Chars)
  PROVE  \E upto : SplitsTo(upto, text) /\ SplitLines(text) = upto[Len(text)]
<1> DEFINE len == Len(text)
           first == [lines |-> <<>>, rest |-> <<>>]
           G == [i \in 1..len |-> [acc \in Split |-> SplitChar(acc, text[i])]]
           At(upto, i) == IF i = 0 THEN first ELSE SplitChar(upto[i - 1], text[i])
           Is(upto) == upto = [i \in 0..len |-> At(upto, i)]
           chosen == CHOOSE upto : Is(upto)
<1>0. len \in Nat
  BY LenProperties
<1>1. \A i \in 1..len : text[i] \in Chars
  BY LenProperties
<1>2. SplitLines(text) = chosen[len]
  BY DEF SplitLines
<1>3. first \in Split
  BY EmptySeq DEF Split, Line
<1> HIDE DEF len, first
<1>4. G \in [1..len -> [Split -> Split]]
  BY <1>1, SplitCharType
<1>5. PICK f \in [0..len -> Split] : f[0] = first /\ \A i \in 1..len : f[i] = G[i][f[i - 1]]
  <2> HIDE DEF G
  <2>1. \E f \in [0..len -> Split] : Recurs(f, first, len, G)
    BY <1>0, <1>3, <1>4, Recursion
  <2> QED
    BY <2>1 DEF Recurs
<1>6. ASSUME NEW i \in 1..len PROVE f[i] = SplitChar(f[i - 1], text[i])
  <2>1. i - 1 \in 0..len /\ f[i - 1] \in Split
    BY <1>0, <1>5
  <2> QED
    BY <1>5, <2>1
<1>7. Is(f)
  <2>1. ASSUME NEW i \in 0..len PROVE f[i] = At(f, i)
    BY <1>0, <1>5, <1>6
  <2> HIDE DEF At
  <2> QED
    BY <1>5, <2>1
<1>8. Is(chosen)
  BY <1>7
<1> HIDE DEF chosen
<1>9. chosen = [i \in 0..len |-> At(chosen, i)]
  BY <1>8
<1>10. chosen[0] = first /\ \A i \in 1..len : chosen[i] = SplitChar(chosen[i - 1], text[i])
  <2>1. \A i \in 0..len : chosen[i] = At(chosen, i)
    <3> HIDE DEF At
    <3> QED
      BY <1>9
  <2> QED
    BY <1>0, <2>1
<1>11. chosen \in [0..len -> Split]
  <2>1. chosen = [i \in 0..len |-> chosen[i]]
    <3> HIDE DEF At
    <3> QED
      BY <1>9
  <2>2. \A i \in 1..len : chosen[i - 1] \in Split => chosen[i] \in Split
    BY <1>1, <1>10, SplitCharType
  <2> QED
    BY <1>0, <1>3, <1>10, <2>1, <2>2, StaysIn
<1> QED
  BY <1>2, <1>10, <1>11 DEF SplitsTo, len, first

\* Nothing is split into no line; a character more takes one step more.
LEMMA SplitSteps ==
  /\ SplitLines(<<>>) = [lines |-> <<>>, rest |-> <<>>]
  /\ \A text \in Seq(Chars) :
       /\ SplitLines(text) \in Split
       /\ \A ch \in Chars : SplitLines(Append(text, ch)) = SplitChar(SplitLines(text), ch)
<1>1. SplitLines(<<>>) = [lines |-> <<>>, rest |-> <<>>]
  <2>1. <<>> \in Seq(Chars) /\ Len(<<>>) = 0
    BY EmptySeq
  <2>2. PICK f : SplitsTo(f, <<>>) /\ SplitLines(<<>>) = f[Len(<<>>)]
    BY <2>1, SplitIsLast
  <2> QED
    BY <2>1, <2>2 DEF SplitsTo
<1>2. ASSUME NEW text \in Seq(Chars) PROVE SplitLines(text) \in Split
  <2>1. PICK f : SplitsTo(f, text) /\ SplitLines(text) = f[Len(text)]
    BY SplitIsLast
  <2>2. Len(text) \in 0..Len(text)
    BY LenProperties
  <2> QED
    BY <2>1, <2>2 DEF SplitsTo
<1>3. ASSUME NEW text \in Seq(Chars), NEW ch \in Chars
      PROVE  SplitLines(Append(text, ch)) = SplitChar(SplitLines(text), ch)
  <2> DEFINE len == Len(text)
             more == Append(text, ch)
  <2>1. PICK f : SplitsTo(f, text) /\ SplitLines(text) = f[len]
    BY SplitIsLast
  <2>2. /\ more \in Seq(Chars) /\ Len(more) = len + 1 /\ more[len + 1] = ch
        /\ \A i \in 1..len : more[i] = text[i]
    BY AppendProperties
  <2>3. len \in Nat
    BY LenProperties
  <2> HIDE DEF len, more
  <2>4. PICK g : SplitsTo(g, more) /\ SplitLines(more) = g[Len(more)]
    BY <2>2, SplitIsLast
  <2>5. f[0] = g[0] /\ \A i \in 1..len : f[i] = SplitChar(f[i - 1], text[i])
    BY <2>1, <2>4 DEF SplitsTo, len
  <2>6. \A i \in 1..len + 1 : g[i] = SplitChar(g[i - 1], more[i])
    BY <2>2, <2>4 DEF SplitsTo
  <2>7. \A i \in 1..len : f[i - 1] = g[i - 1] => f[i] = g[i]
    <3> TAKE i \in 1..len
    <3>1. i \in 1..len + 1
      BY <2>3
    <3> QED
      BY <2>2, <2>5, <2>6, <3>1
  <2>8. f[len] = g[len]
    <3>1. f[0] = g[0]
      BY <2>5
    <3>2. StepAlike(f, g, len)
      BY <2>7, <3>1 DEF StepAlike
    <3> QED
      BY <2>3, <3>2, SameSteps
  <2>9. g[len + 1] = SplitChar(g[len], ch)
    <3>1. len + 1 \in 1..len + 1 /\ (len + 1) - 1 = len
      BY <2>3
    <3> QED
      BY <2>2, <2>6, <3>1
  <2> QED
    BY <2>1, <2>2, <2>4, <2>8, <2>9 DEF more
<1> QED
  BY <1>1, <1>2, <1>3

\* A text without a line feed is what follows the last line feed.
LEMMA SplitOfLine ==
  ASSUME NEW text \in Line
  PROVE  SplitLines(text) = [lines |-> <<>>, rest |-> text]
<1> DEFINE len == Len(text)
           Upto(i) == SubSeq(text, 1, i)
           S == {i \in Nat : i <= len => SplitLines(Upto(i)) = [lines |-> <<>>, rest |-> Upto(i)]}
<1>1. len \in Nat /\ \A i \in 1..len : text[i] \in Chars \ {"n"}
  BY LenProperties DEF Line
<1>2. 0 \in S
  <2>1. Upto(0) = <<>>
    BY SubSeqEmpty
  <2> QED
    BY <2>1, SplitSteps
<1>3. ASSUME NEW i \in Nat, i \in S PROVE i + 1 \in S
  <2> SUFFICES ASSUME i + 1 <= len
               PROVE  SplitLines(Upto(i + 1)) = [lines |-> <<>>, rest |-> Upto(i + 1)]
    OBVIOUS
  <2>1. SplitLines(Upto(i)) = [lines |-> <<>>, rest |-> Upto(i)]
    BY <1>1, <1>3
  <2>2. text[i + 1] \in Chars \ {"n"}
    BY <1>1
  <2>3. Upto(i) \in Seq(Chars)
    BY <1>1, SubSeqProperties
  <2>4. Upto(i + 1) = Append(Upto(i), text[i + 1])
    <3>1. text \in Seq(Chars)
      BY <1>1 DEF Line
    <3> HIDE DEF len
    <3>2. Upto(i + 1) = SubSeq(text, 1, i) \o << text[i + 1] >>
      BY <1>1, <3>1, SubSeqRecursiveSecond DEF len
    <3> QED
      BY <2>2, <2>3, <3>2, AppendIsConcat
  <2>5. SplitLines(Upto(i + 1)) = SplitChar(SplitLines(Upto(i)), text[i + 1])
    BY <2>2, <2>3, <2>4, SplitSteps
  <2> DEFINE before == Upto(i)
             after  == Upto(i + 1)
             ch     == text[i + 1]
  <2> HIDE DEF before, after, ch
  <2>6. ch # "n" /\ after = Append(before, ch)
    BY <2>2, <2>4 DEF before, after, ch
  <2>7. /\ SplitLines(before) = [lines |-> <<>>, rest |-> before]
        /\ SplitLines(after) = SplitChar(SplitLines(before), ch)
    BY <2>1, <2>5 DEF before, after, ch
  <2>8. SplitLines(after) = [lines |-> <<>>, rest |-> after]
    BY <2>6, <2>7 DEF SplitChar
  <2> QED
    BY <2>8 DEF after
<1> HIDE DEF S
<1>4. len \in S
  BY <1>1, <1>2, <1>3, SetInduction
<1>5. Upto(len) = text
  BY SubSeqFull DEF Line
<1>6. len \in S => SplitLines(Upto(len)) = [lines |-> <<>>, rest |-> Upto(len)]
  <2> HIDE DEF len, Upto
  <2> QED
    BY <1>1 DEF S
<1> QED
  BY <1>4, <1>5, <1>6

-----------------------------------------------------------------------------
(* One byte more, at the end of the text and on the line it belongs to.    *)

LEMMA ConcatAppend ==
  ASSUME NEW S, NEW s \in Seq(S), NEW t \in Seq(S), NEW e \in S
  PROVE  s \o Append(t, e) = Append(s \o t, e)
<1>1. <<e>> \in Seq(S)
  OBVIOUS
<1>2. s \o t \in Seq(S)
  BY ConcatProperties
<1>3. s \o (t \o <<e>>) = (s \o t) \o <<e>>
  BY <1>1, ConcatAssociative
<1> QED
  BY <1>2, <1>3, AppendIsConcat

\* A byte that is no line feed adds to the last line what decoding it there adds;
\* a line feed completes the line.
LEMMA ByteSplits ==
  ASSUME NEW start \in Line, NEW acc \in Decoded, NEW byte \in Bytes
  PROVE  LET before == SplitLines(start \o acc.text)
             after  == SplitLines(start \o DecodeByte(acc, byte).text)
         IN /\ DecodeByte(acc, byte).lead = (byte = "L")
            /\ before \in Split
            /\ byte = "n" =>
                 after = [lines |-> Append(before.lines, before.rest \o FlushDecoder(acc.lead)),
                          rest  |-> <<>>]
            /\ byte # "n" =>
                 after = [lines |-> before.lines,
                          rest  |-> DecodeByte([lead |-> acc.lead, text |-> before.rest], byte).text]
<1> DEFINE x == acc.text
           before == SplitLines(start \o x)
           held(text) == IF acc.lead THEN Append(text, "?") ELSE text
           decoded == DecodeByte(acc, byte)
           line == DecodeByte([lead |-> acc.lead, text |-> before.rest], byte)
<1>1. x \in Seq(Chars) /\ acc.lead \in BOOLEAN /\ start \in Seq(Chars)
  BY DEF Decoded, Line
<1>2. start \o x \in Seq(Chars)
  BY <1>1, ConcatProperties
<1>3. before \in Split /\ before.lines \in Seq(Line) /\ before.rest \in Line
  BY <1>2, SplitSteps DEF Split
<1>4. ASSUME NEW text \in Seq(Chars), NEW ch \in Chars
      PROVE  /\ Append(text, ch) \in Seq(Chars)
             /\ SplitLines(start \o Append(text, ch)) = SplitChar(SplitLines(start \o text), ch)
  <2>1. start \o Append(text, ch) = Append(start \o text, ch)
    BY <1>1, ConcatAppend
  <2>2. start \o text \in Seq(Chars)
    BY <1>1, ConcatProperties
  <2>3. SplitLines(Append(start \o text, ch)) = SplitChar(SplitLines(start \o text), ch)
    BY <2>2, SplitSteps
  <2> QED
    BY <2>1, <2>3, AppendProperties
<1>5. decoded = CASE byte = "T" -> [lead |-> FALSE, text |-> Append(x, IF acc.lead THEN "m" ELSE "?")]
                  [] byte = "L" -> [lead |-> TRUE, text |-> held(x)]
                  [] OTHER      -> [lead |-> FALSE, text |-> Append(held(x), byte)]
  BY DEF DecodeByte
<1>6. line = CASE byte = "T" -> [lead |-> FALSE, text |-> Append(before.rest, IF acc.lead THEN "m" ELSE "?")]
               [] byte = "L" -> [lead |-> TRUE, text |-> held(before.rest)]
               [] OTHER      -> [lead |-> FALSE, text |-> Append(held(before.rest), byte)]
  BY DEF DecodeByte
<1>7. "?" \in Chars /\ "m" \in Chars
  BY DEF Chars
<1>8. held(x) \in Seq(Chars) /\ SplitLines(start \o held(x)) = [lines |-> before.lines, rest |-> held(before.rest)]
  <2>1. CASE acc.lead
    <3>1. SplitLines(start \o Append(x, "?")) = SplitChar(before, "?")
      BY <1>1, <1>4, <1>7
    <3>2. Append(x, "?") \in Seq(Chars)
      BY <1>1, <1>4, <1>7
    <3> HIDE DEF before, x
    <3> QED
      BY <2>1, <3>1, <3>2 DEF SplitChar
  <2>2. CASE ~acc.lead
    <3>1. before = [lines |-> before.lines, rest |-> before.rest]
      <4> HIDE DEF before
      <4> QED
        BY <1>3 DEF Split
    <3> QED
      BY <1>1, <2>2, <3>1
  <2> QED
    BY <2>1, <2>2
<1>9. before.rest \o FlushDecoder(acc.lead) = held(before.rest)
  <2> DEFINE rest == before.rest
  <2>0. rest \in Seq(Chars)
    BY <1>3 DEF Line
  <2> HIDE DEF rest
  <2>1. rest \o <<>> = rest
    BY <2>0, ConcatEmptySeq
  <2>2. rest \o <<"?">> = Append(rest, "?")
    BY <1>7, <2>0, AppendIsConcat
  <2>3. rest \o FlushDecoder(acc.lead) = IF acc.lead THEN Append(rest, "?") ELSE rest
    BY <2>1, <2>2 DEF FlushDecoder
  <2> QED
    BY <2>3 DEF rest
<1>10. decoded.lead = (byte = "L")
  <2> HIDE DEF decoded, held, x
  <2> QED
    BY <1>5
<1>11. CASE byte = "T"
  <2> DEFINE ch == IF acc.lead THEN "m" ELSE "?"
  <2>1. ch \in Chars /\ ch # "n"
    BY <1>7
  <2> HIDE DEF ch
  <2>2. SplitLines(start \o Append(x, ch)) = SplitChar(before, ch)
    BY <1>1, <1>4, <2>1
  <2>3. decoded.text = Append(x, ch) /\ line.text = Append(before.rest, ch)
    <3> HIDE DEF before, decoded, x, line, held
    <3> QED
      BY <1>5, <1>6, <1>11 DEF ch
  <2>4. SplitLines(start \o decoded.text) = [lines |-> before.lines, rest |-> line.text]
    <3> HIDE DEF before, decoded, line, x
    <3> QED
      BY <2>1, <2>2, <2>3 DEF SplitChar
  <2> QED
    BY <1>3, <1>10, <1>11, <2>4
<1>12. CASE byte = "L"
  <2>1. decoded.text = held(x) /\ line.text = held(before.rest)
    <3> HIDE DEF before, decoded, x, line, held
    <3> QED
      BY <1>5, <1>6, <1>12
  <2>2. SplitLines(start \o decoded.text) = [lines |-> before.lines, rest |-> line.text]
    <3> HIDE DEF before, decoded, line, x, held
    <3> QED
      BY <1>8, <2>1
  <2> QED
    BY <1>3, <1>10, <1>12, <2>2
<1>13. CASE byte # "T" /\ byte # "L"
  <2>1. byte \in Chars
    BY <1>13, NdjsonAssumption DEF Chars
  <2>2. decoded.text = Append(held(x), byte) /\ line.text = Append(held(before.rest), byte)
    <3> HIDE DEF before, decoded, x, line, held
    <3> QED
      BY <1>5, <1>6, <1>13
  <2>3. SplitLines(start \o Append(held(x), byte)) = SplitChar(SplitLines(start \o held(x)), byte)
    BY <1>4, <1>8, <2>1
  <2>4. SplitLines(start \o decoded.text)
          = SplitChar([lines |-> before.lines, rest |-> held(before.rest)], byte)
    <3> HIDE DEF before, decoded, line, x, held
    <3> QED
      BY <1>8, <2>2, <2>3
  <2>5. byte = "n" =>
          SplitLines(start \o decoded.text) = [lines |-> Append(before.lines, held(before.rest)), rest |-> <<>>]
    <3> HIDE DEF before, decoded, line, x, held
    <3> QED
      BY <2>4 DEF SplitChar
  <2>6. byte # "n" =>
          SplitLines(start \o decoded.text) = [lines |-> before.lines, rest |-> line.text]
    <3> HIDE DEF before, decoded, line, x, held
    <3> QED
      BY <2>2, <2>4 DEF SplitChar
  <2> QED
    BY <1>3, <1>9, <1>10, <2>5, <2>6
<1> QED
  BY <1>11, <1>12, <1>13

-----------------------------------------------------------------------------
(* The lines of the body.                                                  *)

\* There is one line feed, or none, that is the last before a byte.
LEMMA FeedExists ==
  ASSUME doc \in Seq(Bytes), NEW i \in 1..Len(doc) + 1
  PROVE  /\ FeedBefore(i) \in 0..i - 1
         /\ FeedBefore(i) = 0 \/ doc[FeedBefore(i)] = "n"
         /\ \A j \in FeedBefore(i) + 1..i - 1 : doc[j] # "n"
<1> DEFINE Is(k) == /\ k = 0 \/ doc[k] = "n"
                    /\ \A j \in k + 1..i - 1 : doc[j] # "n"
<1>0. Len(doc) \in Nat
  BY LenProperties
<1> DEFINE In(m) == \E k \in 0..m : /\ k = 0 \/ doc[k] = "n"
                                    /\ \A j \in k + 1..m : doc[j] # "n"
           T == {m \in Nat : In(m)}
<1>1. 0 \in T
  OBVIOUS
<1>2. ASSUME NEW m \in Nat, m \in T PROVE m + 1 \in T
  <2>1. CASE doc[m + 1] = "n"
    <3>1. m + 1 \in 0..m + 1 /\ \A j \in (m + 1) + 1..m + 1 : FALSE
      OBVIOUS
    <3> QED
      BY <2>1, <3>1
  <2>2. CASE doc[m + 1] # "n"
    <3>1. PICK k \in 0..m : /\ k = 0 \/ doc[k] = "n"
                            /\ \A j \in k + 1..m : doc[j] # "n"
      BY <1>2
    <3>2. k \in 0..m + 1 /\ \A j \in k + 1..m + 1 : j \in k + 1..m \/ j = m + 1
      OBVIOUS
    <3> QED
      BY <2>2, <3>1, <3>2
  <2> QED
    BY <2>1, <2>2
<1> HIDE DEF T
<1>3. Nat \subseteq T
  BY <1>1, <1>2, SetInduction
<1>4. i - 1 \in Nat
  BY <1>0
<1>5. \E k \in 0..i - 1 : Is(k)
  BY <1>3, <1>4 DEF T
<1> HIDE DEF Is
<1>6. FeedBefore(i) = CHOOSE k \in 0..i - 1 : Is(k)
  BY DEF FeedBefore, Is
<1>7. FeedBefore(i) \in 0..i - 1 /\ Is(FeedBefore(i))
  BY <1>5, <1>6
<1> QED
  BY <1>7 DEF Is

\* What is before a byte of a line is the piece up to the byte before it and that byte;
\* nothing is, after a line feed.
LEMMA PieceSteps ==
  ASSUME doc \in Seq(Bytes)
  PROVE  /\ Piece(1) = <<>>
         /\ \A i \in 1..Len(doc) + 1 : Piece(i) \in Seq(Bytes)
         /\ \A i \in 1..Len(doc) :
              Piece(i + 1) = IF doc[i] = "n" THEN <<>> ELSE Append(Piece(i), doc[i])
<1>0. Len(doc) \in Nat /\ \A i \in 1..Len(doc) : doc[i] \in Bytes
  BY LenProperties
<1>1. Piece(1) = <<>>
  <2>1. FeedBefore(1) = 0
    BY <1>0, FeedExists
  <2> QED
    BY <2>1, SubSeqEmpty DEF Piece
<1>2. ASSUME NEW i \in 1..Len(doc) + 1 PROVE Piece(i) \in Seq(Bytes)
  <2>1. FeedBefore(i) \in 0..i - 1
    BY FeedExists
  <2>2. FeedBefore(i) + 1 \in Int /\ i - 1 \in Int /\ \A j \in FeedBefore(i) + 1..i - 1 : doc[j] \in Bytes
    BY <1>0, <2>1
  <2> QED
    BY <2>2, SubSeqProperties DEF Piece
<1>3. ASSUME NEW i \in 1..Len(doc)
      PROVE  Piece(i + 1) = IF doc[i] = "n" THEN <<>> ELSE Append(Piece(i), doc[i])
  <2> DEFINE k == FeedBefore(i)
             l == FeedBefore(i + 1)
  <2>1. /\ k \in 0..i - 1 /\ (k = 0 \/ doc[k] = "n")
        /\ \A j \in k + 1..i - 1 : doc[j] # "n"
    BY <1>0, FeedExists
  <2>2. /\ l \in 0..i /\ (l = 0 \/ doc[l] = "n")
        /\ \A j \in l + 1..i : doc[j] # "n"
    <3>1. i + 1 \in 1..Len(doc) + 1 /\ (i + 1) - 1 = i
      BY <1>0
    <3> QED
      BY <3>1, FeedExists
  <2> HIDE DEF k, l
  <2>3. Piece(i + 1) = SubSeq(doc, l + 1, i)
    <3>1. (i + 1) - 1 = i
      BY <1>0
    <3> QED
      BY <3>1 DEF Piece, l
  <2>4. CASE doc[i] = "n"
    <3>1. l = i
      BY <2>2, <2>4
    <3>2. SubSeq(doc, l + 1, i) = <<>>
      BY <3>1, SubSeqEmpty
    <3> QED
      BY <2>3, <2>4, <3>2
  <2>5. CASE doc[i] # "n"
    <3>1. l # i
      BY <2>2, <2>5, <1>0
    <3>2. l = k
      <4>1. ~(l < k)
        <5>1. l < k => k \in l + 1..i /\ k # 0
          BY <2>1, <2>2
        <5> QED
          BY <2>1, <2>2, <5>1
      <4>2. ~(k < l)
        <5>1. k < l => l \in k + 1..i - 1 /\ l # 0
          BY <2>1, <2>2, <3>1
        <5> QED
          BY <2>1, <2>2, <5>1
      <4> QED
        BY <2>1, <2>2, <4>1, <4>2
    <3>3. SubSeq(doc, k + 1, i) = SubSeq(doc, k + 1, i - 1) \o << doc[i] >>
      <4>1. k + 1 \in 1..Len(doc) /\ i \in k + 1..Len(doc)
        BY <2>1
      <4> QED
        BY <4>1, SubSeqRecursiveSecond
    <3>4. Piece(i) = SubSeq(doc, k + 1, i - 1) /\ Piece(i) \in Seq(Bytes)
      BY <1>0, <1>2 DEF Piece, k
    <3>5. Piece(i + 1) = Append(Piece(i), doc[i])
      BY <1>0, <2>3, <3>2, <3>3, <3>4, AppendIsConcat
    <3> QED
      BY <2>5, <3>5
  <2> QED
    BY <2>4, <2>5
<1> QED
  BY <1>1, <1>2, <1>3

\* The incomplete line after i bytes, decoded: what the reader holds of it.
OnLine(i) == Decode(FALSE, Piece(i + 1))

LEMMA OnLineSteps ==
  ASSUME doc \in Seq(Bytes)
  PROVE  /\ OnLine(0) = [lead |-> FALSE, text |-> <<>>]
         /\ \A i \in 0..Len(doc) : OnLine(i) \in Decoded
         /\ \A i \in 1..Len(doc) :
              /\ OnLine(i) = IF doc[i] = "n" THEN [lead |-> FALSE, text |-> <<>>]
                             ELSE DecodeByte(OnLine(i - 1), doc[i])
         /\ \A i \in 1..Len(doc) + 1 :
              Whole(Piece(i)) = OnLine(i - 1).text \o FlushDecoder(OnLine(i - 1).lead)
<1>0. Len(doc) \in Nat /\ \A i \in 1..Len(doc) : doc[i] \in Bytes
  BY LenProperties
<1>1. OnLine(0) = [lead |-> FALSE, text |-> <<>>]
  <2>1. 0 + 1 = 1
    OBVIOUS
  <2> QED
    BY <2>1, PieceSteps, DecodeSteps DEF OnLine
<1>2. ASSUME NEW i \in 0..Len(doc) PROVE OnLine(i) \in Decoded
  <2>1. i + 1 \in 1..Len(doc) + 1
    BY <1>0
  <2>2. Piece(i + 1) \in Seq(Bytes)
    BY <2>1, PieceSteps
  <2> QED
    BY <2>2, DecodeSteps DEF OnLine
<1>3. ASSUME NEW i \in 1..Len(doc)
      PROVE  OnLine(i) = IF doc[i] = "n" THEN [lead |-> FALSE, text |-> <<>>]
                         ELSE DecodeByte(OnLine(i - 1), doc[i])
  <2>1. Piece(i + 1) = IF doc[i] = "n" THEN <<>> ELSE Append(Piece(i), doc[i])
    BY PieceSteps
  <2>2. Piece(i) \in Seq(Bytes)
    BY <1>0, PieceSteps
  <2>3. Decode(FALSE, Append(Piece(i), doc[i])) = DecodeByte(Decode(FALSE, Piece(i)), doc[i])
    BY <1>0, <2>2, DecodeSteps
  <2>4. OnLine(i - 1) = Decode(FALSE, Piece(i))
    <3>1. (i - 1) + 1 = i
      BY <1>0
    <3> QED
      BY <3>1 DEF OnLine
  <2>5. Decode(FALSE, <<>>) = [lead |-> FALSE, text |-> <<>>]
    BY DecodeSteps
  <2> QED
    BY <2>1, <2>3, <2>4, <2>5 DEF OnLine
<1>4. ASSUME NEW i \in 1..Len(doc) + 1
      PROVE  Whole(Piece(i)) = OnLine(i - 1).text \o FlushDecoder(OnLine(i - 1).lead)
  <2>1. (i - 1) + 1 = i
    BY <1>0
  <2> QED
    BY <2>1 DEF Whole, OnLine
<1> QED
  BY <1>1, <1>2, <1>3, <1>4

-----------------------------------------------------------------------------
(* The lines that are cut off the body and not parsed yet.                 *)

\* lines are the lines that end after the p-th byte, up to the r-th.
Pending(p, lines, r) ==
  \E ends \in Seq(Nat) :
    /\ Len(ends) = Len(lines)
    /\ \A k \in 1..Len(ends) : /\ ends[k] \in p + 1..r /\ doc[ends[k]] = "n"
                               /\ lines[k] = Whole(Piece(ends[k]))
    /\ \A k, l \in 1..Len(ends) : k < l => ends[k] < ends[l]
    /\ \A i \in p + 1..r : doc[i] = "n" => \E k \in 1..Len(ends) : ends[k] = i

\* None is pending exactly when there was no line feed.
LEMMA PendingNone ==
  ASSUME NEW p, NEW r
  PROVE  Pending(p, <<>>, r) <=> \A i \in p + 1..r : doc[i] # "n"
<1>1. ASSUME Pending(p, <<>>, r) PROVE \A i \in p + 1..r : doc[i] # "n"
  <2>1. PICK ends \in Seq(Nat) :
          /\ Len(ends) = Len(<<>>)
          /\ \A i \in p + 1..r : doc[i] = "n" => \E k \in 1..Len(ends) : ends[k] = i
    BY <1>1 DEF Pending
  <2>2. Len(ends) = 0
    BY <2>1, EmptySeq
  <2> QED
    BY <2>1, <2>2
<1>2. ASSUME \A i \in p + 1..r : doc[i] # "n" PROVE Pending(p, <<>>, r)
  <2>1. <<>> \in Seq(Nat) /\ Len(<<>>) = 0
    BY EmptySeq
  <2>2. 1..Len(<<>>) = {}
    BY <2>1
  <2> QED
    BY <1>2, <2>1, <2>2 DEF Pending
<1> QED
  BY <1>1, <1>2

\* One byte more: a line feed adds the line that it ends.
LEMMA PendingMore ==
  ASSUME NEW p \in Nat, NEW r \in Nat, p <= r, NEW lines \in Seq(Line),
         NEW line \in Line, line = Whole(Piece(r + 1)), Pending(p, lines, r)
  PROVE  Pending(p, IF doc[r + 1] = "n" THEN Append(lines, line) ELSE lines, r + 1)
<1>1. PICK ends \in Seq(Nat) :
        /\ Len(ends) = Len(lines)
        /\ \A k \in 1..Len(ends) : /\ ends[k] \in p + 1..r /\ doc[ends[k]] = "n"
                                   /\ lines[k] = Whole(Piece(ends[k]))
        /\ \A k, l \in 1..Len(ends) : k < l => ends[k] < ends[l]
        /\ \A i \in p + 1..r : doc[i] = "n" => \E k \in 1..Len(ends) : ends[k] = i
  BY DEF Pending
<1>2. \A i \in p + 1..r + 1 : i \in p + 1..r \/ i = r + 1
  OBVIOUS
<1>3. \A i \in p + 1..r : i \in p + 1..r + 1 /\ i < r + 1
  OBVIOUS
<1>4. CASE doc[r + 1] # "n"
  <2>1. /\ Len(ends) = Len(lines)
        /\ \A k \in 1..Len(ends) : /\ ends[k] \in p + 1..r + 1 /\ doc[ends[k]] = "n"
                                   /\ lines[k] = Whole(Piece(ends[k]))
        /\ \A k, l \in 1..Len(ends) : k < l => ends[k] < ends[l]
        /\ \A i \in p + 1..r + 1 : doc[i] = "n" => \E k \in 1..Len(ends) : ends[k] = i
    BY <1>1, <1>2, <1>3, <1>4
  <2> QED
    BY <1>4, <2>1 DEF Pending
<1>5. CASE doc[r + 1] = "n"
  <2> DEFINE len  == Len(ends)
             all  == Append(ends, r + 1)
             more == Append(lines, line)
  <2>0. len \in Nat /\ len = Len(lines) /\ r + 1 \in Nat
    BY <1>1, LenProperties
  <2>1. /\ all \in Seq(Nat) /\ Len(all) = len + 1 /\ all[len + 1] = r + 1
        /\ \A k \in 1..len : all[k] = ends[k]
    BY AppendProperties
  <2>2. /\ Len(more) = len + 1 /\ more[len + 1] = line
        /\ \A k \in 1..len : more[k] = lines[k]
    BY <1>1, AppendProperties
  <2>3. \A k \in 1..len + 1 : k \in 1..len \/ k = len + 1
    BY <2>0
  <2>4. \A k \in 1..len : k \in 1..len + 1
    BY <2>0
  <2>5. /\ \A k \in 1..len : /\ ends[k] \in p + 1..r /\ doc[ends[k]] = "n"
                             /\ lines[k] = Whole(Piece(ends[k]))
        /\ \A k, l \in 1..len : k < l => ends[k] < ends[l]
        /\ \A i \in p + 1..r : doc[i] = "n" => \E k \in 1..len : ends[k] = i
    BY <1>1
  <2> HIDE DEF len, all, more
  <2>6. \A k \in 1..len + 1 : /\ all[k] \in p + 1..r + 1 /\ doc[all[k]] = "n"
                              /\ more[k] = Whole(Piece(all[k]))
    <3> TAKE k \in 1..len + 1
    <3>1. CASE k \in 1..len
      BY <1>3, <2>1, <2>2, <2>5, <3>1
    <3>2. CASE k = len + 1
      BY <1>5, <2>1, <2>2, <3>2
    <3> QED
      BY <2>3, <3>1, <3>2
  <2>7. \A k, l \in 1..len + 1 : k < l => all[k] < all[l]
    <3> TAKE k, l \in 1..len + 1
    <3> HAVE k < l
    <3>1. k \in 1..len
      BY <2>0
    <3>2. CASE l \in 1..len
      BY <2>1, <2>5, <3>1, <3>2
    <3>3. CASE l = len + 1
      <4>1. ends[k] < r + 1
        BY <1>3, <2>5, <3>1
      <4> QED
        BY <2>1, <3>1, <3>3, <4>1
    <3> QED
      BY <2>3, <3>2, <3>3
  <2>8. \A i \in p + 1..r + 1 : doc[i] = "n" => \E k \in 1..len + 1 : all[k] = i
    <3> TAKE i \in p + 1..r + 1
    <3> HAVE doc[i] = "n"
    <3>1. CASE i \in p + 1..r
      <4>1. PICK k \in 1..len : ends[k] = i
        BY <2>5, <3>1
      <4> QED
        BY <2>1, <2>4, <4>1
    <3>2. CASE i = r + 1
      <4>1. len + 1 \in 1..len + 1
        BY <2>0
      <4> QED
        BY <2>1, <3>2, <4>1
    <3> QED
      BY <1>2, <3>1, <3>2
  <2>9. Pending(p, more, r + 1)
    <3>1. Len(all) = Len(more) /\ 1..Len(all) = 1..len + 1
      BY <2>1, <2>2
    <3>2. /\ \A k \in 1..Len(all) : /\ all[k] \in p + 1..r + 1 /\ doc[all[k]] = "n"
                                     /\ more[k] = Whole(Piece(all[k]))
          /\ \A k, l \in 1..Len(all) : k < l => all[k] < all[l]
          /\ \A i \in p + 1..r + 1 : doc[i] = "n" => \E k \in 1..Len(all) : all[k] = i
      <4> USE <3>1
      <4>1. \A k \in 1..Len(all) : /\ all[k] \in p + 1..r + 1 /\ doc[all[k]] = "n"
                                    /\ more[k] = Whole(Piece(all[k]))
        BY <2>6
      <4>2. \A k, l \in 1..Len(all) : k < l => all[k] < all[l]
        BY <2>7
      <4>3. \A i \in p + 1..r + 1 : doc[i] = "n" => \E k \in 1..Len(all) : all[k] = i
        BY <2>8
      <4> QED
        BY <4>1, <4>2, <4>3
    <3> QED
      BY <2>1, <3>1, <3>2 DEF Pending
  <2> QED
    BY <1>5, <2>9 DEF more
<1> QED
  BY <1>4, <1>5

\* The first one ends at the next line feed; without it the others are pending.
LEMMA PendingHead ==
  ASSUME NEW p \in Nat, NEW r \in Nat, NEW lines \in Seq(Line), lines # <<>>,
         Pending(p, lines, r)
  PROVE  \E e \in p + 1..r : /\ doc[e] = "n" /\ Head(lines) = Whole(Piece(e))
                             /\ \A i \in p + 1..e - 1 : doc[i] # "n"
                             /\ Pending(e, Tail(lines), r)
<1> DEFINE len == Len(lines)
           rest == Tail(lines)
<1>1. PICK ends \in Seq(Nat) :
        /\ Len(ends) = len
        /\ \A k \in 1..len : /\ ends[k] \in p + 1..r /\ doc[ends[k]] = "n"
                             /\ lines[k] = Whole(Piece(ends[k]))
        /\ \A k, l \in 1..len : k < l => ends[k] < ends[l]
        /\ \A i \in p + 1..r : doc[i] = "n" => \E k \in 1..len : ends[k] = i
  BY DEF Pending
<1>2. len \in Nat /\ len # 0
  BY LenProperties, EmptySeq
<1>3. /\ rest \in Seq(Line) /\ Len(rest) = len - 1
      /\ \A k \in 1..Len(rest) : rest[k] = lines[k + 1]
  BY HeadTailProperties
<1>4. ends # <<>>
  BY <1>1, <1>2, EmptySeq
<1> DEFINE later == Tail(ends)
           e == ends[1]
<1>5. /\ later \in Seq(Nat) /\ Len(later) = len - 1
      /\ \A k \in 1..len - 1 : later[k] = ends[k + 1]
  BY <1>1, <1>4, HeadTailProperties
<1>6. Head(lines) = lines[1]
  BY FirstOf
<1> HIDE DEF len, rest, later
<1>7. 1 \in 1..len
  BY <1>2
<1>8. e \in p + 1..r /\ doc[e] = "n" /\ Head(lines) = Whole(Piece(e))
  BY <1>1, <1>6, <1>7
<1> HIDE DEF e
<1>9. ASSUME NEW i \in p + 1..r, doc[i] = "n" PROVE i = e \/ (e < i /\ \E k \in 1..len - 1 : later[k] = i)
  <2>1. PICK k \in 1..len : ends[k] = i
    BY <1>1, <1>9
  <2>2. CASE k = 1
    BY <2>1, <2>2 DEF e
  <2>3. CASE k # 1
    <3>1. k - 1 \in 1..len - 1 /\ (k - 1) + 1 = k /\ 1 < k
      BY <1>2, <2>3
    <3>2. later[k - 1] = i
      BY <1>5, <2>1, <3>1
    <3>3. e < i
      BY <1>1, <1>7, <2>1, <3>1 DEF e
    <3> QED
      BY <3>1, <3>2, <3>3
  <2> QED
    BY <2>2, <2>3
<1>10. \A i \in p + 1..e - 1 : doc[i] # "n"
  <2> SUFFICES ASSUME NEW i \in p + 1..e - 1, doc[i] = "n" PROVE FALSE
    OBVIOUS
  <2>1. i \in p + 1..r /\ i < e
    BY <1>8
  <2>2. i = e \/ e < i
    BY <1>9, <2>1
  <2> QED
    BY <1>8, <2>1, <2>2
<1>11. Pending(e, rest, r)
  <2>1. ASSUME NEW k \in 1..len - 1
        PROVE  /\ later[k] \in e + 1..r /\ doc[later[k]] = "n"
               /\ rest[k] = Whole(Piece(later[k]))
    <3>1. k + 1 \in 1..len /\ 1 < k + 1
      BY <1>2
    <3>2. later[k] = ends[k + 1] /\ rest[k] = lines[k + 1]
      BY <1>3, <1>5
    <3>3. e < ends[k + 1]
      BY <1>1, <1>7, <3>1 DEF e
    <3>4. later[k] \in p + 1..r /\ doc[later[k]] = "n" /\ rest[k] = Whole(Piece(later[k]))
      BY <1>1, <3>1, <3>2
    <3> QED
      BY <1>8, <3>2, <3>3, <3>4
  <2>2. ASSUME NEW k \in 1..len - 1, NEW l \in 1..len - 1, k < l PROVE later[k] < later[l]
    <3>1. k + 1 \in 1..len /\ l + 1 \in 1..len /\ k + 1 < l + 1
      BY <1>2, <2>2
    <3> QED
      BY <1>1, <1>5, <3>1
  <2>3. ASSUME NEW i \in e + 1..r, doc[i] = "n" PROVE \E k \in 1..len - 1 : later[k] = i
    <3>1. i \in p + 1..r /\ i # e
      BY <1>8
    <3> QED
      BY <1>9, <2>3, <3>1
  <2>4. Len(later) = Len(rest) /\ 1..Len(later) = 1..len - 1
    BY <1>3, <1>5
  <2>5. \A k \in 1..Len(later) : /\ later[k] \in e + 1..r /\ doc[later[k]] = "n"
                                  /\ rest[k] = Whole(Piece(later[k]))
    BY <2>1, <2>4
  <2>6. \A k, l \in 1..Len(later) : k < l => later[k] < later[l]
    BY <2>2, <2>4
  <2>7. \A i \in e + 1..r : doc[i] = "n" => \E k \in 1..Len(later) : later[k] = i
    BY <2>3, <2>4
  <2> QED
    BY <1>5, <2>4, <2>5, <2>6, <2>7 DEF Pending
<1> QED
  BY <1>8, <1>10, <1>11 DEF rest

-----------------------------------------------------------------------------
(* A chunk.                                                                *)

\* However long the chunk is, the reader then holds the incomplete line, and the
\* lines that were cut off are those that end in the chunk.
LEMMA ChunkSplits ==
  ASSUME doc \in Seq(Bytes), NEW r \in 0..Len(doc), NEW n \in 0..Len(doc) - r,
         NEW held \in BOOLEAN, NEW start \in Line,
         OnLine(r) = [lead |-> held, text |-> start]
  PROVE  LET decoded == Decode(held, SubSeq(doc, r + 1, r + n))
             split   == SplitLines(start \o decoded.text)
         IN /\ decoded \in Decoded /\ split \in Split
            /\ OnLine(r + n) = [lead |-> decoded.lead, text |-> split.rest]
            /\ Pending(r, split.lines, r + n)
<1> DEFINE Chunk(k) == SubSeq(doc, r + 1, r + k)
           Dec(k) == Decode(held, Chunk(k))
           Spl(k) == SplitLines(start \o Dec(k).text)
           Holds(k) == /\ OnLine(r + k) = [lead |-> Dec(k).lead, text |-> Spl(k).rest]
                       /\ Pending(r, Spl(k).lines, r + k)
           S == {k \in Nat : k <= n => Holds(k)}
<1>0. Len(doc) \in Nat /\ \A i \in 1..Len(doc) : doc[i] \in Bytes
  BY LenProperties
<1>1. ASSUME NEW k \in 0..n PROVE Chunk(k) \in Seq(Bytes) /\ Dec(k) \in Decoded /\ Spl(k) \in Split
  <2>1. r + 1 \in Int /\ r + k \in Int /\ \A i \in r + 1..r + k : doc[i] \in Bytes
    BY <1>0
  <2>2. Chunk(k) \in Seq(Bytes)
    BY <2>1, SubSeqProperties
  <2> HIDE DEF Chunk
  <2>3. Dec(k) \in Decoded
    BY <2>2, DecodeSteps
  <2>4. Dec(k).text \in Seq(Chars) /\ start \in Seq(Chars)
    BY <2>3 DEF Decoded, Line
  <2> HIDE DEF Dec
  <2>5. start \o Dec(k).text \in Seq(Chars)
    BY <2>4, ConcatProperties
  <2> QED
    BY <2>2, <2>3, <2>5, SplitSteps
<1>2. 0 \in S
  <2>1. r + 0 = r
    BY <1>0
  <2>2. Chunk(0) = <<>>
    <3>1. r + 1 \in Int /\ r \in Int /\ r < r + 1
      BY <1>0
    <3> QED
      BY <2>1, <3>1, SubSeqEmpty
  <2>3. Dec(0) = [lead |-> held, text |-> <<>>]
    BY <2>2, DecodeSteps
  <2>4. start \o <<>> = start
    BY ConcatEmptySeq DEF Line
  <2>5. Spl(0) = [lines |-> <<>>, rest |-> start]
    <3>1. Dec(0).text = <<>>
      BY <2>3
    <3> HIDE DEF Dec
    <3>2. Spl(0) = SplitLines(start)
      BY <2>4, <3>1
    <3> QED
      BY <3>2, SplitOfLine
  <2>6. \A i \in r + 1..r : doc[i] # "n"
    BY <1>0
  <2>7. Pending(r, <<>>, r)
    BY <2>6, PendingNone
  <2> HIDE DEF Dec, Spl
  <2>8. Holds(0)
    BY <2>1, <2>3, <2>5, <2>7
  <2> QED
    BY <2>8
<1>3. ASSUME NEW k \in Nat, k \in S PROVE k + 1 \in S
  <2> SUFFICES ASSUME k + 1 <= n PROVE Holds(k + 1)
    OBVIOUS
  <2> DEFINE q == r + k
             byte == doc[q + 1]
             acc == Dec(k)
             before == Spl(k)
             next == Dec(k + 1)
             after == Spl(k + 1)
  <2>1. k \in 0..n /\ k + 1 \in 0..n /\ q \in Nat /\ q + 1 \in 1..Len(doc) /\ r + (k + 1) = q + 1
        /\ (q + 1) - 1 = q /\ r <= q /\ r \in Nat
    BY <1>0
  <2>2. OnLine(q) = [lead |-> acc.lead, text |-> before.rest] /\ Pending(r, before.lines, q)
    BY <1>3, <2>1
  <2>3. byte \in Bytes
    BY <1>0, <2>1
  <2>4. Chunk(k + 1) = Append(Chunk(k), byte)
    <3>1. r + 1 \in 1..Len(doc) /\ q + 1 \in r + 1..Len(doc)
      BY <2>1
    <3>2. SubSeq(doc, r + 1, q + 1) = SubSeq(doc, r + 1, (q + 1) - 1) \o << doc[q + 1] >>
      BY <3>1, SubSeqRecursiveSecond
    <3>3. Chunk(k + 1) = Chunk(k) \o << byte >>
      BY <2>1, <3>2
    <3>4. Chunk(k) \in Seq(Bytes)
      BY <1>1, <2>1
    <3> HIDE DEF Chunk, byte
    <3> QED
      BY <2>3, <3>3, <3>4, AppendIsConcat
  <2>5. next = DecodeByte(acc, byte)
    <3>1. Chunk(k) \in Seq(Bytes)
      BY <1>1, <2>1
    <3> HIDE DEF Chunk, byte
    <3> QED
      BY <2>3, <2>4, <3>1, DecodeSteps
  <2>6. acc \in Decoded /\ before \in Split
    BY <1>1, <2>1
  <2> HIDE DEF acc, next, byte
  <2>7. /\ next.lead = (byte = "L")
        /\ byte = "n" =>
             after = [lines |-> Append(before.lines, before.rest \o FlushDecoder(acc.lead)), rest |-> <<>>]
        /\ byte # "n" =>
             after = [lines |-> before.lines,
                      rest  |-> DecodeByte([lead |-> acc.lead, text |-> before.rest], byte).text]
    <3>1. before = SplitLines(start \o acc.text)
      BY DEF acc
    <3>2. after = SplitLines(start \o DecodeByte(acc, byte).text)
      BY <2>5 DEF next
    <3> HIDE DEF before, after
    <3> QED
      BY <2>3, <2>5, <2>6, <3>1, <3>2, ByteSplits
  <2> HIDE DEF before, after, q
  <2>8. OnLine(q + 1) = IF byte = "n" THEN [lead |-> FALSE, text |-> <<>>] ELSE DecodeByte(OnLine(q), byte)
    <3>1. OnLine(q + 1) = IF doc[q + 1] = "n" THEN [lead |-> FALSE, text |-> <<>>]
                          ELSE DecodeByte(OnLine((q + 1) - 1), doc[q + 1])
      BY <2>1, OnLineSteps
    <3> QED
      BY <2>1, <3>1 DEF byte
  <2>9. Whole(Piece(q + 1)) = before.rest \o FlushDecoder(acc.lead)
    <3>1. q + 1 \in 1..Len(doc) + 1
      BY <1>0, <2>1
    <3>2. Whole(Piece(q + 1)) = OnLine((q + 1) - 1).text \o FlushDecoder(OnLine((q + 1) - 1).lead)
      BY <3>1, OnLineSteps
    <3>3. OnLine(q).text = before.rest /\ OnLine(q).lead = acc.lead
      BY <2>2
    <3> QED
      BY <2>1, <3>2, <3>3
  <2>10. before.lines \in Seq(Line) /\ before.rest \o FlushDecoder(acc.lead) \in Line
    <3>1. before.lines \in Seq(Line) /\ before.rest \in Line
      BY <2>6 DEF Split
    <3>2. FlushDecoder(acc.lead) \in Line
      <4>1. "?" \in Chars \ {"n"}
        BY DEF Chars
      <4>2. <<"?">> \in Line /\ <<>> \in Line
        BY <4>1 DEF Line
      <4> QED
        BY <4>2 DEF FlushDecoder
    <3> QED
      BY <3>1, <3>2, ConcatProperties DEF Line
  <2>11. Pending(r, IF byte = "n" THEN Append(before.lines, before.rest \o FlushDecoder(acc.lead))
                    ELSE before.lines, q + 1)
    BY <2>1, <2>2, <2>9, <2>10, PendingMore DEF byte
  <2>12. OnLine(q + 1) = [lead |-> next.lead, text |-> after.rest] /\ Pending(r, after.lines, q + 1)
    <3>1. CASE byte = "n"
      <4> DEFINE lines == Append(before.lines, before.rest \o FlushDecoder(acc.lead))
      <4>1. after = [lines |-> lines, rest |-> <<>>]
        BY <2>7, <3>1
      <4>2. Pending(r, lines, q + 1) /\ OnLine(q + 1) = [lead |-> FALSE, text |-> <<>>]
        BY <2>8, <2>11, <3>1
      <4>3. next.lead = FALSE
        BY <2>7, <3>1
      <4> HIDE DEF lines
      <4> QED
        BY <4>1, <4>2, <4>3
    <3>2. CASE byte # "n"
      <4> DEFINE line == DecodeByte(OnLine(q), byte)
      <4>1. line = [lead |-> line.lead, text |-> line.text]
        <5>1. OnLine(q) \in Decoded
          <6>1. q \in 0..Len(doc)
            BY <1>0, <2>1
          <6> QED
            BY <6>1, OnLineSteps
        <5>2. line \in Decoded
          BY <2>3, <5>1, DecodeByteType
        <5> HIDE DEF line
        <5> QED
          BY <5>2 DEF Decoded
      <4>2. line.lead = (byte = "L")
        <5>1. DecodeByte(OnLine(q), byte).lead = (byte = "L")
          BY <3>2 DEF DecodeByte
        <5> QED
          BY <5>1
      <4>3. after.rest = line.text /\ after.lines = before.lines
        BY <2>2, <2>7, <3>2
      <4> HIDE DEF line
      <4>4. OnLine(q + 1) = line
        BY <2>8, <3>2 DEF line
      <4> QED
        BY <2>7, <2>11, <3>2, <4>1, <4>2, <4>3, <4>4
    <3> QED
      BY <3>1, <3>2
  <2>13. Holds(k + 1)
    BY <2>1, <2>12 DEF next, after, q
  <2> QED
    BY <2>13
<1> HIDE DEF S
<1>4. n \in S
  BY <1>0, <1>2, <1>3, SetInduction
<1>5. n \in 0..n /\ n \in Nat
  BY <1>0
<1>6. Holds(n)
  <2> HIDE DEF Holds
  <2> QED
    BY <1>4, <1>5 DEF S
<1> QED
  BY <1>1, <1>5, <1>6

-----------------------------------------------------------------------------
(* The values of the lines.                                                *)

LEMMA TrimType ==
  ASSUME NEW line \in Line
  PROVE  Trim(line) \in Line /\ (Parses(Trim(line)) => Trim(line) \in Value)
<1> DEFINE len == Len(line)
           solid == {i \in 1..len : line[i] # "r"}
           trimmed == Trim(line)
<1>1. len \in Nat /\ \A i \in 1..len : line[i] \in Chars \ {"n"}
  BY LenProperties DEF Line
<1> HIDE DEF len
<1>2. CASE solid = {}
  <2>1. trimmed = <<>>
    BY <1>2 DEF Trim, len
  <2> QED
    BY <2>1, EmptySeq DEF Line, Value
<1>3. CASE solid # {}
  <2> DEFINE first == CHOOSE i \in solid : \A j \in solid : i <= j
             last  == CHOOSE i \in solid : \A j \in solid : j <= i
  <2>1. trimmed = SubSeq(line, first, last)
    BY <1>3 DEF Trim, len
  <2>2. first \in solid
    <3>1. solid \in SUBSET Nat
      BY <1>1
    <3> HIDE DEF solid
    <3>2. \E i \in solid : \A j \in solid : i <= j
      BY <1>3, <3>1, LeastExists
    <3> QED
      BY <3>2
  <2>3. last \in solid
    <3> DEFINE after == {m \in Nat : len - m \in solid}
    <3>1. after # {}
      <4>1. PICK i \in solid : TRUE
        BY <1>3
      <4>2. len - i \in Nat /\ len - (len - i) = i
        BY <1>1
      <4> QED
        BY <4>1, <4>2
    <3>2. PICK m \in after : \A k \in after : m <= k
      <4> HIDE DEF after
      <4>1. after \in SUBSET Nat
        BY DEF after
      <4> QED
        BY <3>1, <4>1, LeastExists
    <3>3. \A j \in solid : j <= len - m
      <4> TAKE j \in solid
      <4>1. j \in 1..len /\ len - j \in Nat /\ len - (len - j) = j
        BY <1>1
      <4>2. len - j \in after
        BY <4>1
      <4>3. m <= len - j
        BY <3>2, <4>2
      <4> QED
        BY <1>1, <4>1, <4>3
    <3>4. len - m \in solid
      BY <3>2
    <3> HIDE DEF solid
    <3>5. \E i \in solid : \A j \in solid : j <= i
      BY <3>3, <3>4
    <3> QED
      BY <3>5
  <2> HIDE DEF first, last, trimmed
  <2>4. first \in 1..len /\ last \in 1..len
    BY <2>2, <2>3
  <2>5. \A i \in first..last : line[i] \in Chars \ {"n"}
    BY <1>1, <2>4
  <2>6. trimmed \in Seq(Chars \ {"n"})
    BY <2>1, <2>4, <2>5, SubSeqProperties
  <2>7. Parses(trimmed) => trimmed \in Seq(Chars \ {"n", "b"})
    <3> HAVE Parses(trimmed)
    <3>1. \A i \in 1..Len(trimmed) : trimmed[i] \in Chars \ {"n", "b"}
      BY <2>6, LenProperties DEF Parses
    <3> QED
      BY <2>6, <3>1, SeqDef
  <2> QED
    BY <2>6, <2>7 DEF Line, Value, trimmed
<1> QED
  BY <1>2, <1>3

\* A line of the body has the type of a line, its value that of a value.
LEMMA TextType ==
  ASSUME doc \in Seq(Bytes), NEW i \in 1..Len(doc) + 1
  PROVE  /\ Whole(Piece(i)) \in Line
         /\ Parses(Text(i)) => Text(i) \in Value
<1> DEFINE n == i - 1
           decoded == Decode(FALSE, SubSeq(doc, 0 + 1, 0 + n))
           split == SplitLines(<<>> \o decoded.text)
<1>1. Len(doc) \in Nat /\ 0 \in 0..Len(doc) /\ n \in 0..Len(doc) - 0 /\ 0 + n = n /\ n + 1 = i
  BY LenProperties
<1>2. <<>> \in Line /\ OnLine(0) = [lead |-> FALSE, text |-> <<>>]
  BY EmptySeq, OnLineSteps DEF Line
<1>3. split \in Split /\ OnLine(0 + n) = [lead |-> decoded.lead, text |-> split.rest]
  <2> HIDE DEF n
  <2> QED
    BY <1>1, <1>2, ChunkSplits
<1> HIDE DEF decoded, split
<1>4. OnLine(n).text \in Line
  <2>1. OnLine(n).text = split.rest
    BY <1>1, <1>3
  <2> QED
    BY <1>3, <2>1 DEF Split
<1>5. FlushDecoder(OnLine(n).lead) \in Line
  <2>1. "?" \in Chars \ {"n"}
    BY DEF Chars
  <2>2. <<"?">> \in Line /\ <<>> \in Line
    BY <2>1 DEF Line
  <2> QED
    BY <2>2 DEF FlushDecoder
<1>6. Whole(Piece(i)) = OnLine(n).text \o FlushDecoder(OnLine(n).lead)
  BY OnLineSteps
<1>7. Whole(Piece(i)) \in Line
  BY <1>4, <1>5, <1>6, ConcatProperties DEF Line
<1> QED
  BY <1>7, TrimType DEF Text

\* The values up to each byte, from those up to the byte before it.
ValueEnds(i) == EndsLine(i) /\ Valid(i) /\ Text(i) # <<>>

LEMMA ValuesSteps ==
  ASSUME doc \in Seq(Bytes)
  PROVE  /\ Values \in [0..Len(doc) + 1 -> Seq(Value)]
         /\ Values[0] = <<>>
         /\ \A i \in 1..Len(doc) + 1 :
              Values[i] = IF ValueEnds(i) THEN Append(Values[i - 1], Text(i)) ELSE Values[i - 1]
<1> DEFINE len == Len(doc) + 1
           More(values, i) == IF ValueEnds(i) THEN Append(values, Text(i)) ELSE values
           G == [i \in 1..len |-> [values \in Seq(Value) |-> More(values, i)]]
           At(upto, i) == IF i = 0 THEN <<>> ELSE More(upto[i - 1], i)
           Is(upto) == upto = [i \in 0..len |-> At(upto, i)]
           chosen == CHOOSE upto : Is(upto)
<1>0. len \in Nat
  BY LenProperties
<1>1. ASSUME NEW i \in 1..len, NEW values \in Seq(Value)
      PROVE  More(values, i) \in Seq(Value)
  <2>1. ValueEnds(i) => Parses(Text(i))
    <3>1. i \in 1..i
      BY <1>0
    <3> QED
      BY <3>1 DEF ValueEnds, Valid
  <2>2. ValueEnds(i) => Text(i) \in Value
    BY <2>1, TextType
  <2> QED
    BY <2>2, AppendProperties
<1>2. Values = chosen
  BY DEF Values, ValueEnds
<1>3. <<>> \in Seq(Value)
  BY EmptySeq
<1> HIDE DEF len, More
<1>4. G \in [1..len -> [Seq(Value) -> Seq(Value)]]
  BY <1>1
<1>5. PICK f \in [0..len -> Seq(Value)] : f[0] = <<>> /\ \A i \in 1..len : f[i] = G[i][f[i - 1]]
  <2> HIDE DEF G
  <2>1. \E f \in [0..len -> Seq(Value)] : Recurs(f, <<>>, len, G)
    BY <1>0, <1>3, <1>4, Recursion
  <2> QED
    BY <2>1 DEF Recurs
<1>6. ASSUME NEW i \in 1..len PROVE f[i] = More(f[i - 1], i)
  <2>1. i - 1 \in 0..len /\ f[i - 1] \in Seq(Value)
    BY <1>0, <1>5
  <2> QED
    BY <1>5, <2>1
<1>7. Is(f)
  <2>1. ASSUME NEW i \in 0..len PROVE f[i] = At(f, i)
    BY <1>0, <1>5, <1>6
  <2> HIDE DEF At
  <2> QED
    BY <1>5, <2>1
<1>8. Is(chosen)
  BY <1>7
<1> HIDE DEF chosen
<1>9. chosen = [i \in 0..len |-> At(chosen, i)]
  BY <1>8
<1>10. chosen[0] = <<>> /\ \A i \in 1..len : chosen[i] = More(chosen[i - 1], i)
  <2>1. \A i \in 0..len : chosen[i] = At(chosen, i)
    <3> HIDE DEF At
    <3> QED
      BY <1>9
  <2> QED
    BY <1>0, <2>1
<1>11. chosen \in [0..len -> Seq(Value)]
  <2>1. chosen = [i \in 0..len |-> chosen[i]]
    <3> HIDE DEF At
    <3> QED
      BY <1>9
  <2>2. ASSUME NEW i \in 1..len, chosen[i - 1] \in Seq(Value) PROVE chosen[i] \in Seq(Value)
    <3>1. More(chosen[i - 1], i) \in Seq(Value)
      BY <1>1, <2>2
    <3> QED
      BY <1>10, <3>1
  <2>3. chosen[0] \in Seq(Value)
    BY <1>3, <1>10
  <2> QED
    BY <1>0, <2>1, <2>2, <2>3, StaysIn
<1> QED
  BY <1>2, <1>10, <1>11 DEF len, More

\* Where no value ends there are none more.
LEMMA ValuesStay ==
  ASSUME doc \in Seq(Bytes), NEW p \in 0..Len(doc) + 1, NEW q \in p..Len(doc) + 1,
         \A i \in p + 1..q : ~ValueEnds(i)
  PROVE  Values[q] = Values[p]
<1> DEFINE S == {k \in Nat : p + k <= q => Values[p + k] = Values[p]}
<1>0. Len(doc) \in Nat
  BY LenProperties
<1>1. 0 \in S
  BY <1>0
<1>2. ASSUME NEW k \in Nat, k \in S PROVE k + 1 \in S
  <2> SUFFICES ASSUME p + (k + 1) <= q PROVE Values[p + (k + 1)] = Values[p]
    OBVIOUS
  <2> DEFINE i == p + (k + 1)
  <2>1. i \in p + 1..q /\ i \in 1..Len(doc) + 1 /\ i - 1 = p + k /\ p + k <= q
    BY <1>0
  <2> HIDE DEF i
  <2>2. Values[i] = Values[i - 1]
    BY <2>1, ValuesSteps
  <2>3. Values[p + k] = Values[p]
    BY <1>2, <2>1
  <2> QED
    BY <2>1, <2>2, <2>3 DEF i
<1> HIDE DEF S
<1>3. q - p \in Nat /\ p + (q - p) = q
  BY <1>0
<1>4. q - p \in S
  BY <1>1, <1>2, <1>3, SetInduction
<1> QED
  BY <1>3, <1>4 DEF S

\* Without a line feed nothing is settled.
LEMMA NoLineEnds ==
  ASSUME doc \in Seq(Bytes), NEW p \in 0..Len(doc), NEW q \in p..Len(doc),
         \A i \in p + 1..q : doc[i] # "n"
  PROVE  Values[q] = Values[p] /\ (Valid(q) <=> Valid(p))
<1>0. Len(doc) \in Nat
  BY LenProperties
<1>1. \A i \in p + 1..q : ~EndsLine(i)
  BY <1>0 DEF EndsLine
<1>2. Values[q] = Values[p]
  <2>1. \A i \in p + 1..q : ~ValueEnds(i)
    BY <1>1 DEF ValueEnds
  <2>2. p \in 0..Len(doc) + 1 /\ q \in p..Len(doc) + 1
    BY <1>0
  <2> QED
    BY <2>1, <2>2, ValuesStay
<1>3. Valid(q) <=> Valid(p)
  <2>1. \A i \in 1..q : i \in 1..p \/ i \in p + 1..q
    BY <1>0
  <2>2. \A i \in 1..p : i \in 1..q
    BY <1>0
  <2> QED
    BY <1>1, <2>1, <2>2 DEF Valid
<1> QED
  BY <1>2, <1>3

\* The next line settles its value, or that there are no more.
LEMMA LineSettles ==
  ASSUME doc \in Seq(Bytes), NEW p \in 0..Len(doc), NEW e \in p + 1..Len(doc) + 1,
         EndsLine(e), \A i \in p + 1..e - 1 : doc[i] # "n", Valid(p)
  PROVE  /\ Valid(e) <=> Parses(Text(e))
         /\ Parses(Text(e)) =>
              Values[e] = IF Text(e) = <<>> THEN Values[p] ELSE Append(Values[p], Text(e))
         /\ ~Parses(Text(e)) =>
              Values[Len(doc) + 1] = Values[p] /\ ~Valid(Len(doc) + 1)
<1>0. Len(doc) \in Nat
  BY LenProperties
<1> DEFINE q == e - 1
<1>1. q \in p..Len(doc) /\ e \in 1..Len(doc) + 1 /\ q + 1 = e
  BY <1>0
<1>2. Values[q] = Values[p] /\ Valid(q)
  BY <1>1, NoLineEnds
<1>3. Valid(e) <=> Parses(Text(e))
  <2>1. \A i \in 1..e : i \in 1..q \/ i = e
    BY <1>1
  <2>2. e \in 1..e /\ \A i \in 1..q : i \in 1..e
    BY <1>1
  <2> QED
    BY <1>2, <2>1, <2>2 DEF Valid
<1>4. ASSUME Parses(Text(e))
      PROVE  Values[e] = IF Text(e) = <<>> THEN Values[p] ELSE Append(Values[p], Text(e))
  <2>1. ValueEnds(e) <=> Text(e) # <<>>
    BY <1>3, <1>4 DEF ValueEnds
  <2>2. Values[e] = IF ValueEnds(e) THEN Append(Values[e - 1], Text(e)) ELSE Values[e - 1]
    BY <1>1, ValuesSteps
  <2> QED
    BY <1>2, <2>1, <2>2
<1>5. ASSUME ~Parses(Text(e))
      PROVE  Values[Len(doc) + 1] = Values[p] /\ ~Valid(Len(doc) + 1)
  <2>1. ASSUME NEW i \in e..Len(doc) + 1 PROVE ~Valid(i)
    <3>1. e \in 1..i
      BY <1>1
    <3> QED
      BY <1>5, <3>1 DEF Valid
  <2>2. Len(doc) + 1 \in e..Len(doc) + 1
    BY <1>0
  <2>3. \A i \in q + 1..Len(doc) + 1 : ~ValueEnds(i)
    BY <1>1, <2>1 DEF ValueEnds
  <2>4. Values[Len(doc) + 1] = Values[q]
    <3>1. q \in 0..Len(doc) + 1 /\ Len(doc) + 1 \in q..Len(doc) + 1
      BY <1>0, <1>1
    <3> HIDE DEF q
    <3> QED
      BY <2>3, <3>1, ValuesStay
  <2> QED
    BY <1>2, <2>1, <2>2, <2>4
<1> QED
  BY <1>3, <1>4, <1>5

LEMMA BodyIsSequence ==
  ASSUME doc \in Bodies
  PROVE  doc \in Seq(Bytes)
BY DEF Bodies

\* What is read of a body that stays the same.
LEMMA SameBody ==
  ASSUME doc' = doc
  PROVE  /\ Values' = Values
         /\ \A i : OnLine(i)' = OnLine(i)
         /\ \A i : Valid(i)' = Valid(i)
         /\ \A p, lines, r : Pending(p, lines, r)' = Pending(p, lines, r)
<1>1. \A i : EndsLine(i)' = EndsLine(i)
  BY DEF EndsLine
<1>2. \A i : FeedBefore(i)' = FeedBefore(i)
  BY DEF FeedBefore
<1>3. \A i : Piece(i)' = Piece(i)
  BY <1>2 DEF Piece
<1>4. \A i : Text(i)' = Text(i)
  BY <1>3 DEF Text
<1>5. \A i : Valid(i)' = Valid(i)
  BY <1>1, <1>4 DEF Valid
<1>6. Values' = Values
  BY <1>1, <1>4, <1>5 DEF Values
<1>7. \A i : OnLine(i)' = OnLine(i)
  BY <1>3 DEF OnLine
<1>8. \A p, lines, r : Pending(p, lines, r)' = Pending(p, lines, r)
  BY <1>3 DEF Pending
<1> QED
  BY <1>5, <1>6, <1>7, <1>8

-----------------------------------------------------------------------------
(* The inductive invariant.                                                *)

\* Up to some line end everything is yielded; the lines from there to the last byte
\* that was read are waiting.
Settled(p) == p \in 0..received /\ Valid(p) /\ out = Values[p] /\ Pending(p, todo, received)

ReadsAlong ==
  status \in {"pull", "yield"} =>
    /\ OnLine(received) = [lead |-> lead, text |-> buf]
    /\ \E p \in Nat : Settled(p)

NoneWaits == status \in {"pull", "broken"} => todo = <<>>

OneWaits == status = "yield" => todo # <<>>

IInv == TypeOK /\ ReadsAlong /\ NoneWaits /\ OneWaits /\ ChunkingIrrelevant /\ Prompt

\* When no line waits, everything that is complete is yielded.
LEMMA UpToDate ==
  ASSUME IInv, status = "pull"
  PROVE  out = Values[received] /\ Valid(received)
<1>1. PICK p \in Nat : Settled(p)
  BY DEF IInv, ReadsAlong
<1>2. doc \in Seq(Bytes) /\ received \in 0..Len(doc) /\ Len(doc) \in Nat /\ todo = <<>>
  BY BodyIsSequence, LenProperties DEF IInv, TypeOK, NoneWaits
<1>3. p \in 0..Len(doc) /\ received \in p..Len(doc)
  BY <1>1, <1>2 DEF Settled
<1>4. \A i \in p + 1..received : doc[i] # "n"
  BY <1>1, <1>2, PendingNone DEF Settled
<1>5. Values[received] = Values[p] /\ Valid(received)
  BY <1>1, <1>2, <1>3, <1>4, NoLineEnds DEF Settled
<1> QED
  BY <1>1, <1>5 DEF Settled

LEMMA InitReads == Init => IInv
<1> SUFFICES ASSUME Init PROVE IInv
  OBVIOUS
<1>1. doc \in Seq(Bytes) /\ Len(doc) \in Nat
  BY BodyIsSequence, LenProperties DEF Init
<1>2. TypeOK
  <2>1. <<>> \in Line /\ <<>> \in Seq(Line) /\ <<>> \in Seq(Value)
    BY EmptySeq DEF Line
  <2>2. received \in 0..Len(doc)
    <3>1. received = 0
      BY DEF Init
    <3> QED
      BY <1>1, <3>1
  <2>3. /\ doc \in Bodies /\ lead = FALSE /\ status = "pull"
        /\ buf = <<>> /\ todo = <<>> /\ out = <<>>
    BY DEF Init
  <2> QED
    BY <2>1, <2>2, <2>3 DEF TypeOK
<1>3. Values[0] = <<>>
  BY <1>1, ValuesSteps
<1>4. ReadsAlong
  <2>1. OnLine(0) = [lead |-> FALSE, text |-> <<>>]
    BY <1>1, OnLineSteps
  <2>2. \A i \in 0 + 1..0 : doc[i] # "n"
    OBVIOUS
  <2>3. Pending(0, <<>>, 0)
    BY <2>2, PendingNone
  <2>4. Valid(0)
    BY DEF Valid
  <2>5. Settled(0)
    BY <1>3, <2>3, <2>4 DEF Init, Settled
  <2> QED
    BY <2>1, <2>5 DEF Init, ReadsAlong
<1>5. NoneWaits /\ OneWaits /\ ChunkingIrrelevant /\ Prompt
  BY <1>3 DEF Init, NoneWaits, OneWaits, ChunkingIrrelevant, Prompt
<1> QED
  BY <1>2, <1>4, <1>5 DEF IInv

LEMMA TakeChunkKeeps ==
  ASSUME IInv, NEW n \in 1..(Len(doc) - received), TakeChunk(n)
  PROVE  IInv'
<1> DEFINE decoded == Decode(lead, SubSeq(doc, received + 1, received + n))
           split   == SplitLines(buf \o decoded.text)
<1>1. /\ status = "pull" /\ doc' = doc /\ out' = out
      /\ received' = received + n /\ lead' = decoded.lead
      /\ todo' = split.lines /\ buf' = split.rest
      /\ status' = IF split.lines # <<>> THEN "yield" ELSE "pull"
  BY DEF TakeChunk
<1>2. /\ doc \in Seq(Bytes) /\ Len(doc) \in Nat /\ received \in 0..Len(doc)
      /\ lead \in BOOLEAN /\ buf \in Line /\ n \in 0..Len(doc) - received
      /\ OnLine(received) = [lead |-> lead, text |-> buf]
  BY <1>1, BodyIsSequence, LenProperties DEF IInv, TypeOK, ReadsAlong
<1>3. /\ decoded \in Decoded /\ split \in Split
      /\ OnLine(received + n) = [lead |-> decoded.lead, text |-> split.rest]
      /\ Pending(received, split.lines, received + n)
  BY <1>2, ChunkSplits
<1>4. out = Values[received] /\ Valid(received)
  BY <1>1, UpToDate
<1> HIDE DEF decoded, split
<1>5. split.lines \in Seq(Line) /\ split.rest \in Line /\ decoded.lead \in BOOLEAN
  BY <1>3 DEF Split, Decoded
<1>6. received + n \in 0..Len(doc) /\ received \in 0..received + n /\ received \in Nat
  BY <1>2
<1>7. TypeOK'
  BY <1>1, <1>5, <1>6 DEF IInv, TypeOK
<1>8. ReadsAlong'
  <2>1. OnLine(received)' = [lead |-> lead', text |-> buf']
    BY <1>1, <1>3, SameBody
  <2>2. \E p \in Nat : Settled(p)'
    <3>1. Valid(received) /\ out' = Values'[received] /\ Pending(received, todo', received')
      BY <1>1, <1>3, <1>4, SameBody
    <3>2. \A p \in Nat : p = received => Settled(p)'
      BY <1>1, <1>6, <3>1, SameBody DEF Settled
    <3> QED
      BY <1>6, <3>2
  <2> QED
    BY <2>1, <2>2 DEF ReadsAlong
<1>9. NoneWaits' /\ OneWaits' /\ ChunkingIrrelevant'
  BY <1>1 DEF NoneWaits, OneWaits, ChunkingIrrelevant
<1>10. Prompt'
  <2>1. CASE split.lines # <<>>
    BY <1>1, <2>1 DEF Prompt
  <2>2. CASE split.lines = <<>>
    <3>1. \A i \in received + 1..received + n : doc[i] # "n"
      BY <1>3, <2>2, PendingNone
    <3>2. Values[received + n] = Values[received]
      <4>1. received + n \in received..Len(doc)
        BY <1>2
      <4> QED
        BY <1>2, <3>1, <4>1, NoLineEnds
    <3> QED
      BY <1>1, <1>4, <3>2, SameBody DEF Prompt
  <2> QED
    BY <2>1, <2>2
<1> QED
  BY <1>7, <1>8, <1>9, <1>10 DEF IInv

LEMMA TakeLineKeeps ==
  ASSUME IInv, TakeLine
  PROVE  IInv'
<1> DEFINE line == Trim(Head(todo))
<1>1. /\ status = "yield" /\ doc' = doc /\ received' = received /\ lead' = lead /\ buf' = buf
      /\ todo' = Tail(todo)
      /\ Parses(line) => /\ out' = IF line = <<>> THEN out ELSE Append(out, line)
                         /\ status' = IF Len(todo) > 1 THEN "yield" ELSE "pull"
      /\ ~Parses(line) => status' = "failed" /\ out' = out
  BY DEF TakeLine
<1>2. /\ doc \in Seq(Bytes) /\ Len(doc) \in Nat /\ received \in 0..Len(doc)
      /\ todo \in Seq(Line) /\ todo # <<>> /\ out \in Seq(Value)
      /\ OnLine(received) = [lead |-> lead, text |-> buf]
  BY <1>1, BodyIsSequence, LenProperties DEF IInv, TypeOK, ReadsAlong, OneWaits
<1>3. PICK p \in Nat : Settled(p)
  BY <1>1 DEF IInv, ReadsAlong
<1>4. p \in 0..received /\ Valid(p) /\ out = Values[p] /\ Pending(p, todo, received)
  BY <1>3 DEF Settled
<1>5. PICK e \in p + 1..received :
        /\ doc[e] = "n" /\ Head(todo) = Whole(Piece(e))
        /\ \A i \in p + 1..e - 1 : doc[i] # "n"
        /\ Pending(e, Tail(todo), received)
  <2>1. received \in Nat
    BY <1>2
  <2> QED
    BY <1>2, <1>4, <2>1, PendingHead
<1>6. line = Text(e)
  BY <1>5 DEF Text
<1>7. /\ Valid(e) <=> Parses(line)
      /\ Parses(line) => Values[e] = IF line = <<>> THEN out ELSE Append(out, line)
      /\ ~Parses(line) => Values[Len(doc) + 1] = out /\ ~Valid(Len(doc) + 1)
  <2>1. p \in 0..Len(doc) /\ e \in p + 1..Len(doc) + 1 /\ EndsLine(e)
    BY <1>2, <1>4, <1>5 DEF EndsLine
  <2> QED
    BY <1>2, <1>4, <1>5, <1>6, <2>1, LineSettles
<1>8. Parses(line) => line \in Value
  BY <1>2, HeadTailProperties, TrimType
<1>9. Tail(todo) \in Seq(Line) /\ Len(Tail(todo)) = Len(todo) - 1 /\ Len(todo) \in Nat /\ Len(todo) # 0
  BY <1>2, HeadTailProperties, LenProperties, EmptySeq
<1>10. Len(todo) > 1 <=> Tail(todo) # <<>>
  <2> DEFINE rest == Tail(todo)
  <2>1. rest \in Seq(Line) /\ Len(rest) = Len(todo) - 1 /\ Len(todo) \in Nat /\ Len(todo) # 0
    BY <1>9
  <2> HIDE DEF rest
  <2>2. rest = <<>> <=> Len(rest) = 0
    BY <2>1, EmptySeq
  <2>3. Len(todo) > 1 <=> rest # <<>>
    BY <2>1, <2>2
  <2> QED
    BY <2>3 DEF rest
<1> HIDE DEF line
<1>11. e \in 0..received /\ e \in Nat /\ e \in 0..Len(doc) /\ received \in e..Len(doc)
  BY <1>2, <1>4
<1>12. CASE ~Parses(line)
  <2>1. TypeOK'
    BY <1>1, <1>9, <1>12 DEF IInv, TypeOK
  <2>2. (ReadsAlong /\ NoneWaits /\ OneWaits /\ Prompt)'
    BY <1>1, <1>12 DEF ReadsAlong, NoneWaits, OneWaits, Prompt
  <2>3. ChunkingIrrelevant'
    BY <1>1, <1>7, <1>12, SameBody DEF ChunkingIrrelevant
  <2> QED
    BY <2>1, <2>2, <2>3 DEF IInv
<1>13. CASE Parses(line)
  <2>1. out' = Values[e] /\ Valid(e) /\ status' = IF Len(todo) > 1 THEN "yield" ELSE "pull"
    BY <1>1, <1>7, <1>13
  <2>2. TypeOK'
    <3>1. out' \in Seq(Value)
      <4>1. line \in Value
        BY <1>8, <1>13
      <4>2. Append(out, line) \in Seq(Value)
        BY <1>2, <4>1, AppendProperties
      <4> QED
        BY <1>1, <1>2, <1>13, <4>2
    <3> QED
      BY <1>1, <1>9, <2>1, <3>1 DEF IInv, TypeOK
  <2>3. ReadsAlong'
    <3>1. OnLine(received)' = [lead |-> lead', text |-> buf']
      BY <1>1, <1>2, SameBody
    <3>2. Settled(e)'
      BY <1>1, <1>5, <1>11, <2>1, SameBody DEF Settled
    <3> QED
      BY <1>11, <3>1, <3>2 DEF ReadsAlong
  <2>4. (NoneWaits /\ OneWaits /\ ChunkingIrrelevant)'
    BY <1>1, <1>10, <2>1 DEF NoneWaits, OneWaits, ChunkingIrrelevant
  <2>5. Prompt'
    <3>1. CASE Len(todo) > 1
      BY <2>1, <3>1 DEF Prompt
    <3>2. CASE ~(Len(todo) > 1)
      <4>1. \A i \in e + 1..received : doc[i] # "n"
        BY <1>5, <1>10, <3>2, PendingNone
      <4>2. Values[received] = Values[e]
        BY <1>2, <1>11, <4>1, NoLineEnds
      <4> QED
        BY <1>1, <2>1, <3>2, <4>2, SameBody DEF Prompt
    <3> QED
      BY <3>1, <3>2
  <2> QED
    BY <2>2, <2>3, <2>4, <2>5 DEF IInv
<1> QED
  BY <1>12, <1>13

LEMMA EndOfBodyKeeps ==
  ASSUME IInv, EndOfBody
  PROVE  IInv'
<1> DEFINE line == Trim(buf \o FlushDecoder(lead))
           last == Len(doc) + 1
<1>1. /\ status = "pull" /\ received = Len(doc) /\ doc' = doc /\ received' = received
      /\ lead' = lead /\ buf' = buf /\ todo' = todo
      /\ Parses(line) => /\ out' = IF line = <<>> THEN out ELSE Append(out, line)
                         /\ status' = "done"
      /\ ~Parses(line) => status' = "failed" /\ out' = out
  BY DEF EndOfBody
<1>2. /\ doc \in Seq(Bytes) /\ Len(doc) \in Nat /\ out \in Seq(Value)
      /\ OnLine(received) = [lead |-> lead, text |-> buf]
  BY <1>1, BodyIsSequence, LenProperties DEF IInv, TypeOK, ReadsAlong
<1>3. line = Text(last)
  <2>1. last \in 1..Len(doc) + 1 /\ last - 1 = received
    BY <1>1, <1>2
  <2>2. Whole(Piece(last)) = OnLine(last - 1).text \o FlushDecoder(OnLine(last - 1).lead)
    BY <1>2, <2>1, OnLineSteps
  <2>3. Whole(Piece(last)) = buf \o FlushDecoder(lead)
    <3>1. OnLine(last - 1).text = buf /\ OnLine(last - 1).lead = lead
      <4>1. OnLine(last - 1) = OnLine(received)
        BY <2>1
      <4> HIDE DEF last
      <4> QED
        BY <1>2, <4>1
    <3> QED
      BY <2>2, <3>1
  <2> QED
    BY <2>3 DEF Text
<1>4. out = Values[received] /\ Valid(received)
  BY <1>1, UpToDate
<1>5. /\ Valid(last) <=> Parses(line)
      /\ Parses(line) => Values[last] = IF line = <<>> THEN out ELSE Append(out, line)
      /\ ~Parses(line) => Values[last] = out
  <2>1. /\ received \in 0..Len(doc) /\ last \in received + 1..Len(doc) + 1 /\ EndsLine(last)
        /\ \A i \in received + 1..last - 1 : doc[i] # "n"
    BY <1>1, <1>2 DEF EndsLine
  <2> HIDE DEF line
  <2> QED
    BY <1>2, <1>3, <1>4, <2>1, LineSettles
<1>6. Parses(line) => line \in Value
  <2>1. last \in 1..Len(doc) + 1
    BY <1>2
  <2> QED
    BY <1>2, <1>3, <2>1, TextType
<1> HIDE DEF line
<1>7. TypeOK'
  <2>1. out' \in Seq(Value)
    BY <1>1, <1>2, <1>6, AppendProperties
  <2>2. status' \in {"done", "failed"}
    BY <1>1
  <2> QED
    BY <1>1, <2>1, <2>2 DEF IInv, TypeOK
<1>8. (ReadsAlong /\ NoneWaits /\ OneWaits /\ Prompt)'
  <2>1. status' \in {"done", "failed"}
    BY <1>1
  <2> QED
    BY <2>1 DEF ReadsAlong, NoneWaits, OneWaits, Prompt
<1>9. ChunkingIrrelevant'
  BY <1>1, <1>5, SameBody DEF ChunkingIrrelevant
<1> QED
  BY <1>7, <1>8, <1>9 DEF IInv

LEMMA NextKeeps == IInv /\ [Next]_vars => IInv'
<1> SUFFICES ASSUME IInv, [Next]_vars PROVE IInv'
  OBVIOUS
<1>1. CASE \E n \in 1..(Len(doc) - received) : TakeChunk(n)
  BY <1>1, TakeChunkKeeps
<1>2. CASE TakeLine
  BY <1>2, TakeLineKeeps
<1>3. CASE EndOfBody
  BY <1>3, EndOfBodyKeeps
<1>4. CASE BodyBreaks
  <2>1. out = Values[received] /\ todo = <<>>
    BY <1>4, UpToDate DEF BodyBreaks, IInv, NoneWaits
  <2>2. TypeOK'
    BY <1>4 DEF BodyBreaks, IInv, TypeOK
  <2>3. (ReadsAlong /\ NoneWaits /\ OneWaits /\ ChunkingIrrelevant)'
    BY <1>4, <2>1 DEF BodyBreaks, ReadsAlong, NoneWaits, OneWaits, ChunkingIrrelevant
  <2>4. Prompt'
    BY <1>4, <2>1, SameBody DEF BodyBreaks, Prompt
  <2> QED
    BY <2>2, <2>3, <2>4 DEF IInv
<1>5. CASE ConsumerStops
  <2>1. TypeOK'
    BY <1>5 DEF ConsumerStops, IInv, TypeOK
  <2>2. (ReadsAlong /\ NoneWaits /\ OneWaits /\ ChunkingIrrelevant /\ Prompt)'
    BY <1>5 DEF ConsumerStops, ReadsAlong, NoneWaits, OneWaits, ChunkingIrrelevant, Prompt
  <2> QED
    BY <2>1, <2>2 DEF IInv
<1>6. CASE UNCHANGED vars
  <2>1. /\ doc' = doc /\ received' = received /\ lead' = lead /\ buf' = buf
        /\ todo' = todo /\ out' = out /\ status' = status
    BY <1>6 DEF vars
  <2>2. TypeOK'
    BY <2>1 DEF IInv, TypeOK
  <2>3. ReadsAlong'
    <3> SUFFICES ASSUME status' \in {"pull", "yield"}
                 PROVE  /\ OnLine(received)' = [lead |-> lead', text |-> buf']
                        /\ \E p \in Nat : Settled(p)'
      BY DEF ReadsAlong
    <3>1. OnLine(received) = [lead |-> lead, text |-> buf] /\ \E p \in Nat : Settled(p)
      BY <2>1 DEF IInv, ReadsAlong
    <3>2. OnLine(received)' = OnLine(received)
      BY <2>1, SameBody
    <3>3. \A p \in Nat : Settled(p) => Settled(p)'
      BY <2>1, SameBody DEF Settled
    <3> QED
      BY <2>1, <3>1, <3>2, <3>3
  <2>4. (NoneWaits /\ OneWaits)'
    BY <2>1 DEF IInv, NoneWaits, OneWaits
  <2>5. (ChunkingIrrelevant /\ Prompt)'
    BY <2>1, SameBody DEF IInv, ChunkingIrrelevant, Prompt
  <2> QED
    BY <2>2, <2>3, <2>4, <2>5 DEF IInv
<1> QED
  BY <1>1, <1>2, <1>3, <1>4, <1>5, <1>6 DEF Next

LEMMA AlwaysReads == Spec => []IInv
<1>1. Init => IInv
  BY InitReads
<1>2. IInv /\ [Next]_vars => IInv'
  BY NextKeeps
<1> QED
  BY <1>1, <1>2, PTL DEF Spec

-----------------------------------------------------------------------------

\* No line feed is left in a line, nothing that is no JSON is yielded, and the
\* reader never runs past the end of the body.
THEOREM TypeCorrect == Spec => []TypeOK
<1>1. IInv => TypeOK
  BY DEF IInv
<1> QED
  BY <1>1, AlwaysReads, PTL

\* For every body and every way to cut it into chunks, ndjson() yields the values of
\* its lines, as if it had come in one piece, and fails exactly at a line that is no JSON.
THEOREM ChunkingCorrect == Spec => []ChunkingIrrelevant
<1>1. IInv => ChunkingIrrelevant
  BY DEF IInv
<1> QED
  BY <1>1, AlwaysReads, PTL

\* Whenever ndjson() asks for more bytes, or is cut off, every complete line is yielded.
THEOREM PromptCorrect == Spec => []Prompt
<1>1. IInv => Prompt
  BY DEF IInv
<1> QED
  BY <1>1, AlwaysReads, PTL
=============================================================================
