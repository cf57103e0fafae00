-------------------------- MODULE LineReaderProofs --------------------------
(***************************************************************************)
(* What holds of the line reader for every size of the buffer, every limit *)
(* and every text.                                                         *)
(***************************************************************************)
EXTENDS LineReader, SequenceTheorems, TLAPS

Byte == Char \cup {"cr", "lf"}

----------------------------------------------------------------------------
(* The operators.                                                          *)

\* A line with its end: line feed and carriage return are in its last two
\* places and nowhere else.
LEMMA EndedLine ==
  ASSUME NEW X \in Seq(Char)
  PROVE  /\ X \o CRLF \in Seq(Byte)
         /\ Len(X \o CRLF) = Len(X) + 2 /\ Len(X) \in Nat
         /\ \A i \in 1..Len(X) : (X \o CRLF)[i] \in Char
         /\ (X \o CRLF)[Len(X) + 1] = "cr"
         /\ (X \o CRLF)[Len(X) + 2] = "lf"
<1> DEFINE S == X \o CRLF
<1>1. /\ X \in Seq(Byte) /\ CRLF \in Seq(Byte)
      /\ Len(CRLF) = 2 /\ CRLF[1] = "cr" /\ CRLF[2] = "lf"
  BY DEF Byte, CRLF
<1>2. Len(X) \in Nat /\ \A i \in 1..Len(X) : X[i] \in Char
  BY LenProperties, ElementOfSeq
<1>3. /\ S \in Seq(Byte) /\ Len(S) = Len(X) + Len(CRLF)
      /\ \A i \in 1..Len(X) + Len(CRLF) :
           S[i] = IF i <= Len(X) THEN X[i] ELSE CRLF[i - Len(X)]
  BY <1>1, ConcatProperties, Zenon
<1> HIDE DEF CRLF, S
<1>4. \A i \in 1..Len(X) : S[i] = X[i]
  BY <1>1, <1>2, <1>3
<1>5. S[Len(X) + 1] = CRLF[1] /\ S[Len(X) + 2] = CRLF[2]
  BY <1>1, <1>2, <1>3
<1>6. /\ S \in Seq(Byte) /\ Len(S) = Len(X) + 2 /\ Len(X) \in Nat
      /\ \A i \in 1..Len(X) : S[i] \in Char
      /\ S[Len(X) + 1] = "cr" /\ S[Len(X) + 2] = "lf"
  BY <1>1, <1>2, <1>3, <1>4, <1>5
<1> QED
  BY <1>6, Zenon DEF S

\* The rest of a sequence.
LEMMA Rest ==
  ASSUME NEW B, NEW S \in Seq(B), NEW k \in 0..Len(S)
  PROVE  /\ SubSeq(S, k + 1, Len(S)) \in Seq(B)
         /\ Len(SubSeq(S, k + 1, Len(S))) = Len(S) - k
         /\ \A i \in 1..Len(S) - k : SubSeq(S, k + 1, Len(S))[i] = S[k + i]
<1> DEFINE w == SubSeq(S, k + 1, Len(S))
<1>1. Len(S) \in Nat /\ k + 1 \in Int /\ Len(S) \in Int /\ \A j \in k + 1..Len(S) : S[j] \in B
  BY ElementOfSeq, LenProperties
<1>2. /\ w \in Seq(B) /\ Len(w) = IF k + 1 <= Len(S) THEN Len(S) - (k + 1) + 1 ELSE 0
      /\ \A i \in 1..Len(S) - (k + 1) + 1 : w[i] = S[k + 1 + i - 1]
  <2> DEFINE m == k + 1
             h == Len(S)
  <2>1. m \in Int /\ h \in Int /\ \A i \in m..h : S[i] \in B
    BY <1>1
  <2> HIDE DEF m, h
  <2>2. /\ SubSeq(S, m, h) \in Seq(B)
        /\ Len(SubSeq(S, m, h)) = IF m <= h THEN h - m + 1 ELSE 0
        /\ \A i \in 1..h - m + 1 : SubSeq(S, m, h)[i] = S[m + i - 1]
    BY <2>1, SubSeqProperties
  <2> QED
    BY <2>2, Zenon DEF m, h
<1> HIDE DEF w
<1>3. Len(w) = Len(S) - k /\ Len(S) - (k + 1) + 1 = Len(S) - k
  BY <1>1, <1>2
<1>4. ASSUME NEW i \in 1..Len(S) - k PROVE w[i] = S[k + i]
  <2>1. k + 1 + i - 1 = k + i
    BY <1>1
  <2> QED
    BY <1>2, <1>3, <2>1
<1>5. /\ w \in Seq(B) /\ Len(w) = Len(S) - k
      /\ \A i \in 1..Len(S) - k : w[i] = S[k + i]
  BY <1>2, <1>3, <1>4
<1> QED
  BY <1>5, Zenon DEF w

\* TrimRight takes away the end of the line and nothing else.
LEMMA TrimmedLine ==
  ASSUME NEW X \in Seq(Char)
  PROVE  Trimmed(X \o CRLF) = X /\ Trimmed(<<>>) = <<>>
<1> DEFINE S == X \o CRLF
           I == {i \in 1..Len(S) : S[i] \notin {"cr", "lf"}}
<1>1. /\ S \in Seq(Byte) /\ Len(S) = Len(X) + 2 /\ Len(X) \in Nat
      /\ \A i \in 1..Len(X) : S[i] \in Char
      /\ S[Len(X) + 1] = "cr" /\ S[Len(X) + 2] = "lf"
  BY EndedLine
<1>2. X = SubSeq(S, 1, Len(X))
  <2>1. X \in Seq(Byte) /\ CRLF \in Seq(Byte)
    BY DEF Byte, CRLF
  <2> QED
    BY <2>1, <1>1, SubSeqOfConcat1, SubSeqFull
<1>3. Trimmed(S) = SubSeq(S, 1, IF I # {} THEN Max(I) ELSE 0)
  BY DEF Trimmed, SelectLastInSeq
<1>4. I = 1..Len(X)
  <2> HIDE DEF S
  <2> QED
    BY <1>1 DEF Char
<1> HIDE DEF S, I
<1>5. ASSUME I = {} PROVE Trimmed(S) = X
  <2>1. Len(X) = 0
    BY <1>1, <1>4, <1>5
  <2> QED
    BY <1>2, <1>3, <1>5, <2>1
<1>6. ASSUME I # {} PROVE Trimmed(S) = X
  <2>1. Len(X) \in I /\ \A y \in I : y <= Len(X)
    BY <1>1, <1>4, <1>6
  <2>2. Max(I) = Len(X)
    BY <1>1, <1>4, <2>1 DEF Max
  <2> QED
    BY <1>2, <1>3, <1>6, <2>2
<1>7. Trimmed(<<>>) = <<>>
  BY DEF Trimmed, SelectLastInSeq
<1> QED
  BY <1>5, <1>6, <1>7 DEF S

\* The server undoes the stuffing, and no line of the text looks like the end.
LEMMA Unstuffs ==
  ASSUME NEW l \in Seq(Char)
  PROVE  /\ Stuffed(l) \in Seq(Char) /\ Len(Stuffed(l)) \in Nat
         /\ Len(l) <= Len(Stuffed(l))
         /\ Stuffed(l) # <<"dot">>
         /\ Unstuffed(Stuffed(l)) = l
<1>1. CASE l # <<>> /\ l[1] = "dot"
  <2> DEFINE t == <<"dot">> \o l
  <2>1. Stuffed(l) = t
    BY <1>1 DEF Stuffed
  <2>2. t \in Seq(Char) /\ Len(t) = Len(l) + 1 /\ t[1] = "dot" /\ Len(l) \in Nat /\ Len(l) > 0
    BY <1>1 DEF Char
  <2>3. Tail(t) = l
    <3>1. Tail(t) \in Seq(Char) /\ Len(Tail(t)) = Len(l)
      BY <2>2
    <3>2. \A i \in 1..Len(l) : Tail(t)[i] = l[i]
      BY <2>2
    <3> HIDE DEF t
    <3> QED
      BY <3>1, <3>2, SeqEqual
  <2>4. t # <<"dot">> /\ t # <<>>
    BY <2>2
  <2> HIDE DEF t
  <2> QED
    BY <2>1, <2>2, <2>3, <2>4 DEF Unstuffed
<1>2. CASE ~(l # <<>> /\ l[1] = "dot")
  BY <1>2 DEF Stuffed, Unstuffed
<1> QED
  BY <1>1, <1>2

\* The client's lines are sequences.
LEMMA LinesAreSeqs ==
  ASSUME NEW b \in Nat, NEW l \in BoundedSeq(Char, b)
  PROVE  l \in Seq(Char)
<1>1. PICK m \in 0..b : l \in [1..m -> Char]
  BY Zenon DEF BoundedSeq, SeqOf
<1>2. m \in Nat
  OBVIOUS
<1> QED
  BY ONLY <1>1, <1>2, IsASeq

LineFeeds(w) == {i \in 1..Len(w) : w[i] = "lf"}

\* The rest of a line ends with its only line feed.
LEMMA LineFeedAtEnd ==
  ASSUME NEW X \in Seq(Char), NEW S, S = X \o CRLF, NEW k \in 0..Len(S)
  PROVE  LineFeeds(SubSeq(S, k + 1, Len(S))) = IF k = Len(S) THEN {} ELSE {Len(S) - k}
<1> DEFINE w == SubSeq(S, k + 1, Len(S))
<1>1. /\ S \in Seq(Byte) /\ Len(S) = Len(X) + 2 /\ Len(X) \in Nat
      /\ \A i \in 1..Len(X) : S[i] \in Char
      /\ S[Len(X) + 1] = "cr" /\ S[Len(X) + 2] = "lf"
  BY EndedLine, Zenon
<1>2. Len(w) = Len(S) - k /\ \A i \in 1..Len(S) - k : w[i] = S[k + i]
  BY <1>1, Rest, Zenon
<1> HIDE DEF w
<1>a. k \in 0..Len(S)
  OBVIOUS
<1> QED
  <2> SUFFICES LineFeeds(w) = IF k = Len(S) THEN {} ELSE {Len(S) - k}
    BY Zenon DEF w
  <2>4. ASSUME k = Len(S) PROVE LineFeeds(w) = {}
    BY ONLY <1>1, <1>2, <2>4 DEF LineFeeds
  <2>5. ASSUME k # Len(S) PROVE LineFeeds(w) = {Len(S) - k}
    <3>1. Len(w) \in 1..Len(X) + 2 /\ k + Len(w) = Len(X) + 2 /\ k \in Nat
      BY ONLY <1>a, <1>1, <1>2, <2>5
    <3>2. w[Len(w)] = "lf"
      BY ONLY <1>1, <1>2, <3>1
    <3>3. ASSUME NEW i \in 1..Len(w), i # Len(w) PROVE w[i] # "lf"
      <4>1. w[i] = S[k + i] /\ k + i \in 1..Len(X) + 1
        BY ONLY <1>1, <1>2, <3>1, <3>3
      <4> QED
        BY ONLY <4>1, <1>1 DEF Char
    <3>4. LineFeeds(w) = {Len(w)}
      BY ONLY <3>1, <3>2, <3>3 DEF LineFeeds
    <3> QED
      BY <1>2, <3>4, Zenon
  <2> QED
    BY <2>4, <2>5

\* So the next line feed is where the wire ends.
LEMMA EndOfWire ==
  ASSUME NEW X \in Seq(Char), NEW S, S = X \o CRLF, NEW k \in 0..Len(S),
         wire = SubSeq(S, k + 1, Len(S))
  PROVE  EndOfLine = Len(S) - k
<1>1. EndOfLine = IF LineFeeds(wire) # {} THEN Min(LineFeeds(wire)) ELSE 0
  BY Zenon DEF EndOfLine, SelectInSeq, LineFeeds
<1>2. LineFeeds(wire) = IF k = Len(S) THEN {} ELSE {Len(S) - k}
  BY LineFeedAtEnd, Zenon
<1>3. Len(S) \in Nat /\ k \in 0..Len(S)
  BY EndedLine
<1> QED
  BY ONLY <1>1, <1>2, <1>3 DEF Min

\* The first bytes of a sequence.
LEMMA FirstLen ==
  ASSUME NEW B, NEW S \in Seq(B), NEW k \in 0..Len(S)
  PROVE  Len(SubSeq(S, 1, k)) = k
<1>1. 1 \in Int /\ k \in Int /\ (IF 1 <= k THEN k - 1 + 1 ELSE 0) = k /\ \A i \in 1..k : S[i] \in B
  BY ElementOfSeq, LenProperties
<1>2. Len(SubSeq(S, 1, k)) = IF 1 <= k THEN k - 1 + 1 ELSE 0
  <2> DEFINE one == 1
  <2>1. one \in Int /\ k \in Int /\ \A i \in one..k : S[i] \in B
    BY <1>1
  <2> HIDE DEF one
  <2>2. Len(SubSeq(S, one, k)) = IF one <= k THEN k - one + 1 ELSE 0
    BY ONLY <2>1, SubSeqProperties
  <2> QED
    BY <2>2, Zenon DEF one
<1> QED
  BY ONLY <1>1, <1>2

\* A full buffer without a line feed is the next part of the line.
LEMMA NextPart ==
  ASSUME NEW X \in Seq(Char), NEW S, S = X \o CRLF, NEW k \in 0..Len(S),
         wire = SubSeq(S, k + 1, Len(S)),
         Len(wire) >= BufSize, EndOfLine \notin 1..BufSize
  PROVE  /\ k + BufSize \in 0..Len(S) - 1
         /\ Len(SubSeq(S, 1, k)) + Len(Fragment) = k + BufSize
         /\ SubSeq(wire, Len(Fragment) + 1, Len(wire)) = SubSeq(S, k + BufSize + 1, Len(S))
         /\ SubSeq(S, 1, k) \o Fragment = SubSeq(S, 1, k + BufSize)
<1>1. S \in Seq(Byte) /\ Len(S) \in Nat /\ BufSize \in Nat \ {0} /\ k \in 0..Len(S)
  BY EndedLine, ReaderAssumption
<1>2. wire \in Seq(Byte) /\ Len(wire) = Len(S) - k
  BY <1>1, Rest, Zenon
<1>3. EndOfLine = Len(S) - k
  BY EndOfWire, Zenon
<1>4. k + BufSize \in 0..Len(S) - 1
  BY ONLY <1>1, <1>2, <1>3, Len(wire) >= BufSize, EndOfLine \notin 1..BufSize
<1> DEFINE m == BufSize
           e == Len(S) - k
           g == k + 1
           h == Len(S)
<1>5. /\ g \in 1..Len(S) /\ h \in 1..Len(S)
      /\ 1 \in 1..h - g + 1 /\ m \in 1..h - g + 1
      /\ m + 1 \in 1..h - g + 1 /\ e \in 1..h - g + 1
      /\ g + 1 - 1 = k + 1 /\ g + m - 1 = k + m
      /\ g + (m + 1) - 1 = k + m + 1 /\ g + e - 1 = Len(S)
  BY ONLY <1>1, <1>4
<1>6. Fragment = SubSeq(wire, 1, m)
  BY Zenon DEF Fragment
<1>7. SubSeq(SubSeq(S, g, h), 1, m) = SubSeq(S, g + 1 - 1, g + m - 1)
  <2> HIDE DEF g, h, m, e
  <2> QED
    BY ONLY <1>1, <1>5, SubSeqOfSubSeq
<1>8. SubSeq(SubSeq(S, g, h), m + 1, e) = SubSeq(S, g + (m + 1) - 1, g + e - 1)
  <2> DEFINE m1 == m + 1
  <2>1. m1 \in 1..h - g + 1
    BY <1>5, Zenon
  <2> HIDE DEF g, h, m, e, m1
  <2>2. SubSeq(SubSeq(S, g, h), m1, e) = SubSeq(S, g + m1 - 1, g + e - 1)
    BY ONLY <1>1, <1>5, <2>1, SubSeqOfSubSeq
  <2> QED
    BY <2>2, Zenon DEF m1
<1>9. Fragment = SubSeq(S, k + 1, k + m) /\ SubSeq(wire, m + 1, e) = SubSeq(S, k + m + 1, Len(S))
  BY ONLY <1>5, <1>6, <1>7, <1>8, wire = SubSeq(S, k + 1, Len(S)), Zenon
<1>10. Len(Fragment) = m
  <2>1. 1 \in Int /\ m \in Int /\ (1 <= m) /\ m - 1 + 1 = m /\ \A i \in 1..m : wire[i] \in Byte
    BY ONLY <1>1, <1>2, <1>4, ElementOfSeq
  <2>2. Len(SubSeq(wire, 1, m)) = IF 1 <= m THEN m - 1 + 1 ELSE 0
    BY ONLY <2>1, SubSeqProperties, Zenon
  <2> QED
    BY ONLY <1>6, <2>1, <2>2
<1>11. SubSeq(S, 1, k) \o SubSeq(S, k + 1, k + m) = SubSeq(S, 1, k + m)
  <2>1. /\ 1 \in 1..Len(S) + 1 /\ k \in 1 - 1..Len(S) /\ k + m \in k..Len(S)
    BY ONLY <1>1, <1>4
  <2> QED
    BY ONLY <1>1, <2>1, ConcatAdjacentSubSeq, Zenon
<1>12. Len(SubSeq(S, 1, k)) = k
  BY ONLY <1>1, FirstLen, Zenon
<1> QED
  BY <1>2, <1>4, <1>9, <1>10, <1>11, <1>12, Zenon

\* A line feed within the buffer: the rest of the line is in it.
LEMMA LastPart ==
  ASSUME NEW X \in Seq(Char), NEW S, S = X \o CRLF, NEW k \in 0..Len(S),
         wire = SubSeq(S, k + 1, Len(S)), EndOfLine \in 1..BufSize
  PROVE  /\ k # Len(S)
         /\ Len(SubSeq(S, 1, k)) + Len(Fragment) = Len(S)
         /\ SubSeq(wire, Len(Fragment) + 1, Len(wire)) = <<>>
         /\ SubSeq(S, 1, k) \o Fragment = S
<1>1. S \in Seq(Byte) /\ Len(S) \in Nat /\ BufSize \in Nat \ {0} /\ k \in 0..Len(S)
  BY EndedLine, ReaderAssumption
<1>2. wire \in Seq(Byte) /\ Len(wire) = Len(S) - k
  BY <1>1, Rest, Zenon
<1>3. EndOfLine = Len(S) - k
  BY EndOfWire, Zenon
<1>4. k # Len(S)
  BY ONLY <1>1, <1>3, EndOfLine \in 1..BufSize
<1>5. Fragment = wire
  <2>1. Fragment = SubSeq(wire, 1, Len(wire))
    BY <1>2, <1>3, Zenon DEF Fragment
  <2> QED
    BY ONLY <1>2, <2>1, SubSeqFull
<1>6. SubSeq(wire, Len(wire) + 1, Len(wire)) = <<>>
  <2>1. Len(wire) + 1 \in Int /\ Len(wire) \in Int /\ Len(wire) < Len(wire) + 1
    BY ONLY <1>1, <1>2
  <2> QED
    BY ONLY <2>1, SubSeqEmpty, Zenon
<1>7. SubSeq(S, 1, k) \o SubSeq(S, k + 1, Len(S)) = SubSeq(S, 1, Len(S))
  <2>1. /\ 1 \in 1..Len(S) + 1 /\ k \in 1 - 1..Len(S) /\ Len(S) \in k..Len(S)
    BY ONLY <1>1
  <2> QED
    BY ONLY <1>1, <2>1, ConcatAdjacentSubSeq, Zenon
<1>8. SubSeq(S, 1, Len(S)) = S
  BY ONLY <1>1, SubSeqFull
<1>9. Len(SubSeq(S, 1, k)) + Len(Fragment) = Len(S)
  <2>1. Len(SubSeq(S, 1, k)) = k
    BY ONLY <1>1, FirstLen, Zenon
  <2> QED
    BY ONLY <1>1, <1>2, <1>5, <2>1
<1> QED
  BY <1>4, <1>5, <1>6, <1>7, <1>8, <1>9, Zenon

----------------------------------------------------------------------------
(***************************************************************************)
(* The inductive invariant.  The line under way is Sent; what has been     *)
(* read of it and what is still on the wire are its two parts, as long as  *)
(* the reader keeps what it reads.                                         *)
(***************************************************************************)
Bytes == IF task = "command" THEN line
         ELSE IF final THEN <<"dot">> ELSE Stuffed(line)

Sent == Bytes \o CRLF

Keeps == IF task = "command" THEN Len(Sent) <= MaxLine ELSE ~over

Types ==
  /\ task \in {"command", "data"} /\ final \in BOOLEAN /\ over \in BOOLEAN
  /\ line \in Seq(Char) /\ n \in Nat /\ size \in Nat
  /\ task = "data" => out \in Seq(Byte)

\* The first k bytes of the line have been read.
At(k) ==
  /\ wire = SubSeq(Sent, k + 1, Len(Sent))
  /\ Keeps => buf = IF k = Len(Sent) THEN <<>> ELSE SubSeq(Sent, 1, k)
  /\ task = "data" /\ over => buf = <<>>

Split == pc = "read" => \E k \in 0..Len(Sent) : At(k)

\* readLine has the whole of a line that fits.
CommandSound ==
  task = "command" /\ Len(Sent) <= MaxLine =>
    pc # "tooLong" /\ (pc = "done" => out = line)

\* readData has what the client wrote, up to the line under way.
DataSound ==
  task = "data" =>
    /\ Len(out) <= n /\ Len(out) <= Limit
    /\ IF over THEN size > Limit ELSE n <= Limit
    /\ ~over /\ pc = "read" =>
         IF wire = <<>> THEN ~final /\ n = size /\ out = meant
         ELSE /\ n + Len(Bytes) + 1 = size
              /\ IF final THEN out = meant ELSE out \o line \o <<"lf">> = meant
    /\ pc = "done" => final /\ (~over => size <= Limit /\ out = meant)

IInv == Types /\ Split /\ CommandSound /\ DataSound

\* What the invariant says of the line under way.
LEMMA SentFacts ==
  ASSUME Types
  PROVE  /\ Bytes \in Seq(Char) /\ Len(Bytes) \in Nat
         /\ Sent \in Seq(Byte) /\ Len(Sent) = Len(Bytes) + 2
<1>1. Bytes \in Seq(Char)
  <2>1. <<"dot">> \in Seq(Char)
    BY DEF Char
  <2>2. Stuffed(line) \in Seq(Char)
    BY Unstuffs DEF Types
  <2> QED
    BY <2>1, <2>2, Zenon DEF Bytes, Types
<1> QED
  BY <1>1, EndedLine, Zenon DEF Sent

\* A line that has been read leaves nothing on the wire, and the other way round.
LEMMA AtEnd ==
  ASSUME NEW S \in Seq(Byte), NEW k \in 0..Len(S)
  PROVE  SubSeq(S, k + 1, Len(S)) = <<>> <=> k = Len(S)
<1>1. Len(SubSeq(S, k + 1, Len(S))) = Len(S) - k /\ Len(S) \in Nat
  BY Rest, LenProperties, Zenon
<1>2. ASSUME k = Len(S) PROVE SubSeq(S, k + 1, Len(S)) = <<>>
  <2>1. k + 1 \in Int /\ Len(S) \in Int /\ Len(S) < k + 1
    BY ONLY <1>1, <1>2
  <2> QED
    BY ONLY <2>1, SubSeqEmpty, Zenon
<1>3. ASSUME SubSeq(S, k + 1, Len(S)) = <<>> PROVE k = Len(S)
  <2>1. Len(<<>>) = Len(S) - k
    BY ONLY <1>1, <1>3, Zenon
  <2>2. k \in 0..Len(S)
    OBVIOUS
  <2> QED
    BY ONLY <1>1, <2>1, <2>2
<1> QED
  BY <1>2, <1>3

\* The invariant holds before the first byte.
LEMMA IInvInit == Init => IInv
<1> SUFFICES ASSUME Init PROVE IInv
  OBVIOUS
<1>1. Types
  <2>1. line \in BoundedSeq(Char, CommandLen) \/ line = <<>>
    BY Zenon DEF Init
  <2>2. line \in Seq(Char) /\ <<>> \in Seq(Byte)
    <3>1. CommandLen \in Nat
      BY ReaderAssumption
    <3>2. line \in BoundedSeq(Char, CommandLen) => line \in Seq(Char)
      BY ONLY <3>1, LinesAreSeqs, Zenon
    <3>3. <<>> \in Seq(Char) /\ <<>> \in Seq(Byte)
      BY ONLY EmptySeq, Zenon
    <3> QED
      BY ONLY <2>1, <3>2, <3>3, Zenon
  <2>3. task \in {"command", "data"} /\ final = FALSE /\ over = FALSE /\ n = 0 /\ size = 0 /\ out = <<>>
    BY DEF Init
  <2> QED
    BY ONLY <2>2, <2>3 DEF Types
<1>2. Sent \in Seq(Byte) /\ Len(Sent) \in Nat /\ Len(Sent) > 0
  BY <1>1, SentFacts
<1>3. CASE task = "command"
  <2>1. wire = Sent
    BY <1>3 DEF Init, Sent, Bytes
  <2>2. Sent = SubSeq(Sent, 1, Len(Sent)) /\ SubSeq(Sent, 1, 0) = <<>>
    BY ONLY <1>2, SubSeqFull, SubSeqEmpty
  <2>3. 0 + 1 = 1 /\ 0 \in 0..Len(Sent) /\ 0 # Len(Sent)
    BY ONLY <1>2
  <2>4. buf = <<>> /\ task # "data"
    BY <1>3 DEF Init
  <2>5. At(0)
    BY ONLY <2>1, <2>2, <2>3, <2>4, Zenon DEF At
  <2>6. CommandSound /\ DataSound
    BY <1>3 DEF Init, CommandSound, DataSound
  <2> QED
    BY <1>1, <2>3, <2>5, <2>6 DEF IInv, Split
<1>4. CASE task = "data"
  <2>1. wire = <<>> /\ buf = <<>> /\ ~over /\ task # "command"
    BY <1>4 DEF Init
  <2>2. Len(Sent) \in 0..Len(Sent)
    BY ONLY <1>2
  <2>3. SubSeq(Sent, Len(Sent) + 1, Len(Sent)) = <<>>
    BY ONLY <1>2, <2>2, AtEnd, Zenon
  <2>4. At(Len(Sent))
    BY ONLY <2>1, <2>3, Zenon DEF At
  <2>5. Split
    BY ONLY <2>2, <2>4, Zenon DEF Split
  <2>6. CommandSound /\ DataSound
    BY <1>4, ReaderAssumption DEF Init, CommandSound, DataSound
  <2> QED
    BY <1>1, <2>5, <2>6 DEF IInv
<1> QED
  BY <1>1, <1>3, <1>4 DEF Types

\* A line that has just been sent is all on the wire.
LEMMA Unread ==
  ASSUME NEW S \in Seq(Byte), Len(S) > 0
  PROVE  /\ S = SubSeq(S, 0 + 1, Len(S)) /\ SubSeq(S, 1, 0) = <<>> /\ S # <<>>
         /\ 0 \in 0..Len(S) /\ 0 # Len(S)
<1>1. Len(S) \in Nat /\ Len(S) > 0 /\ 0 + 1 = 1
  BY LenProperties
<1>2. S = SubSeq(S, 1, Len(S)) /\ SubSeq(S, 1, 0) = <<>>
  BY ONLY S \in Seq(Byte), SubSeqFull, SubSeqEmpty
<1>3. S # <<>>
  BY ONLY <1>1, Len(<<>>) = 0
<1> QED
  BY <1>1, <1>2, <1>3

\* Before the client sends, the reader has nothing left of the last line.
LEMMA NothingLeft ==
  ASSUME IInv, Sending
  PROVE  buf = <<>>
<1>1. PICK k \in 0..Len(Sent) : At(k)
  BY DEF IInv, Split, Sending
<1>2. k = Len(Sent)
  <2>1. Sent \in Seq(Byte) /\ SubSeq(Sent, k + 1, Len(Sent)) = <<>>
    BY <1>1, SentFacts, Zenon DEF IInv, At, Sending
  <2> QED
    BY ONLY <2>1, k \in 0..Len(Sent), AtEnd, Zenon
<1>3. task = "data" /\ task # "command" /\ (over \/ ~over)
  BY DEF Sending
<1> QED
  BY ONLY <1>1, <1>2, <1>3, Zenon DEF At, Keeps

\* The client's next line.
LEMMA SendLineKeeps ==
  ASSUME IInv, NEW l \in BoundedSeq(Char, LineLen), SendLine(l)
  PROVE  IInv'
<1> DEFINE S == Stuffed(l) \o CRLF
<1>1. l \in Seq(Char) /\ Stuffed(l) \in Seq(Char) /\ Len(Stuffed(l)) \in Nat
  <2>1. l \in Seq(Char)
    BY LinesAreSeqs, ReaderAssumption
  <2> QED
    BY <2>1, Unstuffs
<1>2. S \in Seq(Byte) /\ Len(S) > 0
  BY <1>1, EndedLine
<1>3. buf = <<>>
  BY NothingLeft DEF SendLine
<1>4. /\ task = "data" /\ task' = "data" /\ ~final /\ ~final' /\ pc' = pc /\ pc = "read"
      /\ buf' = buf /\ n' = n /\ over' = over /\ out' = out /\ line' = l /\ wire = <<>>
      /\ wire' = S /\ meant' = meant \o l \o <<"lf">> /\ size' = size + Len(Stuffed(l)) + 1
  BY DEF SendLine, Sending, IInv, Types
<1>5. Bytes' = Stuffed(l) /\ Sent' = S
  BY <1>4 DEF Bytes, Sent
<1> HIDE DEF S
<1>6. Types'
  <2>1. size \in Nat /\ n \in Nat /\ over \in BOOLEAN /\ final' \in BOOLEAN /\ out \in Seq(Byte)
    BY <1>4 DEF IInv, Types, SendLine
  <2>2. size' \in Nat
    BY ONLY <1>1, <1>4, <2>1
  <2> QED
    BY ONLY <1>1, <1>4, <2>1, <2>2 DEF Types
<1>7. S = SubSeq(S, 0 + 1, Len(S)) /\ SubSeq(S, 1, 0) = <<>> /\ S # <<>> /\ 0 \in 0..Len(S) /\ 0 # Len(S)
  BY ONLY <1>2, Unread, Zenon
<1>8. At(0)'
  BY ONLY <1>3, <1>4, <1>5, <1>7, Zenon DEF At
<1>9. Split'
  BY ONLY <1>5, <1>7, <1>8, Zenon DEF Split
<1>10. CommandSound'
  BY <1>4 DEF CommandSound
<1>11. DataSound'
  <2>1. Len(out) <= n /\ Len(out) <= Limit /\ n \in Nat /\ size \in Nat /\ Limit \in Nat
    BY <1>4, ReaderAssumption DEF IInv, Types, DataSound
  <2>2. over => size > Limit
    BY <1>4 DEF IInv, DataSound
  <2>3. ~over => n <= Limit /\ n = size /\ out = meant
    BY <1>4 DEF IInv, DataSound
  <2>4. ~over => out \o l \o <<"lf">> = meant'
    BY ONLY <1>4, <2>3, Zenon
  <2>5. over => size' > Limit
    BY ONLY <1>1, <1>4, <2>1, <2>2
  <2>6. ~over => n + Len(Stuffed(l)) + 1 = size'
    BY ONLY <1>4, <2>3, Zenon
  <2>7. wire' # <<>> /\ pc' # "done"
    BY <1>4, <1>7
  <2> QED
    BY ONLY <1>4, <1>5, <2>1, <2>3, <2>4, <2>5, <2>6, <2>7, Zenon DEF DataSound
<1> QED
  BY <1>6, <1>9, <1>10, <1>11 DEF IInv

\* The client's terminator.
LEMMA SendDotKeeps ==
  ASSUME IInv, SendDot
  PROVE  IInv'
<1> DEFINE S == <<"dot">> \o CRLF
<1>1. <<"dot">> \in Seq(Char) /\ Len(<<"dot">>) = 1
  BY DEF Char
<1>2. S \in Seq(Byte) /\ Len(S) > 0
  <2> DEFINE D == <<"dot">>
  <2>1. D \in Seq(Char)
    BY <1>1
  <2> HIDE DEF D
  <2>2. D \o CRLF \in Seq(Byte) /\ Len(D \o CRLF) > 0
    BY <2>1, EndedLine
  <2> QED
    BY <2>2, Zenon DEF D
<1>3. buf = <<>>
  BY NothingLeft DEF SendDot
<1>4. /\ task = "data" /\ task' = "data" /\ task # "command" /\ final' = TRUE /\ pc' = pc /\ pc = "read"
      /\ buf' = buf /\ n' = n /\ over' = over /\ out' = out /\ line' = line /\ wire = <<>>
      /\ wire' = S /\ meant' = meant /\ size' = size + 2
  BY DEF SendDot, Sending
<1>5. Bytes' = <<"dot">> /\ Sent' = S
  BY <1>4 DEF Bytes, Sent
<1> HIDE DEF S
<1>6. Types'
  BY <1>4 DEF IInv, Types
<1>7. S = SubSeq(S, 0 + 1, Len(S)) /\ SubSeq(S, 1, 0) = <<>> /\ S # <<>> /\ 0 \in 0..Len(S) /\ 0 # Len(S)
  BY ONLY <1>2, Unread, Zenon
<1>8. At(0)'
  BY ONLY <1>3, <1>4, <1>5, <1>7, Zenon DEF At
<1>9. Split'
  BY ONLY <1>5, <1>7, <1>8, Zenon DEF Split
<1>10. CommandSound'
  BY <1>4 DEF CommandSound
<1>11. DataSound'
  <2>1. Len(out) <= n /\ Len(out) <= Limit /\ n \in Nat /\ size \in Nat /\ Limit \in Nat
    BY <1>4, ReaderAssumption DEF IInv, Types, DataSound
  <2>2. over => size > Limit
    BY <1>4 DEF IInv, DataSound
  <2>3. ~over => n <= Limit /\ n = size /\ out = meant
    BY <1>4 DEF IInv, DataSound
  <2>5. over => size' > Limit
    BY ONLY <1>4, <2>1, <2>2
  <2>6. ~over => n + Len(<<"dot">>) + 1 = size'
    BY ONLY <1>1, <1>4, <2>1, <2>3
  <2>7. wire' # <<>> /\ pc' # "done"
    BY <1>4, <1>7
  <2> QED
    BY ONLY <1>4, <1>5, <2>1, <2>3, <2>5, <2>6, <2>7, Zenon DEF DataSound
<1> QED
  BY <1>6, <1>9, <1>10, <1>11 DEF IInv

\* What readRaw keeps of a fragment: all of it, unless the line is too long for
\* a command or belongs to a message that is.
LEMMA KeepsAll ==
  ASSUME Types, NEW frag,
         Keeps, task = "command" => Len(buf) + Len(frag) <= Len(Sent),
         Len(buf) + Len(frag) \in Nat
  PROVE  Appended(buf, frag) = buf \o frag
<1>1. CASE task = "command"
  <2>1. Len(buf) + Len(frag) <= MaxLine /\ MaxLine \in Nat /\ MaxLine > 0
    BY <1>1, SentFacts, ReaderAssumption DEF Keeps
  <2> QED
    BY <1>1, <2>1 DEF Appended, Mode
<1>2. CASE task # "command"
  BY <1>2 DEF Keeps, Appended, Mode
<1> QED
  BY <1>1, <1>2

\* A step that leaves the client alone leaves the line under way alone.
LEMMA SameLine ==
  ASSUME UNCHANGED <<task, client>>
  PROVE  Bytes' = Bytes /\ Sent' = Sent /\ line' = line /\ final' = final /\ size' = size
         /\ meant' = meant
BY DEF Bytes, Sent, client

\* One more full buffer of a line.
LEMMA PartOfLineKeeps ==
  ASSUME IInv, PartOfLine
  PROVE  IInv'
<1>1. /\ pc = "read" /\ pc' = "read" /\ task' = task /\ n' = n /\ over' = over /\ out' = out
      /\ Len(wire) >= BufSize /\ EndOfLine \notin 1..BufSize
      /\ buf' = Appended(buf, Fragment) /\ wire' = SubSeq(wire, Len(Fragment) + 1, Len(wire))
  BY DEF PartOfLine
<1>2. Bytes' = Bytes /\ Sent' = Sent /\ line' = line /\ final' = final /\ size' = size /\ meant' = meant
  BY SameLine DEF PartOfLine
<1>3. Types /\ Bytes \in Seq(Char) /\ Sent \in Seq(Byte) /\ Len(Sent) \in Nat
  BY SentFacts DEF IInv
<1>4. PICK k \in 0..Len(Sent) : At(k)
  BY <1>1 DEF IInv, Split
<1>5. wire = SubSeq(Sent, k + 1, Len(Sent)) /\ Sent = Bytes \o CRLF
  BY <1>4 DEF At, Sent
<1>6. /\ k + BufSize \in 0..Len(Sent) - 1
      /\ Len(SubSeq(Sent, 1, k)) + Len(Fragment) = k + BufSize
      /\ SubSeq(wire, Len(Fragment) + 1, Len(wire)) = SubSeq(Sent, k + BufSize + 1, Len(Sent))
      /\ SubSeq(Sent, 1, k) \o Fragment = SubSeq(Sent, 1, k + BufSize)
  BY <1>1, <1>3, <1>4, <1>5, NextPart, Zenon
<1>7. k # Len(Sent) /\ k + BufSize # Len(Sent) /\ k + BufSize \in 0..Len(Sent) /\ k + BufSize <= Len(Sent)
      /\ k + BufSize \in Nat
  BY ONLY <1>3, <1>6, k \in 0..Len(Sent), ReaderAssumption
<1>8. wire # <<>> /\ wire' # <<>>
  BY ONLY <1>1, <1>3, <1>4, <1>5, <1>6, <1>7, AtEnd, Zenon
<1>9. ASSUME Keeps PROVE buf' = SubSeq(Sent, 1, k + BufSize)
  <2>1. buf = SubSeq(Sent, 1, k)
    BY ONLY <1>4, <1>7, <1>9, Zenon DEF At
  <2>2. Len(buf) + Len(Fragment) <= Len(Sent) /\ Len(buf) + Len(Fragment) \in Nat
    BY ONLY <2>1, <1>6, <1>7, Zenon
  <2>3. Appended(buf, Fragment) = buf \o Fragment
    BY ONLY <1>3, <1>9, <2>2, KeepsAll, Zenon
  <2> QED
    BY ONLY <1>1, <1>6, <2>1, <2>3, Zenon
<1>10. ASSUME task = "data", over PROVE buf' = <<>>
  <2>1. buf = <<>> /\ task # "command"
    BY <1>4, <1>10 DEF At
  <2> QED
    BY <1>1, <1>10, <2>1 DEF Appended, Mode
<1>11. Keeps' = Keeps
  BY ONLY <1>1, <1>2, Zenon DEF Keeps
<1>12. At(k + BufSize)'
  BY ONLY <1>1, <1>2, <1>6, <1>7, <1>9, <1>10, <1>11, Zenon DEF At
<1>13. Split'
  BY ONLY <1>2, <1>7, <1>12, Zenon DEF Split
<1>14. Types' /\ CommandSound'
  BY <1>1, <1>2 DEF IInv, Types, CommandSound
<1>15. DataSound'
  <2>1. DataSound
    BY DEF IInv
  <2> QED
    BY ONLY <2>1, <1>1, <1>2, <1>8, Zenon DEF DataSound
<1> QED
  BY <1>13, <1>14, <1>15 DEF IInv

\* What readRaw returns of a line that it keeps.
LEMMA WholeLine ==
  ASSUME IInv, LineComplete
  PROVE  /\ Keeps => Appended(buf, Fragment) = Sent
         /\ task = "data" /\ over => Appended(buf, Fragment) = <<>>
         /\ wire # <<>> /\ wire' = <<>> /\ buf' = <<>>
<1>1. /\ pc = "read" /\ EndOfLine \in 1..BufSize
      /\ buf' = <<>> /\ wire' = SubSeq(wire, Len(Fragment) + 1, Len(wire))
  BY DEF LineComplete
<1>3. Types /\ Bytes \in Seq(Char) /\ Sent \in Seq(Byte) /\ Len(Sent) \in Nat /\ Len(Sent) <= Len(Sent)
  BY SentFacts DEF IInv
<1>4. PICK k \in 0..Len(Sent) : At(k)
  BY <1>1 DEF IInv, Split
<1>5. wire = SubSeq(Sent, k + 1, Len(Sent)) /\ Sent = Bytes \o CRLF
  BY <1>4 DEF At, Sent
<1>6. /\ k # Len(Sent)
      /\ Len(SubSeq(Sent, 1, k)) + Len(Fragment) = Len(Sent)
      /\ SubSeq(wire, Len(Fragment) + 1, Len(wire)) = <<>>
      /\ SubSeq(Sent, 1, k) \o Fragment = Sent
  BY <1>1, <1>3, <1>4, <1>5, LastPart, Zenon
<1>7. wire # <<>>
  BY ONLY <1>3, <1>4, <1>5, <1>6, AtEnd, Zenon
<1>8. ASSUME Keeps PROVE Appended(buf, Fragment) = Sent
  <2>1. buf = SubSeq(Sent, 1, k)
    BY ONLY <1>4, <1>6, <1>8, Zenon DEF At
  <2>2. Appended(buf, Fragment) = buf \o Fragment
    BY ONLY <1>3, <1>6, <1>8, <2>1, KeepsAll, Zenon
  <2> QED
    BY ONLY <1>6, <2>1, <2>2, Zenon
<1>9. ASSUME task = "data", over PROVE Appended(buf, Fragment) = <<>>
  <2>1. buf = <<>> /\ task # "command"
    BY <1>4, <1>9 DEF At
  <2> QED
    BY <1>9, <2>1 DEF Appended, Mode
<1> QED
  BY <1>1, <1>6, <1>7, <1>8, <1>9, Zenon

\* readLine returns.
LEMMA CommandLineKeeps ==
  ASSUME IInv, CommandLine
  PROVE  IInv'
<1>1. task = "command" /\ task' = task /\ LineComplete /\ UNCHANGED <<task, client, n, over>>
  BY DEF CommandLine
<1>2. Bytes' = Bytes /\ Sent' = Sent /\ line' = line /\ final' = final /\ size' = size /\ meant' = meant
  BY <1>1, SameLine
<1>3. pc' # "read"
  BY Zenon DEF CommandLine
<1>4. Types'
  BY <1>1, <1>2 DEF IInv, Types
<1>5. CommandSound'
  <2> SUFFICES ASSUME Len(Sent) <= MaxLine PROVE pc' = "done" /\ out' = line
    BY <1>2 DEF CommandSound
  <2>1. Appended(buf, Fragment) = Sent
    BY <1>1, WholeLine DEF Keeps
  <2>2. ~(Len(Sent) > MaxLine)
    BY SentFacts, ReaderAssumption DEF IInv
  <2>3. Trimmed(Sent) = line
    <3>1. Bytes = line /\ line \in Seq(Char)
      BY <1>1 DEF Bytes, IInv, Types
    <3> QED
      BY ONLY <3>1, TrimmedLine DEF Sent
  <2> QED
    BY <2>1, <2>2, <2>3, Zenon DEF CommandLine
<1>6. Split' /\ DataSound'
  BY <1>1, <1>3 DEF Split, DataSound
<1> QED
  BY <1>4, <1>5, <1>6 DEF IInv

\* The message grows by what is counted for the line, or by less.
LEMMA Grown ==
  ASSUME NEW s \in Seq(Byte), NEW l \in Seq(Char)
  PROVE  s \o l \o <<"lf">> \in Seq(Byte) /\ Len(s \o l \o <<"lf">>) = Len(s) + Len(l) + 1
<1>1. l \in Seq(Byte) /\ Len(l) \in Nat /\ Len(s) \in Nat
  BY DEF Byte
<1>2. <<"lf">> \in Seq(Byte) /\ Len(<<"lf">>) = 1
  BY DEF Byte
<1>3. s \o l \in Seq(Byte) /\ Len(s \o l) = Len(s) + Len(l)
  BY ONLY <1>1, s \in Seq(Byte), ConcatProperties, Zenon
<1>4. (s \o l) \o <<"lf">> \in Seq(Byte) /\ Len((s \o l) \o <<"lf">>) = Len(s \o l) + Len(<<"lf">>)
  BY ONLY <1>2, <1>3, ConcatProperties, Zenon
<1> QED
  BY ONLY <1>1, <1>2, <1>3, <1>4, Zenon

\* One iteration of readData's loop.
LEMMA DataLineKeeps ==
  ASSUME IInv, DataLine
  PROVE  IInv'
<1> DEFINE l == Trimmed(Appended(buf, Fragment))
<1>1. /\ task = "data" /\ task' = task /\ task # "command" /\ LineComplete
      /\ n' = n + Len(l) + 1 /\ over' = (over \/ n' > Limit)
      /\ pc' = IF l = <<"dot">> THEN "done" ELSE "read"
      /\ out' = IF l = <<"dot">> \/ over' THEN out ELSE out \o Unstuffed(l) \o <<"lf">>
  BY DEF DataLine, Counted
<1>2. Bytes' = Bytes /\ Sent' = Sent /\ line' = line /\ final' = final /\ size' = size /\ meant' = meant
  BY SameLine DEF DataLine
<1>3. Types /\ Bytes \in Seq(Char) /\ Sent \in Seq(Byte) /\ Len(Sent) \in Nat /\ Len(Bytes) \in Nat
  BY SentFacts DEF IInv
<1>4. /\ Keeps => Appended(buf, Fragment) = Sent
      /\ over => Appended(buf, Fragment) = <<>>
      /\ wire # <<>> /\ wire' = <<>> /\ buf' = <<>> /\ pc = "read"
  BY <1>1, WholeLine DEF LineComplete
<1>5. over => l = <<>>
  BY <1>3, <1>4, TrimmedLine, Zenon
<1>6. ~over => l = Bytes
  <2> SUFFICES ASSUME ~over PROVE l = Bytes
    OBVIOUS
  <2>1. Keeps
    BY <1>1 DEF Keeps
  <2> QED
    BY <1>3, <1>4, <2>1, TrimmedLine, Zenon DEF Sent
<1> HIDE DEF l
<1>7. /\ n \in Nat /\ size \in Nat /\ Limit \in Nat /\ over \in BOOLEAN /\ final \in BOOLEAN
      /\ out \in Seq(Byte) /\ Len(out) \in Nat /\ line \in Seq(Char)
  BY <1>1, <1>3, ReaderAssumption DEF Types
<1>8. /\ Len(out) <= n /\ Len(out) <= Limit
      /\ over => size > Limit
      /\ ~over => n <= Limit /\ n + Len(Bytes) + 1 = size
      /\ ~over => IF final THEN out = meant ELSE out \o line \o <<"lf">> = meant
  BY <1>1, <1>4 DEF IInv, DataSound
<1>9. Split'
  <2>1. Len(Sent) \in 0..Len(Sent)
    BY ONLY <1>3
  <2>2. SubSeq(Sent, Len(Sent) + 1, Len(Sent)) = <<>>
    BY ONLY <1>3, <2>1, AtEnd, Zenon
  <2>3. At(Len(Sent))'
    BY ONLY <1>2, <1>4, <2>2, Zenon DEF At
  <2> QED
    BY ONLY <1>2, <2>1, <2>3, Zenon DEF Split
<1>10. CommandSound'
  BY <1>1 DEF CommandSound
<1>a. over' \in BOOLEAN /\ (over => over') /\ (~over => (over' <=> n' > Limit))
  BY ONLY <1>1, Zenon
<1>11. CASE over
  <2>1. Len(l) = 0 /\ l # <<"dot">>
    BY <1>5, <1>11
  <2>2. n' = n + 1 /\ over' /\ pc' = "read" /\ out' = out
    <3>1. n + 0 + 1 = n + 1
      BY ONLY <1>7
    <3> QED
      BY ONLY <1>1, <1>a, <1>11, <2>1, <3>1, Zenon
  <2>3. Types'
    BY <1>1, <1>2, <1>7, <2>2 DEF Types
  <2>4. DataSound'
    BY <1>1, <1>2, <1>7, <1>8, <1>11, <2>2 DEF DataSound
  <2> QED
    BY <1>9, <1>10, <2>3, <2>4 DEF IInv
<1>12. CASE ~over /\ final
  <2>1. l = <<"dot">>
    BY <1>1, <1>6, <1>12 DEF Bytes
  <2>2. n' = size /\ (over' <=> size > Limit) /\ pc' = "done" /\ out' = out
    BY ONLY <1>1, <1>6, <1>8, <1>a, <1>12, <2>1, Zenon
  <2>3. Types'
    BY ONLY <1>1, <1>2, <1>7, <1>a, <2>2, Zenon DEF Types
  <2>4. Len(out) <= size /\ (~(size > Limit) => size <= Limit)
    <3>1. n + Len(Bytes) + 1 = size /\ Len(out) <= n
      BY <1>8, <1>12
    <3> QED
      BY ONLY <1>3, <1>7, <3>1
  <2>5. DataSound'
    BY ONLY <1>1, <1>2, <1>8, <1>12, <2>2, <2>4, Zenon DEF DataSound
  <2> QED
    BY <1>9, <1>10, <2>3, <2>5 DEF IInv
<1>13. CASE ~over /\ ~final
  <2>1. l = Stuffed(line)
    BY <1>1, <1>6, <1>13 DEF Bytes
  <2>2. l # <<"dot">> /\ Unstuffed(l) = line /\ Len(line) <= Len(Bytes) /\ l = Bytes
    BY <1>6, <1>7, <1>13, <2>1, Unstuffs
  <2>3. /\ n' = size /\ (over' <=> size > Limit) /\ pc' = "read"
        /\ out' = IF over' THEN out ELSE out \o line \o <<"lf">>
    BY ONLY <1>1, <1>8, <1>a, <1>13, <2>2, Zenon
  <2>4. /\ out \o line \o <<"lf">> \in Seq(Byte)
        /\ Len(out \o line \o <<"lf">>) = Len(out) + Len(line) + 1 /\ Len(line) \in Nat
    BY ONLY <1>7, Grown, LenProperties
  <2> DEFINE o == out \o line \o <<"lf">>
  <2>5. Len(out) <= size /\ Len(o) <= size
    BY ONLY <1>3, <1>7, <1>8, <1>13, <2>2, <2>4
  <2>6. o \in Seq(Byte) /\ o = meant
    BY <1>8, <1>13, <2>4
  <2>7. (~over' => size <= Limit /\ out' = o) /\ (over' => size > Limit /\ out' = out)
    <3>1. ~(size > Limit) => size <= Limit
      BY ONLY <1>7
    <3> QED
      BY ONLY <2>3, <3>1, Zenon
  <2>8. Len(out') <= n' /\ Len(out') <= Limit /\ out' \in Seq(Byte)
    <3>1. Len(o) \in Nat
      BY <2>6, LenProperties
    <3> HIDE DEF o
    <3>2. size <= Limit => Len(o) <= Limit
      BY ONLY <1>7, <2>5, <3>1
    <3> QED
      BY ONLY <1>7, <1>8, <2>3, <2>5, <2>6, <2>7, <3>2, Zenon
  <2> HIDE DEF o
  <2>9. Types'
    BY ONLY <1>1, <1>2, <1>7, <1>a, <2>3, <2>8, Zenon DEF Types
  <2>10. DataSound'
    BY ONLY <1>1, <1>2, <1>4, <1>13, <2>3, <2>6, <2>7, <2>8, Zenon DEF DataSound
  <2> QED
    BY <1>9, <1>10, <2>9, <2>10 DEF IInv
<1> QED
  BY <1>11, <1>12, <1>13

\* A read that fails, and a step that changes nothing.
LEMMA OthersKeep == IInv /\ (ReadError \/ UNCHANGED vars) => IInv'
<1>1. ASSUME IInv, ReadError PROVE IInv'
  <2>1. /\ task' = task /\ pc' = "failed" /\ n' = n /\ over' = over /\ out' = out /\ wire' = wire
        /\ UNCHANGED <<task, client>>
    BY <1>1 DEF ReadError
  <2>2. Bytes' = Bytes /\ Sent' = Sent /\ line' = line /\ final' = final /\ size' = size /\ meant' = meant
    BY <2>1, SameLine
  <2>3. Types' /\ Split' /\ CommandSound'
    BY <1>1, <2>1, <2>2 DEF IInv, Types, Split, CommandSound
  <2>4. DataSound
    BY <1>1 DEF IInv
  <2>5. DataSound'
    BY ONLY <2>1, <2>2, <2>4 DEF DataSound
  <2> QED
    BY <2>3, <2>5 DEF IInv
<1>2. ASSUME IInv, UNCHANGED vars PROVE IInv'
  BY <1>2 DEF vars, client, IInv, Types, Split, At, Keeps, Sent, Bytes, CommandSound, DataSound
<1> QED
  BY <1>1, <1>2

----------------------------------------------------------------------------
(* The theorems.                                                           *)

\* The inductive invariant: what has been read and what is on the wire make up
\* the line, and the message is the text so far.
THEOREM AlwaysIInv == Spec => []IInv
<1>1. IInv /\ [Next]_vars => IInv'
  BY SendLineKeeps, SendDotKeeps, PartOfLineKeeps, CommandLineKeeps, DataLineKeeps, OthersKeep
     DEF Next
<1> QED
  BY <1>1, IInvInit, PTL DEF Spec

\* readData stores what the client wrote, for every text, buffer and limit, and
\* calls a message too large only if it is.
THEOREM AlwaysFaithful == Spec => []FaithfulData
<1>1. IInv => FaithfulData
  BY DEF IInv, DataSound, FaithfulData
<1> QED
  BY <1>1, AlwaysIInv, PTL

\* readData never keeps more than the limit.
THEOREM AlwaysFits == Spec => []MessageFits
<1>1. IInv => MessageFits
  BY DEF IInv, DataSound, MessageFits
<1> QED
  BY <1>1, AlwaysIInv, PTL

\* readLine returns every command line that fits as it was sent.
THEOREM AlwaysWhole == Spec => []CommandWhole
<1>1. IInv => CommandWhole
  BY DEF IInv, CommandSound, CommandWhole, Sent, Bytes
<1> QED
  BY <1>1, AlwaysIInv, PTL
============================================================================
