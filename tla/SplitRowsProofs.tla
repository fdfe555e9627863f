--------------------------- MODULE SplitRowsProofs ---------------------------
(***************************************************************************)
(* The rows of multibyte_split are exact, for plain texts, delimiters, ranges, *)
(* tiles and rings of any size and for every order of the thread blocks.       *)
(*                                                                         *)
(* The argument: a block knows how many delimiters are before its tile         *)
(* (SplitScanProofs), so it writes each to the place of its number; when all    *)
(* blocks are done, the vectors hold the ends of the delimiters in order and    *)
(* without a gap, cut after the first that is not in the range.  The           *)
(* characters are those from the first row on.  What is returned is made of     *)
(* both: its rows begin and end where the text's do.                           *)
(***************************************************************************)
EXTENDS SplitScanProofs, SequenceTheorems

(***************************************************************************)
(* What the output builders hold.                                           *)
(***************************************************************************)
Offsets == Builder!Gathered(rows)
Copied == Builder!Gathered(chars)

\* A builder whose elements are integers; only the last of its vectors may be empty.
IsFilled(b) ==
  /\ \A c \in 1 .. Len(b.chunks) : b.chunks[c].elements \in Seq(Int)
  /\ \A c \in 1 .. Len(b.chunks) - 1 : b.chunks[c].size > 0
  /\ Builder!Gathered(b) \in Seq(Int) /\ Len(Builder!Gathered(b)) = b.size

\* How many delimiters end at p or before, of those from the first byte read on; the one of
\* number i ends at p.
Number(p) == Cardinality(Found(FirstOffset, p))
IsNth(p, i) == p \in Nat /\ p > FirstOffset /\ IsFound(p) /\ Number(p) = i

\* The offsets are where the delimiters end, in order and without a gap; all but the last row's
\* lie in the range.
OffsetsAre(s, first, last) ==
  /\ \A i \in 1 .. Len(s) : IsNth(s[i], i)
  /\ \A i \in 1 .. Len(s) : s[i] < RangeEnd \/ (i = Len(s) /\ last # NoOffset)
  /\ last # NoOffset => Len(s) > 0 /\ last = s[Len(s)] /\ last >= RangeEnd
  /\ first = IF request.offset = 0 THEN 0 ELSE IF Len(s) = 0 THEN NoOffset ELSE s[1]

\* A block that is done has written where the delimiters in its tile end, each at its number.
IsWritten(b) ==
  \A i \in Number(Pos(b)) + 1 .. Number(Pos(b + 1)) : IsNth(Builder!ElementAt(rows, i - 1 - rows.size), i)
WrittenInv == \A b \in Blocks : tile[b].pc = "done" => IsWritten(b)

\* The characters are those from the first row on.
CharsAre(s, first, to) ==
  /\ Len(s) = IF first = NoOffset \/ first >= to THEN 0 ELSE to - first
  /\ \A i \in 1 .. Len(s) : s[i] = Content[first + i]
CopiedTo == IF host.pc = "loop" /\ host.last # NoOffset THEN host.last ELSE host.chunkOffset

\* How far the text was read.
ReadInv ==
  /\ request.size > 0 /\ host.chunkOffset \in Nat /\ host.chunkOffset >= FirstOffset
  /\ host.chunkOffset <= Pos(host.base)
  /\ host.chunkOffset <= Len(Content) \/ host.chunkOffset = FirstOffset
  /\ host.pc = "loop" /\ host.chunk = <<>> =>
       host.chunkOffset >= Len(Content) /\ Pos(host.base) >= Len(Content)
  /\ host.last # NoOffset =>
       host.last <= (IF host.pc = "loop" THEN host.chunkOffset ELSE host.chunkOffset + Len(host.chunk))
       /\ (host.pc = "copy" => host.last > host.chunkOffset)

ExactInv ==
  /\ host.pc = "start" => chars = Builder!NewBuilder /\ host.first = NoOffset /\ result = <<>>
  /\ host.pc \in {"loop", "running", "copy"} =>
       /\ BuilderInv(chars) /\ IsFilled(chars) /\ IsFilled(rows)
       /\ ReadInv /\ OffsetsAre(Offsets, host.first, host.last) /\ CharsAre(Copied, host.first, CopiedTo)
  /\ host.pc = "running" => WrittenInv
  /\ host.pc = "done" => RowsAreExact

LEMMA Climb ==
  ASSUME NEW lo \in Nat, NEW hi \in Nat, NEW S, lo \in S, \A i \in lo + 1 .. hi : i - 1 \in S => i \in S
  PROVE  lo .. hi \subseteq S
<1> SUFFICES ASSUME NEW k \in lo .. hi, k \notin S PROVE FALSE
  OBVIOUS
<1> DEFINE T == {i \in lo .. hi : i \notin S}
<1>1. T \subseteq Nat /\ T # {}
  OBVIOUS
<1>2. PICK n \in T : \A m \in T : ~(m < n)
  BY <1>1, ALeast
<1>3. n \in lo .. hi /\ n \notin S /\ n # lo
  BY <1>2
<1>4. n \in lo + 1 .. hi /\ n - 1 \in lo .. hi /\ n - 1 < n
  BY <1>3
<1>5. n - 1 \in S
  BY <1>2, <1>4
<1> QED
  BY <1>3, <1>4, <1>5

\* What a vector of a builder holds, and the vectors before one, joined.
Piece(b, c) == SubSeq(b.chunks[c].elements, 1, b.chunks[c].size)
Gathers(b, g) ==
  /\ g[0] = <<>> /\ \A c \in 1 .. Len(b.chunks) : g[c] = g[c - 1] \o Piece(b, c)
  /\ Builder!Gathered(b) = g[Len(b.chunks)]

LEMMA GatherExists ==
  ASSUME NEW b, NEW n \in Nat
  PROVE  \E g : g = [c \in 0 .. n |-> IF c = 0 THEN <<>> ELSE g[c - 1] \o Piece(b, c)]
<1> DEFINE P(m) == \E g : g = [c \in 0 .. m |-> IF c = 0 THEN <<>> ELSE g[c - 1] \o Piece(b, c)]
           S == {m \in Nat : P(m)}
<1>1. P(0)
  <2> DEFINE g == [c \in 0 .. 0 |-> <<>>]
  <2>1. g = [c \in 0 .. 0 |-> IF c = 0 THEN <<>> ELSE g[c - 1] \o Piece(b, c)]
    OBVIOUS
  <2> QED
    BY <2>1
<1>2. ASSUME NEW i \in 0 + 1 .. n, i - 1 \in S PROVE i \in S
  <2>1. PICK g : g = [c \in 0 .. i - 1 |-> IF c = 0 THEN <<>> ELSE g[c - 1] \o Piece(b, c)]
    BY <1>2
  <2>2. PICK next : next = g[i - 1] \o Piece(b, i)
    OBVIOUS
  <2> DEFINE h == [c \in 0 .. i |-> IF c = i THEN next ELSE g[c]]
             step(c) == IF c = 0 THEN <<>> ELSE h[c - 1] \o Piece(b, c)
  <2>3. i \in Nat /\ i > 0
    OBVIOUS
  <2>4. ASSUME NEW c \in 0 .. i PROVE h[c] = step(c)
    <3>1. CASE c = i
      <4>1. h[c - 1] = g[i - 1] /\ c # 0
        BY <2>3, <3>1
      <4> QED
        BY <2>2, <2>3, <3>1, <4>1
    <3>2. CASE c = 0
      BY <2>1, <2>3, <3>2
    <3>3. CASE c # 0 /\ c # i
      <4>1. c \in 0 .. i - 1 /\ c - 1 \in 0 .. i /\ c - 1 # i
        BY <2>3, <3>3
      <4>2. h[c - 1] = g[c - 1] /\ h[c] = g[c]
        BY <3>3, <4>1
      <4>3. g[c] = g[c - 1] \o Piece(b, c)
        BY <2>1, <3>3, <4>1
      <4> QED
        BY <3>3, <4>2, <4>3
    <3> QED
      BY <3>1, <3>2, <3>3
  <2>5. h = [c \in 0 .. i |-> step(c)]
    <3> HIDE DEF step
    <3> QED
      BY <2>4
  <2>6. P(i)
    BY <2>5
  <2> QED
    BY <2>3, <2>6
<1>3. 0 \in S
  BY <1>1
<1> HIDE DEF S
<1>4. 0 .. n \subseteq S
  BY <1>2, <1>3, Climb
<1>5. n \in S
  BY <1>4
<1> QED
  BY <1>5 DEF S

LEMMA GatheredIs ==
  ASSUME NEW b, NEW n \in Nat, n = Len(b.chunks)
  PROVE  \E g : Gathers(b, g)
<1> DEFINE Step(g) == [c \in 0 .. n |-> IF c = 0 THEN <<>> ELSE g[c - 1] \o Piece(b, c)]
<1>1. PICK g : g = CHOOSE h : h = Step(h)
  OBVIOUS
<1>2. g = Step(g)
  BY <1>1, GatherExists, Zenon
<1>3. Builder!Gathered(b) = g[n]
  BY <1>1 DEF Builder!Gathered, Piece
<1>4. g[0] = <<>>
  BY <1>2
<1>5. ASSUME NEW c \in 1 .. n PROVE g[c] = g[c - 1] \o Piece(b, c)
  <2>1. c \in 0 .. n /\ c # 0
    OBVIOUS
  <2> QED
    BY <1>2, <2>1
<1> QED
  BY <1>3, <1>4, <1>5 DEF Gathers

\* Two builders hold the same in vectors that are the same.
LEMMA GathersAlike ==
  ASSUME NEW b, NEW d, NEW g, NEW h, Gathers(b, g), Gathers(d, h), NEW m \in Nat,
         m <= Len(b.chunks), m <= Len(d.chunks), Len(b.chunks) \in Nat, Len(d.chunks) \in Nat,
         \A c \in 1 .. m : Piece(b, c) = Piece(d, c)
  PROVE  g[m] = h[m]
<1>1. g[0] = h[0]
  BY DEF Gathers
<1>2. ASSUME NEW c \in 0 + 1 .. m, g[c - 1] = h[c - 1] PROVE g[c] = h[c]
  <2>1. c \in 1 .. Len(b.chunks) /\ c \in 1 .. Len(d.chunks) /\ c \in 1 .. m
    OBVIOUS
  <2> QED
    BY <1>2, <2>1 DEF Gathers
<1> DEFINE S == {c \in Nat : g[c] = h[c]}
<1>3. 0 \in S /\ \A c \in 0 + 1 .. m : c - 1 \in S => c \in S
  BY <1>1, <1>2
<1> HIDE DEF S
<1>4. 0 .. m \subseteq S
  BY <1>3, Climb
<1>5. m \in S
  BY <1>4
<1> QED
  BY <1>5 DEF S

LEMMA PieceIs ==
  ASSUME NEW b, BuilderInv(b), NEW c \in 1 .. Len(b.chunks), b.chunks[c].elements \in Seq(Int)
  PROVE  /\ Piece(b, c) \in Seq(Int) /\ Len(Piece(b, c)) = b.chunks[c].size
         /\ \A i \in 1 .. b.chunks[c].size : Piece(b, c)[i] = b.chunks[c].elements[i]
<1>1. PICK v : v = b.chunks[c]
  OBVIOUS
<1>2. IsVector(v)
  BY <1>1 DEF BuilderInv
<1>3. PICK n \in Nat, m \in Nat : n = v.size /\ m = Len(v.elements) /\ n <= m
  BY <1>2 DEF IsVector
<1>4. \A i \in 1 .. n : v.elements[i] \in Int
  <2> TAKE i \in 1 .. n
  <2>1. i \in 1 .. Len(v.elements)
    BY <1>3
  <2> QED
    BY <1>1, <2>1, ElementOfSeq
<1>5. PICK s : s = SubSeq(v.elements, 1, n)
  OBVIOUS
<1>6. /\ s \in Seq(Int) /\ Len(s) = IF 1 <= n THEN n - 1 + 1 ELSE 0
      /\ \A i \in 1 .. n - 1 + 1 : s[i] = v.elements[1 + i - 1]
  BY <1>4, <1>5, SubSeqProperties
<1>7. Len(s) = n /\ \A i \in 1 .. n : s[i] = v.elements[i]
  BY <1>6
<1> QED
  BY <1>1, <1>3, <1>5, <1>6, <1>7 DEF Piece

LEMMA GathersSeq ==
  ASSUME NEW b, BuilderInv(b), NEW g, Gathers(b, g), NEW m \in 0 .. Len(b.chunks),
         \A c \in 1 .. Len(b.chunks) : b.chunks[c].elements \in Seq(Int)
  PROVE  g[m] \in Seq(Int)
<1>0. PICK n \in Nat : n = Len(b.chunks)
  BY DEF BuilderInv
<1> DEFINE S == {i \in Nat : g[i] \in Seq(Int)}
<1>1. 0 \in S
  BY EmptySeq DEF Gathers
<1>2. ASSUME NEW i \in 0 + 1 .. n, i - 1 \in S PROVE i \in S
  <2>1. i \in 1 .. n /\ i \in Nat /\ g[i - 1] \in Seq(Int)
    BY <1>2
  <2>2. Piece(b, i) \in Seq(Int)
    BY <1>0, <2>1, PieceIs
  <2>3. g[i] = g[i - 1] \o Piece(b, i)
    BY <1>0, <2>1 DEF Gathers
  <2>4. g[i] \in Seq(Int)
    BY <2>1, <2>2, <2>3, ConcatProperties
  <2> QED
    BY <2>1, <2>4
<1> HIDE DEF S
<1>3. 0 .. n \subseteq S
  BY <1>1, <1>2, Climb
<1>4. m \in S
  BY <1>0, <1>3
<1> QED
  BY <1>4 DEF S

LEMMA NewBuilderFilled ==
  IsFilled(Builder!NewBuilder) /\ Builder!Gathered(Builder!NewBuilder) = <<>>
<1> PICK m \in Nat : m = 2 * ChunkBytes
  BY ChunkIs
<1> PICK v : v = Builder!Vector(m)
  OBVIOUS
<1> PICK b : b = Builder!NewBuilder
  OBVIOUS
<1>1. b = [size |-> 0, chunks |-> <<v>>]
  BY DEF Builder!NewBuilder
<1>2. Len(<<v>>) = 1 /\ <<v>>[1] = v
  OBVIOUS
<1>3. Len(b.chunks) = 1 /\ b.chunks[1] = v /\ b.size = 0
  BY <1>1, <1>2
<1>4. v = [size |-> 0, elements |-> [i \in 1 .. m |-> 0]]
  BY DEF Builder!Vector
<1>5. v.size = 0 /\ v.elements = [i \in 1 .. m |-> 0]
  BY <1>4
<1>6. v.elements \in Seq(Int)
  <2> DEFINE e == [i \in 1 .. m |-> 0]
  <2>1. e \in Seq(Int)
    OBVIOUS
  <2> QED
    BY <1>5, <2>1
<1>7. PICK g : Gathers(b, g)
  <2>1. 1 \in Nat /\ 1 = Len(b.chunks)
    BY <1>3
  <2> QED
    BY <2>1, GatheredIs
<1>8. Piece(b, 1) = <<>>
  BY <1>3, <1>5, SubSeqEmpty DEF Piece
<1>9. g[1] = <<>> \o <<>> /\ Builder!Gathered(b) = g[1]
  <2>1. 1 \in 1 .. Len(b.chunks) /\ 1 - 1 = 0
    BY <1>3
  <2>2. g[1] = g[1 - 1] \o Piece(b, 1) /\ g[0] = <<>> /\ Builder!Gathered(b) = g[Len(b.chunks)]
    BY <1>7, <2>1 DEF Gathers
  <2> QED
    BY <1>3, <1>8, <2>1, <2>2
<1>10. Builder!Gathered(b) = <<>> /\ <<>> \in Seq(Int) /\ Len(<<>>) = 0
  BY <1>9, EmptySeq, ConcatEmptySeq
<1> QED
  BY <1>3, <1>6, <1>10 DEF IsFilled

LEMMA NextOutputGathers ==
  ASSUME NEW b, BuilderInv(b), IsFilled(b)
  PROVE  /\ IsFilled(Builder!NextOutput(b))
         /\ Builder!Gathered(Builder!NextOutput(b)) = Builder!Gathered(b)
<1> PICK n \in Nat : n = Len(b.chunks)
  BY DEF BuilderInv
<1> DEFINE full == ~(Builder!Free(b.chunks[Builder!FirstFree(b)]) >= ChunkBytes \/ Builder!FirstFree(b) < n)
<1>1. CASE ~full
  <2>1. Builder!NextOutput(b) = b
    BY <1>1 DEF Builder!NextOutput
  <2> QED
    BY <2>1
<1>2. CASE full
  <2> PICK m : m = Builder!Smaller(8 * ChunkBytes, 2 * Builder!Capacity(b.chunks[n]))
    OBVIOUS
  <2> PICK v : v = Builder!Vector(m)
    OBVIOUS
  <2> PICK s : s = Append(b.chunks, v)
    OBVIOUS
  <2> PICK r : r = Builder!NextOutput(b)
    OBVIOUS
  <2>1. r = [b EXCEPT !.chunks = s]
    BY <1>2 DEF Builder!NextOutput
  <2>2. /\ n > 0 /\ IsVector(b.chunks[n]) /\ Builder!FirstFree(b) = n
        /\ DOMAIN b = {"size", "chunks"} /\ b.size \in Nat /\ DOMAIN b.chunks = 1 .. n
    BY <1>2, FirstFreeIs DEF BuilderInv
  <2>3. m \in Nat
    BY <2>2, ChunkIs, FreeIs DEF Builder!Smaller, Builder!Capacity
  <2>4. v.size = 0 /\ v.elements = [i \in 1 .. m |-> 0]
    BY DEF Builder!Vector
  <2>5. s = [i \in 1 .. n + 1 |-> IF i = n + 1 THEN v ELSE b.chunks[i]]
    BY DEF Append
  <2>6. Len(s) = n + 1 /\ s[n + 1] = v /\ \A c \in 1 .. n : s[c] = b.chunks[c]
    BY <2>2, <2>5, LengthIs
  <2>7. r.chunks = s /\ r.size = b.size /\ Len(r.chunks) = n + 1
    BY <2>1, <2>2, <2>6
  <2>8. \A c \in 1 .. n + 1 : r.chunks[c].elements \in Seq(Int)
    <3> SUFFICES ASSUME NEW c \in 1 .. n + 1 PROVE s[c].elements \in Seq(Int)
      BY <2>7
    <3>1. CASE c = n + 1
      BY <2>3, <2>4, <2>6, <3>1
    <3>2. CASE c \in 1 .. n
      BY <2>6, <3>2 DEF IsFilled
    <3> QED
      BY <3>1, <3>2
  <2>9. \A c \in 1 .. n : r.chunks[c].size > 0
    <3> SUFFICES ASSUME NEW c \in 1 .. n PROVE b.chunks[c].size > 0
      BY <2>6, <2>7
    <3>1. CASE c = n
      <4>1. ~(Builder!Free(b.chunks[n]) >= ChunkBytes)
        BY <1>2, <2>2
      <4> QED
        BY <2>2, <3>1, <4>1, ChunkIs, FreeIs
    <3>2. CASE c # n
      BY <3>2 DEF IsFilled
    <3> QED
      BY <3>1, <3>2
  <2>10. PICK g, h : Gathers(b, g) /\ Gathers(r, h)
    <3>1. \E g : Gathers(b, g)
      BY GatheredIs
    <3>2. n + 1 \in Nat /\ n + 1 = Len(r.chunks)
      BY <2>7
    <3>3. \E h : Gathers(r, h)
      BY <3>2, GatheredIs
    <3> QED
      BY <3>1, <3>3
  <2>11. g[n] = h[n]
    <3>1. \A c \in 1 .. n : Piece(b, c) = Piece(r, c)
      BY <2>6, <2>7 DEF Piece
    <3>2. n <= Len(b.chunks) /\ n <= Len(r.chunks) /\ Len(b.chunks) \in Nat /\ Len(r.chunks) \in Nat
      BY <2>7
    <3> QED
      BY <2>10, <3>1, <3>2, GathersAlike
  <2>12. Piece(r, n + 1) = <<>>
    BY <2>4, <2>6, <2>7, SubSeqEmpty DEF Piece
  <2>13. h[n + 1] = h[n] \o <<>>
    <3>1. n + 1 \in 1 .. Len(r.chunks) /\ (n + 1) - 1 = n
      BY <2>7
    <3>2. h[n + 1] = h[(n + 1) - 1] \o Piece(r, n + 1)
      BY <2>10, <3>1 DEF Gathers
    <3> QED
      BY <2>12, <3>1, <3>2
  <2>14. Builder!Gathered(b) = g[n] /\ Builder!Gathered(r) = h[n + 1] /\ g[n] \in Seq(Int)
         /\ Len(Builder!Gathered(b)) = b.size
    BY <2>7, <2>10 DEF Gathers, IsFilled
  <2>15. Builder!Gathered(r) = Builder!Gathered(b)
    BY <2>11, <2>13, <2>14, ConcatEmptySeq
  <2> QED
    BY <2>7, <2>8, <2>9, <2>14, <2>15 DEF IsFilled
<1> QED
  BY <1>1, <1>2

LEMMA OneOrMore ==
  \A n \in Nat : n > 0 => n = 1 \/ n > 1
OBVIOUS

\* The first element of a builder that has one.
LEMMA FrontIs ==
  ASSUME NEW b, BuilderInv(b), IsFilled(b), b.size > 0
  PROVE  Builder!FrontElement(b) = Builder!Gathered(b)[1]
<1> PICK n \in Nat : n = Len(b.chunks) /\ n > 0
  BY DEF BuilderInv
<1> PICK s : s = Builder!Gathered(b)
  OBVIOUS
<1>1. PICK g : Gathers(b, g)
  BY GatheredIs
<1>2. ASSUME NEW c \in 1 .. n PROVE g[c] \in Seq(Int) /\ g[c - 1] \in Seq(Int) /\ Piece(b, c) \in Seq(Int)
                                    /\ g[c] = g[c - 1] \o Piece(b, c)
  <2>1. c \in 0 .. Len(b.chunks) /\ c - 1 \in 0 .. Len(b.chunks)
    OBVIOUS
  <2> QED
    BY <1>1, <2>1, GathersSeq, PieceIs DEF Gathers, IsFilled
<1>3. s = g[n] /\ Len(s) = b.size /\ g[0] = <<>>
  BY <1>1 DEF Gathers, IsFilled
<1>4. 1 \in 1 .. n /\ 1 - 1 = 0
  OBVIOUS
<1>5. g[1] = Piece(b, 1)
  <2>1. g[1] = <<>> \o Piece(b, 1) /\ Piece(b, 1) \in Seq(Int)
    BY <1>2, <1>3, <1>4
  <2> QED
    BY <2>1, ConcatEmptySeq
<1>6. Len(g[1]) = b.chunks[1].size /\ \A i \in 1 .. b.chunks[1].size : g[1][i] = b.chunks[1].elements[i]
  BY <1>4, <1>5, PieceIs DEF IsFilled
<1>7. b.chunks[1].size > 0 /\ b.chunks[1].size \in Nat
  <2>1. IsVector(b.chunks[1])
    BY <1>4 DEF BuilderInv
  <2>2. b.chunks[1].size \in Nat
    BY <2>1 DEF IsVector
  <2>3. CASE n = 1
    <3>1. s = g[1] /\ Len(s) > 0
      BY <1>3, <2>3
    <3> QED
      BY <1>6, <2>2, <3>1
  <2>4. CASE n > 1
    BY <2>2, <2>4 DEF IsFilled
  <2>5. n = 1 \/ n > 1
    BY OneOrMore, Zenon
  <2> QED
    BY <2>2, <2>3, <2>4, <2>5
<1> DEFINE S == {c \in Nat : Len(g[c]) > 0 /\ g[c][1] = b.chunks[1].elements[1]}
<1>8. 1 \in S
  BY <1>6, <1>7
<1>9. ASSUME NEW c \in 1 + 1 .. n, c - 1 \in S PROVE c \in S
  <2>1. c \in 1 .. n /\ c \in Nat /\ Len(g[c - 1]) > 0 /\ g[c - 1][1] = b.chunks[1].elements[1]
    BY <1>9
  <2>2. g[c] \in Seq(Int) /\ g[c - 1] \in Seq(Int) /\ Piece(b, c) \in Seq(Int) /\ g[c] = g[c - 1] \o Piece(b, c)
    BY <1>2, <2>1
  <2>3. PICK l \in Nat, k \in Nat : l = Len(g[c - 1]) /\ k = Len(Piece(b, c))
    BY <2>2, LenProperties
  <2>4. Len(g[c]) = l + k /\ g[c][1] = g[c - 1][1]
    <3>1. 1 \in 1 .. l + k /\ 1 <= l
      BY <2>1, <2>3
    <3> QED
      BY <2>2, <2>3, <3>1, ConcatProperties
  <2>5. Len(g[c]) > 0
    BY <2>1, <2>3, <2>4
  <2> QED
    BY <2>1, <2>4, <2>5
<1> HIDE DEF S
<1>10. 1 .. n \subseteq S
  BY <1>8, <1>9, Climb
<1>11. n \in S
  BY <1>10
<1> QED
  BY <1>3, <1>11 DEF S, Builder!FrontElement

LEMMA Within ==
  ASSUME NEW k \in Nat, NEW m \in Nat, NEW n \in Nat, k > 0, k <= m, m <= n
  PROVE  k \in 1 .. n
OBVIOUS

LEMMA Behind ==
  ASSUME NEW size \in Nat, NEW free \in Nat, NEW i \in Nat, i < free
  PROVE  size + i + 1 \in 1 .. size + free /\ size + i + 1 > size /\ size + i + 1 \in Nat
OBVIOUS

LEMMA SameSum ==
  ASSUME NEW k \in Nat, NEW i \in Nat, NEW j \in Nat, k + i + 1 = k + j + 1
  PROVE  i = j
OBVIOUS

\* The span that is written to lies behind what is there, and its elements are apart.
LEMMA PlaceIs ==
  ASSUME NEW b, BuilderInv(b), HasRoom(b), NEW i \in 0 .. ChunkBytes - 1
  PROVE  \E c \in 1 .. Len(b.chunks), k \in Nat :
           Builder!Place(b, i) = <<c, k>> /\ k \in 1 .. Len(b.chunks[c].elements) /\ k > b.chunks[c].size
<1> PICK n \in Nat : n = Len(b.chunks)
  BY DEF BuilderInv
<1> PICK f \in 1 .. n : f = Builder!FirstFree(b)
  BY FirstFreeIs
<1>1. \A c \in 1 .. n : IsVector(b.chunks[c])
  BY DEF BuilderInv
<1> PICK free \in Nat, size \in Nat : free = Builder!Free(b.chunks[f]) /\ size = b.chunks[f].size
  BY <1>1, FreeIs
<1>2. f < n \/ free >= ChunkBytes
  BY DEF HasRoom
<1>3. i < ChunkBytes /\ i \in Nat /\ ChunkBytes \in Nat
  BY ChunkIs
<1>4. Builder!Place(b, i) = IF i < free THEN <<f, size + i + 1>> ELSE <<f + 1, i - free + 1>>
  BY DEF Builder!Place
<1>5. CASE i < free
  <2>1. Len(b.chunks[f].elements) = size + free
    <3>1. free = Len(b.chunks[f].elements) - size /\ Len(b.chunks[f].elements) \in Nat
      BY <1>1, FreeIs
    <3> QED
      BY <3>1
  <2>2. size + i + 1 \in 1 .. size + free /\ size + i + 1 > size /\ size + i + 1 \in Nat
    BY <1>3, <1>5, Behind
  <2> QED
    BY <1>4, <1>5, <2>1, <2>2
<1>6. CASE ~(i < free)
  <2>1. f < n
    BY <1>2, <1>3, <1>6
  <2>2. n > 1 /\ b.chunks[n].size = 0 /\ f + 1 = n
    BY <2>1, FirstFreeIs
  <2>3. i - free + 1 \in Nat /\ i - free + 1 > 0 /\ i - free + 1 <= ChunkBytes
    BY <1>3, <1>6
  <2>4. n \in 1 .. n
    BY <2>2
  <2>5. PICK l \in Nat : l = Len(b.chunks[n].elements) /\ ChunkBytes <= l
    BY <1>1, <2>4, FreeIs
  <2>6. i - free + 1 \in 1 .. Len(b.chunks[n].elements)
    <3>1. PICK k \in Nat : k = i - free + 1 /\ k > 0 /\ k <= ChunkBytes
      BY <2>3
    <3>2. k \in 1 .. l
      BY <1>3, <2>5, <3>1, Within, Zenon
    <3> QED
      BY <2>5, <3>1, <3>2
  <2>7. Builder!Place(b, i) = <<n, i - free + 1>>
    BY <1>4, <1>6, <2>2
  <2> QED
    BY <2>2, <2>3, <2>4, <2>6, <2>7
<1> QED
  BY <1>5, <1>6

LEMMA PlacesApart ==
  ASSUME NEW b, BuilderInv(b), NEW i \in Nat, NEW j \in Nat, Builder!Place(b, i) = Builder!Place(b, j)
  PROVE  i = j
<1> PICK n \in Nat : n = Len(b.chunks)
  BY DEF BuilderInv
<1> PICK f \in 1 .. n : f = Builder!FirstFree(b)
  BY FirstFreeIs
<1>1. IsVector(b.chunks[f])
  BY DEF BuilderInv
<1> PICK free \in Nat, size \in Nat : free = Builder!Free(b.chunks[f]) /\ size = b.chunks[f].size
  BY <1>1, FreeIs
<1>2. ASSUME NEW x \in Nat, x < free
      PROVE  Builder!Place(b, x)[1] = f /\ Builder!Place(b, x)[2] = size + x + 1
  <2>1. Builder!Place(b, x) = <<f, size + x + 1>>
    BY <1>2 DEF Builder!Place
  <2> QED
    BY <2>1
<1>3. ASSUME NEW x \in Nat, ~(x < free)
      PROVE  Builder!Place(b, x)[1] = f + 1 /\ Builder!Place(b, x)[2] = x - free + 1
  <2>1. Builder!Place(b, x) = <<f + 1, x - free + 1>>
    BY <1>3 DEF Builder!Place
  <2> QED
    BY <2>1
<1> PICK x, y : /\ x = Builder!Place(b, i)[1] /\ x = Builder!Place(b, j)[1]
                /\ y = Builder!Place(b, i)[2] /\ y = Builder!Place(b, j)[2]
  OBVIOUS
<1>4. ASSUME NEW k \in {i, j}
      PROVE  /\ k < free => x = f /\ y = size + k + 1
             /\ ~(k < free) => x = f + 1 /\ y = k - free + 1
  <2>1. k \in Nat /\ x = Builder!Place(b, k)[1] /\ y = Builder!Place(b, k)[2]
    OBVIOUS
  <2>2. CASE k < free
    BY <1>2, <2>1, <2>2, Zenon
  <2>3. CASE ~(k < free)
    BY <1>3, <2>1, <2>3, Zenon
  <2> QED
    BY <2>2, <2>3
<1>5. CASE i < free /\ j < free
  <2>1. size + i + 1 = size + j + 1
    BY <1>4, <1>5, Zenon
  <2> QED
    BY <2>1, SameSum, Zenon
<1>6. CASE ~(i < free) /\ ~(j < free)
  <2>1. i - free + 1 = j - free + 1
    BY <1>4, <1>6, Zenon
  <2> QED
    BY <2>1
<1>7. CASE ~(i < free <=> j < free)
  <2>1. x = f /\ x = f + 1
    BY <1>4, <1>7, Zenon
  <2> QED
    BY <2>1
<1> QED
  BY <1>4, <1>5, <1>6, <1>7

\* A value that goes to an element of vector c, or what is there.
Put(b, w, c, k) ==
  IF \E i \in DOMAIN w : Builder!Place(b, i) = <<c, k>>
  THEN w[CHOOSE i \in DOMAIN w : Builder!Place(b, i) = <<c, k>>]
  ELSE b.chunks[c].elements[k]

LEMMA WrittenIs ==
  ASSUME NEW b, BuilderInv(b), NEW w
  PROVE  /\ Len(Builder!Written(b, w).chunks) = Len(b.chunks) /\ Builder!Written(b, w).size = b.size
         /\ \A c \in 1 .. Len(b.chunks) :
              /\ Builder!Written(b, w).chunks[c].size = b.chunks[c].size
              /\ Builder!Written(b, w).chunks[c].elements = [k \in 1 .. Len(b.chunks[c].elements) |-> Put(b, w, c, k)]
<1> PICK n \in Nat : n = Len(b.chunks)
  BY DEF BuilderInv
<1> DEFINE elements(c) == [k \in DOMAIN b.chunks[c].elements |-> Put(b, w, c, k)]
           s == [c \in 1 .. n |-> [b.chunks[c] EXCEPT !.elements = elements(c)]]
           r == Builder!Written(b, w)
<1>1. /\ n > 0 /\ DOMAIN b = {"size", "chunks"} /\ DOMAIN b.chunks = 1 .. n
      /\ \A c \in 1 .. n : IsVector(b.chunks[c])
  BY DEF BuilderInv
<1>2. r = [b EXCEPT !.chunks = s]
  <2>1. r = [b EXCEPT !.chunks = [c \in DOMAIN b.chunks |-> [b.chunks[c] EXCEPT !.elements = elements(c)]]]
    BY <1>1, Zenon DEF Builder!Written, Put
  <2> HIDE DEF elements
  <2> QED
    BY <1>1, <2>1
<1>3. r.chunks = s /\ r.size = b.size
  <2> HIDE DEF r, s
  <2> QED
    BY <1>1, <1>2
<1>4. Len(s) = n
  <2>1. DOMAIN s = 1 .. n /\ s = [c \in 1 .. n |-> s[c]]
    <3> HIDE DEF elements
    <3> QED
      OBVIOUS
  <2> HIDE DEF s
  <2> QED
    BY <2>1, LengthIs
<1>5. ASSUME NEW c \in 1 .. n
      PROVE  s[c].size = b.chunks[c].size /\ s[c].elements = elements(c)
  <2> PICK v : v = b.chunks[c]
    OBVIOUS
  <2>1. DOMAIN v = {"size", "elements"}
    BY <1>1 DEF IsVector
  <2>2. s[c] = [v EXCEPT !.elements = elements(c)]
    <3> HIDE DEF elements
    <3> QED
      OBVIOUS
  <2> HIDE DEF s, elements
  <2> QED
    BY <2>1, <2>2
<1>6. ASSUME NEW c \in 1 .. n PROVE elements(c) = [k \in 1 .. Len(b.chunks[c].elements) |-> Put(b, w, c, k)]
  <2>1. DOMAIN b.chunks[c].elements = 1 .. Len(b.chunks[c].elements)
    BY <1>1 DEF IsVector
  <2> QED
    BY <2>1
<1> HIDE DEF s, elements
<1> QED
  BY <1>3, <1>4, <1>5, <1>6

\* What is written moves nothing of what is there ...
LEMMA WrittenGathers ==
  ASSUME NEW b, BuilderInv(b), HasRoom(b), IsFilled(b), NEW w, DOMAIN w \subseteq 0 .. ChunkBytes - 1,
         \A i \in DOMAIN w : w[i] \in Int
  PROVE  /\ IsFilled(Builder!Written(b, w))
         /\ Builder!Gathered(Builder!Written(b, w)) = Builder!Gathered(b)
<1> PICK n \in Nat : n = Len(b.chunks)
  BY DEF BuilderInv
<1> PICK r : r = Builder!Written(b, w)
  OBVIOUS
<1>1. \A c \in 1 .. n : IsVector(b.chunks[c]) /\ b.chunks[c].elements \in Seq(Int)
  BY DEF BuilderInv, IsFilled
<1>2. BuilderInv(r) /\ Len(r.chunks) = n /\ r.size = b.size
  BY WrittenKeeps, WrittenIs
<1>8. \A c \in 1 .. n : r.chunks[c].size = b.chunks[c].size
                        /\ r.chunks[c].elements = [k \in 1 .. Len(b.chunks[c].elements) |-> Put(b, w, c, k)]
  <2>1. \A c \in 1 .. Len(b.chunks) :
          /\ Builder!Written(b, w).chunks[c].size = b.chunks[c].size
          /\ Builder!Written(b, w).chunks[c].elements = [k \in 1 .. Len(b.chunks[c].elements) |-> Put(b, w, c, k)]
    BY WrittenIs, Zenon
  <2> QED
    BY <2>1, Zenon
<1>3. ASSUME NEW c \in 1 .. n
      PROVE  /\ r.chunks[c].size = b.chunks[c].size /\ r.chunks[c].elements \in Seq(Int)
             /\ Piece(r, c) = Piece(b, c)
  <2> PICK m \in Nat, size \in Nat : m = Len(b.chunks[c].elements) /\ size = b.chunks[c].size /\ size <= m
    BY <1>1 DEF IsVector
  <2> DEFINE e == [k \in 1 .. m |-> Put(b, w, c, k)]
  <2>1. r.chunks[c].size = size /\ r.chunks[c].elements = e
    <3>1. /\ r.chunks[c].size = b.chunks[c].size
          /\ r.chunks[c].elements = [k \in 1 .. Len(b.chunks[c].elements) |-> Put(b, w, c, k)]
      BY <1>8, Zenon
    <3> QED
      BY <3>1
  <2>2. ASSUME NEW k \in 1 .. m PROVE Put(b, w, c, k) \in Int
    <3>1. b.chunks[c].elements[k] \in Int
      BY <1>1, ElementOfSeq
    <3>2. ASSUME \E i \in DOMAIN w : Builder!Place(b, i) = <<c, k>>
          PROVE  w[CHOOSE i \in DOMAIN w : Builder!Place(b, i) = <<c, k>>] \in Int
      BY <3>2
    <3> QED
      BY <3>1, <3>2, Zenon DEF Put
  <2>3. e \in Seq(Int)
    <3>1. e \in [1 .. m -> Int]
      BY <2>2
    <3> HIDE DEF e
    <3> QED
      BY <3>1
  <2>4. ASSUME NEW k \in 1 .. size PROVE e[k] = b.chunks[c].elements[k]
    <3>1. ASSUME NEW i \in DOMAIN w, Builder!Place(b, i) = <<c, k>> PROVE FALSE
      <4>1. PICK d \in 1 .. n, l \in Nat : Builder!Place(b, i) = <<d, l>> /\ l > b.chunks[d].size
        BY PlaceIs
      <4>2. d = c /\ l = k
        BY <3>1, <4>1
      <4> QED
        BY <4>1, <4>2
    <3>2. k \in 1 .. m
      OBVIOUS
    <3> QED
      BY <3>1, <3>2 DEF Put
  <2> HIDE DEF e
  <2>5. Piece(r, c) = Piece(b, c)
    <3>1. Piece(r, c) \in Seq(Int) /\ Len(Piece(r, c)) = size /\ \A i \in 1 .. size : Piece(r, c)[i] = e[i]
      <4>1. c \in 1 .. Len(r.chunks) /\ r.chunks[c].elements \in Seq(Int) /\ BuilderInv(r)
        BY <1>2, <2>1, <2>3
      <4>2. /\ Piece(r, c) \in Seq(Int) /\ Len(Piece(r, c)) = r.chunks[c].size
            /\ \A i \in 1 .. r.chunks[c].size : Piece(r, c)[i] = r.chunks[c].elements[i]
        BY <4>1, PieceIs
      <4> QED
        BY <2>1, <4>2
    <3>2. Piece(b, c) \in Seq(Int) /\ Len(Piece(b, c)) = size
          /\ \A i \in 1 .. size : Piece(b, c)[i] = b.chunks[c].elements[i]
      BY <1>1, PieceIs
    <3>3. \A i \in 1 .. Len(Piece(r, c)) : Piece(r, c)[i] = Piece(b, c)[i]
      BY <2>4, <3>1, <3>2
    <3>4. Len(Piece(r, c)) = Len(Piece(b, c))
      BY <3>1, <3>2
    <3> QED
      BY <3>1, <3>2, <3>3, <3>4, SeqEqual
  <2> QED
    BY <2>1, <2>3, <2>5
<1>4. PICK g, h : Gathers(b, g) /\ Gathers(r, h)
  <2>1. \E g : Gathers(b, g)
    BY GatheredIs
  <2>2. \E h : Gathers(r, h)
    BY <1>2, GatheredIs
  <2> QED
    BY <2>1, <2>2
<1>5. g[n] = h[n]
  <2>1. \A c \in 1 .. n : Piece(b, c) = Piece(r, c)
    BY <1>3
  <2>2. n <= Len(b.chunks) /\ n <= Len(r.chunks) /\ Len(b.chunks) \in Nat /\ Len(r.chunks) \in Nat
    BY <1>2
  <2> QED
    BY <1>4, <2>1, <2>2, GathersAlike
<1>6. Builder!Gathered(r) = Builder!Gathered(b)
  BY <1>2, <1>4, <1>5 DEF Gathers
<1>7. \A c \in 1 .. n - 1 : r.chunks[c].size > 0
  <2> TAKE c \in 1 .. n - 1
  <2>1. c \in 1 .. n
    OBVIOUS
  <2> QED
    BY <1>3, <2>1 DEF IsFilled
<1> QED
  BY <1>2, <1>3, <1>6, <1>7 DEF IsFilled

\* ... and is there afterwards.
LEMMA WrittenElements ==
  ASSUME NEW b, BuilderInv(b), HasRoom(b), NEW w, DOMAIN w \subseteq 0 .. ChunkBytes - 1,
         NEW i \in 0 .. ChunkBytes - 1
  PROVE  Builder!ElementAt(Builder!Written(b, w), i) = IF i \in DOMAIN w THEN w[i] ELSE Builder!ElementAt(b, i)
<1> PICK n \in Nat : n = Len(b.chunks)
  BY DEF BuilderInv
<1> PICK r : r = Builder!Written(b, w)
  OBVIOUS
<1>0. \A c \in 1 .. n : IsVector(b.chunks[c])
  BY DEF BuilderInv
<1>1. \A c \in 1 .. n : r.chunks[c].size = b.chunks[c].size
                        /\ r.chunks[c].elements = [k \in 1 .. Len(b.chunks[c].elements) |-> Put(b, w, c, k)]
  BY WrittenIs
<1>2. BuilderInv(r) /\ Len(r.chunks) = n
  BY WrittenKeeps, WrittenIs
<1>3. PICK c \in 1 .. n, k \in Nat : Builder!Place(b, i) = <<c, k>> /\ k \in 1 .. Len(b.chunks[c].elements)
  BY PlaceIs
<1>4. Builder!Place(r, i) = Builder!Place(b, i)
  <2>1. Builder!FirstFree(r) = Builder!FirstFree(b) /\ Builder!FirstFree(b) \in 1 .. n
    <3>1. n > 0 /\ Builder!FirstFree(b) \in 1 .. n
      <4>1. n > 0
        BY FirstFreeIs
      <4>2. Builder!FirstFree(b) \in 1 .. n
        BY FirstFreeIs
      <4> QED
        BY <4>1, <4>2
    <3>2. r.chunks[n].size = b.chunks[n].size
      <4>1. n \in 1 .. n
        BY <3>1
      <4> QED
        BY <1>1, <4>1, Zenon
    <3> QED
      BY <1>2, <3>1, <3>2 DEF Builder!FirstFree
  <2>2. PICK f \in 1 .. n : f = Builder!FirstFree(b)
    BY <2>1
  <2>3. Len(r.chunks[f].elements) = Len(b.chunks[f].elements)
    <3>1. PICK m \in Nat : m = Len(b.chunks[f].elements)
      BY <1>0 DEF IsVector
    <3>2. PICK e : e = r.chunks[f].elements
      OBVIOUS
    <3>3. DOMAIN e = 1 .. m
      BY <1>1, <3>1, <3>2
    <3>4. IsVector(r.chunks[f])
      BY <1>2 DEF BuilderInv
    <3>5. Len(e) \in Nat /\ DOMAIN e = 1 .. Len(e)
      BY <3>2, <3>4 DEF IsVector
    <3>6. Len(e) = m
      BY <3>3, <3>5
    <3> QED
      BY <3>1, <3>2, <3>6
  <2>4. Builder!Free(r.chunks[f]) = Builder!Free(b.chunks[f])
    BY <1>1, <2>3 DEF Builder!Free, Builder!Capacity
  <2> QED
    BY <1>1, <2>1, <2>2, <2>4 DEF Builder!Place
<1>5. Builder!ElementAt(r, i) = Put(b, w, c, k)
  <2>1. Builder!ElementAt(r, i) = r.chunks[c].elements[k]
    BY <1>3, <1>4 DEF Builder!ElementAt
  <2>2. r.chunks[c].elements = [l \in 1 .. Len(b.chunks[c].elements) |-> Put(b, w, c, l)]
    BY <1>1
  <2> HIDE DEF Put
  <2>3. [l \in 1 .. Len(b.chunks[c].elements) |-> Put(b, w, c, l)][k] = Put(b, w, c, k)
    BY <1>3
  <2> QED
    BY <2>1, <2>2, <2>3
<1>6. Builder!ElementAt(b, i) = b.chunks[c].elements[k]
  BY <1>3 DEF Builder!ElementAt
<1>7. \A j \in DOMAIN w : Builder!Place(b, j) = <<c, k>> => j = i
  <2> SUFFICES ASSUME NEW j \in DOMAIN w, Builder!Place(b, j) = <<c, k>> PROVE j = i
    OBVIOUS
  <2>1. j \in Nat /\ i \in Nat
    BY ChunkIs
  <2> QED
    BY <1>3, <2>1, PlacesApart
<1>8. CASE i \in DOMAIN w
  <2>1. (CHOOSE j \in DOMAIN w : Builder!Place(b, j) = <<c, k>>) = i
    BY <1>3, <1>7, <1>8
  <2> QED
    BY <1>3, <1>5, <1>8, <2>1, Zenon DEF Put
<1>9. CASE i \notin DOMAIN w
  BY <1>5, <1>6, <1>7, <1>9, Zenon DEF Put
<1> QED
  BY <1>8, <1>9

\* s is x, y and z joined, of lengths l, m and n.
ThreeIn(s, x, y, z, l, m, n) ==
  /\ s \in Seq(Int) /\ Len(s) = l + m + n
  /\ \A i \in 1 .. l : s[i] = x[i]
  /\ \A i \in 1 .. m : s[l + i] = y[i]
  /\ \A i \in 1 .. n : s[l + m + i] = z[i]

LEMMA ThreeParts ==
  ASSUME NEW x \in Seq(Int), NEW y \in Seq(Int), NEW z \in Seq(Int),
         NEW l \in Nat, NEW m \in Nat, NEW n \in Nat, l = Len(x), m = Len(y), n = Len(z),
         NEW s, s = (x \o y) \o z
  PROVE  ThreeIn(s, x, y, z, l, m, n)
<1>1. PICK t : t = x \o y
  OBVIOUS
<1>2. t \in Seq(Int) /\ Len(t) = l + m /\ \A i \in 1 .. l + m : t[i] = IF i <= l THEN x[i] ELSE y[i - l]
  BY <1>1, ConcatProperties
<1>3. s \in Seq(Int) /\ Len(s) = (l + m) + n
      /\ \A i \in 1 .. (l + m) + n : s[i] = IF i <= l + m THEN t[i] ELSE z[i - (l + m)]
  BY <1>1, <1>2, ConcatProperties
<1>4. ASSUME NEW i \in 1 .. l PROVE s[i] = x[i]
  <2>1. i \in 1 .. l + m /\ i \in 1 .. (l + m) + n /\ i <= l + m /\ i <= l
    OBVIOUS
  <2> QED
    BY <1>2, <1>3, <2>1
<1>5. ASSUME NEW i \in 1 .. m PROVE s[l + i] = y[i]
  <2>1. l + i \in 1 .. l + m /\ l + i \in 1 .. (l + m) + n /\ l + i <= l + m /\ ~(l + i <= l) /\ (l + i) - l = i
    OBVIOUS
  <2> QED
    BY <1>2, <1>3, <2>1
<1>6. ASSUME NEW i \in 1 .. n PROVE s[l + m + i] = z[i]
  <2>1. l + m + i \in 1 .. (l + m) + n /\ ~(l + m + i <= l + m) /\ (l + m + i) - (l + m) = i
    OBVIOUS
  <2> QED
    BY <1>3, <2>1
<1> QED
  BY <1>3, <1>4, <1>5, <1>6 DEF ThreeIn

LEMMA OnePiece ==
  ASSUME NEW b, BuilderInv(b), Len(b.chunks) = 1, b.chunks[1].elements \in Seq(Int)
  PROVE  Builder!Gathered(b) = Piece(b, 1)
<1>1. 1 \in Nat /\ 1 = Len(b.chunks) /\ 1 \in 1 .. Len(b.chunks) /\ 1 - 1 = 0
  OBVIOUS
<1>2. PICK g : Gathers(b, g)
  BY <1>1, GatheredIs
<1>3. g[1] = g[1 - 1] \o Piece(b, 1) /\ g[0] = <<>> /\ Builder!Gathered(b) = g[Len(b.chunks)]
  BY <1>1, <1>2 DEF Gathers
<1>4. Piece(b, 1) \in Seq(Int)
  BY <1>1, PieceIs
<1>5. Builder!Gathered(b) = <<>> \o Piece(b, 1)
  BY <1>1, <1>3
<1> QED
  BY <1>4, <1>5, ConcatEmptySeq

LEMMA AdvancedAloneGathers ==
  ASSUME NEW b, BuilderInv(b), HasRoom(b), IsFilled(b), NEW k \in 0 .. ChunkBytes, Len(b.chunks) = 1,
         NEW r, r = Builder!Advanced(b, k)
  PROVE  /\ IsFilled(r)
         /\ \A i \in 1 .. b.size : Builder!Gathered(r)[i] = Builder!Gathered(b)[i]
         /\ \A j \in 0 .. k - 1 : Builder!Gathered(r)[b.size + j + 1] = Builder!ElementAt(b, j)
<1>0. k \in Nat /\ k <= ChunkBytes /\ ChunkBytes \in Nat
  BY ChunkIs
<1>1. PICK v : v = b.chunks[1]
  OBVIOUS
<1>2. PICK g : g = [v EXCEPT !.size = @ + k]
  OBVIOUS
<1>4. Builder!FirstFree(b) = 1
  BY FirstFreeIs
<1>5. IsVector(v) /\ v.elements \in Seq(Int)
  BY <1>1 DEF BuilderInv, IsFilled
<1>6. PICK size \in Nat, free \in Nat : size = v.size /\ free = Builder!Free(v)
  BY <1>5, FreeIs
<1>7. free >= ChunkBytes
  BY <1>1, <1>4, <1>6 DEF HasRoom
<1>8. k <= free
  BY <1>0, <1>7
<1>9. g.size = size + k /\ g.elements = v.elements
  BY <1>0, <1>2, <1>5, <1>6, <1>8, Grown
<1>10. r = [size |-> b.size + k, chunks |-> <<g>>]
  BY <1>1, <1>2 DEF Builder!Advanced
<1>11. r.size = b.size + k /\ r.chunks = <<g>>
  BY <1>10
<1>12. Len(r.chunks) = 1 /\ r.chunks[1] = g
  BY <1>11
<1>13. BuilderInv(r)
  BY AdvancedAlone
<1>14. Builder!Gathered(b) = Piece(b, 1) /\ Builder!Gathered(r) = Piece(r, 1)
  BY <1>1, <1>5, <1>9, <1>12, <1>13, OnePiece
<1>15. Len(Piece(b, 1)) = size /\ \A i \in 1 .. size : Piece(b, 1)[i] = v.elements[i]
  <2>1. 1 \in 1 .. Len(b.chunks)
    OBVIOUS
  <2> QED
    BY <1>1, <1>5, <1>6, <2>1, PieceIs
<1>16. Piece(r, 1) \in Seq(Int) /\ Len(Piece(r, 1)) = size + k /\ \A i \in 1 .. size + k : Piece(r, 1)[i] = v.elements[i]
  <2>1. 1 \in 1 .. Len(r.chunks) /\ r.chunks[1].elements \in Seq(Int)
    BY <1>5, <1>9, <1>12
  <2>2. /\ Piece(r, 1) \in Seq(Int) /\ Len(Piece(r, 1)) = r.chunks[1].size
        /\ \A i \in 1 .. r.chunks[1].size : Piece(r, 1)[i] = r.chunks[1].elements[i]
    BY <1>13, <2>1, PieceIs
  <2> QED
    BY <1>9, <1>12, <2>2
<1>17. b.size = size
  BY <1>14, <1>15 DEF IsFilled
<1>18. IsFilled(r)
  <2>1. \A c \in 1 .. Len(r.chunks) : r.chunks[c].elements \in Seq(Int)
    BY <1>5, <1>9, <1>12
  <2>2. \A c \in 1 .. Len(r.chunks) - 1 : r.chunks[c].size > 0
    BY <1>12
  <2> QED
    BY <1>11, <1>14, <1>16, <1>17, <2>1, <2>2 DEF IsFilled
<1>19. ASSUME NEW i \in 1 .. size PROVE Piece(r, 1)[i] = Piece(b, 1)[i]
  <2>1. i \in 1 .. size + k
    BY <1>0
  <2> QED
    BY <1>15, <1>16, <2>1
<1>20. ASSUME NEW j \in 0 .. k - 1 PROVE Piece(r, 1)[size + j + 1] = Builder!ElementAt(b, j)
  <2>1. j < free /\ size + j + 1 \in 1 .. size + k
    BY <1>0, <1>8
  <2>2. Builder!Place(b, j) = <<1, size + j + 1>>
    BY <1>1, <1>4, <1>6, <2>1 DEF Builder!Place
  <2>3. Builder!ElementAt(b, j) = v.elements[size + j + 1]
    BY <1>1, <2>2 DEF Builder!ElementAt
  <2> QED
    BY <1>16, <2>1, <2>3
<1> QED
  BY <1>14, <1>17, <1>18, <1>19, <1>20

\* A builder of n vectors, the last two of them apart from those before.
LastTwo(b, g, n) ==
  /\ Builder!Gathered(b) = (g[n - 2] \o Piece(b, n - 1)) \o Piece(b, n)
  /\ g[n - 2] \in Seq(Int) /\ Piece(b, n - 1) \in Seq(Int) /\ Piece(b, n) \in Seq(Int)
  /\ Len(Piece(b, n - 1)) = b.chunks[n - 1].size /\ Len(Piece(b, n)) = b.chunks[n].size
  /\ \A i \in 1 .. b.chunks[n - 1].size : Piece(b, n - 1)[i] = b.chunks[n - 1].elements[i]
  /\ \A i \in 1 .. b.chunks[n].size : Piece(b, n)[i] = b.chunks[n].elements[i]

LEMMA LastPieces ==
  ASSUME NEW b, BuilderInv(b), NEW g, Gathers(b, g), NEW n \in Nat, n = Len(b.chunks), n > 1,
         \A c \in 1 .. n : b.chunks[c].elements \in Seq(Int)
  PROVE  LastTwo(b, g, n)
<1>1. /\ n \in 1 .. Len(b.chunks) /\ n - 1 \in 1 .. Len(b.chunks) /\ n - 2 \in 0 .. Len(b.chunks)
      /\ (n - 1) - 1 = n - 2 /\ n \in 1 .. n /\ n - 1 \in 1 .. n
  OBVIOUS
<1>2. Builder!Gathered(b) = g[n] /\ g[n] = g[n - 1] \o Piece(b, n) /\ g[n - 1] = g[(n - 1) - 1] \o Piece(b, n - 1)
  BY <1>1 DEF Gathers
<1>3. g[n - 2] \in Seq(Int)
  BY <1>1, GathersSeq
<1>4. ASSUME NEW c \in 1 .. n
      PROVE  /\ Piece(b, c) \in Seq(Int) /\ Len(Piece(b, c)) = b.chunks[c].size
             /\ \A i \in 1 .. b.chunks[c].size : Piece(b, c)[i] = b.chunks[c].elements[i]
  BY PieceIs
<1>5. g[n - 1] = g[n - 2] \o Piece(b, n - 1)
  BY <1>1, <1>2
<1>6. Builder!Gathered(b) = (g[n - 2] \o Piece(b, n - 1)) \o Piece(b, n)
  BY <1>2, <1>5
<1> QED
  BY <1>1, <1>3, <1>4, <1>6 DEF LastTwo

LEMMA AdvancedPairGathers ==
  ASSUME NEW b, BuilderInv(b), HasRoom(b), IsFilled(b), NEW k \in 0 .. ChunkBytes, Len(b.chunks) > 1,
         NEW r, r = Builder!Advanced(b, k)
  PROVE  /\ IsFilled(r)
         /\ \A i \in 1 .. b.size : Builder!Gathered(r)[i] = Builder!Gathered(b)[i]
         /\ \A j \in 0 .. k - 1 : Builder!Gathered(r)[b.size + j + 1] = Builder!ElementAt(b, j)
<1>0. k \in Nat /\ k <= ChunkBytes /\ ChunkBytes \in Nat
  BY ChunkIs
<1>1. PICK n \in Nat : n = Len(b.chunks)
  BY DEF BuilderInv
<1>2. PICK p \in Nat : p = n - 1
  BY <1>1
<1>3. p \in 1 .. n /\ n \in 1 .. n /\ p # n /\ n > 1 /\ p + 1 = n
  BY <1>1, <1>2
<1>4. PICK v, w : v = b.chunks[p] /\ w = b.chunks[n]
  OBVIOUS
<1>5. IsVector(v) /\ IsVector(w) /\ DOMAIN b.chunks = 1 .. n /\ v.elements \in Seq(Int) /\ w.elements \in Seq(Int)
  BY <1>1, <1>3, <1>4 DEF BuilderInv, IsFilled
<1>6. PICK size \in Nat, free \in Nat : size = v.size /\ free = Builder!Free(v)
  BY <1>5, FreeIs
<1>7. PICK last \in Nat, left \in Nat : last = w.size /\ left = Builder!Free(w) /\ (last = 0 => ChunkBytes <= left)
  <2>1. w.size \in Nat /\ Len(w.elements) \in Nat /\ Builder!Free(w) \in Nat /\ ChunkBytes <= Len(w.elements)
        /\ Builder!Free(w) = Len(w.elements) - w.size
    BY <1>5, FreeIs
  <2>2. w.size = 0 => ChunkBytes <= Builder!Free(w)
    BY <2>1, <1>0
  <2> QED
    BY <2>1, <2>2
<1>8. PICK inPrev \in Nat : inPrev = Builder!Smaller(k, free)
  BY <1>0 DEF Builder!Smaller
<1>9. inPrev <= k /\ inPrev <= free /\ (inPrev = k \/ inPrev = free)
  BY <1>0, <1>8 DEF Builder!Smaller
<1>10. PICK rest \in Nat : rest = k - inPrev
  BY <1>0, <1>9
<1>11. last = 0 => Builder!FirstFree(b) = p
  BY <1>1, <1>2, <1>3, <1>4, <1>7, FirstFreeIs
<1>12. last # 0 => Builder!FirstFree(b) = n /\ free = 0
  BY <1>1, <1>2, <1>3, <1>4, <1>6, <1>7, FirstFreeIs
<1>13. last # 0 => left >= ChunkBytes
  BY <1>1, <1>4, <1>7, <1>12 DEF HasRoom
<1>14. rest <= left
  BY <1>0, <1>7, <1>9, <1>10, <1>13
<1>15. PICK g : g = [v EXCEPT !.size = @ + inPrev]
  OBVIOUS
<1>16. PICK h : h = [w EXCEPT !.size = @ + rest]
  OBVIOUS
<1>17. g.size = size + inPrev /\ g.elements = v.elements
  BY <1>5, <1>6, <1>9, <1>15, Grown
<1>18. h.size = last + rest /\ h.elements = w.elements
  BY <1>5, <1>7, <1>14, <1>16, Grown
<1>19. PICK s : s = [b.chunks EXCEPT ![p] = g, ![n] = h]
  OBVIOUS
<1>21. r = [size |-> b.size + k, chunks |-> s]
  <2>1. ~(n < 2)
    BY <1>3
  <2>2. Builder!Free(b.chunks[n - 1]) = free
    BY <1>2, <1>4, <1>6
  <2>3. Builder!Smaller(k, Builder!Free(b.chunks[n - 1])) = inPrev
    BY <1>8, <2>2
  <2>4. g = [b.chunks[n - 1] EXCEPT !.size = @ + inPrev] /\ h = [b.chunks[n] EXCEPT !.size = @ + (k - inPrev)]
    BY <1>2, <1>4, <1>10, <1>15, <1>16
  <2>5. s = [b.chunks EXCEPT ![n - 1] = g, ![n] = h]
    BY <1>2, <1>19
  <2> QED
    BY <1>1, <2>1, <2>3, <2>4, <2>5, Zenon DEF Builder!Advanced
<1>22. /\ DOMAIN s = 1 .. n /\ s = [c \in 1 .. n |-> s[c]] /\ s[p] = g /\ s[n] = h
       /\ \A c \in 1 .. n : c # p /\ c # n => s[c] = b.chunks[c]
  BY <1>3, <1>5, <1>19
<1>23. Len(s) = n
  BY <1>22, LengthIs
<1>24. r.size = b.size + k /\ r.chunks = s /\ Len(r.chunks) = n
  BY <1>21, <1>23
<1>25. BuilderInv(r)
  BY AdvancedPair
<1>26. \A c \in 1 .. n : r.chunks[c].elements \in Seq(Int)
  <2> SUFFICES ASSUME NEW c \in 1 .. n PROVE s[c].elements \in Seq(Int)
    BY <1>24
  <2>1. b.chunks[c].elements \in Seq(Int)
    BY <1>1 DEF IsFilled
  <2> QED
    BY <1>5, <1>17, <1>18, <1>22, <2>1
<1>27. PICK x, y : Gathers(b, x) /\ Gathers(r, y)
  <2>1. \E x : Gathers(b, x)
    BY <1>1, GatheredIs
  <2>2. \E y : Gathers(r, y)
    BY <1>24, GatheredIs
  <2> QED
    BY <2>1, <2>2
<1>28. x[n - 2] = y[n - 2]
  <2>1. n - 2 \in Nat /\ n - 2 <= Len(b.chunks) /\ n - 2 <= Len(r.chunks)
        /\ Len(b.chunks) \in Nat /\ Len(r.chunks) \in Nat
    BY <1>1, <1>3, <1>24
  <2>2. \A c \in 1 .. n - 2 : Piece(b, c) = Piece(r, c)
    <3> TAKE c \in 1 .. n - 2
    <3>1. c \in 1 .. n /\ c # p /\ c # n
      BY <1>2, <1>3
    <3> QED
      BY <1>22, <1>24, <3>1 DEF Piece
  <2> QED
    BY <1>27, <2>1, <2>2, GathersAlike
<1>29. PICK a, a1, a2, b1, b2 : /\ a = x[n - 2] /\ a1 = Piece(b, n - 1) /\ a2 = Piece(b, n)
                                /\ b1 = Piece(r, n - 1) /\ b2 = Piece(r, n)
  OBVIOUS
<1>30. /\ Builder!Gathered(b) = (a \o a1) \o a2 /\ a \in Seq(Int) /\ a1 \in Seq(Int) /\ a2 \in Seq(Int)
       /\ Len(a1) = size /\ Len(a2) = last
       /\ \A i \in 1 .. size : a1[i] = v.elements[i]
       /\ \A i \in 1 .. last : a2[i] = w.elements[i]
  <2>1. \A c \in 1 .. n : b.chunks[c].elements \in Seq(Int)
    BY <1>1 DEF IsFilled
  <2>2. b.chunks[n - 1] = v /\ b.chunks[n] = w
    BY <1>2, <1>4
  <2>3. /\ Builder!Gathered(b) = (x[n - 2] \o Piece(b, n - 1)) \o Piece(b, n)
        /\ x[n - 2] \in Seq(Int) /\ Piece(b, n - 1) \in Seq(Int) /\ Piece(b, n) \in Seq(Int)
        /\ Len(Piece(b, n - 1)) = b.chunks[n - 1].size /\ Len(Piece(b, n)) = b.chunks[n].size
        /\ \A i \in 1 .. b.chunks[n - 1].size : Piece(b, n - 1)[i] = b.chunks[n - 1].elements[i]
        /\ \A i \in 1 .. b.chunks[n].size : Piece(b, n)[i] = b.chunks[n].elements[i]
    <3>1. n > 1 /\ Gathers(b, x)
      BY <1>3, <1>27
    <3>2. LastTwo(b, x, n)
      BY <1>1, <2>1, <3>1, LastPieces, Zenon
    <3> QED
      BY <3>2 DEF LastTwo
  <2>4. b.chunks[n - 1].size = size /\ b.chunks[n].size = last
    BY <1>6, <1>7, <2>2
  <2>5. /\ \A i \in 1 .. size : a1[i] = v.elements[i]
        /\ \A i \in 1 .. last : a2[i] = w.elements[i]
    BY <1>29, <2>2, <2>3, <2>4
  <2>6. /\ Builder!Gathered(b) = (a \o a1) \o a2 /\ a \in Seq(Int) /\ a1 \in Seq(Int) /\ a2 \in Seq(Int)
        /\ Len(a1) = size /\ Len(a2) = last
    BY <1>29, <2>3, <2>4
  <2> QED
    BY <2>5, <2>6
<1>31. /\ Builder!Gathered(r) = (a \o b1) \o b2 /\ b1 \in Seq(Int) /\ b2 \in Seq(Int)
       /\ Len(b1) = size + inPrev /\ Len(b2) = last + rest
       /\ \A i \in 1 .. size + inPrev : b1[i] = v.elements[i]
       /\ \A i \in 1 .. last + rest : b2[i] = w.elements[i]
  <2>1. r.chunks[n - 1] = g /\ r.chunks[n] = h
    BY <1>2, <1>22, <1>24
  <2>2. /\ Builder!Gathered(r) = (y[n - 2] \o b1) \o b2 /\ b1 \in Seq(Int) /\ b2 \in Seq(Int)
        /\ Len(b1) = r.chunks[n - 1].size /\ Len(b2) = r.chunks[n].size
        /\ \A i \in 1 .. r.chunks[n - 1].size : b1[i] = r.chunks[n - 1].elements[i]
        /\ \A i \in 1 .. r.chunks[n].size : b2[i] = r.chunks[n].elements[i]
    <3>1. /\ Builder!Gathered(r) = (y[n - 2] \o Piece(r, n - 1)) \o Piece(r, n)
          /\ y[n - 2] \in Seq(Int) /\ Piece(r, n - 1) \in Seq(Int) /\ Piece(r, n) \in Seq(Int)
          /\ Len(Piece(r, n - 1)) = r.chunks[n - 1].size /\ Len(Piece(r, n)) = r.chunks[n].size
          /\ \A i \in 1 .. r.chunks[n - 1].size : Piece(r, n - 1)[i] = r.chunks[n - 1].elements[i]
          /\ \A i \in 1 .. r.chunks[n].size : Piece(r, n)[i] = r.chunks[n].elements[i]
      <4>1. n > 1 /\ Gathers(r, y) /\ n = Len(r.chunks)
        BY <1>3, <1>24, <1>27
      <4>2. LastTwo(r, y, n)
        BY <1>25, <1>26, <4>1, LastPieces, Zenon
      <4> QED
        BY <4>2 DEF LastTwo
    <3> QED
      BY <1>29, <3>1
  <2> QED
    BY <1>17, <1>18, <1>28, <1>29, <2>1, <2>2
<1>40. PICK l \in Nat : l = Len(a)
  BY <1>30, LenProperties
<1>32. PICK old, new : old = (a \o a1) \o a2 /\ new = (a \o b1) \o b2
  OBVIOUS
<1>33. /\ Len(old) = l + size + last
       /\ \A i \in 1 .. l : old[i] = a[i]
       /\ \A i \in 1 .. size : old[l + i] = a1[i]
       /\ \A i \in 1 .. last : old[l + size + i] = a2[i]
  <2>1. l = Len(a) /\ size = Len(a1) /\ last = Len(a2) /\ old = (a \o a1) \o a2
    BY <1>30, <1>32, <1>40
  <2>2. a \in Seq(Int) /\ a1 \in Seq(Int) /\ a2 \in Seq(Int)
    BY <1>30
  <2>3. ThreeIn(old, a, a1, a2, l, size, last)
    BY <2>1, <2>2, ThreeParts, Zenon
  <2> QED
    BY <2>3 DEF ThreeIn
<1>34. PICK m \in Nat, q \in Nat : m = size + inPrev /\ q = last + rest
  OBVIOUS
<1>35. /\ new \in Seq(Int) /\ Len(new) = l + m + q
       /\ \A i \in 1 .. l : new[i] = a[i]
       /\ \A i \in 1 .. m : new[l + i] = b1[i]
       /\ \A i \in 1 .. q : new[l + m + i] = b2[i]
  <2>1. l = Len(a) /\ m = Len(b1) /\ q = Len(b2) /\ new = (a \o b1) \o b2
    BY <1>31, <1>32, <1>40, <1>34
  <2>2. a \in Seq(Int) /\ b1 \in Seq(Int) /\ b2 \in Seq(Int)
    BY <1>30, <1>31
  <2>3. ThreeIn(new, a, b1, b2, l, m, q)
    BY <2>1, <2>2, ThreeParts, Zenon
  <2> QED
    BY <2>3 DEF ThreeIn
<1>36. b.size = l + size + last
  BY <1>30, <1>32, <1>40, <1>33 DEF IsFilled
<1>37. IsFilled(r)
  <2>1. \A c \in 1 .. n - 1 : r.chunks[c].size > 0
    <3> SUFFICES ASSUME NEW c \in 1 .. n - 1 PROVE s[c].size > 0
      BY <1>24
    <3>1. b.chunks[c].size > 0
      BY <1>1 DEF IsFilled
    <3>2. CASE c = p
      <4>1. size > 0
        BY <1>4, <1>6, <3>1, <3>2
      <4>2. size + inPrev > 0
        BY <4>1
      <4> QED
        BY <1>17, <1>22, <3>2, <4>2
    <3>3. CASE c # p
      <4>1. c # n /\ c \in 1 .. n
        BY <1>3
      <4> QED
        BY <1>22, <3>1, <3>3, <4>1
    <3> QED
      BY <3>2, <3>3
  <2>2. Len(new) = b.size + k
    <3>1. PICK z \in Nat : z = k /\ inPrev <= z /\ rest = z - inPrev
      BY <1>0, <1>9, <1>10
    <3>2. l + m + q = l + size + last + z
      BY <1>34, <3>1
    <3> QED
      BY <1>35, <1>36, <3>1, <3>2
  <2> QED
    BY <1>24, <1>26, <1>31, <1>32, <1>40, <1>35, <2>1, <2>2 DEF IsFilled
<1>38. ASSUME NEW i \in 1 .. b.size PROVE new[i] = old[i]
  <2>0. i \in 1 .. l + size + last
    BY <1>36
  <2>1. CASE i <= l
    BY <1>33, <1>35, <2>0, <2>1
  <2>2. CASE i > l /\ i <= l + size
    <3>1. PICK d \in 1 .. size : i = l + d
      <4>1. i - l \in 1 .. size /\ i = l + (i - l)
        BY <2>0, <2>2
      <4> QED
        BY <4>1
    <3>2. d \in 1 .. m /\ d \in 1 .. size + inPrev
      BY <1>34
    <3>3. old[l + d] = a1[d] /\ a1[d] = v.elements[d]
      BY <1>30, <1>33
    <3>4. new[l + d] = b1[d] /\ b1[d] = v.elements[d]
      BY <1>31, <1>35, <3>2
    <3> QED
      BY <3>1, <3>3, <3>4
  <2>3. CASE i > l + size
    <3>1. PICK d \in 1 .. last : i = l + size + d
      <4>1. i - (l + size) \in 1 .. last /\ i = l + size + (i - (l + size))
        BY <2>0, <2>3
      <4> QED
        BY <4>1
    <3>2. inPrev = 0 /\ m = size /\ d \in 1 .. q /\ d \in 1 .. last + rest
      BY <1>9, <1>12, <1>34, <3>1
    <3>3. old[l + size + d] = a2[d] /\ a2[d] = w.elements[d]
      BY <1>30, <1>33
    <3>4. new[l + m + d] = b2[d] /\ b2[d] = w.elements[d]
      BY <1>31, <1>35, <3>2
    <3>5. l + m + d = l + size + d
      BY <3>2
    <3> QED
      BY <3>1, <3>3, <3>4, <3>5
  <2> QED
    BY <2>0, <2>1, <2>2, <2>3
<1>39. ASSUME NEW j \in 0 .. k - 1 PROVE new[b.size + j + 1] = Builder!ElementAt(b, j)
  <2>0. j \in Nat /\ j < k
    BY <1>0
  <2>1. CASE last = 0 /\ j < free
    <3>1. size + j + 1 \in 1 .. m /\ l + (size + j + 1) = b.size + j + 1
      BY <1>8, <1>9, <1>34, <1>36, <2>0, <2>1
    <3>2. Builder!Place(b, j) = <<p, size + j + 1>>
      BY <1>4, <1>6, <1>11, <2>1 DEF Builder!Place
    <3>3. Builder!ElementAt(b, j) = v.elements[size + j + 1]
      BY <1>4, <3>2 DEF Builder!ElementAt
    <3>4. new[l + (size + j + 1)] = v.elements[size + j + 1]
      BY <1>31, <1>34, <1>35, <3>1
    <3> QED
      BY <3>1, <3>3, <3>4
  <2>2. CASE last = 0 /\ ~(j < free)
    <3>1. inPrev = free /\ rest = k - free
      BY <1>9, <1>10, <2>0, <2>2
    <3>2. j - free + 1 \in 1 .. q /\ l + m + (j - free + 1) = b.size + j + 1
      BY <1>34, <1>36, <2>0, <2>2, <3>1
    <3>3. Builder!Place(b, j) = <<n, j - free + 1>>
      BY <1>3, <1>4, <1>6, <1>11, <2>2 DEF Builder!Place
    <3>4. Builder!ElementAt(b, j) = w.elements[j - free + 1]
      BY <1>4, <3>3 DEF Builder!ElementAt
    <3>5. new[l + m + (j - free + 1)] = w.elements[j - free + 1]
      BY <1>31, <1>34, <1>35, <3>2
    <3> QED
      BY <3>2, <3>4, <3>5
  <2>3. CASE last # 0
    <3>1. inPrev = 0 /\ rest = k /\ m = size
      BY <1>0, <1>9, <1>10, <1>12, <1>34, <2>3
    <3>2. last + j + 1 \in 1 .. q /\ l + m + (last + j + 1) = b.size + j + 1
      BY <1>34, <1>36, <2>0, <3>1
    <3>3. j < left
      BY <1>0, <1>13, <2>0, <2>3
    <3>4. Builder!Place(b, j) = <<n, last + j + 1>>
      BY <1>4, <1>7, <1>12, <2>3, <3>3 DEF Builder!Place
    <3>5. Builder!ElementAt(b, j) = w.elements[last + j + 1]
      BY <1>4, <3>4 DEF Builder!ElementAt
    <3>6. new[l + m + (last + j + 1)] = w.elements[last + j + 1]
      BY <1>31, <1>34, <1>35, <3>2
    <3> QED
      BY <3>2, <3>5, <3>6
  <2> QED
    BY <2>1, <2>2, <2>3
<1> QED
  BY <1>30, <1>31, <1>32, <1>40, <1>37, <1>38, <1>39

\* What is kept follows on what was there.
LEMMA AdvancedGathers ==
  ASSUME NEW b, BuilderInv(b), HasRoom(b), IsFilled(b), NEW k \in 0 .. ChunkBytes,
         NEW r, r = Builder!Advanced(b, k)
  PROVE  /\ IsFilled(r)
         /\ \A i \in 1 .. b.size : Builder!Gathered(r)[i] = Builder!Gathered(b)[i]
         /\ \A j \in 0 .. k - 1 : Builder!Gathered(r)[b.size + j + 1] = Builder!ElementAt(b, j)
<1>1. PICK n \in Nat : n = Len(b.chunks) /\ n > 0
  BY DEF BuilderInv
<1>2. Len(b.chunks) = 1 \/ Len(b.chunks) > 1
  BY <1>1, OneOrMore, Zenon
<1>3. CASE Len(b.chunks) = 1
  BY <1>3, AdvancedAloneGathers
<1>4. CASE Len(b.chunks) > 1
  BY <1>4, AdvancedPairGathers
<1> QED
  BY <1>2, <1>3, <1>4

(***************************************************************************)
(* The numbers of the delimiters.                                           *)
(***************************************************************************)
LEMMA NumberIs ==
  ASSUME Asked, NEW q \in Nat
  PROVE  Number(q) \in Nat
<1>1. FirstOffset \in Nat
  BY Given
<1> QED
  BY <1>1, FoundIsFinite DEF Number

LEMMA NumberNext ==
  ASSUME Asked, NEW q \in Nat, q >= FirstOffset
  PROVE  Number(q + 1) = Number(q) + (IF IsFound(q + 1) THEN 1 ELSE 0)
<1>1. FirstOffset \in Nat /\ FirstOffset <= q /\ q + 1 \in Nat /\ q <= q + 1
  BY Given
<1>2. Number(q + 1) = Number(q) + Cardinality(Found(q, q + 1))
  BY <1>1, FoundAdds DEF Number
<1>3. \A r : r \in q + 1 .. q + 1 <=> r = q + 1
  OBVIOUS
<1>4. CASE IsFound(q + 1)
  <2>1. Found(q, q + 1) = {q + 1}
    BY <1>3, <1>4 DEF Found
  <2> QED
    BY <1>2, <1>4, <2>1, FS_Singleton
<1>5. CASE ~IsFound(q + 1)
  <2>1. Found(q, q + 1) = {}
    BY <1>3, <1>5 DEF Found
  <2> QED
    BY <1>2, <1>5, <2>1, FS_EmptySet
<1> QED
  BY <1>4, <1>5

LEMMA NumberGrows ==
  ASSUME Asked, NEW p \in Nat, NEW q \in Nat, FirstOffset <= p, p <= q
  PROVE  Number(p) <= Number(q)
<1>1. FirstOffset \in Nat
  BY Given
<1>2. PICK i \in Nat, j \in Nat : i = Cardinality(Found(FirstOffset, p)) /\ j = Cardinality(Found(p, q))
  BY <1>1, FoundIsFinite
<1>3. Cardinality(Found(FirstOffset, q)) = i + j
  BY <1>1, <1>2, FoundAdds
<1> QED
  BY <1>2, <1>3 DEF Number

LEMMA NumberRises ==
  ASSUME Asked, NEW p \in Nat, NEW q \in Nat, FirstOffset <= p, p < q, IsFound(q)
  PROVE  Number(p) < Number(q)
<1>1. FirstOffset \in Nat
  BY Given
<1>2. PICK r \in Nat : r = q - 1 /\ r + 1 = q /\ r >= FirstOffset /\ p <= r
  <2>1. q - 1 \in Nat /\ (q - 1) + 1 = q /\ q - 1 >= FirstOffset /\ p <= q - 1
    BY <1>1
  <2> QED
    BY <2>1
<1>3. Number(r + 1) = Number(r) + 1
  BY <1>2, NumberNext
<1>4. Number(p) <= Number(r)
  BY <1>2, NumberGrows
<1>5. Number(p) \in Nat /\ Number(r) \in Nat
  BY NumberIs
<1> QED
  BY <1>2, <1>3, <1>4, <1>5

\* Numbers are given in order, each once.
LEMMA NthInOrder ==
  ASSUME Asked, NEW p, NEW q, NEW i, NEW j, IsNth(p, i), IsNth(q, j)
  PROVE  /\ i \in Nat /\ j \in Nat /\ p \in Nat /\ q \in Nat /\ i > 0 /\ j > 0
         /\ i < j <=> p < q
         /\ i = j <=> p = q
<1>1. FirstOffset \in Nat
  BY Given
<1>2. /\ p \in Nat /\ p > FirstOffset /\ IsFound(p) /\ Number(p) = i
      /\ q \in Nat /\ q > FirstOffset /\ IsFound(q) /\ Number(q) = j
  BY DEF IsNth
<1>3. i \in Nat /\ j \in Nat
  BY <1>2, NumberIs
<1>4. Number(FirstOffset) \in Nat
  BY <1>1, NumberIs
<1>5. i > 0 /\ j > 0
  <2>1. Number(FirstOffset) < i /\ Number(FirstOffset) < j
    BY <1>1, <1>2, NumberRises
  <2> QED
    BY <1>3, <1>4, <2>1
<1>6. p < q => i < j
  BY <1>1, <1>2, NumberRises
<1>7. q < p => j < i
  BY <1>1, <1>2, NumberRises
<1>8. p = q => i = j
  BY <1>2
<1> QED
  BY <1>2, <1>3, <1>5, <1>6, <1>7, <1>8

LEMMA NthExists ==
  ASSUME Asked, NEW q \in Nat, FirstOffset <= q, NEW i \in 1 .. Number(q)
  PROVE  \E p \in Nat : IsNth(p, i) /\ p <= q
<1>1. FirstOffset \in Nat
  BY Given
<1> DEFINE S == {p \in Nat : p >= FirstOffset /\ Number(p) >= i}
<1>2. Number(q) \in Nat
  BY NumberIs
<1>3. q \in S /\ S \subseteq Nat
  BY <1>2
<1>4. PICK p \in S : \A m \in S : ~(m < p)
  BY <1>3, ALeast
<1>5. p \in Nat /\ p >= FirstOffset /\ Number(p) >= i /\ p <= q
  BY <1>3, <1>4
<1>6. Number(FirstOffset) = 0
  BY <1>1, FoundNone DEF Number
<1>7. p # FirstOffset
  BY <1>5, <1>6
<1>8. PICK r \in Nat : r + 1 = p /\ r >= FirstOffset /\ r < p
  <2>1. p - 1 \in Nat /\ (p - 1) + 1 = p /\ p - 1 >= FirstOffset /\ p - 1 < p
    BY <1>1, <1>5, <1>7
  <2> QED
    BY <2>1
<1>9. r \notin S
  BY <1>4, <1>8
<1>10. Number(r) \in Nat /\ ~(Number(r) >= i)
  BY <1>8, <1>9, NumberIs
<1>11. Number(p) = Number(r) + (IF IsFound(p) THEN 1 ELSE 0)
  BY <1>8, NumberNext
<1>12. IsFound(p) /\ Number(p) = i
  BY <1>5, <1>10, <1>11
<1>13. p > FirstOffset
  BY <1>1, <1>5, <1>7
<1>14. IsNth(p, i)
  BY <1>5, <1>12, <1>13 DEF IsNth
<1> QED
  BY <1>5, <1>14

\* Where the delimiters of a tile end, in the chunk; the rank among them gives the number.
LEMMA RankIs ==
  ASSUME Asked, host.chunkOffset \in Nat, NEW p \in Nat, NEW q \in Nat, FirstOffset <= p, NEW x \in Found(p, q)
  PROVE  /\ x - host.chunkOffset \in Shifted(Found(p, q))
         /\ Rank(x - host.chunkOffset, Shifted(Found(p, q))) = Number(x) - 1 - Number(p)
<1>1. PICK o \in Nat : o = host.chunkOffset
  OBVIOUS
<1>2. x \in Nat /\ x > p /\ x <= q /\ IsFound(x)
  BY DEF Found
<1>3. PICK y \in Nat : y + 1 = x /\ p <= y
  <2>1. x - 1 \in Nat /\ (x - 1) + 1 = x /\ p <= x - 1
    BY <1>2
  <2> QED
    BY <2>1
<1>4. FirstOffset \in Nat
  BY Given
<1>5. {z \in Shifted(Found(p, q)) : z < x - o} = Shifted(Found(p, y))
  <2>1. ASSUME NEW z \in Shifted(Found(p, q)), z < x - o PROVE z \in Shifted(Found(p, y))
    <3>1. PICK r \in Found(p, q) : z = r - o
      BY <1>1 DEF Shifted
    <3>2. r \in Nat /\ r \in p + 1 .. q /\ IsFound(r)
      BY DEF Found
    <3>3. r \in p + 1 .. y
      BY <1>2, <1>3, <2>1, <3>1, <3>2
    <3>4. r \in Found(p, y)
      BY <3>2, <3>3 DEF Found
    <3> QED
      BY <1>1, <3>1, <3>4 DEF Shifted
  <2>2. ASSUME NEW z \in Shifted(Found(p, y)) PROVE z \in Shifted(Found(p, q)) /\ z < x - o
    <3>1. PICK r \in Found(p, y) : z = r - o
      BY <1>1 DEF Shifted
    <3>2. r \in p + 1 .. y /\ IsFound(r)
      BY DEF Found
    <3>3. r \in p + 1 .. q /\ z < x - o
      BY <1>2, <1>3, <3>1, <3>2
    <3>4. r \in Found(p, q)
      BY <3>2, <3>3 DEF Found
    <3> QED
      BY <1>1, <3>1, <3>3, <3>4 DEF Shifted
  <2> QED
    BY <2>1, <2>2
<1>6. Rank(x - o, Shifted(Found(p, q))) = Cardinality(Found(p, y))
  BY <1>5, ShiftedCount DEF Rank
<1>7. Number(y) = Number(p) + Cardinality(Found(p, y))
  BY <1>3, <1>4, FoundAdds DEF Number
<1>8. Number(x) = Number(y) + 1
  <2>1. y >= FirstOffset
    BY <1>3, <1>4
  <2> QED
    BY <1>2, <1>3, <2>1, NumberNext
<1>9. Number(p) \in Nat /\ Cardinality(Found(p, y)) \in Nat
  BY NumberIs, FoundIsFinite
<1>10. x - o \in Shifted(Found(p, q))
  BY <1>1 DEF Shifted
<1> QED
  BY <1>1, <1>6, <1>7, <1>8, <1>9, <1>10

LEMMA RankFinds ==
  ASSUME Asked, host.chunkOffset \in Nat, NEW p \in Nat, NEW q \in Nat, FirstOffset <= p, p <= q,
         NEW i \in Number(p) + 1 .. Number(q), NEW S, S = Shifted(Found(p, q))
  PROVE  /\ \E x \in S : Rank(x, S) = i - 1 - Number(p)
         /\ \A x \in S : Rank(x, S) = i - 1 - Number(p) => IsNth(host.chunkOffset + x, i)
<1>1. PICK o \in Nat : o = host.chunkOffset
  OBVIOUS
<1>2. Number(p) \in Nat /\ Number(q) \in Nat /\ FirstOffset \in Nat /\ FirstOffset <= q
  BY NumberIs, Given
<1>3. i \in 1 .. Number(q) /\ i \in Nat /\ i > Number(p)
  BY <1>2
<1>4. PICK r \in Nat : IsNth(r, i) /\ r <= q
  BY <1>2, <1>3, NthExists
<1>5. r > FirstOffset /\ IsFound(r) /\ Number(r) = i
  BY <1>4 DEF IsNth
<1>6. r > p
  <2> SUFFICES ASSUME r <= p PROVE FALSE
    OBVIOUS
  <2>1. Number(r) <= Number(p)
    BY <1>2, <1>5, NumberGrows
  <2> QED
    BY <1>2, <1>3, <1>5, <2>1
<1>7. r \in Found(p, q)
  BY <1>4, <1>5, <1>6 DEF Found
<1>8. r - o \in S /\ Rank(r - o, S) = i - 1 - Number(p)
  BY <1>1, <1>5, <1>7, RankIs
<1>9. ASSUME NEW x \in S, Rank(x, S) = i - 1 - Number(p) PROVE IsNth(o + x, i)
  <2>1. PICK t \in Found(p, q) : x = t - o
    BY <1>1 DEF Shifted
  <2>2. t \in Nat /\ t > p /\ IsFound(t)
    BY DEF Found
  <2>3. Rank(x, S) = Number(t) - 1 - Number(p)
    BY <1>1, <2>1, RankIs
  <2>4. Number(t) = i
    <3>1. Number(t) \in Nat
      BY <2>2, NumberIs
    <3> QED
      BY <1>2, <1>3, <1>9, <2>3, <3>1
  <2>5. t > FirstOffset
    BY <1>2, <2>2
  <2>6. o + x = t
    BY <2>1, <2>2
  <2> QED
    BY <2>2, <2>4, <2>5, <2>6 DEF IsNth
<1> QED
  BY <1>1, <1>8, <1>9

\* The numbers of a block, less those of the kernels before, are places of the kernel's.
LEMMA NumbersOfTile ==
  ASSUME SplitInv, host.pc = "running", NEW b \in Blocks
  PROVE  /\ rows.size \in Nat /\ rows.size = Number(Pos(host.base)) /\ b \in Nat
         /\ Number(Pos(b)) \in Nat /\ Number(Pos(b + 1)) \in Nat
         /\ rows.size <= Number(Pos(b)) /\ Number(Pos(b)) <= Number(Pos(b + 1))
         /\ Number(Pos(b + 1)) - rows.size <= ChunkBytes
         /\ Pos(b) \in Nat /\ Pos(b + 1) \in Nat /\ FirstOffset <= Pos(b) /\ Pos(b) <= Pos(b + 1)
         /\ Number(Pos(b + 1)) = Number(Pos(b)) + Cardinality(Found(Pos(b), Pos(b + 1)))
<1>1. /\ Asked /\ Loaded /\ b \in Nat /\ RowsInv /\ HostInv
  BY Running DEF SplitInv
<1>2. /\ Pos(b) \in Nat /\ Pos(host.base) \in Nat /\ Pos(b) >= Pos(host.base)
      /\ Pos(b + 1) \in Nat /\ Pos(b + 1) >= Pos(b) /\ Pos(b + 1) - Pos(host.base) <= ChunkBytes
  BY <1>1, TileBegins
<1>3. host.base \in Nat /\ host.last = NoOffset
  BY <1>1 DEF HostInv, Loaded
<1>4. FirstOffset \in Nat /\ FirstOffset <= Pos(host.base)
  BY <1>1, <1>3, Positions
<1>5. PICK o \in Nat, p \in Nat, q \in Nat : o = Pos(host.base) /\ p = Pos(b) /\ q = Pos(b + 1)
  BY <1>2
<1>6. o <= p /\ p <= q /\ q - o <= ChunkBytes /\ FirstOffset <= o /\ o <= q /\ FirstOffset <= p
  BY <1>2, <1>4, <1>5
<1>7. rows.size = Number(o)
  BY <1>1, <1>3, <1>5 DEF RowsInv, Number
<1>8. Number(o) \in Nat /\ Number(p) \in Nat /\ Number(q) \in Nat
  BY <1>1, NumberIs
<1>9. Number(o) <= Number(p) /\ Number(p) <= Number(q)
  BY <1>1, <1>6, NumberGrows
<1>10. Number(q) = Number(p) + Cardinality(Found(p, q))
  BY <1>4, <1>6, FoundAdds DEF Number
<1>11. Number(q) - Number(o) <= ChunkBytes
  <2>1. Number(q) = Number(o) + Cardinality(Found(o, q))
    BY <1>4, <1>6, FoundAdds DEF Number
  <2>2. Cardinality(Found(o, q)) <= q - o /\ Cardinality(Found(o, q)) \in Nat
    BY <1>6, FoundIsFinite
  <2> QED
    BY <1>6, <1>8, <2>1, <2>2, ChunkIs
<1> QED
  BY <1>1, <1>5, <1>6, <1>7, <1>8, <1>9, <1>10, <1>11

\* What a block writes: its matches, from place `first' on.
OffsetsOf(first, found) ==
  [k \in first .. first + Cardinality(found) - 1 |->
     host.chunkOffset + CHOOSE p \in found : Rank(p, found) = k - first]

\* Each number of the block goes to its place.
LEMMA OffsetsWritten ==
  ASSUME SplitInv, host.pc = "running", NEW b \in Blocks, WriteOffsets(b)
  PROVE  \E w : /\ rows' = Builder!Written(rows, w)
                /\ DOMAIN w = Number(Pos(b)) - rows.size .. Number(Pos(b + 1)) - rows.size - 1
                /\ \A k \in DOMAIN w : IsNth(w[k], k + rows.size + 1)
<1>1. tile[b].pc = "counts" /\ Counts!Returned(b)
  BY DEF WriteOffsets
<1>2. /\ Asked /\ Loaded /\ TileInv(b)
  BY Running
<1>3. PICK size \in Nat, p \in Nat, q \in Nat, i \in Nat, j \in Nat :
        /\ size = rows.size /\ p = Pos(b) /\ q = Pos(b + 1) /\ i = Number(p) /\ j = Number(q)
        /\ size <= i /\ i <= j /\ FirstOffset <= p /\ p <= q
        /\ j = i + Cardinality(Found(p, q))
  BY NumbersOfTile
<1>4. host.chunkOffset \in Nat
  <2>1. host.base \in Nat /\ host.chunkOffset = Pos(host.base)
    BY <1>2 DEF Loaded, IsChunk
  <2> QED
    BY <1>2, <2>1, Positions
<1>5. PICK S : S = Shifted(Found(p, q)) /\ tile[b].matches = S
  BY <1>1, <1>2, <1>3 DEF TileInv
<1>6. Counts!ExclusivePrefix(b) = i
  BY <1>1, <1>3, CountsKnown DEF Number
<1>7. Cardinality(S) = Cardinality(Found(p, q)) /\ Cardinality(Found(p, q)) \in Nat
  BY <1>4, <1>5, ShiftedCount, FoundIsFinite
<1>8. i - size + Cardinality(S) - 1 = j - size - 1
  BY <1>3, <1>7
<1> PICK w : w = OffsetsOf(i - size, S)
  OBVIOUS
<1>9. rows' = Builder!Written(rows, w)
  <2>1. rows' = Builder!Written(rows, OffsetsOf(Counts!ExclusivePrefix(b) - rows.size, tile[b].matches))
    BY DEF WriteOffsets, OffsetsOf
  <2>2. Counts!ExclusivePrefix(b) = i /\ rows.size = size /\ tile[b].matches = S
    BY <1>3, <1>5, <1>6
  <2> QED
    BY <2>1, <2>2, Zenon
<1>10. DOMAIN w = i - size .. j - size - 1
  BY <1>8 DEF OffsetsOf
<1>11. ASSUME NEW k \in i - size .. j - size - 1 PROVE IsNth(w[k], k + size + 1)
  <2>1. PICK n \in Nat : n = k + size + 1
    BY <1>3
  <2>2. n \in i + 1 .. j /\ k - (i - size) = n - 1 - i
    BY <1>3, <2>1
  <2>3. n \in Number(p) + 1 .. Number(q)
    BY <1>3, <2>2
  <2>4. /\ \E x \in S : Rank(x, S) = n - 1 - i
        /\ \A x \in S : Rank(x, S) = n - 1 - i => IsNth(host.chunkOffset + x, n)
    BY <1>2, <1>3, <1>4, <1>5, <2>3, RankFinds
  <2>5. PICK d : d = k - (i - size) /\ d = n - 1 - i
    BY <2>2
  <2>6. IsNth(host.chunkOffset + CHOOSE y \in S : Rank(y, S) = d, n)
    BY <2>4, <2>5
  <2>7. w[k] = host.chunkOffset + CHOOSE y \in S : Rank(y, S) = d
    BY <1>8, <2>5 DEF OffsetsOf
  <2> QED
    BY <2>1, <2>6, <2>7
<1>12. \A k \in DOMAIN w : IsNth(w[k], k + size + 1)
  BY <1>10, <1>11
<1> QED
  BY <1>3, <1>9, <1>10, <1>12

(***************************************************************************)
(* What the steps do to the builders.                                        *)
(***************************************************************************)
LEMMA SameNumbers ==
  ASSUME UNCHANGED request
  PROVE  /\ UNCHANGED <<FirstOffset, RangeEnd, Content>> /\ \A b : UNCHANGED Pos(b)
         /\ \A p : UNCHANGED Number(p)
         /\ \A p, i : IsNth(p, i)' <=> IsNth(p, i)
<1>1. UNCHANGED <<FirstOffset, RangeEnd, Content>> /\ \A b : UNCHANGED Pos(b)
  BY SameText
<1>2. \A p : IsFound(p)' <=> IsFound(p)
  BY DEF IsFound, Known, Across, Agree, Byte, Content, FirstOffset, Width, IsBgzip
<1>3. \A p : UNCHANGED Number(p)
  BY DEF Number, Found, IsFound, Known, Across, Agree, Byte, Content, FirstOffset, Width, IsBgzip
<1>4. \A p, i : IsNth(p, i)' <=> IsNth(p, i)
  BY <1>1, <1>2, <1>3 DEF IsNth
<1> QED
  BY <1>1, <1>3, <1>4

LEMMA SameOffsets ==
  ASSUME UNCHANGED request, NEW s, NEW first, NEW last, OffsetsAre(s, first, last)
  PROVE  OffsetsAre(s, first, last)'
<1>1. UNCHANGED <<RangeEnd, request.offset>> /\ \A p, i : IsNth(p, i)' <=> IsNth(p, i)
  BY SameNumbers
<1> QED
  BY <1>1 DEF OffsetsAre

LEMMA SameChars ==
  ASSUME UNCHANGED request, NEW s, NEW first, NEW to, CharsAre(s, first, to)
  PROVE  CharsAre(s, first, to)'
<1>1. UNCHANGED Content
  BY SameNumbers
<1> QED
  BY <1>1 DEF CharsAre

LEMMA NextBuilders ==
  /\ Offsets' = Builder!Gathered(rows') /\ Copied' = Builder!Gathered(chars')
  /\ IsFilled(rows)' <=> IsFilled(rows')
  /\ IsFilled(chars)' <=> IsFilled(chars')
  /\ BuilderInv(chars)' <=> BuilderInv(chars')
BY DEF Offsets, Copied, IsFilled, BuilderInv, Builder!Gathered, IsVector, Builder!Free, Builder!Capacity

\* The parts of the invariant after a step of the host or of a block, one by one.
LEMMA ExactNext ==
  ASSUME UNCHANGED request, host'.pc \in {"loop", "running", "copy"},
         BuilderInv(chars'), IsFilled(chars'), IsFilled(rows'), ReadInv',
         NEW s, NEW t, s = Builder!Gathered(rows'), t = Builder!Gathered(chars'),
         NEW first, NEW last, NEW to, first = host'.first, last = host'.last, to = CopiedTo',
         OffsetsAre(s, first, last), CharsAre(t, first, to), host'.pc = "running" => WrittenInv'
  PROVE  ExactInv'
<1>1. IsFilled(rows)' /\ IsFilled(chars)' /\ BuilderInv(chars)' /\ Offsets' = s /\ Copied' = t
  BY NextBuilders
<1>2. OffsetsAre(s, first, last)' /\ CharsAre(t, first, to)'
  BY SameOffsets, SameChars
<1>3. OffsetsAre(Offsets, host.first, host.last)'
  BY <1>1, <1>2 DEF OffsetsAre
<1>4. CharsAre(Copied, host.first, CopiedTo)'
  BY <1>1, <1>2 DEF CharsAre
<1>5. host'.pc # "start" /\ host'.pc # "done"
  OBVIOUS
<1> QED
  BY <1>1, <1>3, <1>4, <1>5 DEF ExactInv

LEMMA ReadRests ==
  ASSUME UNCHANGED <<request, host>>, ReadInv
  PROVE  ReadInv' /\ CopiedTo' = CopiedTo
<1>1. UNCHANGED <<FirstOffset, Content>> /\ Pos(host.base)' = Pos(host.base)
  BY SameText DEF Pos
<1> QED
  BY <1>1 DEF ReadInv, CopiedTo

LEMMA BlockExact ==
  ASSUME ExactInv, host.pc = "running", UNCHANGED <<request, host, chars>>,
         IsFilled(rows'), Builder!Gathered(rows') = Offsets, WrittenInv'
  PROVE  ExactInv'
<1>1. /\ BuilderInv(chars) /\ IsFilled(chars) /\ ReadInv
      /\ OffsetsAre(Offsets, host.first, host.last) /\ CharsAre(Copied, host.first, CopiedTo)
  BY DEF ExactInv
<1>2. BuilderInv(chars') /\ IsFilled(chars') /\ Builder!Gathered(chars') = Copied
  BY <1>1 DEF Copied
<1>3. ReadInv' /\ CopiedTo' = CopiedTo
  BY <1>1, ReadRests
<1>4. PICK s, t, first, last, to : s = Offsets /\ t = Copied /\ first = host.first /\ last = host.last /\ to = CopiedTo
  OBVIOUS
<1>5. OffsetsAre(s, first, last) /\ CharsAre(t, first, to)
  BY <1>1, <1>4
<1>6. /\ s = Builder!Gathered(rows') /\ t = Builder!Gathered(chars') /\ first = host'.first /\ last = host'.last
      /\ to = CopiedTo' /\ host'.pc = "running"
  BY <1>2, <1>3, <1>4
<1> QED
  BY <1>2, <1>3, <1>5, <1>6, ExactNext

\* A block that does not write.
LEMMA QuietBlockExact ==
  ASSUME SplitInv, ExactInv, host.pc = "running", UNCHANGED <<request, host, rows, chars>>,
         \A b \in Blocks : tile'[b].pc = "done" => tile[b].pc = "done"
  PROVE  ExactInv'
<1>1. IsFilled(rows') /\ Builder!Gathered(rows') = Offsets
  BY DEF ExactInv, Offsets
<1>2. WrittenInv'
  <2>1. Blocks' = Blocks
    BY DEF Blocks
  <2> SUFFICES ASSUME NEW b \in Blocks, tile'[b].pc = "done" PROVE IsWritten(b)'
    BY <2>1 DEF WrittenInv
  <2>2. IsWritten(b)
    BY DEF ExactInv, WrittenInv
  <2>3. Number(Pos(b))' = Number(Pos(b)) /\ Number(Pos(b + 1))' = Number(Pos(b + 1))
    BY DEF Number, Pos, Found, IsFound, Known, Across, Agree, Byte, Content, FirstOffset, Width, IsBgzip
  <2>4. ASSUME NEW i, IsNth(Builder!ElementAt(rows, i - 1 - rows.size), i)
        PROVE  IsNth(Builder!ElementAt(rows, i - 1 - rows.size), i)'
    <3>1. PICK p : p = Builder!ElementAt(rows, i - 1 - rows.size)
      OBVIOUS
    <3>2. IsNth(p, i)'
      BY <2>4, <3>1, SameNumbers
    <3>3. Builder!ElementAt(rows, i - 1 - rows.size)' = p
      BY <3>1, Zenon DEF Builder!ElementAt, Builder!Place, Builder!FirstFree, Builder!Free, Builder!Capacity
    <3> QED
      BY <3>2, <3>3
  <2> QED
    BY <2>2, <2>3, <2>4 DEF IsWritten
<1> QED
  BY <1>1, <1>2, BlockExact

\* What a block has written stays, and the block that writes adds its own.
LEMMA WriteOffsetsExact ==
  ASSUME SplitInv, ExactInv, host.pc = "running", NEW b \in Blocks, WriteOffsets(b)
  PROVE  ExactInv'
<1>1. /\ BuilderInv(rows) /\ HasRoom(rows) /\ DOMAIN tile = Blocks
  BY Running
<1>2. IsFilled(rows) /\ WrittenInv
  BY DEF ExactInv
<1>3. PICK size \in Nat : size = rows.size
  BY NumbersOfTile
<1>4. PICK w : /\ rows' = Builder!Written(rows, w)
               /\ DOMAIN w = Number(Pos(b)) - size .. Number(Pos(b + 1)) - size - 1
               /\ \A k \in DOMAIN w : IsNth(w[k], k + size + 1)
  BY <1>3, OffsetsWritten
<1>5. UNCHANGED <<request, host, chars>> /\ tile' = [tile EXCEPT ![b] = [pc |-> "done", matches |-> {}]]
  BY DEF WriteOffsets
<1>6. ASSUME NEW c \in Blocks, NEW i \in Number(Pos(c)) + 1 .. Number(Pos(c + 1))
      PROVE  i \in Nat /\ i - 1 - size \in 0 .. ChunkBytes - 1
  <2>1. PICK m \in Nat, n \in Nat : m = Number(Pos(c)) /\ n = Number(Pos(c + 1)) /\ size <= m /\ n - size <= ChunkBytes
    BY <1>3, NumbersOfTile
  <2> QED
    BY <2>1, ChunkIs
<1>7. DOMAIN w \subseteq 0 .. ChunkBytes - 1 /\ \A k \in DOMAIN w : w[k] \in Int
  <2>1. PICK m \in Nat, n \in Nat : m = Number(Pos(b)) /\ n = Number(Pos(b + 1)) /\ size <= m /\ n - size <= ChunkBytes
    BY <1>3, NumbersOfTile
  <2>2. DOMAIN w \subseteq 0 .. ChunkBytes - 1
    BY <1>4, <2>1, ChunkIs
  <2>3. \A k \in DOMAIN w : w[k] \in Int
    BY <1>4 DEF IsNth
  <2> QED
    BY <2>2, <2>3
<1>8. IsFilled(rows') /\ Builder!Gathered(rows') = Offsets /\ rows'.size = size
  BY <1>1, <1>2, <1>3, <1>4, <1>7, WrittenGathers, WrittenKeeps DEF Offsets
<1>9. ASSUME NEW j \in 0 .. ChunkBytes - 1
      PROVE  Builder!ElementAt(rows', j) = IF j \in DOMAIN w THEN w[j] ELSE Builder!ElementAt(rows, j)
  BY <1>1, <1>4, <1>7, WrittenElements
<1>10. ASSUME NEW c \in Blocks, tile'[c].pc = "done", NEW i \in Number(Pos(c)) + 1 .. Number(Pos(c + 1))
       PROVE  IsNth(Builder!ElementAt(rows', i - 1 - size), i)
  <2>1. PICK j \in 0 .. ChunkBytes - 1 : j = i - 1 - size /\ i = j + size + 1
    <3>1. i \in Nat /\ i - 1 - size \in 0 .. ChunkBytes - 1 /\ i = (i - 1 - size) + size + 1
      BY <1>6
    <3> QED
      BY <3>1
  <2>2. CASE j \in DOMAIN w
    <3>1. IsNth(w[j], i)
      BY <1>4, <2>1, <2>2
    <3> QED
      BY <1>9, <2>1, <2>2, <3>1
  <2>3. CASE j \notin DOMAIN w
    <3>1. c # b
      <4> SUFFICES ASSUME c = b PROVE FALSE
        OBVIOUS
      <4>1. PICK m \in Nat, n \in Nat : m = Number(Pos(b)) /\ n = Number(Pos(b + 1))
        BY NumbersOfTile
      <4>2. i \in m + 1 .. n
        BY <4>1
      <4>3. j \in m - size .. n - size - 1
        BY <2>1, <4>2
      <4> QED
        BY <1>4, <2>3, <4>1, <4>3
    <3>2. tile[c].pc = "done"
      BY <1>1, <1>5, <1>10, <3>1
    <3>3. IsNth(Builder!ElementAt(rows, i - 1 - rows.size), i)
      BY <1>2, <3>2 DEF WrittenInv, IsWritten
    <3>4. IsNth(Builder!ElementAt(rows, j), i)
      BY <1>3, <2>1, <3>3
    <3> QED
      BY <1>9, <2>1, <2>3, <3>4
  <2> QED
    BY <2>2, <2>3
<1>11. WrittenInv'
  <2>1. Blocks' = Blocks
    BY <1>5 DEF Blocks
  <2> SUFFICES ASSUME NEW b2 \in Blocks, tile'[b2].pc = "done" PROVE IsWritten(b2)'
    BY <2>1 DEF WrittenInv
  <2>2. Number(Pos(b2))' = Number(Pos(b2)) /\ Number(Pos(b2 + 1))' = Number(Pos(b2 + 1))
    BY <1>5 DEF Number, Pos, Found, IsFound, Known, Across, Agree, Byte, Content, FirstOffset, Width, IsBgzip
  <2>3. ASSUME NEW i \in Number(Pos(b2)) + 1 .. Number(Pos(b2 + 1))
        PROVE  IsNth(Builder!ElementAt(rows, i - 1 - rows.size), i)'
    <3>1. PICK p : p = Builder!ElementAt(rows', i - 1 - size) /\ IsNth(p, i)
      BY <1>10, <2>3
    <3>2. IsNth(p, i)'
      BY <1>5, <3>1, SameNumbers
    <3>3. Builder!ElementAt(rows, i - 1 - rows.size)' = p
      BY <1>8, <3>1, Zenon DEF Builder!ElementAt, Builder!Place, Builder!FirstFree, Builder!Free, Builder!Capacity
    <3> QED
      BY <3>2, <3>3
  <2> QED
    BY <2>2, <2>3 DEF IsWritten
<1> QED
  BY <1>5, <1>8, <1>11, BlockExact

LEMMA BlockStepExact ==
  ASSUME SplitInv, ExactInv, host.pc = "running", NEW b \in Blocks, Block(b)
  PROVE  ExactInv'
<1>1. DOMAIN tile = Blocks
  BY Running
<1>2. CASE ScanStates(b)
  <2>1. UNCHANGED <<request, host, rows, chars>> /\ tile' = [tile EXCEPT ![b].pc = "states"]
    BY <1>2 DEF ScanStates, hostVars
  <2>2. \A c \in Blocks : tile'[c].pc = "done" => tile[c].pc = "done"
    <3> SUFFICES ASSUME NEW c \in Blocks, tile'[c].pc = "done" PROVE tile[c].pc = "done"
      OBVIOUS
    <3>1. CASE c = b
      <4>1. tile'[b] = [tile[b] EXCEPT !.pc = "states"]
        BY <1>1, <2>1
      <4>2. TileInv(b)
        BY Running
      <4>3. tile'[b].pc = "states"
        BY <4>1, <4>2 DEF TileInv
      <4> QED
        BY <3>1, <4>3
    <3>2. CASE c # b
      BY <1>1, <2>1, <3>2
    <3> QED
      BY <3>1, <3>2
  <2> QED
    BY <2>1, <2>2, QuietBlockExact
<1>3. CASE ScanCounts(b)
  <2>1. UNCHANGED <<request, host, rows, chars>> /\ tile' = [tile EXCEPT ![b] = [pc |-> "counts", matches |-> BlockMatches(b)]]
    BY <1>3 DEF ScanCounts, hostVars
  <2>2. \A c \in Blocks : tile'[c].pc = "done" => tile[c].pc = "done"
    BY <1>1, <2>1
  <2> QED
    BY <2>1, <2>2, QuietBlockExact
<1>4. CASE LookBackStates(b) \/ LookBackCounts(b)
  <2>1. UNCHANGED <<request, host, rows, chars, tile>>
    BY <1>4 DEF LookBackStates, LookBackCounts, hostVars
  <2> QED
    BY <2>1, QuietBlockExact
<1>5. CASE WriteOffsets(b)
  BY <1>5, WriteOffsetsExact
<1> QED
  BY <1>2, <1>3, <1>4, <1>5 DEF Block

LEMMA InitExact ==
  ASSUME Init
  PROVE  ExactInv
<1>1. host.pc = "start" /\ host.first = NoOffset /\ chars = Builder!NewBuilder /\ result = <<>>
  BY DEF Init
<1> QED
  BY <1>1 DEF ExactInv

LEMMA BeginExact ==
  ASSUME SplitInv, ExactInv, Begin
  PROVE  ExactInv'
<1>1. Asked /\ HostInv
  BY DEF SplitInv
<1>2. PICK next : next = NextChunk(Skip(reader, FirstOffset))
  OBVIOUS
<1>3. /\ host.pc = "start" /\ request.size > 0 /\ UNCHANGED <<request, rows, chars>>
      /\ host' = [host EXCEPT !.pc = "loop", !.chunk = next.bytes, !.chunkOffset = FirstOffset,
                              !.first = IF request.offset = 0 THEN 0 ELSE NoOffset]
  BY <1>2 DEF Begin
<1>4. /\ host.base = 0 /\ host.last = NoOffset /\ reader = [position |-> 0] /\ rows = Builder!NewBuilder
      /\ DOMAIN host = {"pc", "chunk", "chunkOffset", "base", "tiles", "first", "last"}
      /\ chars = Builder!NewBuilder
  BY <1>1, <1>3 DEF HostInv, ExactInv
<1>5. /\ host'.pc = "loop" /\ host'.chunk = next.bytes /\ host'.chunkOffset = FirstOffset /\ host'.base = 0
      /\ host'.last = NoOffset /\ host'.first = IF request.offset = 0 THEN 0 ELSE NoOffset
  BY <1>3, <1>4
<1>6. PICK m \in Nat, o \in Nat, p \in Nat : m = Len(Content) /\ o = FirstOffset /\ p = Lesser(o, m)
  <2>1. Len(request.text) \in Nat /\ FirstOffset \in Nat
    BY <1>1, Given
  <2>2. Len(Content) = Len(request.text)
    BY <1>1, ContentIs
  <2> QED
    BY <2>1, <2>2 DEF Lesser
<1>7. p <= m /\ p <= o
  BY <1>6 DEF Lesser
<1>8. Skip(reader, FirstOffset) = [position |-> p]
  <2>1. Len(Content) = Len(request.text)
    BY <1>1, ContentIs
  <2> QED
    BY <1>1, <1>6, <2>1 DEF Skip, IsBgzip, Asked
<1>9. Len(next.bytes) < ChunkBytes => p + Len(next.bytes) = m
  BY <1>1, <1>2, <1>6, <1>7, <1>8, ReadIs
<1>10. next.bytes = <<>> => o >= m
  <2>1. next.bytes = <<>> => Len(next.bytes) = 0
    OBVIOUS
  <2> QED
    BY <1>6, <1>7, <1>9, <2>1, ChunkIs
<1>11. Len(Content)' = m /\ FirstOffset' = o /\ Pos(0)' = o
  <2>1. Content' = Content /\ FirstOffset' = FirstOffset /\ Pos(0)' = Pos(0) /\ Pos(0) = FirstOffset
    BY <1>1, <1>3, SameText, Positions
  <2> QED
    BY <1>6, <2>1
<1>12. ReadInv'
  <2>1. Pos(host.base)' = o
    BY <1>5, <1>11 DEF Pos
  <2>2. host'.chunkOffset = o /\ o >= o /\ o <= o
    BY <1>5, <1>6
  <2>3. request'.size > 0
    BY <1>3
  <2> QED
    BY <1>5, <1>6, <1>10, <1>11, <2>1, <2>2, <2>3 DEF ReadInv
<1>13. PICK s, first, last : s = <<>> /\ first = host'.first /\ last = NoOffset
  OBVIOUS
<1>14. /\ BuilderInv(chars') /\ IsFilled(chars') /\ IsFilled(rows')
       /\ s = Builder!Gathered(rows') /\ s = Builder!Gathered(chars')
  BY <1>3, <1>4, <1>13, NewBuilderInv, NewBuilderFilled
<1>15. Len(s) = 0 /\ 1 .. Len(s) = {}
  BY <1>13
<1>16. OffsetsAre(s, first, last)
  BY <1>5, <1>13, <1>15 DEF OffsetsAre
<1>17. CopiedTo' = o
  BY <1>5, <1>6 DEF CopiedTo
<1>18. CharsAre(s, first, o)
  <2>1. first = NoOffset \/ first >= o
    <3>1. CASE request.offset = 0
      <4>1. o = 0
        <5>1. Width \in Nat /\ Width > 0
          BY <1>1, Given
        <5> QED
          BY <1>6, <3>1, <5>1 DEF FirstOffset, Greater, Width
      <4> QED
        BY <1>5, <1>13, <3>1, <4>1
    <3>2. CASE request.offset # 0
      BY <1>5, <1>13, <3>2
    <3> QED
      BY <3>1, <3>2
  <2> QED
    BY <1>15, <2>1 DEF CharsAre
<1> QED
  BY <1>3, <1>5, <1>12, <1>13, <1>14, <1>16, <1>17, <1>18, ExactNext

LEMMA LaunchExact ==
  ASSUME SplitInv, ExactInv, Launch
  PROVE  ExactInv'
<1>1. Asked /\ HostInv /\ RowsInv
  BY DEF SplitInv
<1>2. PICK tiles : tiles = (Len(host.chunk) + TileBytes - 1) \div TileBytes
  OBVIOUS
<1>3. /\ host.pc = "loop" /\ ~RangeIsDone /\ UNCHANGED <<request, chars>>
      /\ rows' = Builder!NextOutput(rows)
      /\ tile' = [b \in host.base .. host.base + tiles - 1 |-> [pc |-> "loaded", matches |-> {}]]
      /\ host' = [host EXCEPT !.pc = "running", !.tiles = tiles]
  BY <1>2 DEF Launch
<1>4. DOMAIN host = {"pc", "chunk", "chunkOffset", "base", "tiles", "first", "last"} /\ host.last = NoOffset
  BY <1>1, <1>3 DEF HostInv, RangeIsDone
<1>5. /\ host'.pc = "running" /\ host'.chunk = host.chunk /\ host'.chunkOffset = host.chunkOffset
      /\ host'.base = host.base /\ host'.tiles = tiles /\ host'.last = NoOffset /\ host'.first = host.first
  BY <1>3, <1>4
<1>6. /\ BuilderInv(chars) /\ IsFilled(chars) /\ IsFilled(rows) /\ ReadInv
      /\ OffsetsAre(Offsets, host.first, host.last) /\ CharsAre(Copied, host.first, CopiedTo)
  BY <1>3 DEF ExactInv
<1>7. IsFilled(rows') /\ Builder!Gathered(rows') = Offsets
  BY <1>1, <1>3, <1>6, NextOutputGathers DEF RowsInv, Offsets
<1>8. BuilderInv(chars') /\ IsFilled(chars') /\ Builder!Gathered(chars') = Copied
  BY <1>3, <1>6 DEF Copied
<1>9. CopiedTo = host.chunkOffset /\ CopiedTo' = host.chunkOffset
  BY <1>4, <1>5 DEF CopiedTo
<1>10. ReadInv'
  <2>1. UNCHANGED <<FirstOffset, Content>> /\ Pos(host.base)' = Pos(host.base)
    BY <1>3, <1>5, SameText DEF Pos
  <2>2. request' = request
    BY <1>3
  <2> QED
    BY <1>3, <1>5, <1>6, <2>1, <2>2 DEF ReadInv
<1>11. WrittenInv'
  <2>1. \A b \in Blocks' : tile'[b].pc # "done"
    BY <1>3, <1>5 DEF Blocks
  <2> QED
    BY <2>1 DEF WrittenInv
<1>12. PICK s, t, first, last, to :
         s = Offsets /\ t = Copied /\ first = host.first /\ last = NoOffset /\ to = host.chunkOffset
  OBVIOUS
<1>13. OffsetsAre(s, first, last) /\ CharsAre(t, first, to)
  BY <1>4, <1>6, <1>9, <1>12
<1>14. /\ s = Builder!Gathered(rows') /\ t = Builder!Gathered(chars') /\ first = host'.first /\ last = host'.last
       /\ to = CopiedTo'
  BY <1>5, <1>7, <1>8, <1>9, <1>12
<1> QED
  BY <1>3, <1>5, <1>7, <1>8, <1>10, <1>11, <1>13, <1>14, ExactNext

(***************************************************************************)
(* A kernel has ended.                                                      *)
(***************************************************************************)
\* All that its tiles have is written, each at its number.
LEMMA AllWritten ==
  ASSUME SplitInv, ExactInv, host.pc = "running", \A b \in Blocks : tile[b].pc = "done",
         NEW i \in rows.size + 1 .. Number(Pos(host.base + host.tiles))
  PROVE  IsNth(Builder!ElementAt(rows, i - 1 - rows.size), i)
<1>1. Asked /\ Loaded /\ TilesPerChunk \in Nat
  BY Running, Sizes
<1>2. PICK base \in Nat, tiles \in Nat : base = host.base /\ tiles = host.tiles /\ tiles > 0
  BY <1>1 DEF Loaded
<1>3. Blocks = base .. base + tiles - 1 /\ base \in Blocks
  BY <1>2 DEF Blocks
<1>4. rows.size \in Nat /\ rows.size = Number(Pos(base))
  BY <1>2, <1>3, NumbersOfTile
<1>5. \A c \in Nat : Pos(c) \in Nat /\ Number(Pos(c)) \in Nat
  BY <1>1, Positions, NumberIs
<1>6. i \in Nat /\ i > rows.size /\ i <= Number(Pos(base + tiles)) /\ base + tiles \in Nat
  BY <1>2, <1>4, <1>5
<1> DEFINE S == {c \in Nat : c >= base /\ i <= Number(Pos(c))}
<1>7. base + tiles \in S /\ S \subseteq Nat
  BY <1>6
<1>8. PICK c \in S : \A d \in S : ~(d < c)
  BY <1>7, ALeast
<1>9. c \in Nat /\ c >= base /\ c <= base + tiles /\ i <= Number(Pos(c))
  BY <1>7, <1>8
<1>10. c # base
  BY <1>4, <1>5, <1>6, <1>9
<1>11. PICK b \in Nat : b + 1 = c /\ b >= base /\ b < c /\ b <= base + tiles - 1
  <2>1. c - 1 \in Nat /\ (c - 1) + 1 = c /\ c - 1 >= base /\ c - 1 < c /\ c - 1 <= base + tiles - 1
    BY <1>9, <1>10
  <2> QED
    BY <2>1
<1>12. b \in Blocks
  BY <1>3, <1>11
<1>13. b \notin S
  BY <1>8, <1>11
<1>14. ~(i <= Number(Pos(b)))
  BY <1>11, <1>13
<1>15. i \in Number(Pos(b)) + 1 .. Number(Pos(b + 1))
  BY <1>5, <1>6, <1>9, <1>11, <1>14
<1>16. IsWritten(b)
  BY <1>12 DEF ExactInv, WrittenInv
<1> QED
  BY <1>15, <1>16 DEF IsWritten

\* The delimiters of its tiles end in the chunk.
LEMMA EndsInChunk ==
  ASSUME SplitInv, host.pc = "running", NEW p, NEW i \in rows.size + 1 .. Number(Pos(host.base + host.tiles)),
         IsNth(p, i)
  PROVE  p \in Nat /\ p > host.chunkOffset /\ p <= host.chunkOffset + Len(host.chunk)
<1>1. Asked /\ Loaded /\ TilesPerChunk \in Nat /\ TileBytes \in Nat
  BY Running, Sizes
<1>2. PICK base \in Nat, tiles \in Nat : base = host.base /\ tiles = host.tiles /\ tiles > 0
  BY <1>1 DEF Loaded
<1>3. base \in Blocks
  BY <1>2 DEF Blocks
<1>4. PICK o \in Nat, n \in Nat, m \in Nat, q \in Nat, w \in Nat :
        /\ o = host.chunkOffset /\ n = Len(host.chunk) /\ m = Len(Content) /\ q = Pos(base + tiles)
        /\ w = tiles * TileBytes
  <2>1. host.chunkOffset \in Nat /\ Pos(base + tiles) \in Nat
    <3>1. Pos(base) \in Nat /\ Pos(base + tiles) \in Nat
      BY <1>1, <1>2, Positions
    <3> QED
      BY <1>1, <1>2, <3>1 DEF Loaded, IsChunk
  <2>2. Len(host.chunk) \in Nat
    BY <1>1 DEF Loaded, IsChunk
  <2>3. Len(Content) \in Nat
    BY <1>1, ContentIs
  <2>4. tiles * TileBytes \in Nat
    BY <1>1, <1>2
  <2> QED
    BY <2>1, <2>2, <2>3, <2>4
<1>5. o = Pos(base) /\ n \in 1 .. w /\ (n < w => o + n = m)
  BY <1>1, <1>2, <1>4 DEF Loaded, IsChunk
<1>6. q = o + w
  <2>1. (base + tiles) * TileBytes = base * TileBytes + tiles * TileBytes /\ base * TileBytes \in Nat
    BY <1>1
  <2>2. FirstOffset \in Nat
    BY <1>1, Given
  <2> QED
    BY <1>4, <1>5, <2>1, <2>2 DEF Pos
<1>7. rows.size \in Nat /\ rows.size = Number(o)
  BY <1>2, <1>3, <1>5, NumbersOfTile
<1>8. Number(q) \in Nat /\ i \in rows.size + 1 .. Number(q)
  BY <1>1, <1>2, <1>4, NumberIs
<1>9. i \in Nat /\ i > rows.size /\ i \in 1 .. Number(q)
  BY <1>7, <1>8
<1>10. FirstOffset \in Nat /\ FirstOffset <= o /\ FirstOffset <= q
  <2>1. base + tiles \in Nat
    OBVIOUS
  <2>2. FirstOffset \in Nat /\ Pos(base) >= FirstOffset /\ Pos(base + tiles) >= FirstOffset
    BY <1>1, <2>1, Positions
  <2> QED
    BY <1>4, <1>5, <2>2
<1>11. p \in Nat /\ p > FirstOffset /\ Number(p) = i /\ IsFound(p)
  BY DEF IsNth
<1>12. p > o
  <2> SUFFICES ASSUME p <= o PROVE FALSE
    BY <1>11
  <2>1. Number(p) <= Number(o)
    BY <1>1, <1>10, <1>11, NumberGrows
  <2> QED
    BY <1>7, <1>9, <1>11, <2>1
<1>13. p <= q
  <2>1. PICK r \in Nat : IsNth(r, i) /\ r <= q
    BY <1>1, <1>9, <1>10, NthExists
  <2>2. r = p
    BY <1>1, <2>1, NthInOrder
  <2> QED
    BY <2>1, <2>2
<1>14. p <= m
  <2>1. p \in DOMAIN Content /\ DOMAIN Content = 1 .. m
    BY <1>1, <1>4, <1>11, ContentIs DEF IsFound
  <2> QED
    BY <2>1
<1>15. p <= o + n
  BY <1>5, <1>6, <1>11, <1>13, <1>14
<1> QED
  BY <1>4, <1>11, <1>12, <1>15

\* What is kept: the next numbers, up to the first that is not in the range.
LEMMA KeptAre ==
  ASSUME SplitInv, ExactInv, host.pc = "running", \A b \in Blocks : tile[b].pc = "done", NEW new, new = NewOffsets
  PROVE  /\ rows.size \in Nat /\ new.kept \in 0 .. ChunkBytes
         /\ \A j \in 0 .. new.kept - 1 :
              LET p == Builder!ElementAt(rows, j)
              IN  /\ IsNth(p, rows.size + j + 1) /\ p > host.chunkOffset /\ p <= host.chunkOffset + Len(host.chunk)
                  /\ p < RangeEnd \/ (j = new.kept - 1 /\ new.last)
         /\ new.last => new.kept > 0 /\ Builder!ElementAt(rows, new.kept - 1) >= RangeEnd
<1>1. Asked /\ Loaded /\ TilesPerChunk \in Nat
  BY Running, Sizes
<1>2. PICK base \in Nat, tiles \in Nat : base = host.base /\ tiles = host.tiles /\ tiles > 0
  BY <1>1 DEF Loaded
<1>3. PICK size \in Nat, all \in Nat : size = rows.size /\ all = Number(Pos(base + tiles))
  <2>1. base \in Blocks
    BY <1>2 DEF Blocks
  <2>2. Pos(base + tiles) \in Nat
    BY <1>1, <1>2, Positions
  <2> QED
    BY <1>1, <2>1, <2>2, NumbersOfTile, NumberIs
<1>4. PICK k \in Nat : k = new.kept /\ k <= ChunkBytes /\ size + k <= all
  <2>1. new.kept \in 0 .. ChunkBytes /\ size + new.kept <= all
    BY <1>2, <1>3, NewOffsetsAre DEF Number
  <2> QED
    BY <2>1, ChunkIs
<1>5. PICK o \in Nat, n \in Nat, e \in Nat : o = host.chunkOffset /\ n = Len(host.chunk) /\ e = RangeEnd
  <2>1. host.chunkOffset \in Nat
    BY <1>1, <1>2, Positions DEF Loaded, IsChunk
  <2>2. Len(host.chunk) \in Nat
    BY <1>1 DEF Loaded, IsChunk
  <2> QED
    BY <1>1, <2>1, <2>2, Given
<1>6. ASSUME NEW j \in 0 .. k - 1
      PROVE  /\ IsNth(Builder!ElementAt(rows, j), size + j + 1) /\ Builder!ElementAt(rows, j) \in Nat
             /\ Builder!ElementAt(rows, j) > o /\ Builder!ElementAt(rows, j) <= o + n
  <2>1. PICK i \in Nat : i = size + j + 1
    OBVIOUS
  <2>2. i \in size + 1 .. all /\ i - 1 - size = j
    BY <1>4, <2>1
  <2>3. IsNth(Builder!ElementAt(rows, j), i)
    <3>1. i \in rows.size + 1 .. Number(Pos(host.base + host.tiles)) /\ i - 1 - rows.size = j
      BY <1>2, <1>3, <2>2
    <3>2. IsNth(Builder!ElementAt(rows, i - 1 - rows.size), i)
      BY <3>1, AllWritten
    <3> QED
      BY <3>1, <3>2
  <2>4. PICK p : p = Builder!ElementAt(rows, j)
    OBVIOUS
  <2>5. p \in Nat /\ p > host.chunkOffset /\ p <= host.chunkOffset + Len(host.chunk)
    <3>1. i \in rows.size + 1 .. Number(Pos(host.base + host.tiles)) /\ IsNth(p, i)
      BY <1>2, <1>3, <2>2, <2>3, <2>4
    <3> QED
      BY <3>1, EndsInChunk
  <2> QED
    BY <1>5, <2>1, <2>3, <2>4, <2>5
<1>7. new.last => /\ k > 0 /\ Builder!ElementAt(rows, k - 1) >= e
                  /\ \A j \in 0 .. k - 2 : ~(Builder!ElementAt(rows, j) >= e)
  BY <1>4, <1>5, NewOffsetsAre
<1>8. ~new.last => o + n < e \/ \A j \in 0 .. k - 1 : ~(Builder!ElementAt(rows, j) >= e)
  BY <1>4, <1>5, NewOffsetsAre
<1>9. ASSUME NEW j \in 0 .. k - 1
      PROVE  Builder!ElementAt(rows, j) < e \/ (j = k - 1 /\ new.last)
  <2>1. PICK p \in Nat : p = Builder!ElementAt(rows, j) /\ p <= o + n
    BY <1>6
  <2>2. CASE new.last
    <3>1. j = k - 1 \/ j \in 0 .. k - 2
      OBVIOUS
    <3> QED
      BY <1>7, <2>1, <2>2, <3>1
  <2>3. CASE ~new.last
    BY <1>8, <2>1, <2>3
  <2> QED
    BY <2>2, <2>3
<1>10. k \in 0 .. ChunkBytes
  BY <1>4, ChunkIs
<1> QED
  BY <1>3, <1>4, <1>5, <1>6, <1>7, <1>9, <1>10

LEMMA CollectExact ==
  ASSUME SplitInv, ExactInv, Collect
  PROVE  ExactInv'
<1>1. PICK new : new = NewOffsets
  OBVIOUS
<1>2. PICK kept : kept = Builder!Advanced(rows, new.kept)
  OBVIOUS
<1>3. /\ host.pc = "running" /\ (\A b \in Blocks : tile[b].pc = "done") /\ rows' = kept
      /\ UNCHANGED <<request, chars>>
      /\ host' = [host EXCEPT !.pc = "copy",
                    !.first = IF @ = NoOffset /\ new.kept > 0 THEN Builder!FrontElement(kept) ELSE @,
                    !.last = IF new.last THEN Builder!BackElement(kept) ELSE @]
  BY <1>1, <1>2 DEF Collect
<1>4. /\ Asked /\ BuilderInv(rows) /\ HasRoom(rows) /\ host.last = NoOffset /\ Loaded
      /\ DOMAIN host = {"pc", "chunk", "chunkOffset", "base", "tiles", "first", "last"}
  BY <1>3, Running DEF SplitInv, HostInv
<1>5. /\ host'.pc = "copy" /\ host'.chunk = host.chunk /\ host'.chunkOffset = host.chunkOffset
      /\ host'.base = host.base
      /\ host'.last = IF new.last THEN Builder!BackElement(kept) ELSE NoOffset
      /\ host'.first = IF host.first = NoOffset /\ new.kept > 0 THEN Builder!FrontElement(kept) ELSE host.first
  BY <1>3, <1>4
<1>6. /\ BuilderInv(chars) /\ IsFilled(chars) /\ IsFilled(rows) /\ ReadInv
      /\ OffsetsAre(Offsets, host.first, host.last) /\ CharsAre(Copied, host.first, CopiedTo)
  BY <1>3 DEF ExactInv
<1>7. PICK n \in Nat, k \in Nat : n = rows.size /\ k = new.kept /\ k \in 0 .. ChunkBytes
  <2>1. rows.size \in Nat /\ new.kept \in 0 .. ChunkBytes
    BY <1>1, <1>3, KeptAre
  <2> QED
    BY <2>1, ChunkIs
<1>8. PICK o \in Nat, c \in Nat, e \in Nat : o = host.chunkOffset /\ c = Len(host.chunk) /\ e = RangeEnd
  <2>1. host.chunkOffset \in Nat
    BY <1>6 DEF ReadInv
  <2>2. Len(host.chunk) \in Nat
    BY <1>4 DEF Loaded, IsChunk
  <2> QED
    BY <1>4, <2>1, <2>2, Given
<1>9. ASSUME NEW j \in 0 .. k - 1
      PROVE  /\ IsNth(Builder!ElementAt(rows, j), n + j + 1)
             /\ Builder!ElementAt(rows, j) > o /\ Builder!ElementAt(rows, j) <= o + c
             /\ Builder!ElementAt(rows, j) < e \/ (j = k - 1 /\ new.last)
  BY <1>1, <1>3, <1>7, <1>8, KeptAre
<1>10. new.last => k > 0 /\ Builder!ElementAt(rows, k - 1) >= e
  BY <1>1, <1>3, <1>7, <1>8, KeptAre
<1>11. PICK s, s1 : s = Offsets /\ s1 = Builder!Gathered(kept)
  OBVIOUS
<1>12. /\ BuilderInv(kept) /\ kept.size = n + k
       /\ k > 0 => Builder!BackElement(kept) = Builder!ElementAt(rows, k - 1)
  BY <1>2, <1>4, <1>7, AdvancedKeeps
<1>13. /\ IsFilled(kept) /\ \A i \in 1 .. n : s1[i] = s[i]
       /\ \A j \in 0 .. k - 1 : s1[n + j + 1] = Builder!ElementAt(rows, j)
  BY <1>2, <1>4, <1>6, <1>7, <1>11, AdvancedGathers DEF Offsets
<1>14. Len(s) = n /\ Len(s1) = n + k
  BY <1>6, <1>7, <1>11, <1>12, <1>13 DEF IsFilled, Offsets
<1>15. /\ \A i \in 1 .. n : IsNth(s[i], i) /\ s[i] < e
       /\ host.first = IF request.offset = 0 THEN 0 ELSE IF n = 0 THEN NoOffset ELSE s[1]
  BY <1>4, <1>6, <1>8, <1>11, <1>14 DEF OffsetsAre
<1>16. ASSUME NEW i \in 1 .. n + k, i > n
       PROVE  IsNth(s1[i], i) /\ s1[i] > o /\ s1[i] <= o + c /\ (s1[i] < e \/ (i = n + k /\ new.last))
  <2>1. PICK j \in 0 .. k - 1 : i = n + j + 1
    <3>1. i - n - 1 \in 0 .. k - 1 /\ i = n + (i - n - 1) + 1
      BY <1>16
    <3> QED
      BY <3>1
  <2>2. s1[i] = Builder!ElementAt(rows, j)
    BY <1>13, <2>1
  <2>3. j = k - 1 => i = n + k
    BY <2>1
  <2> QED
    BY <1>9, <2>1, <2>2, <2>3
<1>17. ASSUME NEW i \in 1 .. n + k
       PROVE  IsNth(s1[i], i) /\ (s1[i] < e \/ (i = n + k /\ new.last))
  <2>1. CASE i <= n
    BY <1>13, <1>15, <2>1
  <2>2. CASE i > n
    BY <1>16, <2>2
  <2> QED
    BY <2>1, <2>2
<1>18. PICK last : last = host'.last
  OBVIOUS
<1>19. ASSUME new.last
       PROVE  /\ n + k > 0 /\ last = s1[n + k] /\ last >= e /\ last > o /\ last <= o + c /\ last # NoOffset
  <2>1. k > 0 /\ k - 1 \in 0 .. k - 1 /\ n + (k - 1) + 1 = n + k
    BY <1>10, <1>19
  <2>2. last = Builder!ElementAt(rows, k - 1)
    BY <1>5, <1>12, <1>18, <1>19, <2>1
  <2>3. s1[n + k] = Builder!ElementAt(rows, k - 1)
    BY <1>13, <2>1
  <2>4. IsNth(last, n + (k - 1) + 1) /\ last > o /\ last <= o + c
    BY <1>9, <2>1, <2>2
  <2>5. last \in Nat
    BY <2>4 DEF IsNth
  <2>6. last >= e
    BY <1>10, <1>19, <2>2
  <2> QED
    BY <2>1, <2>2, <2>3, <2>4, <2>5, <2>6 DEF NoOffset
<1>20. ~new.last => last = NoOffset
  BY <1>5, <1>18
<1>21. PICK first : first = host'.first
  OBVIOUS
<1>22. first = IF request.offset = 0 THEN 0 ELSE IF n + k = 0 THEN NoOffset ELSE s1[1]
  <2>1. CASE request.offset = 0
    BY <1>5, <1>15, <1>21, <2>1 DEF NoOffset
  <2>2. CASE request.offset # 0 /\ n = 0
    <3>1. host.first = NoOffset
      BY <1>15, <2>2
    <3>2. CASE k = 0
      BY <1>5, <1>7, <1>21, <2>2, <3>1, <3>2
    <3>3. CASE k > 0
      <4>1. kept.size > 0
        BY <1>12, <2>2, <3>3
      <4>2. Builder!FrontElement(kept) = s1[1]
        BY <1>11, <1>12, <1>13, <4>1, FrontIs
      <4> QED
        BY <1>5, <1>7, <1>21, <2>2, <3>1, <3>3, <4>2
    <3> QED
      BY <3>2, <3>3
  <2>3. CASE request.offset # 0 /\ n # 0
    <3>1. 1 \in 1 .. n /\ n + k # 0
      BY <2>3
    <3>2. host.first = s[1] /\ s1[1] = s[1] /\ s[1] \in Nat
      BY <1>13, <1>15, <2>3, <3>1 DEF IsNth
    <3>3. host.first # NoOffset
      BY <3>2 DEF NoOffset
    <3> QED
      BY <1>5, <1>21, <2>3, <3>1, <3>2, <3>3
  <2> QED
    BY <2>1, <2>2, <2>3
<1>23. OffsetsAre(s1, first, last)
  <2>1. last # NoOffset => new.last
    BY <1>20
  <2> QED
    BY <1>8, <1>14, <1>17, <1>19, <1>22, <2>1 DEF OffsetsAre
<1>24. CopiedTo = o /\ CopiedTo' = o
  BY <1>3, <1>5, <1>8 DEF CopiedTo
<1>25. CharsAre(Copied, first, o)
  <2>1. CharsAre(Copied, host.first, o)
    BY <1>6, <1>24
  <2>2. CASE first = host.first
    BY <2>1, <2>2
  <2>3. CASE first # host.first
    <3>1. host.first = NoOffset /\ k > 0
      BY <1>5, <1>7, <1>21, <2>3
    <3>2. n = 0 /\ request.offset # 0
      <4>1. request.offset # 0
        BY <1>15, <3>1 DEF NoOffset
      <4>2. n # 0 => s[1] \in Nat
        <5>1. n # 0 => 1 \in 1 .. n
          OBVIOUS
        <5> QED
          BY <1>15, <5>1 DEF IsNth
      <4> QED
        BY <1>15, <3>1, <4>1, <4>2 DEF NoOffset
    <3>3. first = s1[1] /\ 1 \in 1 .. n + k /\ 1 > n
      BY <1>22, <3>1, <3>2
    <3>4. first > o
      BY <1>16, <3>3
    <3>5. first \in Nat
      BY <1>17, <3>3 DEF IsNth
    <3>6. first >= o
      BY <3>4, <3>5
    <3> QED
      BY <2>1, <3>1, <3>6 DEF CharsAre
  <2> QED
    BY <2>2, <2>3
<1>26. ReadInv'
  <2>1. UNCHANGED <<FirstOffset, Content>> /\ Pos(host.base)' = Pos(host.base)
    BY <1>3, <1>5, SameText DEF Pos
  <2>2. request' = request
    BY <1>3
  <2>3. host'.last # NoOffset => host'.last > host'.chunkOffset /\ host'.last <= host'.chunkOffset + Len(host'.chunk)
    BY <1>5, <1>8, <1>18, <1>19, <1>20
  <2> QED
    BY <1>3, <1>5, <1>6, <2>1, <2>2, <2>3 DEF ReadInv
<1>27. BuilderInv(chars') /\ IsFilled(chars') /\ Copied = Builder!Gathered(chars')
  BY <1>3, <1>6 DEF Copied
<1>28. PICK t : t = Copied
  OBVIOUS
<1>29. /\ s1 = Builder!Gathered(rows') /\ t = Builder!Gathered(chars') /\ CharsAre(t, first, o)
       /\ IsFilled(rows')
  BY <1>3, <1>11, <1>13, <1>25, <1>27, <1>28
<1> QED
  BY <1>3, <1>5, <1>18, <1>21, <1>23, <1>24, <1>26, <1>27, <1>29, ExactNext

(***************************************************************************)
(* The characters of a chunk are copied.                                     *)
(***************************************************************************)
\* One round of a builder: room is made, elements are written and kept.
Filling(b, k, out) ==
  Builder!Advanced(Builder!Written(Builder!NextOutput(b), [i \in 0 .. k - 1 |-> out[i + 1]]), k)
Appended(r, b, l, k, out) ==
  /\ BuilderInv(r) /\ IsFilled(r) /\ Len(Builder!Gathered(r)) = l + k
  /\ \A i \in 1 .. l : Builder!Gathered(r)[i] = Builder!Gathered(b)[i]
  /\ \A j \in 1 .. k : Builder!Gathered(r)[l + j] = out[j]
LEMMA BuilderAppends ==
  ASSUME NEW b, BuilderInv(b), IsFilled(b), NEW l \in Nat, l = Len(Builder!Gathered(b)),
         NEW k \in 0 .. ChunkBytes, NEW out, \A i \in 1 .. k : out[i] \in Int,
         NEW r, r = Filling(b, k, out)
  PROVE  Appended(r, b, l, k, out)
<1>1. PICK w : w = [i \in 0 .. k - 1 |-> out[i + 1]]
  OBVIOUS
<1>2. PICK b1 : b1 = Builder!NextOutput(b)
  OBVIOUS
<1>3. PICK b2 : b2 = Builder!Written(b1, w)
  OBVIOUS
<1>4. r = Builder!Advanced(b2, k)
  BY <1>1, <1>2, <1>3 DEF Filling
<1>5. /\ BuilderInv(b1) /\ HasRoom(b1) /\ b1.size = b.size
      /\ IsFilled(b1) /\ Builder!Gathered(b1) = Builder!Gathered(b)
  BY <1>2, NextOutputMakesRoom, NextOutputGathers
<1>6. k \in Nat /\ k <= ChunkBytes /\ ChunkBytes \in Nat
  BY ChunkIs
<1>7. DOMAIN w = 0 .. k - 1 /\ DOMAIN w \subseteq 0 .. ChunkBytes - 1 /\ \A i \in DOMAIN w : w[i] \in Int
  BY <1>1, <1>6
<1>8. BuilderInv(b2) /\ HasRoom(b2) /\ b2.size = b.size
  BY <1>3, <1>5, WrittenKeeps
<1>9. IsFilled(b2) /\ Builder!Gathered(b2) = Builder!Gathered(b)
  BY <1>3, <1>5, <1>7, WrittenGathers
<1>10. BuilderInv(r) /\ r.size = b.size + k
  BY <1>4, <1>8, AdvancedKeeps
<1>11. /\ IsFilled(r)
       /\ \A i \in 1 .. b2.size : Builder!Gathered(r)[i] = Builder!Gathered(b2)[i]
       /\ \A j \in 0 .. k - 1 : Builder!Gathered(r)[b2.size + j + 1] = Builder!ElementAt(b2, j)
  BY <1>4, <1>8, <1>9, AdvancedGathers
<1>12. l = b.size
  BY DEF IsFilled
<1>13. Len(Builder!Gathered(r)) = l + k
  BY <1>10, <1>11, <1>12 DEF IsFilled
<1>14. ASSUME NEW j \in 1 .. k
       PROVE  Builder!Gathered(r)[l + j] = out[j]
  <2>1. PICK i \in 0 .. k - 1 : i + 1 = j /\ i \in 0 .. ChunkBytes - 1
    <3>1. j - 1 \in 0 .. k - 1 /\ (j - 1) + 1 = j /\ j - 1 \in 0 .. ChunkBytes - 1
      BY <1>6
    <3> QED
      BY <3>1
  <2>2. Builder!ElementAt(b2, i) = w[i]
    <3>1. Builder!ElementAt(Builder!Written(b1, w), i) = IF i \in DOMAIN w THEN w[i] ELSE Builder!ElementAt(b1, i)
      BY <1>5, <1>7, <2>1, WrittenElements, Zenon
    <3> QED
      <4>1. i \in DOMAIN w
        BY <1>7, <2>1
      <4> QED
        BY <1>3, <3>1, <4>1
  <2>3. b2.size + i + 1 = l + j
    <3>1. b2.size = l
      BY <1>8, <1>12
    <3>2. l + i + 1 = l + j
      BY <1>6, <2>1
    <3> QED
      BY <3>1, <3>2
  <2> QED
    BY <1>1, <1>11, <2>1, <2>2, <2>3
<1> QED
  BY <1>8, <1>9, <1>10, <1>11, <1>12, <1>13, <1>14 DEF Appended

\* Where the first and the last row begin.
LEMMA FirstAndLast ==
  ASSUME NEW s, Len(s) \in Nat, NEW first, NEW last, OffsetsAre(s, first, last), request.offset \in Nat
  PROVE  /\ first = NoOffset \/ first \in Nat
         /\ last = NoOffset \/ last \in Nat
         /\ first = NoOffset => last = NoOffset /\ Len(s) = 0
<1>1. \A i \in 1 .. Len(s) : s[i] \in Nat
  BY DEF OffsetsAre, IsNth
<1>2. last = NoOffset \/ last \in Nat
  BY <1>1 DEF OffsetsAre
<1>3. request.offset # 0 /\ Len(s) # 0 => 1 \in 1 .. Len(s) /\ first = s[1]
  BY DEF OffsetsAre
<1>4. first = NoOffset => Len(s) = 0
  BY <1>1, <1>3 DEF OffsetsAre, NoOffset
<1>5. first = NoOffset \/ first \in Nat
  BY <1>1, <1>3 DEF OffsetsAre
<1> QED
  BY <1>2, <1>4, <1>5 DEF OffsetsAre

\* What is copied of a chunk.
InCopy(o, n, first, to) ==
  /\ o = host.chunkOffset /\ n = Len(host.chunk) /\ first = host.first
  /\ host.last = NoOffset => to = o + n
  /\ host.last # NoOffset => to = host.last
LEMMA OutputIs ==
  ASSUME SplitInv, host.pc = "copy", ReadInv,
         NEW o \in Nat, NEW n \in Nat, NEW first \in Nat, NEW to \in Nat, InCopy(o, n, first, to)
  PROVE  /\ Len(Output) = (IF first >= to THEN 0 ELSE to - Greater(o, first)) /\ Len(Output) \in 0 .. ChunkBytes
         /\ \A i \in 1 .. Len(Output) : Output[i] = Content[Greater(o, first) + i] /\ Output[i] \in Int
<1>1. /\ host.chunk \in Seq(Nat) /\ n \in 1 .. ChunkBytes
      /\ \A p \in 1 .. n : host.chunk[p] = Content[o + p] /\ host.chunk[p] \in Nat
  <2>1. IsChunk(ChunkBytes)
    BY DEF SplitInv, HostInv
  <2>2. DOMAIN host.chunk = 1 .. n
    BY <2>1 DEF IsChunk, InCopy
  <2>3. \A p \in 1 .. n : host.chunk[p] \in Nat
    BY <2>1, ElementOfSeq DEF IsChunk, InCopy
  <2> QED
    BY <2>1, <2>2, <2>3 DEF IsChunk, InCopy
<1>2. ChunkBytes \in Nat /\ n <= ChunkBytes /\ n > 0
  BY <1>1, ChunkIs
<1>3. to > o /\ to <= o + n
  BY <1>2 DEF ReadInv, InCopy
<1>4. PICK begin \in Nat, end \in Nat : begin = Greater(o, first) - o /\ end = to - o /\ end <= n
  <2>1. Greater(o, first) - o \in Nat /\ to - o \in Nat /\ to - o <= n
    BY <1>3 DEF Greater
  <2> QED
    BY <2>1
<1>5. PICK out : out = Output
  OBVIOUS
<1>6. out = SubSeq(host.chunk, begin + 1, end)
  <2>1. Greater(0, first - o) = begin
    BY <1>4 DEF Greater
  <2>2. host.last # NoOffset => Lesser(to - o, n) = end
    BY <1>4 DEF Lesser
  <2>3. host.last = NoOffset => n = end
    BY <1>4 DEF InCopy
  <2> QED
    BY <1>5, <2>1, <2>2, <2>3 DEF Output, InCopy
<1>7. PICK k \in Nat : /\ k = IF begin >= end THEN 0 ELSE end - begin
                       /\ Len(out) = k
                       /\ \A i \in 1 .. k : out[i] = host.chunk[begin + i]
  <2>1. PICK m \in Nat : m = begin + 1
    BY <1>4
  <2>2. ASSUME NEW i \in m .. end
        PROVE  host.chunk[i] \in Nat
    <3>1. i \in 1 .. n
      BY <1>4, <2>1
    <3> QED
      BY <1>1, <3>1
  <2>3. /\ Len(out) = IF m <= end THEN end - m + 1 ELSE 0
        /\ \A i \in 1 .. end - m + 1 : out[i] = host.chunk[m + i - 1]
    <3>1. m \in Int /\ end \in Int
      BY <1>4, <2>1
    <3>2. /\ Len(SubSeq(host.chunk, m, end)) = IF m <= end THEN end - m + 1 ELSE 0
          /\ \A i \in 1 .. end - m + 1 : SubSeq(host.chunk, m, end)[i] = host.chunk[m + i - 1]
      <4>1. \A i \in m .. end : host.chunk[i] \in Nat
        BY <2>2
      <4>2. PICK s : s = host.chunk
        OBVIOUS
      <4>3. /\ Len(SubSeq(s, m, end)) = IF m <= end THEN end - m + 1 ELSE 0
            /\ \A i \in 1 .. end - m + 1 : SubSeq(s, m, end)[i] = s[m + i - 1]
        BY <3>1, <4>1, <4>2, SubSeqProperties
      <4> QED
        BY <4>2, <4>3
    <3> QED
      BY <1>6, <2>1, <3>2
  <2>4. PICK k \in Nat : k = IF begin >= end THEN 0 ELSE end - begin
    <3>1. (IF begin >= end THEN 0 ELSE end - begin) \in Nat
      BY <1>4
    <3> QED
      BY <3>1
  <2>5. Len(out) = k
    BY <1>4, <2>1, <2>3, <2>4
  <2>6. ASSUME NEW i \in 1 .. k
        PROVE  out[i] = host.chunk[begin + i]
    <3>1. i \in 1 .. end - m + 1 /\ m + i - 1 = begin + i
      BY <1>4, <2>1, <2>4
    <3> QED
      BY <2>3, <3>1
  <2> QED
    BY <2>4, <2>5, <2>6
<1>8. k = IF first >= to THEN 0 ELSE to - Greater(o, first)
  BY <1>3, <1>4, <1>7 DEF Greater
<1>9. k <= ChunkBytes
  BY <1>2, <1>4, <1>7
<1>10. ASSUME NEW i \in 1 .. k
       PROVE  out[i] = Content[Greater(o, first) + i] /\ out[i] \in Int
  <2>1. PICK p \in Nat : p = begin + i
    BY <1>7
  <2>2. p \in 1 .. n
    BY <1>4, <1>7, <2>1
  <2>3. o + p = Greater(o, first) + i
    BY <1>4, <2>1 DEF Greater
  <2>4. host.chunk[p] \in Nat
    BY <1>1, <2>2
  <2> QED
    <3>1. out[i] = host.chunk[p]
      BY <1>7, <2>1
    <3>2. host.chunk[p] = Content[o + p]
      BY <1>1, <2>2
    <3> QED
      BY <2>3, <2>4, <3>1, <3>2
<1> QED
  BY <1>2, <1>5, <1>7, <1>8, <1>9, <1>10

LEMMA CopyExact ==
  ASSUME SplitInv, ExactInv, Copy
  PROVE  ExactInv'
<1>1. Asked /\ HostInv
  BY DEF SplitInv
<1>2. PICK next : next = NextChunk(reader)
  OBVIOUS
<1>3. /\ host.pc = "copy" /\ UNCHANGED <<request, rows>>
      /\ host' = [host EXCEPT !.pc = "loop", !.base = @ + host.tiles,
                              !.chunkOffset = @ + Len(host.chunk), !.chunk = next.bytes]
      /\ chars' = IF host.first = NoOffset THEN chars
                  ELSE Builder!Advanced(Builder!Written(Builder!NextOutput(chars),
                                                        [i \in 0 .. Len(Output) - 1 |-> Output[i + 1]]),
                                        Len(Output))
  BY <1>2 DEF Copy
<1>4. /\ DOMAIN host = {"pc", "chunk", "chunkOffset", "base", "tiles", "first", "last"}
      /\ host.base \in Nat /\ host.tiles \in 1 .. TilesPerChunk
      /\ IsChunk(ChunkBytes) /\ IsChunk(host.tiles * TileBytes)
  BY <1>1, <1>3 DEF HostInv, Loaded
<1>5. PICK base \in Nat, tiles \in Nat, o \in Nat, n \in Nat, m \in Nat :
        /\ base = host.base /\ tiles = host.tiles /\ o = host.chunkOffset /\ n = Len(host.chunk) /\ m = Len(Content)
  <2>1. host.tiles \in Nat
    BY <1>4, Sizes
  <2>2. host.chunkOffset \in Nat
    BY <1>1, <1>4, Positions DEF IsChunk
  <2>3. Len(host.chunk) \in Nat
    BY <1>4 DEF IsChunk
  <2>4. Len(Content) \in Nat
    BY <1>1, ContentIs
  <2> QED
    BY <1>4, <2>1, <2>2, <2>3, <2>4
<1>6. n \in 1 .. ChunkBytes /\ o = Pos(base) /\ o + n <= m /\ n <= tiles * TileBytes /\ host.chunk # <<>>
  BY <1>4, <1>5 DEF IsChunk
<1>7. PICK p \in Nat : p = o + n /\ p <= m
  BY <1>6
<1>8. next.bytes = <<>> => p = m
  <2>1. reader = [position |-> p]
    BY <1>1, <1>3, <1>5, <1>6, <1>7 DEF HostInv
  <2>2. p <= Len(Content) /\ next = NextChunk([position |-> p])
    BY <1>2, <1>5, <1>7, <2>1
  <2>3. Len(next.bytes) < ChunkBytes => p + Len(next.bytes) = Len(Content)
    BY <1>1, <2>2, ReadIs
  <2>4. next.bytes = <<>> => Len(next.bytes) = 0
    OBVIOUS
  <2> QED
    BY <1>5, <1>7, <2>3, <2>4, ChunkIs
<1>9. /\ host'.pc = "loop" /\ host'.chunk = next.bytes /\ host'.chunkOffset = p
      /\ host'.base = base + tiles /\ host'.first = host.first /\ host'.last = host.last
  BY <1>3, <1>4, <1>5, <1>7
<1>10. /\ BuilderInv(chars) /\ IsFilled(chars) /\ IsFilled(rows) /\ ReadInv
       /\ OffsetsAre(Offsets, host.first, host.last) /\ CharsAre(Copied, host.first, CopiedTo)
  BY <1>3 DEF ExactInv
<1>11. PICK s, first, last : s = Offsets /\ first = host.first /\ last = host.last
  OBVIOUS
<1>12. /\ OffsetsAre(s, first, last) /\ Len(s) \in Nat
       /\ first = NoOffset \/ first \in Nat
       /\ last = NoOffset \/ last \in Nat
       /\ first = NoOffset => last = NoOffset
  <2>1. OffsetsAre(s, first, last)
    BY <1>10, <1>11
  <2>2. Len(s) \in Nat
    BY <1>10, <1>11, LenProperties DEF IsFilled, Offsets
  <2>3. request.offset \in Nat
    BY <1>1, Given
  <2> QED
    BY <2>1, <2>2, <2>3, FirstAndLast
<1>13. CopiedTo = o
  BY <1>3, <1>5 DEF CopiedTo
<1>14. PICK to \in Nat : to = (IF last = NoOffset THEN p ELSE last) /\ to > o /\ to <= o + n
  <2>1. last # NoOffset => last > o /\ last <= o + n
    BY <1>3, <1>5, <1>10, <1>11 DEF ReadInv
  <2>2. CASE last = NoOffset
    BY <1>6, <1>7, <2>2, ChunkIs
  <2>3. CASE last # NoOffset
    BY <1>12, <2>1, <2>3
  <2> QED
    BY <2>2, <2>3
<1>15. CopiedTo' = to
  BY <1>9, <1>11, <1>14 DEF CopiedTo
<1>16. PICK t, t1 : t = Copied /\ t1 = Builder!Gathered(chars')
  OBVIOUS
<1>17. CharsAre(t, first, o) /\ Len(t) \in Nat /\ t = Builder!Gathered(chars)
  <2>1. Len(t) \in Nat
    BY <1>10, <1>16, LenProperties DEF IsFilled, Copied
  <2> QED
    BY <1>10, <1>11, <1>13, <1>16, <2>1 DEF Copied
<1>18. BuilderInv(chars') /\ IsFilled(chars') /\ CharsAre(t1, first, to)
  <2>1. CASE first = NoOffset
    <3>1. chars' = chars
      BY <1>3, <1>11, <2>1
    <3>2. t1 = t
      BY <1>16, <1>17, <3>1
    <3> QED
      BY <1>10, <1>17, <2>1, <3>1, <3>2 DEF CharsAre
  <2>2. CASE first # NoOffset
    <3>1. PICK f \in Nat : f = first
      BY <1>12, <2>2
    <3>2. InCopy(o, n, f, to)
      BY <1>5, <1>7, <1>11, <1>14, <3>1 DEF InCopy
    <3>3. PICK out : out = Output
      OBVIOUS
    <3>4. PICK k \in 0 .. ChunkBytes :
            /\ k = Len(out) /\ k = IF f >= to THEN 0 ELSE to - Greater(o, f)
            /\ \A i \in 1 .. k : out[i] = Content[Greater(o, f) + i] /\ out[i] \in Int
      BY <1>3, <1>10, <3>2, <3>3, OutputIs
    <3>5. chars' = Builder!Advanced(Builder!Written(Builder!NextOutput(chars), [i \in 0 .. k - 1 |-> out[i + 1]]), k)
      BY <1>3, <1>11, <2>2, <3>3, <3>4
    <3>6. PICK l \in Nat : l = Len(t)
      BY <1>17
    <3>7. /\ BuilderInv(chars') /\ IsFilled(chars') /\ Len(t1) = l + k
          /\ \A i \in 1 .. l : t1[i] = t[i]
          /\ \A j \in 1 .. k : t1[l + j] = out[j]
      <4>1. l = Len(Builder!Gathered(chars)) /\ \A i \in 1 .. k : out[i] \in Int
        BY <1>17, <3>4, <3>6
      <4>2. PICK r : r = chars'
        OBVIOUS
      <4>3. /\ BuilderInv(r) /\ IsFilled(r) /\ Len(Builder!Gathered(r)) = l + k
            /\ \A i \in 1 .. l : Builder!Gathered(r)[i] = Builder!Gathered(chars)[i]
            /\ \A j \in 1 .. k : Builder!Gathered(r)[l + j] = out[j]
        <5>1. PICK b : b = chars
          OBVIOUS
        <5>2. /\ BuilderInv(b) /\ IsFilled(b) /\ l = Len(Builder!Gathered(b))
              /\ r = Filling(b, k, out)
          BY <1>10, <3>5, <4>1, <4>2, <5>1 DEF Filling
        <5>3. Appended(r, b, l, k, out)
          BY <4>1, <5>2, BuilderAppends, Zenon
        <5> QED
          BY <5>1, <5>3 DEF Appended
      <4> QED
        BY <1>16, <1>17, <4>2, <4>3
    <3>8. k \in Nat
      BY ChunkIs
    <3>9. l = (IF f >= o THEN 0 ELSE o - f) /\ \A i \in 1 .. l : t[i] = Content[f + i]
      BY <1>17, <2>2, <3>1, <3>6 DEF CharsAre
    <3>10. l + k = (IF f >= to THEN 0 ELSE to - f)
      BY <1>14, <3>4, <3>8, <3>9 DEF Greater
    <3>11. ASSUME NEW i \in 1 .. l + k
           PROVE  t1[i] = Content[f + i]
      <4>1. CASE i <= l
        <5>1. i \in 1 .. l
          BY <4>1
        <5> QED
          BY <3>7, <3>9, <5>1
      <4>2. CASE i > l
        <5>1. PICK j \in 1 .. k : i = l + j
          <6>1. i - l \in 1 .. k /\ i = l + (i - l)
            BY <3>8, <4>2
          <6> QED
            BY <6>1
        <5>2. Greater(o, f) + j = f + i
          BY <1>14, <3>4, <3>8, <3>9, <5>1 DEF Greater
        <5> QED
          BY <3>4, <3>7, <5>1, <5>2
      <4> QED
        BY <3>8, <4>1, <4>2
    <3>12. CharsAre(t1, f, to)
      <4>1. f # NoOffset
        BY <3>8 DEF NoOffset
      <4>2. Len(t1) = IF f >= to THEN 0 ELSE to - f
        BY <3>7, <3>10
      <4>3. \A i \in 1 .. Len(t1) : t1[i] = Content[f + i]
        BY <3>7, <3>11
      <4> QED
        BY <4>1, <4>2, <4>3 DEF CharsAre
    <3> QED
      BY <3>1, <3>7, <3>12
  <2> QED
    BY <2>1, <2>2
<1>19. UNCHANGED <<FirstOffset, Content>> /\ \A b : UNCHANGED Pos(b)
  BY <1>3, SameText
<1>20. PICK first0 \in Nat, end \in Nat : first0 = FirstOffset /\ end = Pos(base + tiles)
  BY <1>1, Positions
<1>21. p >= first0 /\ p <= end
  <2>1. o >= first0 /\ (o <= m \/ o = first0)
    BY <1>5, <1>10, <1>20 DEF ReadInv
  <2>2. end = o + tiles * TileBytes
    <3>0. TileBytes \in Nat
      BY Sizes
    <3>1. (base + tiles) * TileBytes = base * TileBytes + tiles * TileBytes /\ base * TileBytes \in Nat /\ tiles * TileBytes \in Nat
      BY <3>0
    <3> QED
      BY <1>6, <1>20, <3>1 DEF Pos
  <2>3. tiles * TileBytes \in Nat
    BY Sizes
  <2> QED
    BY <1>6, <1>7, <2>1, <2>2, <2>3
<1>22. ReadInv'
  <2>1. /\ FirstOffset' = first0 /\ Pos(host.base)' = end /\ Len(Content)' = m
    <3>1. Pos(host.base)' = Pos(base + tiles)
      BY <1>9, <1>19 DEF Pos
    <3> QED
      BY <1>5, <1>19, <1>20, <3>1
  <2>2. request'.size > 0
    BY <1>3, <1>10 DEF ReadInv
  <2>3. last # NoOffset => last <= p
    BY <1>7, <1>14
  <2>4. next.bytes = <<>> => p >= m /\ end >= m
    BY <1>8, <1>21
  <2> QED
    BY <1>7, <1>9, <1>11, <1>21, <2>1, <2>2, <2>3, <2>4 DEF ReadInv
<1>23. IsFilled(rows') /\ s = Builder!Gathered(rows')
  BY <1>3, <1>10, <1>11 DEF Offsets
<1> QED
  BY <1>3, <1>9, <1>11, <1>12, <1>15, <1>16, <1>18, <1>22, <1>23, ExactNext

(***************************************************************************)
(* What is known at the end.                                                 *)
(***************************************************************************)
\* From where the range begins on, the delimiters found are those of the whole text.
LEMMA EndsAreFound ==
  ASSUME Asked, NEW p \in Nat
  PROVE  p \in Ends /\ p >= request.offset <=> p > FirstOffset /\ IsFound(p)
<1>1. PICK w \in Nat, o \in Nat, m \in Nat, f \in Nat :
        w = Len(request.delim) /\ w > 0 /\ o = request.offset /\ m = Len(Content) /\ f = FirstOffset
  BY Given, ContentIs DEF Width
<1>2. f + w = IF o < w THEN w ELSE o
  BY <1>1 DEF FirstOffset, Greater
<1>3. DOMAIN Content = 1 .. m
  BY <1>1, ContentIs
<1>4. p \in Ends <=> p \in 1 .. m /\ EndsWith(0, p, w)
  BY <1>1 DEF Ends
<1>5. IsFound(p) => p \in 1 .. m
  BY <1>3 DEF IsFound
<1>6. ASSUME p \in 1 .. m, p > f PROVE IsFound(p) <=> EndsWith(f, p, w)
  <2>1. Found(FirstOffset, p) = {r \in FirstOffset .. p : EndsWith(FirstOffset, r, Len(request.delim))}
    BY <1>1, <1>6, FoundIs
  <2>2. p \in FirstOffset + 1 .. p /\ p \in FirstOffset .. p
    BY <1>1, <1>6
  <2>3. p \in Found(FirstOffset, p) <=> IsFound(p)
    BY <2>2 DEF Found
  <2>4. p \in Found(FirstOffset, p) <=> EndsWith(FirstOffset, p, Len(request.delim))
    BY <2>1, <2>2
  <2> QED
    BY <1>1, <2>3, <2>4
<1>7. EndsWith(f, p, w) <=> f + w <= p /\ EndsWith(0, p, w)
  <2>1. 0 + w <= p <=> w <= p
    BY <1>1
  <2>2. f + w <= p => w <= p
    BY <1>1
  <2> QED
    BY <2>1, <2>2 DEF EndsWith
<1>8. EndsWith(0, p, w) => w <= p
  BY <1>1 DEF EndsWith
<1>9. f + w <= p <=> w <= p /\ o <= p
  BY <1>1, <1>2
<1>10. f + w <= p => p > f
  BY <1>1
<1> QED
  BY <1>1, <1>4, <1>5, <1>6, <1>7, <1>8, <1>9, <1>10

LEMMA NthEnds ==
  ASSUME Asked, NEW p, NEW i, IsNth(p, i)
  PROVE  p \in Nat /\ p > 0 /\ p \in Ends /\ p >= request.offset /\ p <= Len(Content)
<1>1. p \in Nat /\ p > FirstOffset /\ IsFound(p)
  BY DEF IsNth
<1>2. p \in Ends /\ p >= request.offset
  BY <1>1, EndsAreFound
<1>3. Len(Content) \in Nat
  BY ContentIs
<1> QED
  BY <1>1, <1>2, <1>3 DEF Ends

LEMMA EndsAreNumbered ==
  ASSUME Asked, NEW p \in Ends, p >= request.offset
  PROVE  p \in Nat /\ p > FirstOffset /\ Number(p) \in Nat /\ Number(p) > 0 /\ IsNth(p, Number(p))
<1>1. p \in Nat
  <2>1. Len(Content) \in Nat
    BY ContentIs
  <2> QED
    BY <2>1 DEF Ends
<1>2. p > FirstOffset /\ IsFound(p)
  BY <1>1, EndsAreFound
<1>3. IsNth(p, Number(p))
  BY <1>1, <1>2 DEF IsNth
<1> QED
  BY <1>1, <1>2, <1>3, NthInOrder, Zenon

\* What the offsets s say of the ends of the delimiters, and how far the text was read.
Lists(s, n, first, last, o, m, e) ==
  /\ \A i \in 1 .. n : /\ s[i] \in Nat /\ s[i] > 0 /\ s[i] \in Ends /\ s[i] >= request.offset /\ s[i] <= m
                       /\ s[i] < e \/ (i = n /\ last # NoOffset)
  /\ \A i, j \in 1 .. n : i < j <=> s[i] < s[j]
  /\ last # NoOffset => n > 0 /\ last = s[n] /\ last >= e
  /\ first = IF request.offset = 0 THEN 0 ELSE IF n = 0 THEN NoOffset ELSE s[1]
  /\ \A p \in Ends : p >= request.offset /\ (p < e \/ (n > 0 /\ p <= s[n]) \/ (last = NoOffset /\ first # NoOffset)) =>
       \E i \in 1 .. n : p = s[i]
  /\ first # NoOffset /\ last = NoOffset => m <= o
  /\ first # NoOffset /\ last = NoOffset /\ n > 0 => o = m
  /\ o > m => o = FirstOffset
  /\ o = 0 => m = 0
IsEnd(s, t, n, first, last, o, m, e) ==
  /\ s = Offsets /\ t = Copied /\ n = Len(s) /\ first = host.first /\ last = host.last /\ o = host.chunkOffset
  /\ m = Len(Content) /\ e = RangeEnd

LEMMA ReturnFinds ==
  ASSUME SplitInv, ExactInv, Return
  PROVE  \E s, t, first, last : \E n, o, m, e \in Nat :
           IsEnd(s, t, n, first, last, o, m, e) /\ Lists(s, n, first, last, o, m, e) /\ e > 0
             /\ CharsAre(t, first, IF last = NoOffset THEN o ELSE last)
<1>1. Asked /\ HostInv /\ RowsInv
  BY DEF SplitInv
<1>2. host.pc = "loop" /\ (host.chunk = <<>> \/ RangeIsDone)
  BY DEF Return
<1>3. /\ IsFilled(rows) /\ ReadInv
      /\ OffsetsAre(Offsets, host.first, host.last) /\ CharsAre(Copied, host.first, CopiedTo)
  BY <1>2 DEF ExactInv
<1>4. PICK s, t, first, last : s = Offsets /\ t = Copied /\ first = host.first /\ last = host.last
  OBVIOUS
<1>5. PICK n \in Nat, o \in Nat, m \in Nat, e \in Nat, base \in Nat, f \in Nat, q \in Nat, b \in Nat :
        /\ n = Len(s) /\ o = host.chunkOffset /\ m = Len(Content) /\ e = RangeEnd /\ base = host.base
        /\ f = FirstOffset /\ q = Pos(base) /\ b = request.offset
  <2>1. Len(s) \in Nat
    BY <1>3, <1>4, LenProperties DEF IsFilled, Offsets
  <2>2. host.chunkOffset \in Nat
    BY <1>3 DEF ReadInv
  <2>3. Len(Content) \in Nat
    BY <1>1, ContentIs
  <2>4. FirstOffset \in Nat /\ RangeEnd \in Nat /\ request.offset \in Nat
    BY <1>1, Given
  <2>5. host.base \in Nat
    BY <1>1 DEF HostInv
  <2>6. Pos(host.base) \in Nat
    BY <1>1, <2>5, Positions
  <2> QED
    BY <2>1, <2>2, <2>3, <2>4, <2>5, <2>6
<1>6. IsEnd(s, t, n, first, last, o, m, e)
  BY <1>4, <1>5 DEF IsEnd
<1>7. e > 0
  <2>1. request.size \in Nat /\ request.size > 0
    BY <1>1, <1>3, Given DEF ReadInv
  <2> QED
    BY <1>5, <2>1 DEF RangeEnd
<1>8. /\ \A i \in 1 .. n : IsNth(s[i], i)
      /\ \A i \in 1 .. n : s[i] < e \/ (i = n /\ last # NoOffset)
      /\ last # NoOffset => n > 0 /\ last = s[n] /\ last >= e
      /\ first = IF b = 0 THEN 0 ELSE IF n = 0 THEN NoOffset ELSE s[1]
  BY <1>3, <1>4, <1>5 DEF OffsetsAre
<1>9. /\ o >= f /\ o <= q /\ (o <= m \/ o = f)
      /\ host.chunk = <<>> => o >= m /\ q >= m
  BY <1>2, <1>3, <1>5 DEF ReadInv
<1>10. last # NoOffset => last <= o
  BY <1>2, <1>3, <1>4, <1>5 DEF ReadInv
<1>11. host.chunk # <<>> => o = q
  BY <1>1, <1>2, <1>5 DEF HostInv, IsChunk
<1>12. last = NoOffset => n = Number(q)
  <2>1. n = rows.size
    BY <1>3, <1>4, <1>5 DEF IsFilled, Offsets
  <2> QED
    BY <1>1, <1>2, <1>4, <1>5, <2>1 DEF RowsInv, Number
<1>13. host.chunk # <<>> => last # NoOffset \/ (first = NoOffset /\ o >= e)
  BY <1>2, <1>4, <1>5 DEF RangeIsDone
<1>14. ASSUME NEW i \in 1 .. n
       PROVE  s[i] \in Nat /\ s[i] > 0 /\ s[i] \in Ends /\ s[i] >= request.offset /\ s[i] <= m /\ s[i] > f
  <2>1. IsNth(s[i], i)
    BY <1>8
  <2>2. s[i] \in Nat /\ s[i] > 0 /\ s[i] \in Ends /\ s[i] >= request.offset /\ s[i] <= m
    BY <1>1, <1>5, <2>1, NthEnds
  <2> QED
    BY <1>5, <2>1, <2>2 DEF IsNth
<1>15. \A i, j \in 1 .. n : i < j <=> s[i] < s[j]
  <2> SUFFICES ASSUME NEW i \in 1 .. n, NEW j \in 1 .. n PROVE i < j <=> s[i] < s[j]
    OBVIOUS
  <2>1. IsNth(s[i], i) /\ IsNth(s[j], j)
    BY <1>8
  <2> QED
    BY <1>1, <2>1, NthInOrder, Zenon
<1>16. first # NoOffset /\ last = NoOffset => host.chunk = <<>> /\ m <= o
  BY <1>9, <1>13
<1>17. ASSUME NEW p \in Ends, p >= request.offset,
              p < e \/ (n > 0 /\ p <= s[n]) \/ (last = NoOffset /\ first # NoOffset)
       PROVE  \E i \in 1 .. n : p = s[i]
  <2>1. PICK k \in Nat : k = Number(p) /\ k > 0 /\ IsNth(p, k) /\ p \in Nat /\ p > FirstOffset
    BY <1>1, <1>17, EndsAreNumbered
  <2>2. p <= m
    BY <1>5, <2>1 DEF Ends
  <2>3. k <= n
    <3>1. CASE n > 0 /\ p <= s[n]
      <4>1. n \in 1 .. n
        BY <3>1
      <4>2. IsNth(s[n], n) /\ s[n] \in Nat
        BY <1>8, <1>14, <4>1
      <4>3. ~(n < k) \/ s[n] < p
        BY <1>1, <2>1, <4>2, NthInOrder, Zenon
      <4> QED
        BY <2>1, <3>1, <4>2, <4>3
    <3>2. CASE last # NoOffset /\ p < e
      <4>1. n \in 1 .. n
        BY <1>8, <3>2
      <4>2. s[n] \in Nat /\ s[n] >= e
        BY <1>8, <1>14, <3>2, <4>1
      <4> QED
        BY <1>8, <2>1, <3>1, <3>2, <4>2
    <3>3. CASE last = NoOffset /\ (p < e \/ first # NoOffset)
      <4>1. p <= q
        BY <1>9, <1>11, <1>13, <1>16, <2>1, <2>2, <3>3
      <4>2. Number(p) <= Number(q)
        <5>1. FirstOffset <= p
          BY <1>5, <2>1
        <5> QED
          BY <1>1, <2>1, <4>1, <5>1, NumberGrows
      <4> QED
        BY <1>12, <2>1, <3>3, <4>2
    <3> QED
      BY <1>17, <3>1, <3>2, <3>3
  <2>4. k \in 1 .. n
    BY <2>1, <2>3
  <2>5. s[k] = p
    <3>1. IsNth(s[k], k)
      BY <1>8, <2>4
    <3> QED
      BY <1>1, <2>1, <3>1, NthInOrder, Zenon
  <2> QED
    BY <2>4, <2>5
<1>18. first # NoOffset /\ last = NoOffset /\ n > 0 => o = m
  <2> SUFFICES ASSUME first # NoOffset /\ last = NoOffset /\ n > 0 PROVE o = m
    OBVIOUS
  <2>1. 1 \in 1 .. n
    OBVIOUS
  <2>2. s[1] \in Nat /\ s[1] > f /\ s[1] <= m
    BY <1>14, <2>1
  <2> QED
    BY <1>9, <1>16, <2>2
<1>19. o = 0 => m = 0
  <2> SUFFICES ASSUME o = 0 PROVE m = 0
    OBVIOUS
  <2>1. last = NoOffset
    <3> SUFFICES ASSUME last # NoOffset PROVE FALSE
      OBVIOUS
    <3>1. n \in 1 .. n
      BY <1>8
    <3>2. last \in Nat
      BY <1>8, <1>14, <3>1
    <3> QED
      BY <1>7, <1>8, <1>10, <3>2
  <2>2. host.chunk = <<>>
    BY <1>7, <1>13, <2>1
  <2> QED
    BY <1>9, <2>2
<1>20. o > m => o = FirstOffset
  BY <1>5, <1>9
<1>21. Lists(s, n, first, last, o, m, e)
  <2>1. first = IF request.offset = 0 THEN 0 ELSE IF n = 0 THEN NoOffset ELSE s[1]
    BY <1>5, <1>8
  <2>2. \A i \in 1 .. n : /\ s[i] \in Nat /\ s[i] > 0 /\ s[i] \in Ends /\ s[i] >= request.offset /\ s[i] <= m
                          /\ s[i] < e \/ (i = n /\ last # NoOffset)
    BY <1>8, <1>14
  <2>3. last # NoOffset => n > 0 /\ last = s[n] /\ last >= e
    BY <1>8
  <2> QED
    BY <1>15, <1>16, <1>17, <1>18, <1>19, <1>20, <2>1, <2>2, <2>3 DEF Lists
<1>22. CharsAre(t, first, IF last = NoOffset THEN o ELSE last)
  BY <1>2, <1>3, <1>4, <1>5 DEF CopiedTo
<1> QED
  BY <1>6, <1>7, <1>21, <1>22, Zenon

(***************************************************************************)
(* The rows of the column.                                                   *)
(***************************************************************************)
\* A set that a sequence lists in order: how many its elements are, and how many are below one.
IsListed(k, v, S) ==
  /\ IsFiniteSet(S) /\ \A j \in 1 .. k : v[j] \in S /\ v[j] \in Nat
  /\ \A p \in S : \E j \in 1 .. k : p = v[j]
  /\ \A i, j \in 1 .. k : i < j => v[i] < v[j]

Ranks(k, v, S) == Cardinality(S) = k /\ \A j \in 1 .. k : Rank(v[j], S) = j - 1

LEMMA Listed ==
  ASSUME NEW k \in Nat, NEW v, NEW S, IsListed(k, v, S)
  PROVE  Ranks(k, v, S)
<1>1. /\ IsFiniteSet(S) /\ \A j \in 1 .. k : v[j] \in S /\ v[j] \in Nat
      /\ \A p \in S : \E j \in 1 .. k : p = v[j]
      /\ \A i, j \in 1 .. k : i < j => v[i] < v[j]
  BY DEF IsListed
<1>2. ASSUME NEW n \in 0 .. k, NEW T, T \subseteq S, \A j \in 1 .. n : v[j] \in T,
             \A p \in T : \E j \in 1 .. n : p = v[j]
      PROVE  Cardinality(T) = n
  <2>1. PICK f : f = [j \in 1 .. n |-> v[j]]
    OBVIOUS
  <2>2. f \in [1 .. n -> T]
    BY <1>2, <2>1
  <2>3. IsFiniteSet(T)
    BY <1>2, <1>1, FS_Subset
  <2>4. ASSUME NEW i \in 1 .. n, NEW j \in 1 .. n, f[i] = f[j]
        PROVE  i = j
    <3>1. v[i] = v[j] /\ i \in 1 .. k /\ j \in 1 .. k
      BY <2>1, <2>4
    <3>2. v[i] \in Nat /\ ~(v[i] < v[j]) /\ ~(v[j] < v[i])
      BY <1>1, <3>1
    <3>3. ~(i < j) /\ ~(j < i)
      BY <1>1, <3>1, <3>2
    <3> QED
      BY <3>3
  <2>5. \A p \in T : \E j \in 1 .. n : f[j] = p
    BY <1>2, <2>1
  <2>6. Cardinality(1 .. n) = Cardinality(T)
    BY <2>2, <2>3, <2>4, <2>5, MapIsInjective
  <2>7. Cardinality(1 .. n) = n
    <3>1. n \in Nat /\ n \in Int /\ 1 \in Int
      OBVIOUS
    <3>2. Cardinality(1 .. n) = IF 1 > n THEN 0 ELSE n - 1 + 1
      BY <3>1, FS_Interval
    <3> QED
      BY <3>1, <3>2
  <2> QED
    BY <2>6, <2>7
<1>3. Cardinality(S) = k
  BY <1>2, <1>1
<1>4. ASSUME NEW j \in 1 .. k
      PROVE  Rank(v[j], S) = j - 1
  <2>1. PICK T : T = {q \in S : q < v[j]}
    OBVIOUS
  <2>2. PICK n \in 0 .. k : n = j - 1
    <3>1. j - 1 \in 0 .. k
      OBVIOUS
    <3> QED
      BY <3>1
  <2>3. \A i \in 1 .. n : v[i] \in T
    BY <1>1, <2>1, <2>2
  <2>4. ASSUME NEW p \in T
        PROVE  \E i \in 1 .. n : p = v[i]
    <3>1. PICK i \in 1 .. k : p = v[i] /\ v[i] < v[j]
      BY <1>1, <2>1
    <3>2. v[i] \in Nat /\ v[j] \in Nat
      BY <1>1
    <3>3. ~(v[j] < v[i]) /\ i # j
      BY <3>1, <3>2
    <3>4. ~(j < i)
      BY <1>1, <3>3
    <3>5. i \in 1 .. n
      BY <2>2, <3>3, <3>4
    <3> QED
      BY <3>1, <3>5
  <2>5. Cardinality(T) = n
    BY <1>2, <2>1, <2>3, <2>4
  <2> QED
    BY <2>1, <2>2, <2>5 DEF Rank
<1> QED
  BY <1>3, <1>4 DEF Ranks

LEMMA BeginsIs ==
  ASSUME Asked
  PROVE  /\ IsFiniteSet(Begins)
         /\ \A p : p \in Begins <=> (p = 0 \/ p \in Ends) /\ p < Len(Content) /\ request.offset <= p /\ p < RangeEnd
         /\ \A p \in Ends : p \in Nat /\ p > 0 /\ p <= Len(Content)
<1>1. PICK m \in Nat : m = Len(Content)
  BY ContentIs
<1>2. \A p \in Ends : p \in Nat /\ p > 0 /\ p <= m
  BY <1>1 DEF Ends
<1>3. Begins \subseteq 0 .. m
  BY <1>1, <1>2 DEF Begins
<1>4. IsFiniteSet(0 .. m)
  BY FS_Interval
<1>5. IsFiniteSet(Begins)
  BY <1>3, <1>4, FS_Subset
<1>6. \A p : p \in Begins <=> (p = 0 \/ p \in Ends) /\ p < Len(Content) /\ request.offset <= p /\ p < RangeEnd
  BY DEF Begins
<1> QED
  BY <1>1, <1>2, <1>5, <1>6

\* No row begins in the range.
LEMMA NoRows ==
  ASSUME Asked, NEW s, NEW first, NEW last, NEW n \in Nat, NEW o \in Nat, NEW m \in Nat, NEW e \in Nat,
         m = Len(Content), e = RangeEnd, Lists(s, n, first, last, o, m, e), e > 0,
         o = 0 \/ first = NoOffset \/ first = last
  PROVE  Begins = {}
<1> SUFFICES ASSUME NEW p \in Begins PROVE FALSE
  OBVIOUS
<1>1. (p = 0 \/ p \in Ends) /\ p < m /\ request.offset <= p /\ p < e /\ p \in Nat /\ request.offset \in Nat
  BY BeginsIs, Given
<1>2. \A i \in 1 .. n : s[i] \in Nat /\ s[i] > 0
  BY DEF Lists
<1>3. first = IF request.offset = 0 THEN 0 ELSE IF n = 0 THEN NoOffset ELSE s[1]
  BY DEF Lists
<1>4. o # 0
  BY <1>1 DEF Lists
<1>5. first # NoOffset => first = last
  BY <1>4
<1>6. p \in Ends => \E i \in 1 .. n : p = s[i]
  BY <1>1 DEF Lists
<1>7. CASE first = NoOffset
  <2>1. request.offset # 0
    BY <1>3, <1>7 DEF NoOffset
  <2>2. p \in Ends
    BY <1>1, <2>1
  <2>3. PICK i \in 1 .. n : p = s[i]
    BY <1>6, <2>2
  <2>4. 1 \in 1 .. n /\ n # 0
    OBVIOUS
  <2>5. s[1] \in Nat
    BY <1>2, <2>4
  <2>6. first = s[1]
    BY <1>3, <2>1, <2>4
  <2> QED
    BY <1>7, <2>5, <2>6 DEF NoOffset
<1>8. CASE first # NoOffset
  <2>1. n > 0 /\ last = s[n] /\ last >= e /\ first = last
    BY <1>5, <1>8 DEF Lists
  <2>2. n \in 1 .. n /\ 1 \in 1 .. n
    BY <2>1
  <2>3. s[n] \in Nat /\ s[n] > 0 /\ s[1] \in Nat
    BY <1>2, <2>2
  <2>4. request.offset # 0 /\ s[1] = s[n]
    BY <1>3, <2>1, <2>3
  <2>5. n = 1
    <3>1. 1 < n <=> s[1] < s[n]
      BY <2>2 DEF Lists
    <3> QED
      BY <2>1, <2>3, <2>4, <3>1
  <2>6. p \in Ends
    BY <1>1, <2>4
  <2>7. PICK i \in 1 .. n : p = s[i]
    BY <1>6, <2>6
  <2>8. i = n
    BY <2>5
  <2> QED
    BY <1>1, <2>1, <2>3, <2>7, <2>8
<1> QED
  BY <1>7, <1>8

\* The places where the rows begin and end, from the first to the end of the last; x is 1 if
\* the last ends with the text.
Places(v, s, n, z, x, o) ==
  /\ \A j \in 1 .. z : v[j] = 0
  /\ \A i \in 1 .. n : v[z + i] = s[i]
  /\ x = 1 => v[z + n + 1] = o
Bounding(v, k, x, first, to, m) ==
  /\ \A j \in 1 .. k + 1 : v[j] \in Nat
  /\ \A i, j \in 1 .. k + 1 : i < j => v[i] < v[j]
  /\ v[1] = first /\ v[k + 1] = to /\ to <= m
  /\ \A j \in 1 .. k : v[j] \in Begins
  /\ \A p \in Begins : \E j \in 1 .. k : p = v[j]
  /\ \A j \in 1 .. k :
       IF j = k /\ x = 1 THEN v[j + 1] = m /\ \A q \in Ends : ~(q > v[j])
       ELSE v[j + 1] \in Ends /\ \A q \in Ends : q > v[j] => v[j + 1] <= q

ArePlaces(v, s, first, last, n, o, z, x, k, to) ==
  /\ o # 0 /\ first # NoOffset
  /\ z = IF request.offset = 0 THEN 1 ELSE 0
  /\ x = IF last # NoOffset \/ (n > 0 /\ s[n] = o) THEN 0 ELSE 1
  /\ Places(v, s, n, z, x, o) /\ k + 1 = z + n + x
  /\ to = IF last = NoOffset THEN o ELSE last

LEMMA PlacesBound ==
  ASSUME Asked, NEW s, NEW first, NEW last, NEW n \in Nat, NEW o \in Nat, NEW m \in Nat, NEW e \in Nat,
         m = Len(Content), e = RangeEnd, Lists(s, n, first, last, o, m, e), e > 0,
         NEW z \in Nat, NEW x \in Nat, NEW v, NEW k \in Nat, NEW to, ArePlaces(v, s, first, last, n, o, z, x, k, to)
  PROVE  Bounding(v, k, x, first, to, m)
<1>1. /\ o # 0 /\ first # NoOffset
      /\ z = IF request.offset = 0 THEN 1 ELSE 0
      /\ x = IF last # NoOffset \/ (n > 0 /\ s[n] = o) THEN 0 ELSE 1
      /\ Places(v, s, n, z, x, o) /\ k + 1 = z + n + x
      /\ to = IF last = NoOffset THEN o ELSE last
  BY DEF ArePlaces
<1>2. PICK b \in Nat : b = request.offset
  BY Given
<1>3. \A i \in 1 .. n : /\ s[i] \in Nat /\ s[i] > 0 /\ s[i] \in Ends /\ s[i] >= b /\ s[i] <= m
                        /\ s[i] < e \/ (i = n /\ last # NoOffset)
  BY <1>2 DEF Lists
<1>4. \A i, j \in 1 .. n : i < j <=> s[i] < s[j]
  BY DEF Lists
<1>5. /\ last # NoOffset => n > 0 /\ last = s[n] /\ last >= e
      /\ first = IF b = 0 THEN 0 ELSE IF n = 0 THEN NoOffset ELSE s[1]
  BY <1>2 DEF Lists
<1>6. \A p \in Ends : p >= b /\ (p < e \/ (n > 0 /\ p <= s[n]) \/ last = NoOffset) => \E i \in 1 .. n : p = s[i]
  BY <1>1, <1>2 DEF Lists
<1>7. \A p \in Ends : p \in Nat /\ p > 0 /\ p <= m
  BY BeginsIs
<1>8. (z = 1 /\ b = 0) \/ (z = 0 /\ b # 0 /\ n > 0)
  BY <1>1, <1>2, <1>5
<1>9. x = 0 \/ x = 1
  BY <1>1
<1>10. last = NoOffset => o = m
  <2> SUFFICES ASSUME last = NoOffset PROVE o = m
    OBVIOUS
  <2>1. m <= o /\ (n > 0 => o = m) /\ (o > m => o = FirstOffset)
    BY <1>1 DEF Lists
  <2>2. CASE n > 0
    BY <2>1, <2>2
  <2>3. CASE n = 0
    <3>1. b = 0 /\ Width \in Nat /\ Width > 0 /\ Width = Len(request.delim)
      BY <1>8, <2>3, Given DEF Width
    <3>2. FirstOffset = 0
      BY <1>2, <3>1 DEF FirstOffset, Greater
    <3> QED
      BY <2>1, <3>2
  <2> QED
    BY <2>2, <2>3
<1>11. x = 1 => last = NoOffset /\ o = m /\ (n > 0 => s[n] # m)
  BY <1>1, <1>10
<1>12. \A j \in 1 .. z : v[j] = 0
  BY <1>1 DEF Places
<1>13. \A i \in 1 .. n : v[z + i] = s[i]
  BY <1>1 DEF Places
<1>14. x = 1 => v[z + n + 1] = o
  BY <1>1 DEF Places
<1>15. ASSUME NEW j \in 1 .. k + 1
       PROVE  \/ j = 1 /\ z = 1 /\ v[j] = 0
              \/ \E i \in 1 .. n : j = z + i /\ v[j] = s[i]
              \/ j = k + 1 /\ j = z + n + 1 /\ x = 1 /\ v[j] = m
  <2>1. CASE j <= z
    <3>1. j = 1 /\ z = 1 /\ j \in 1 .. z
      BY <1>8, <2>1
    <3> QED
      BY <1>12, <3>1
  <2>2. CASE j > z /\ j <= z + n
    <3>1. PICK i \in 1 .. n : j = z + i
      <4>1. j - z \in 1 .. n /\ j = z + (j - z)
        BY <2>2
      <4> QED
        BY <4>1
    <3> QED
      BY <1>13, <3>1
  <2>3. CASE j > z + n
    <3>1. x = 1 /\ j = k + 1 /\ j = z + n + 1
      BY <1>1, <1>9, <2>3
    <3> QED
      BY <1>11, <1>14, <3>1
  <2> QED
    BY <2>1, <2>2, <2>3
<1>16. ASSUME NEW j \in 1 .. k + 1
       PROVE  v[j] \in Nat
  <2>1. 0 \in Nat /\ \A i \in 1 .. n : s[i] \in Nat
    BY <1>3
  <2> QED
    BY <1>15, <2>1
<1>17. n > 0 => n \in 1 .. n /\ s[n] \in Nat /\ s[n] <= m /\ v[z + n] = s[n]
  <2>1. n > 0 => n \in 1 .. n
    OBVIOUS
  <2> QED
    BY <1>3, <1>13, <2>1
<1>18. ASSUME NEW i \in 1 .. n
       PROVE  /\ x = 1 => s[i] < m
              /\ i < n => s[i] < s[n]
  <2>1. n > 0 /\ n \in 1 .. n /\ s[i] \in Nat /\ s[n] \in Nat /\ s[n] <= m
    BY <1>3, <1>17
  <2>2. i < n => s[i] < s[n]
    BY <1>4, <2>1
  <2>3. i = n \/ i < n
    OBVIOUS
  <2> QED
    BY <1>1, <1>11, <2>1, <2>2, <2>3
<1>19. x = 1 => m > 0
  BY <1>1, <1>11
<1>20. ASSUME NEW i \in 1 .. k + 1, NEW j \in 1 .. k + 1, i < j
       PROVE  v[i] < v[j]
  <2>1. CASE i = 1 /\ z = 1 /\ v[i] = 0
    <3>1. v[j] > 0
      BY <1>3, <1>15, <1>19, <1>20, <2>1
    <3> QED
      BY <1>16, <2>1, <3>1
  <2>2. ASSUME NEW a \in 1 .. n, i = z + a /\ v[i] = s[a]
        PROVE  v[i] < v[j]
    <3>1. CASE j = k + 1 /\ j = z + n + 1 /\ x = 1 /\ v[j] = m
      BY <1>18, <2>2, <3>1
    <3>2. ASSUME NEW c \in 1 .. n, j = z + c /\ v[j] = s[c]
          PROVE  v[i] < v[j]
      <4>1. a < c
        BY <1>1, <1>20, <2>2, <3>2
      <4> QED
        BY <1>4, <2>2, <3>2, <4>1
    <3>3. ~(j = 1 /\ z = 1)
      BY <1>20
    <3> QED
      BY <1>15, <3>1, <3>2, <3>3
  <2>3. ~(i = k + 1)
    BY <1>20
  <2> QED
    BY <1>15, <2>1, <2>2, <2>3
<1>21. v[1] = first
  <2>1. CASE z = 1
    BY <1>5, <1>8, <1>12, <2>1
  <2>2. CASE z = 0
    <3>1. 1 \in 1 .. n /\ z + 1 = 1 /\ b # 0 /\ n # 0
      BY <1>8, <2>2
    <3> QED
      BY <1>5, <1>13, <3>1
  <2> QED
    BY <1>8, <2>1, <2>2
<1>22. v[k + 1] = to /\ to <= m
  <2>1. CASE x = 1
    <3>1. k + 1 = z + n + 1
      BY <1>1, <2>1
    <3> QED
      BY <1>1, <1>11, <1>14, <2>1, <3>1
  <2>2. CASE x = 0
    <3>1. k + 1 = z + n
      BY <1>1, <2>2
    <3>2. n > 0 /\ s[n] = to
      BY <1>1, <1>5, <2>2
    <3> QED
      BY <1>17, <3>1, <3>2
  <2> QED
    BY <1>9, <2>1, <2>2
<1>23. x = 0 /\ last = NoOffset => n > 0 /\ s[n] = m
  BY <1>1, <1>10
<1>24. ASSUME NEW j \in 1 .. k
       PROVE  v[j] \in Begins
  <2>1. j \in 1 .. k + 1 /\ k + 1 \in 1 .. k + 1 /\ j < k + 1
    OBVIOUS
  <2>2. v[j] < v[k + 1] /\ v[j] \in Nat /\ v[k + 1] \in Nat
    BY <1>16, <1>20, <2>1
  <2>3. v[j] < m
    BY <1>1, <1>22, <2>2
  <2>4. (v[j] = 0 \/ v[j] \in Ends) /\ b <= v[j] /\ v[j] < e
    <3>1. CASE j = 1 /\ z = 1 /\ v[j] = 0
      BY <1>8, <3>1
    <3>2. ASSUME NEW i \in 1 .. n, j = z + i /\ v[j] = s[i]
          PROVE  v[j] \in Ends /\ b <= v[j] /\ v[j] < e
      <4>1. i = n => x = 1
        BY <1>1, <1>9, <3>2
      <4>2. ~(i = n /\ last # NoOffset)
        BY <1>11, <4>1
      <4>3. s[i] \in Nat /\ s[i] \in Ends /\ s[i] >= b /\ s[i] < e
        BY <1>3, <4>2
      <4> QED
        BY <3>2, <4>3
    <3>3. ~(j = k + 1)
      BY <2>1
    <3> QED
      BY <1>15, <2>1, <3>1, <3>2, <3>3
  <2> QED
    BY <1>2, <2>3, <2>4, BeginsIs
<1>25. ASSUME NEW p \in Begins
       PROVE  \E j \in 1 .. k : p = v[j]
  <2>1. (p = 0 \/ p \in Ends) /\ p < m /\ b <= p /\ p < e /\ p \in Nat
    BY <1>2, <1>7, BeginsIs
  <2>2. CASE p = 0
    <3>1. z = 1 /\ 1 \in 1 .. z
      BY <1>8, <2>1, <2>2
    <3>2. k > 0
      <4>1. x = 0 => n > 0
        BY <1>5, <1>23
      <4> QED
        BY <1>1, <1>9, <3>1, <4>1
    <3>3. 1 \in 1 .. k /\ v[1] = p
      BY <1>12, <2>2, <3>1, <3>2
    <3> QED
      BY <3>3
  <2>3. CASE p \in Ends
    <3>1. PICK i \in 1 .. n : p = s[i]
      BY <1>6, <2>1, <2>3
    <3>2. ~(x = 0 /\ i = n)
      <4> SUFFICES ASSUME x = 0, i = n PROVE FALSE
        OBVIOUS
      <4>1. last = NoOffset => s[n] = m
        BY <1>23
      <4>2. last # NoOffset => s[n] >= e
        BY <1>5
      <4> QED
        BY <1>1, <2>1, <3>1, <4>1, <4>2
    <3>3. PICK j \in 1 .. k : j = z + i
      <4>1. z + i \in 1 .. k
        BY <1>1, <1>9, <3>2
      <4> QED
        BY <4>1
    <3> QED
      BY <1>13, <3>1, <3>3
  <2> QED
    BY <2>1, <2>2, <2>3
<1>26. ASSUME NEW q \in Ends, NEW j \in 1 .. k, q > v[j], last = NoOffset \/ (n > 0 /\ q <= s[n])
       PROVE  \E c \in 1 .. n : q = s[c] /\ j < z + c
  <2>1. v[j] \in Nat /\ q \in Nat /\ v[j] >= b
    BY <1>1, <1>2, <1>7, <1>16, <1>24, BeginsIs
  <2>2. PICK c \in 1 .. n : q = s[c]
    BY <1>6, <1>26, <2>1
  <2>3. v[z + c] = q /\ z + c \in 1 .. k + 1 /\ j \in 1 .. k + 1
    BY <1>1, <1>13, <2>2
  <2>4. ~(z + c < j) /\ z + c # j
    <3>1. z + c < j => q < v[j]
      BY <1>20, <2>3
    <3> QED
      BY <1>1, <1>26, <2>1, <2>3, <3>1
  <2> QED
    BY <2>2, <2>4
<1>27. ASSUME NEW j \in 1 .. k
       PROVE  IF j = k /\ x = 1 THEN v[j + 1] = m /\ \A q \in Ends : ~(q > v[j])
              ELSE v[j + 1] \in Ends /\ \A q \in Ends : q > v[j] => v[j + 1] <= q
  <2>1. CASE j = k /\ x = 1
    <3>1. v[j + 1] = m
      BY <1>1, <1>11, <1>22, <2>1
    <3>2. ASSUME NEW q \in Ends, q > v[j]
          PROVE  FALSE
      <4>1. PICK c \in 1 .. n : q = s[c] /\ j < z + c
        BY <1>11, <1>26, <2>1, <3>2
      <4> QED
        BY <1>1, <2>1, <4>1
    <3> QED
      BY <2>1, <3>1, <3>2
  <2>2. CASE ~(j = k /\ x = 1)
    <3>1. j + 1 \in 1 .. k + 1 /\ j + 1 # 1
      OBVIOUS
    <3>2. ~(j + 1 = k + 1 /\ x = 1)
      BY <2>2
    <3>3. PICK i \in 1 .. n : j + 1 = z + i /\ v[j + 1] = s[i]
      BY <1>15, <3>1, <3>2
    <3>4. s[i] \in Ends /\ s[i] \in Nat
      BY <1>3
    <3>5. ASSUME NEW q \in Ends, q > v[j]
          PROVE  s[i] <= q
      <4> SUFFICES ASSUME ~(s[i] <= q) PROVE FALSE
        OBVIOUS
      <4>1. q \in Nat /\ q < s[i]
        BY <1>7, <3>4
      <4>2. n > 0 /\ q <= s[n]
        <5>1. n \in 1 .. n /\ (i = n \/ i < n) /\ s[n] \in Nat
          BY <1>17
        <5> QED
          BY <1>1, <1>18, <3>4, <4>1, <5>1
      <4>3. PICK c \in 1 .. n : q = s[c] /\ j < z + c
        BY <1>26, <3>5, <4>2
      <4>4. c < i
        BY <1>4, <4>1, <4>3
      <4> QED
        BY <3>3, <4>3, <4>4
    <3> QED
      BY <2>2, <3>3, <3>4, <3>5
  <2> QED
    BY <2>1, <2>2
<1> QED
  BY <1>16, <1>20, <1>21, <1>22, <1>24, <1>25, <1>27 DEF Bounding

\* Where a row is in the characters copied and in the content.
RowPlaces(first, p, q, to, m, w, l, a, c, d, f) ==
  /\ l = Greater(0, q - p - w) /\ Greater(p, q - w) = p + l
  /\ a = p - first + 1 /\ c = p - first + l /\ d = p + 1 /\ f = p + l /\ c - a + 1 = l /\ f - d + 1 = l
  /\ l = (IF a <= c THEN c - a + 1 ELSE 0) /\ l = IF d <= f THEN f - d + 1 ELSE 0
  /\ \A i \in 1 .. l : a + i - 1 \in 1 .. to - first /\ first + (a + i - 1) = d + i - 1 /\ d + i - 1 \in 1 .. m
  /\ \A i \in a .. c : i - a + 1 \in 1 .. l /\ a + (i - a + 1) - 1 = i
  /\ \A i \in d .. f : i \in 1 .. m

LEMMA RowIsPlaced ==
  ASSUME NEW first \in Nat, NEW p \in Nat, NEW q \in Nat, NEW to \in Nat, NEW m \in Nat, NEW w \in Nat,
         first <= p, p < q, q <= to, to <= m
  PROVE  \E l, a, c, d, f \in Nat : RowPlaces(first, p, q, to, m, w, l, a, c, d, f)
<1>1. PICK l \in Nat : l = Greater(0, q - p - w) /\ Greater(p, q - w) = p + l /\ p + l <= q
  <2>1. Greater(0, q - p - w) \in Nat /\ Greater(p, q - w) = p + Greater(0, q - p - w) /\ p + Greater(0, q - p - w) <= q
    BY DEF Greater
  <2> QED
    BY <2>1
<1>2. PICK a \in Nat, c \in Nat, d \in Nat, f \in Nat :
        a = p - first + 1 /\ c = p - first + l /\ d = p + 1 /\ f = p + l /\ c - a + 1 = l /\ f - d + 1 = l
  <2>1. /\ p - first + 1 \in Nat /\ p - first + l \in Nat /\ p + 1 \in Nat /\ p + l \in Nat
        /\ (p - first + l) - (p - first + 1) + 1 = l /\ (p + l) - (p + 1) + 1 = l
    OBVIOUS
  <2> QED
    BY <2>1
<1>3. ASSUME NEW i \in 1 .. l
      PROVE  a + i - 1 \in 1 .. to - first /\ first + (a + i - 1) = d + i - 1 /\ d + i - 1 \in 1 .. m
  BY <1>1, <1>2
<1>4. ASSUME NEW i \in a .. c
      PROVE  i - a + 1 \in 1 .. l /\ a + (i - a + 1) - 1 = i
  BY <1>2
<1>5. ASSUME NEW i \in d .. f
      PROVE  i \in 1 .. m
  BY <1>1, <1>2
<1>6. l = (IF a <= c THEN c - a + 1 ELSE 0) /\ l = IF d <= f THEN f - d + 1 ELSE 0
  BY <1>2
<1>7. RowPlaces(first, p, q, to, m, w, l, a, c, d, f)
  BY <1>1, <1>2, <1>3, <1>4, <1>5, <1>6 DEF RowPlaces
<1> QED
  BY <1>7

\* The last row of the text ends with it and not with a delimiter.
IsStripped(w, isLast) == w = IF request.strip /\ ~isLast THEN Len(request.delim) ELSE 0

\* A row of the column is that of the content.
IsRow(t, v, first, j, w) ==
  SubSeq(t, v[j] - first + 1, v[j] - first + Greater(0, v[j + 1] - v[j] - w)) = RowFrom(v[j])

RowGiven(t, first, to, m, v, k, x, j, w) ==
  /\ first \in Nat /\ to \in Nat /\ m \in Nat /\ k \in Nat /\ j \in 1 .. k /\ w \in Nat
  /\ m = Len(Content) /\ CharsAre(t, first, to) /\ Bounding(v, k, x, first, to, m) /\ IsStripped(w, j = k /\ x = 1)

LEMMA RowIs ==
  ASSUME Asked, NEW t, NEW first, NEW to, NEW m, NEW v, NEW k, NEW x, NEW j, NEW w,
         RowGiven(t, first, to, m, v, k, x, j, w)
  PROVE  IsRow(t, v, first, j, w)
<1> SUFFICES ASSUME first \in Nat, to \in Nat, m \in Nat, k \in Nat, j \in 1 .. k, w \in Nat
             PROVE  IsRow(t, v, first, j, w)
  BY DEF RowGiven
<1>1. m = Len(Content) /\ CharsAre(t, first, to) /\ Bounding(v, k, x, first, to, m) /\ IsStripped(w, j = k /\ x = 1)
  BY DEF RowGiven
<1>2. PICK p \in Nat, q \in Nat : p = v[j] /\ q = v[j + 1] /\ first <= p /\ p < q /\ q <= to /\ to <= m
  <2>1. j \in 1 .. k + 1 /\ j + 1 \in 1 .. k + 1 /\ 1 \in 1 .. k + 1 /\ k + 1 \in 1 .. k + 1
    OBVIOUS
  <2>2. \A i \in 1 .. k + 1 : v[i] \in Nat
    BY <1>1 DEF Bounding
  <2>3. v[j] < v[j + 1]
    <3>1. j < j + 1
      OBVIOUS
    <3> QED
      BY <1>1, <2>1, <3>1 DEF Bounding
  <2>4. v[1] = v[j] \/ v[1] < v[j]
    <3>1. 1 = j \/ 1 < j
      OBVIOUS
    <3> QED
      BY <1>1, <2>1, <3>1 DEF Bounding
  <2>5. v[j + 1] = v[k + 1] \/ v[j + 1] < v[k + 1]
    <3>1. j + 1 = k + 1 \/ j + 1 < k + 1
      OBVIOUS
    <3> QED
      BY <1>1, <2>1, <3>1 DEF Bounding
  <2>6. v[1] = first /\ v[k + 1] = to /\ to <= m
    BY <1>1 DEF Bounding
  <2> QED
    BY <2>1, <2>2, <2>3, <2>4, <2>5, <2>6
<1>3. PICK later : later = {r \in Ends : r > p}
  OBVIOUS
<1>4. IF j = k /\ x = 1 THEN q = m /\ later = {} ELSE q \in later /\ \A r \in later : q <= r
  <2>1. IF j = k /\ x = 1 THEN q = m /\ \A r \in Ends : ~(r > p)
        ELSE q \in Ends /\ \A r \in Ends : r > p => q <= r
    BY <1>1, <1>2 DEF Bounding
  <2> QED
    BY <1>2, <1>3, <2>1
<1>5. PICK end : end = IF later = {} THEN m ELSE CHOOSE r \in later : \A u \in later : r <= u
  OBVIOUS
<1>6. end = q
  <2>1. CASE j = k /\ x = 1
    BY <1>4, <1>5, <2>1
  <2>2. CASE ~(j = k /\ x = 1)
    <3>1. q \in later /\ \A r \in later : q <= r
      BY <1>4, <2>2
    <3>2. end = CHOOSE r \in later : \A u \in later : r <= u
      BY <1>5, <3>1
    <3>3. end \in later /\ \A u \in later : end <= u
      BY <3>1, <3>2
    <3>4. end \in Nat
      BY <1>3, <3>3, BeginsIs
    <3>5. q <= end /\ end <= q
      BY <3>1, <3>3
    <3> QED
      BY <1>2, <3>4, <3>5
  <2> QED
    BY <2>1, <2>2
<1>7. PICK l \in Nat, a \in Nat, c \in Nat, d \in Nat, f \in Nat : RowPlaces(first, p, q, to, m, w, l, a, c, d, f)
  BY <1>2, RowIsPlaced
<1>8. /\ l = Greater(0, q - p - w) /\ Greater(p, q - w) = p + l
      /\ a = p - first + 1 /\ c = p - first + l /\ d = p + 1 /\ f = p + l /\ c - a + 1 = l /\ f - d + 1 = l
      /\ l = (IF a <= c THEN c - a + 1 ELSE 0) /\ l = IF d <= f THEN f - d + 1 ELSE 0
      /\ \A i \in 1 .. l : a + i - 1 \in 1 .. to - first /\ first + (a + i - 1) = d + i - 1 /\ d + i - 1 \in 1 .. m
      /\ \A i \in a .. c : i - a + 1 \in 1 .. l /\ a + (i - a + 1) - 1 = i
      /\ \A i \in d .. f : i \in 1 .. m
  BY <1>7 DEF RowPlaces
<1>9. RowFrom(p) = SubSeq(Content, p + 1, p + l)
  <2>1. w = IF request.strip /\ later # {} THEN Len(request.delim) ELSE 0
    BY <1>1, <1>4 DEF IsStripped
  <2>2. RowFrom(p) = SubSeq(Content, p + 1, Greater(p, end - w))
    BY <1>1, <1>3, <1>5, <2>1 DEF RowFrom
  <2> QED
    BY <1>6, <1>8, <2>2
<1>10. \A i \in 1 .. to - first : t[i] = Content[first + i]
  <2>1. first # NoOffset /\ ~(first >= to)
    BY <1>2 DEF NoOffset
  <2>2. Len(t) = to - first
    BY <1>1, <2>1 DEF CharsAre
  <2> QED
    BY <1>1, <2>2 DEF CharsAre
<1>11. \A i \in 1 .. m : Content[i] \in Nat
  BY <1>1, ContentIs, ElementOfSeq
<1>12. ASSUME NEW i \in 1 .. l
       PROVE  t[a + i - 1] = Content[d + i - 1] /\ Content[d + i - 1] \in Nat
  <2>1. a + i - 1 \in 1 .. to - first /\ first + (a + i - 1) = d + i - 1 /\ d + i - 1 \in 1 .. m
    BY <1>8
  <2> QED
    BY <1>10, <1>11, <2>1
<1>13. \A i \in a .. c : t[i] \in Nat
  <2> SUFFICES ASSUME NEW i \in a .. c PROVE t[i] \in Nat
    OBVIOUS
  <2>1. i - a + 1 \in 1 .. l /\ a + (i - a + 1) - 1 = i
    BY <1>8
  <2> QED
    BY <1>12, <2>1
<1>14. \A i \in d .. f : Content[i] \in Nat
  <2> SUFFICES ASSUME NEW i \in d .. f PROVE Content[i] \in Nat
    OBVIOUS
  <2>1. i \in 1 .. m
    BY <1>8
  <2> QED
    BY <1>11, <2>1
<1>15. PICK s, u : s = SubSeq(t, a, c) /\ u = SubSeq(Content, d, f)
  OBVIOUS
<1>16. /\ s \in Seq(Nat) /\ Len(s) = l /\ \A i \in 1 .. l : s[i] = t[a + i - 1]
  <2>1. a \in Int /\ c \in Int
    BY <1>8
  <2>2. /\ SubSeq(t, a, c) \in Seq(Nat)
        /\ Len(SubSeq(t, a, c)) = IF a <= c THEN c - a + 1 ELSE 0
        /\ \A i \in 1 .. c - a + 1 : SubSeq(t, a, c)[i] = t[a + i - 1]
    BY <1>13, <2>1, SubSeqProperties
  <2> QED
    BY <1>8, <1>15, <2>2
<1>17. /\ u \in Seq(Nat) /\ Len(u) = l /\ \A i \in 1 .. l : u[i] = Content[d + i - 1]
  <2>1. d \in Int /\ f \in Int
    BY <1>8
  <2>2. PICK content : content = Content
    OBVIOUS
  <2>3. /\ SubSeq(content, d, f) \in Seq(Nat)
        /\ Len(SubSeq(content, d, f)) = IF d <= f THEN f - d + 1 ELSE 0
        /\ \A i \in 1 .. f - d + 1 : SubSeq(content, d, f)[i] = content[d + i - 1]
    BY <1>14, <2>1, <2>2, SubSeqProperties
  <2> QED
    BY <1>8, <1>15, <2>2, <2>3
<1>18. s = u
  <2>1. \A i \in 1 .. Len(s) : s[i] = u[i]
    BY <1>12, <1>16, <1>17
  <2> QED
    BY <1>16, <1>17, <2>1, SeqEqual
<1> QED
  BY <1>2, <1>8, <1>9, <1>15, <1>18 DEF IsRow

(***************************************************************************)
(* The column that is returned.                                              *)
(***************************************************************************)
AllOf(offsets, first, end, insertEnd) ==
  (IF first = 0 THEN <<0>> ELSE <<>>)
    \o [i \in DOMAIN offsets |-> offsets[i] - first]
    \o (IF insertEnd THEN <<end - first>> ELSE <<>>)
ColumnOf(copied, all, insertEnd) ==
  LET count == Len(all) - 1
      stripped(i) == IF request.strip /\ ~(i = count /\ insertEnd) THEN Len(request.delim) ELSE 0
      length(i) == Greater(0, all[i + 1] - all[i] - stripped(i))
  IN  [i \in 1 .. count |-> SubSeq(copied, all[i] + 1, all[i] + length(i))]
InsertsEnd(offsets, last, end) == ~(last # NoOffset \/ (offsets # <<>> /\ offsets[Len(offsets)] = end))

LEMMA ColumnIs ==
  Column = ColumnOf(Copied, AllOf(Offsets, host.first, host.chunkOffset, InsertsEnd(Offsets, host.last, host.chunkOffset)),
                    InsertsEnd(Offsets, host.last, host.chunkOffset))
BY DEF Column, ColumnOf, AllOf, InsertsEnd, Offsets, Copied

\* The offsets into the characters are the places less where the first row begins.
IsAll(all, s, n, first, o, z, x, insertEnd) ==
  /\ n = Len(s) /\ (z = 1 \/ z = 0) /\ (x = 1 \/ x = 0)
  /\ z = 1 <=> first = 0
  /\ insertEnd <=> x = 1
  /\ all = AllOf(s, first, o, insertEnd)

HavePlaces(all, s, n, first, o, z, x) ==
  /\ Len(all) = z + n + x
  /\ \E v : Places(v, s, n, z, x, o) /\ \A j \in 1 .. z + n + x : all[j] = v[j] - first

LEMMA AllAre ==
  ASSUME NEW s \in Seq(Int), NEW n \in Nat, NEW first \in Nat, NEW o \in Nat, NEW z \in Nat, NEW x \in Nat,
         NEW insertEnd \in BOOLEAN, NEW all, IsAll(all, s, n, first, o, z, x, insertEnd)
  PROVE  HavePlaces(all, s, n, first, o, z, x)
<1>1. /\ n = Len(s) /\ (z = 1 \/ z = 0) /\ (x = 1 \/ x = 0)
      /\ z = 1 <=> first = 0
      /\ insertEnd <=> x = 1
      /\ all = AllOf(s, first, o, insertEnd)
  BY DEF IsAll
<1>2. PICK head, mid, tail :
        /\ head = IF first = 0 THEN <<0>> ELSE <<>>
        /\ mid = [i \in DOMAIN s |-> s[i] - first]
        /\ tail = IF insertEnd THEN <<o - first>> ELSE <<>>
  OBVIOUS
<1>3. all = (head \o mid) \o tail
  BY <1>1, <1>2 DEF AllOf
<1>4. head \in Seq(Int) /\ z = Len(head) /\ \A j \in 1 .. z : j = 1 /\ head[j] = 0
  BY <1>1, <1>2
<1>5. DOMAIN s = 1 .. n /\ \A i \in 1 .. n : s[i] \in Int
  BY <1>1, LenProperties, ElementOfSeq
<1>6. mid = [i \in 1 .. n |-> s[i] - first]
  BY <1>2, <1>5
<1>7. mid \in Seq(Int) /\ n = Len(mid)
  <2>1. mid \in [1 .. n -> Int]
    BY <1>5, <1>6
  <2> QED
    BY <2>1, <1>6
<1>8. tail \in Seq(Int) /\ x = Len(tail) /\ (x = 1 => tail[1] = o - first)
  BY <1>1, <1>2
<1>9. ThreeIn(all, head, mid, tail, z, n, x)
  BY <1>3, <1>4, <1>7, <1>8, ThreeParts
<1>10. /\ Len(all) = z + n + x
       /\ \A i \in 1 .. z : all[i] = head[i]
       /\ \A i \in 1 .. n : all[z + i] = mid[i]
       /\ \A i \in 1 .. x : all[z + n + i] = tail[i]
  BY <1>9 DEF ThreeIn
<1>11. PICK v : v = [j \in 1 .. z + n + x |-> IF j <= z THEN 0 ELSE IF j <= z + n THEN s[j - z] ELSE o]
  OBVIOUS
<1>12. ASSUME NEW j \in 1 .. z
       PROVE  v[j] = 0 /\ all[j] = v[j] - first
  <2>1. v[j] = 0
    BY <1>11
  <2>2. all[j] = 0 /\ first = 0
    BY <1>1, <1>4, <1>10
  <2> QED
    BY <2>1, <2>2
<1>13. ASSUME NEW i \in 1 .. n
       PROVE  v[z + i] = s[i] /\ all[z + i] = v[z + i] - first
  <2>1. z + i \in 1 .. z + n + x /\ ~(z + i <= z) /\ z + i <= z + n /\ (z + i) - z = i
    OBVIOUS
  <2>2. v[z + i] = s[i]
    BY <1>11, <2>1
  <2>3. all[z + i] = s[i] - first
    BY <1>6, <1>10
  <2> QED
    BY <2>2, <2>3
<1>14. x = 1 => v[z + n + 1] = o /\ all[z + n + 1] = v[z + n + 1] - first
  <2> SUFFICES ASSUME x = 1 PROVE v[z + n + 1] = o /\ all[z + n + 1] = v[z + n + 1] - first
    OBVIOUS
  <2>1. z + n + 1 \in 1 .. z + n + x /\ ~(z + n + 1 <= z) /\ ~(z + n + 1 <= z + n) /\ 1 \in 1 .. x
    OBVIOUS
  <2>2. v[z + n + 1] = o
    BY <1>11, <2>1
  <2> QED
    BY <1>8, <1>10, <2>1, <2>2
<1>15. Places(v, s, n, z, x, o)
  BY <1>12, <1>13, <1>14 DEF Places
<1>16. ASSUME NEW j \in 1 .. z + n + x
       PROVE  all[j] = v[j] - first
  <2>1. CASE j <= z
    <3>1. j \in 1 .. z
      BY <2>1
    <3> QED
      BY <1>12, <3>1
  <2>2. CASE j > z /\ j <= z + n
    <3>1. j - z \in 1 .. n /\ z + (j - z) = j
      BY <2>2
    <3> QED
      BY <1>13, <3>1
  <2>3. CASE j > z + n
    <3>1. x = 1 /\ j = z + n + 1
      BY <1>1, <2>3
    <3> QED
      BY <1>14, <3>1
  <2> QED
    BY <2>1, <2>2, <2>3
<1> QED
  BY <1>10, <1>15, <1>16 DEF HavePlaces

LEMMA ColumnIsExact ==
  ASSUME Asked, NEW s \in Seq(Int), NEW t, NEW first, NEW last, NEW n \in Nat, NEW o \in Nat, NEW m \in Nat, NEW e \in Nat,
         IsEnd(s, t, n, first, last, o, m, e), Lists(s, n, first, last, o, m, e), e > 0,
         CharsAre(t, first, IF last = NoOffset THEN o ELSE last), o # 0, first # NoOffset,
         NEW r, r = Column
  PROVE  Len(r) = Cardinality(Begins) /\ \A p \in Begins : r[Rank(p, Begins) + 1] = RowFrom(p)
<1>1. m = Len(Content) /\ e = RangeEnd /\ n = Len(s)
  BY DEF IsEnd
<1>2. PICK to : to = IF last = NoOffset THEN o ELSE last
  OBVIOUS
<1>3. CharsAre(t, first, to)
  BY <1>2
<1>4. PICK insertEnd \in BOOLEAN : insertEnd = InsertsEnd(s, last, o)
  BY DEF InsertsEnd
<1>5. PICK z \in Nat : z = IF request.offset = 0 THEN 1 ELSE 0
  OBVIOUS
<1>6. PICK x \in Nat : x = IF last # NoOffset \/ (n > 0 /\ s[n] = o) THEN 0 ELSE 1
  OBVIOUS
<1>7. (x = 1 \/ x = 0) /\ (z = 1 \/ z = 0)
  BY <1>5, <1>6
<1>8. insertEnd <=> x = 1
  <2>1. s # <<>> <=> n > 0
    BY <1>1
  <2>2. insertEnd <=> ~(last # NoOffset \/ (s # <<>> /\ s[Len(s)] = o))
    BY <1>4, Zenon DEF InsertsEnd
  <2>3. insertEnd <=> ~(last # NoOffset \/ (n > 0 /\ s[n] = o))
    BY <1>1, <2>1, <2>2, Zenon
  <2>4. ~(0 = 1)
    OBVIOUS
  <2> QED
    BY <1>6, <2>3, <2>4, Zenon
<1>9. /\ first \in Nat /\ (z = 1 <=> first = 0) /\ z + n > 0
  <2>1. \A i \in 1 .. n : s[i] \in Nat /\ s[i] > 0
    BY DEF Lists
  <2>2. first = IF request.offset = 0 THEN 0 ELSE IF n = 0 THEN NoOffset ELSE s[1]
    BY DEF Lists
  <2>3. n # 0 => 1 \in 1 .. n
    OBVIOUS
  <2> QED
    BY <1>5, <2>1, <2>2, <2>3
<1>10. PICK all : all = AllOf(s, first, o, insertEnd)
  OBVIOUS
<1>11. HavePlaces(all, s, n, first, o, z, x)
  <2>1. IsAll(all, s, n, first, o, z, x, insertEnd)
    BY <1>1, <1>7, <1>8, <1>9, <1>10 DEF IsAll
  <2> QED
    BY <1>9, <2>1, AllAre, Zenon
<1>12. PICK v : Places(v, s, n, z, x, o) /\ Len(all) = z + n + x /\ \A j \in 1 .. z + n + x : all[j] = v[j] - first
  BY <1>11 DEF HavePlaces
<1>13. PICK k \in Nat : k + 1 = z + n + x /\ k = Len(all) - 1
  <2>1. z + n + x - 1 \in Nat /\ (z + n + x - 1) + 1 = z + n + x
    BY <1>9
  <2> QED
    BY <1>12, <2>1
<1>14. Bounding(v, k, x, first, to, m)
  <2>1. ArePlaces(v, s, first, last, n, o, z, x, k, to)
    BY <1>2, <1>5, <1>6, <1>12, <1>13 DEF ArePlaces
  <2> QED
    BY <1>1, <2>1, PlacesBound, Zenon
<1>15. /\ \A j \in 1 .. k + 1 : v[j] \in Nat
       /\ \A i, j \in 1 .. k + 1 : i < j => v[i] < v[j]
       /\ \A j \in 1 .. k : v[j] \in Begins
       /\ \A p \in Begins : \E j \in 1 .. k : p = v[j]
       /\ v[k + 1] = to
  BY <1>14 DEF Bounding
<1>16. to \in Nat
  BY <1>15
<1>17. r = ColumnOf(t, all, insertEnd)
  BY <1>4, <1>10, ColumnIs DEF IsEnd
<1>18. Len(r) = k
  <2>1. DOMAIN r = 1 .. k /\ r = [i \in 1 .. k |-> r[i]]
    BY <1>13, <1>17 DEF ColumnOf
  <2> QED
    BY <2>1, LengthIs
<1>19. ASSUME NEW j \in 1 .. k
       PROVE  r[j] = RowFrom(v[j])
  <2>1. PICK w \in Nat : IsStripped(w, j = k /\ x = 1)
    <3>1. Len(request.delim) \in Nat
      BY Given DEF Width
    <3> QED
      BY <3>1 DEF IsStripped
  <2>2. w = IF request.strip /\ ~(j = Len(all) - 1 /\ insertEnd) THEN Len(request.delim) ELSE 0
    BY <1>8, <1>13, <2>1 DEF IsStripped
  <2>3. r[j] = SubSeq(t, all[j] + 1, all[j] + Greater(0, all[j + 1] - all[j] - w))
    BY <1>13, <1>17, <2>2 DEF ColumnOf
  <2>4. PICK a \in Nat, b \in Nat : a = v[j] /\ b = v[j + 1]
    <3>1. j \in 1 .. k + 1 /\ j + 1 \in 1 .. k + 1
      OBVIOUS
    <3> QED
      BY <1>15, <3>1
  <2>5. all[j] = a - first /\ all[j + 1] = b - first
    <3>1. j \in 1 .. z + n + x /\ j + 1 \in 1 .. z + n + x
      BY <1>13
    <3> QED
      BY <1>12, <2>4, <3>1
  <2>6. (b - first) - (a - first) - w = b - a - w
    BY <1>9
  <2>7. r[j] = SubSeq(t, a - first + 1, a - first + Greater(0, b - a - w))
    BY <2>3, <2>5, <2>6
  <2>8. SubSeq(t, v[j] - first + 1, v[j] - first + Greater(0, v[j + 1] - v[j] - w)) = RowFrom(v[j])
    <3>1. IsRow(t, v, first, j, w)
      <4>1. RowGiven(t, first, to, m, v, k, x, j, w)
        BY <1>1, <1>3, <1>9, <1>14, <1>16, <2>1 DEF RowGiven
      <4> QED
        BY <4>1, RowIs, Zenon
    <3> QED
      BY <3>1 DEF IsRow
  <2> QED
    BY <2>4, <2>7, <2>8
<1>20. Cardinality(Begins) = k /\ \A j \in 1 .. k : Rank(v[j], Begins) = j - 1
  <2>1. IsFiniteSet(Begins)
    BY BeginsIs
  <2>2. \A j \in 1 .. k : v[j] \in Begins /\ v[j] \in Nat
    BY <1>15
  <2>3. \A i, j \in 1 .. k : i < j => v[i] < v[j]
    BY <1>15
  <2>4. IsListed(k, v, Begins)
    BY <1>15, <2>1, <2>2, <2>3 DEF IsListed
  <2>5. Ranks(k, v, Begins)
    BY <2>4, Listed, Zenon
  <2> QED
    BY <2>5 DEF Ranks
<1>21. ASSUME NEW p \in Begins
       PROVE  r[Rank(p, Begins) + 1] = RowFrom(p)
  <2>1. PICK j \in 1 .. k : p = v[j]
    BY <1>15
  <2>2. Rank(p, Begins) + 1 = j
    BY <1>20, <2>1
  <2> QED
    BY <1>19, <2>1, <2>2
<1> QED
  BY <1>18, <1>20, <1>21

(***************************************************************************)
(* The end of the call.                                                      *)
(***************************************************************************)
IsResult(r) == Len(r) = Cardinality(Begins) /\ \A p \in Begins : r[Rank(p, Begins) + 1] = RowFrom(p)

LEMMA SameResult ==
  ASSUME UNCHANGED request, NEW r, IsResult(r)
  PROVE  IsResult(r)'
<1>1. UNCHANGED <<RangeEnd, Content, Ends>>
  BY DEF RangeEnd, Content, Ends, EndsWith, IsBgzip
<1>2. UNCHANGED Begins
  BY <1>1 DEF Begins
<1>3. \A p : UNCHANGED RowFrom(p)
  BY <1>1 DEF RowFrom
<1> QED
  BY <1>2, <1>3 DEF IsResult

LEMMA ResultExact ==
  ASSUME UNCHANGED request, host'.pc = "done", NEW r, r = result', IsResult(r)
  PROVE  ExactInv'
<1>1. IsResult(r)'
  BY SameResult
<1>2. IsResult(result)'
  BY <1>1 DEF IsResult
<1> QED
  BY <1>2 DEF ExactInv, RowsAreExact, IsResult

LEMMA NoResult ==
  ASSUME Begins = {}
  PROVE  IsResult(<<>>)
<1>1. Cardinality(Begins) = 0
  BY FS_EmptySet
<1> QED
  BY <1>1 DEF IsResult

LEMMA ReturnAtOnceExact ==
  ASSUME SplitInv, ExactInv, ReturnAtOnce
  PROVE  ExactInv'
<1>1. Asked /\ DOMAIN host = {"pc", "chunk", "chunkOffset", "base", "tiles", "first", "last"}
  BY DEF SplitInv, HostInv
<1>2. host.pc = "start" /\ request.size = 0 /\ host'.pc = "done" /\ UNCHANGED <<request, result>>
  BY <1>1 DEF ReturnAtOnce
<1>3. result' = <<>>
  BY <1>2 DEF ExactInv
<1>4. Begins = {}
  <2> SUFFICES ASSUME NEW p \in Begins PROVE FALSE
    OBVIOUS
  <2>1. request.offset <= p /\ p < RangeEnd /\ (p = 0 \/ p \in Ends)
    BY <1>1, BeginsIs
  <2>2. p \in Nat /\ request.offset \in Nat
    BY <1>1, <2>1, BeginsIs, Given
  <2>3. RangeEnd = request.offset
    BY <1>2, <2>2 DEF RangeEnd
  <2> QED
    BY <2>1, <2>2, <2>3
<1> QED
  BY <1>2, <1>3, <1>4, NoResult, ResultExact

LEMMA ReturnExact ==
  ASSUME SplitInv, ExactInv, Return
  PROVE  ExactInv'
<1>1. Asked /\ DOMAIN host = {"pc", "chunk", "chunkOffset", "base", "tiles", "first", "last"}
  BY DEF SplitInv, HostInv
<1>2. /\ host.pc = "loop" /\ host'.pc = "done" /\ UNCHANGED request
      /\ result' = IF host.chunkOffset = 0 \/ host.first = NoOffset \/ host.first = host.last THEN <<>> ELSE Column
  BY <1>1 DEF Return
<1>3. PICK s, t, first, last : \E n, o, m, e \in Nat :
        IsEnd(s, t, n, first, last, o, m, e) /\ Lists(s, n, first, last, o, m, e) /\ e > 0
          /\ CharsAre(t, first, IF last = NoOffset THEN o ELSE last)
  BY ReturnFinds
<1>4. PICK n \in Nat, o \in Nat, m \in Nat, e \in Nat :
        IsEnd(s, t, n, first, last, o, m, e) /\ Lists(s, n, first, last, o, m, e) /\ e > 0
          /\ CharsAre(t, first, IF last = NoOffset THEN o ELSE last)
  BY <1>3
<1>5. /\ m = Len(Content) /\ e = RangeEnd /\ s = Offsets
      /\ first = host.first /\ last = host.last /\ o = host.chunkOffset
  BY <1>4 DEF IsEnd
<1>6. CASE o = 0 \/ first = NoOffset \/ first = last
  <2>1. Begins = {}
    BY <1>1, <1>4, <1>5, <1>6, NoRows, Zenon
  <2>2. result' = <<>>
    BY <1>2, <1>5, <1>6
  <2> QED
    BY <1>2, <2>1, <2>2, NoResult, ResultExact
<1>7. CASE ~(o = 0 \/ first = NoOffset \/ first = last)
  <2>1. s \in Seq(Int)
    BY <1>2, <1>5 DEF ExactInv, IsFilled, Offsets
  <2>2. PICK r : r = Column
    OBVIOUS
  <2>3. o # 0 /\ first # NoOffset
    BY <1>7
  <2>4. Len(r) = Cardinality(Begins) /\ \A p \in Begins : r[Rank(p, Begins) + 1] = RowFrom(p)
    BY <1>1, <1>4, <2>1, <2>2, <2>3, ColumnIsExact, Zenon
  <2>5. IsResult(r)
    BY <2>4 DEF IsResult
  <2>6. r = result'
    BY <1>2, <1>5, <1>7, <2>2
  <2> QED
    BY <1>2, <2>5, <2>6, ResultExact
<1> QED
  BY <1>6, <1>7

LEMMA RestsExact ==
  ASSUME SplitInv, ExactInv, UNCHANGED splitVars
  PROVE  ExactInv'
<1>1. UNCHANGED <<request, host, rows, chars, tile, result>>
  BY DEF splitVars, hostVars
<1>2. CASE host.pc = "start"
  BY <1>1, <1>2 DEF ExactInv, Builder!NewBuilder
<1>3. CASE host.pc \in {"loop", "copy"}
  <2>1. /\ BuilderInv(chars) /\ IsFilled(chars) /\ IsFilled(rows) /\ ReadInv
        /\ OffsetsAre(Offsets, host.first, host.last) /\ CharsAre(Copied, host.first, CopiedTo)
    BY <1>3 DEF ExactInv
  <2>2. ReadInv' /\ CopiedTo' = CopiedTo
    BY <1>1, <2>1, ReadRests
  <2>3. PICK s, t, first, last, to :
          s = Offsets /\ t = Copied /\ first = host.first /\ last = host.last /\ to = CopiedTo
    OBVIOUS
  <2>4. OffsetsAre(s, first, last) /\ CharsAre(t, first, to)
    BY <2>1, <2>3
  <2>5. BuilderInv(chars') /\ IsFilled(chars') /\ IsFilled(rows')
    BY <1>1, <2>1
  <2>6. /\ s = Builder!Gathered(rows') /\ t = Builder!Gathered(chars') /\ first = host'.first /\ last = host'.last
        /\ to = CopiedTo' /\ host'.pc \in {"loop", "running", "copy"} /\ host'.pc # "running"
    BY <1>1, <1>3, <2>2, <2>3 DEF Offsets, Copied
  <2> QED
    BY <1>1, <2>2, <2>4, <2>5, <2>6, ExactNext
<1>4. CASE host.pc = "running"
  BY <1>1, <1>4, QuietBlockExact
<1>5. CASE host.pc = "done"
  <2>1. IsResult(result)
    BY <1>5 DEF ExactInv, RowsAreExact, IsResult
  <2>2. PICK r : r = result
    OBVIOUS
  <2> QED
    BY <1>1, <1>5, <2>1, <2>2, ResultExact
<1>6. CASE host.pc \notin {"start", "loop", "running", "copy", "done"}
  BY <1>1, <1>6 DEF ExactInv
<1> QED
  BY <1>2, <1>3, <1>4, <1>5, <1>6

LEMMA ExactStep ==
  ASSUME SplitInv, ExactInv, [Next]_splitVars
  PROVE  ExactInv'
<1>1. CASE Fails
  <2>1. host'.pc = "failed"
    <3>1. DOMAIN host = {"pc", "chunk", "chunkOffset", "base", "tiles", "first", "last"}
      BY DEF SplitInv, HostInv
    <3> QED
      BY <1>1, <3>1 DEF Fails
  <2> QED
    BY <2>1 DEF ExactInv, RowsAreExact
<1>2. CASE ReturnAtOnce
  BY <1>2, ReturnAtOnceExact
<1>3. CASE Begin
  BY <1>3, BeginExact
<1>4. CASE Launch
  BY <1>4, LaunchExact
<1>5. CASE Collect
  BY <1>5, CollectExact
<1>6. CASE Copy
  BY <1>6, CopyExact
<1>7. CASE Return
  BY <1>7, ReturnExact
<1>8. ASSUME host.pc = "running", NEW b \in Blocks, Block(b) PROVE ExactInv'
  BY <1>8, BlockStepExact
<1>9. CASE UNCHANGED splitVars
  BY <1>9, RestsExact
<1> QED
  BY <1>1, <1>2, <1>3, <1>4, <1>5, <1>6, <1>7, <1>8, <1>9 DEF Next

(***************************************************************************)
(* The theorem.                                                             *)
(***************************************************************************)
\* The rows returned for a range of a plain text are those that begin in it: none is missing,
\* none is there twice, each is whole and in its place, whatever the sizes of tiles, chunks and
\* rings, the number of blocks that run at once and their order.  So consecutive ranges give
\* every row once (multibyte_split).
THEOREM SplitRowsAreExact ==
  Spec /\ ~IsBgzip => []RowsAreExact
<1>1. Init => ExactInv
  BY InitExact
<1>2. SplitInv /\ ExactInv /\ [Next]_splitVars => ExactInv'
  BY ExactStep
<1>3. SplitInv /\ ExactInv => RowsAreExact
  BY DEF ExactInv, RowsAreExact
<1> QED
  BY <1>1, <1>2, <1>3, SplitInvariant, PTL DEF Spec
=============================================================================
