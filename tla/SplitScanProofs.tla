--------------------------- MODULE SplitScanProofs ---------------------------
(***************************************************************************)
(* The prefixes of multibyte_split are true, for texts, delimiters, tiles and *)
(* rings of any size and for every order of the thread blocks: the scans, which *)
(* LookBackProofs shows to be right, are scans of what the text has, and the    *)
(* vectors that the rows are written to have room for them.                     *)
(***************************************************************************)
EXTENDS SplitScan, FiniteSetTheorems, WellFoundedInduction, TLAPS

(***************************************************************************)
(* What is true of the text.                                                *)
(***************************************************************************)
Width == Len(request.delim)

\* Character p of what is split, as the blocks see it.
Byte(p) == IF p \in DOMAIN Content THEN request.text[Content[p]] ELSE request.junk

\* The bytes before q are those of the delimiter after the first a and up to b.
Agree(q, a, b) == \A i \in a + 1 .. b : Byte(q - b + i) = request.delim[i]

\* The multistate of the bytes from p to q, and what is known of those from the first one.
Across(p, q) ==
  {s \in (0 .. Width) \X (0 .. Width) :
     /\ s[1] <= s[2] /\ Agree(q, s[1], s[2])
     /\ s[2] - s[1] = q - p \/ (s[1] = 0 /\ s[2] <= q - p)}
Known(q) == {s \in Across(FirstOffset, q) : s[1] = 0}

\* The delimiters that end there.
IsFound(q) == q \in DOMAIN Content /\ <<0, Width>> \in Known(q)
Found(p, q) == {r \in p + 1 .. q : IsFound(r)}

(***************************************************************************)
(* Multistates.                                                             *)
(***************************************************************************)
Asked == request \in Requests /\ request.file = <<>>
Multistates == SUBSET (Nat \X Nat)

LEMMA Given ==
  ASSUME Asked
  PROVE  /\ Width \in Nat /\ Width > 0 /\ request.delim \in Seq(Int) /\ DOMAIN request.delim = 1 .. Width
         /\ FirstOffset \in Nat /\ request.offset \in Nat /\ request.size \in Nat /\ RangeEnd \in Nat
         /\ request.text \in Seq(Int)
<1>1. /\ request.text \in Seq(Int) /\ request.delim \in Seq(Int) /\ request.delim # <<>>
      /\ request.offset \in Nat /\ request.size \in Nat
  BY RequestsAssumption DEF Asked
<1>2. Width \in Nat /\ Width > 0 /\ DOMAIN request.delim = 1 .. Width
  BY <1>1 DEF Width
<1>3. FirstOffset \in Nat
  BY <1>1, <1>2 DEF FirstOffset, Greater, Width
<1> QED
  BY <1>1, <1>2, <1>3 DEF RangeEnd

LEMMA Joined ==
  ASSUME NEW s, NEW t, NEW e
  PROVE  e \in Join(s, t) <=> \E l \in s, r \in t : r[1] = l[2] /\ e = <<l[1], r[2]>>
BY DEF Join

LEMMA JoinIsMultistate ==
  ASSUME NEW s \in Multistates, NEW t \in Multistates
  PROVE  Join(s, t) \in Multistates
BY Joined DEF Multistates

LEMMA JoinAssociates ==
  ASSUME NEW s \in Multistates, NEW t \in Multistates, NEW u \in Multistates
  PROVE  Join(Join(s, t), u) = Join(s, Join(t, u))
<1>1. ASSUME NEW e \in Join(Join(s, t), u) PROVE e \in Join(s, Join(t, u))
  <2>1. PICK m \in Join(s, t), r \in u : r[1] = m[2] /\ e = <<m[1], r[2]>>
    BY <1>1, Joined
  <2>2. PICK l \in s, n \in t : n[1] = l[2] /\ m = <<l[1], n[2]>>
    BY <2>1, Joined
  <2>3. <<n[1], r[2]>> \in Join(t, u)
    BY <2>1, <2>2, Joined
  <2> QED
    BY <2>1, <2>2, <2>3, Joined
<1>2. ASSUME NEW e \in Join(s, Join(t, u)) PROVE e \in Join(Join(s, t), u)
  <2>1. PICK l \in s, m \in Join(t, u) : m[1] = l[2] /\ e = <<l[1], m[2]>>
    BY <1>2, Joined
  <2>2. PICK n \in t, r \in u : r[1] = n[2] /\ m = <<n[1], r[2]>>
    BY <2>1, Joined
  <2>3. <<l[1], n[2]>> \in Join(s, t)
    BY <2>1, <2>2, Joined
  <2> QED
    BY <2>1, <2>2, <2>3, Joined
<1> QED
  BY <1>1, <1>2

LEMMA AcrossMember ==
  ASSUME Asked, NEW p \in Nat, NEW q \in Nat, NEW a, NEW b
  PROVE  <<a, b>> \in Across(p, q) <=>
           /\ a \in 0 .. Width /\ b \in 0 .. Width /\ a <= b /\ Agree(q, a, b)
           /\ b - a = q - p \/ (a = 0 /\ b <= q - p)
BY DEF Across

LEMMA AcrossPairs ==
  ASSUME Asked, NEW p, NEW q, NEW s \in Across(p, q)
  PROVE  s = <<s[1], s[2]>> /\ s[1] \in 0 .. Width /\ s[2] \in 0 .. Width
BY DEF Across

LEMMA AcrossIsMultistate ==
  ASSUME Asked, NEW p, NEW q
  PROVE  Across(p, q) \in Multistates
<1>1. Width \in Nat
  BY Given
<1> QED
  BY <1>1 DEF Across, Multistates

LEMMA KnownIsMultistate ==
  ASSUME Asked, NEW q
  PROVE  Known(q) \in Multistates
BY AcrossIsMultistate DEF Known, Multistates

\* Bytes that agree with the delimiter, followed by bytes that agree with what comes next.
LEMMA AgreeBoth ==
  ASSUME NEW q \in Nat, NEW r \in Nat, NEW a \in Nat, NEW b \in Nat, NEW c \in Nat,
         a <= b, b <= c, c - b = r - q
  PROVE  Agree(r, a, c) <=> Agree(q, a, b) /\ Agree(r, b, c)
<1>1. \A i \in Int : r - c + i = q - b + i
  OBVIOUS
<1>2. \A i \in Int : i \in a + 1 .. c <=> i \in a + 1 .. b \/ i \in b + 1 .. c
  OBVIOUS
<1> QED
  BY <1>1, <1>2 DEF Agree

LEMMA AgreeNone ==
  ASSUME NEW q, NEW a \in Nat
  PROVE  Agree(q, a, a)
BY DEF Agree

LEMMA AcrossBoth ==
  ASSUME Asked, NEW p \in Nat, NEW q \in Nat, NEW r \in Nat, p <= q, q <= r,
         NEW a \in Nat, NEW b \in Nat, NEW c \in Nat, <<a, b>> \in Across(p, q), <<b, c>> \in Across(q, r)
  PROVE  <<a, c>> \in Across(p, r)
<1>0. Width \in Nat
  BY Given
<1>1. /\ a \in 0 .. Width /\ b \in 0 .. Width /\ a <= b /\ Agree(q, a, b)
      /\ b - a = q - p \/ (a = 0 /\ b <= q - p)
      /\ c \in 0 .. Width /\ b <= c /\ Agree(r, b, c)
      /\ c - b = r - q \/ (b = 0 /\ c <= r - q)
  BY AcrossMember
<1>2. CASE c - b = r - q
  <2>1. a <= b /\ b <= c /\ c - b = r - q
    BY <1>1, <1>2
  <2>2. Agree(r, a, c) <=> Agree(q, a, b) /\ Agree(r, b, c)
    BY <2>1, AgreeBoth
  <2> QED
    BY <1>0, <1>1, <1>2, <2>2, AcrossMember
<1>3. CASE b = 0 /\ c <= r - q
  <2>1. a = 0 /\ c <= r - p
    BY <1>1, <1>3
  <2> QED
    BY <1>0, <1>1, <1>3, <2>1, AcrossMember
<1> QED
  BY <1>1, <1>2, <1>3

LEMMA AcrossCut ==
  ASSUME Asked, NEW p \in Nat, NEW q \in Nat, NEW r \in Nat, p <= q, q <= r,
         NEW a \in Nat, NEW c \in Nat, <<a, c>> \in Across(p, r)
  PROVE  \E b \in Nat : <<a, b>> \in Across(p, q) /\ <<b, c>> \in Across(q, r)
<1>0. Width \in Nat
  BY Given
<1>1. /\ a \in 0 .. Width /\ c \in 0 .. Width /\ a <= c /\ Agree(r, a, c)
      /\ c - a = r - p \/ (a = 0 /\ c <= r - p)
  BY AcrossMember
<1>2. CASE c - a <= r - q /\ a = 0
  <2>1. <<0, 0>> \in Across(p, q) /\ <<0, c>> \in Across(q, r)
    BY <1>0, <1>1, <1>2, AcrossMember, AgreeNone
  <2> QED
    BY <1>2, <2>1
<1>3. CASE c - a > r - q \/ a # 0
  <2>1. /\ c - (r - q) \in 0 .. Width /\ a <= c - (r - q)
        /\ (c - (r - q)) - a = q - p \/ (a = 0 /\ c - (r - q) <= q - p)
    BY <1>0, <1>1, <1>3
  <2>2. ASSUME NEW b \in Nat, b = c - (r - q)
        PROVE  <<a, b>> \in Across(p, q) /\ <<b, c>> \in Across(q, r)
    <3>1. /\ b \in 0 .. Width /\ a <= b /\ b <= c /\ c - b = r - q
          /\ b - a = q - p \/ (a = 0 /\ b <= q - p)
      BY <2>1, <2>2
    <3>2. Agree(q, a, b) /\ Agree(r, b, c)
      BY <1>1, <3>1, AgreeBoth
    <3> QED
      BY <1>1, <3>1, <3>2, AcrossMember
  <2> QED
    BY <2>1, <2>2
<1> QED
  BY <1>0, <1>1, <1>2, <1>3

LEMMA AcrossJoins ==
  ASSUME Asked, NEW p \in Nat, NEW q \in Nat, NEW r \in Nat, p <= q, q <= r
  PROVE  Join(Across(p, q), Across(q, r)) = Across(p, r)
<1>0. Width \in Nat
  BY Given
<1>1. ASSUME NEW e \in Join(Across(p, q), Across(q, r)) PROVE e \in Across(p, r)
  <2>1. PICK s \in Across(p, q), t \in Across(q, r) : t[1] = s[2] /\ e = <<s[1], t[2]>>
    BY <1>1, Joined
  <2>2. /\ s[1] \in Nat /\ s[2] \in Nat /\ t[2] \in Nat
        /\ <<s[1], s[2]>> \in Across(p, q) /\ <<s[2], t[2]>> \in Across(q, r)
    BY <1>0, <2>1, AcrossPairs
  <2> QED
    BY <2>1, <2>2, AcrossBoth
<1>2. ASSUME NEW e \in Across(p, r) PROVE e \in Join(Across(p, q), Across(q, r))
  <2>1. e[1] \in Nat /\ e[2] \in Nat /\ e = <<e[1], e[2]>>
    BY <1>0, <1>2, AcrossPairs
  <2>2. PICK b \in Nat : <<e[1], b>> \in Across(p, q) /\ <<b, e[2]>> \in Across(q, r)
    BY <2>1, AcrossCut
  <2> QED
    BY <2>1, <2>2, Joined
<1> QED
  BY <1>1, <1>2

LEMMA KnownJoins ==
  ASSUME Asked, NEW p \in Nat, NEW q \in Nat, FirstOffset <= p, p <= q
  PROVE  Join(Known(p), Across(p, q)) = Known(q)
<1>1. Join(Across(FirstOffset, p), Across(p, q)) = Across(FirstOffset, q)
  BY Given, AcrossJoins
<1>2. ASSUME NEW e PROVE e \in Join(Known(p), Across(p, q)) <=> e \in Known(q)
  <2>1. e \in Join(Known(p), Across(p, q)) <=>
          \E s \in Across(FirstOffset, p), t \in Across(p, q) : s[1] = 0 /\ t[1] = s[2] /\ e = <<s[1], t[2]>>
    BY Joined DEF Known
  <2>2. e \in Across(FirstOffset, q) <=>
          \E s \in Across(FirstOffset, p), t \in Across(p, q) : t[1] = s[2] /\ e = <<s[1], t[2]>>
    BY <1>1, Joined
  <2>3. e \in Known(q) <=> e \in Across(FirstOffset, q) /\ e[1] = 0
    BY DEF Known
  <2>4. \A s, t : e = <<s[1], t[2]>> => e[1] = s[1]
    OBVIOUS
  <2> QED
    BY <2>1, <2>2, <2>3, <2>4
<1> QED
  BY <1>2

(***************************************************************************)
(* A thread's and a block's multistates.                                     *)
(***************************************************************************)
LEMMA AgreeOne ==
  ASSUME NEW q \in Nat, NEW a \in Nat
  PROVE  Agree(q + 1, a, a + 1) <=> Byte(q + 1) = request.delim[a + 1]
<1>1. \A i \in a + 1 .. a + 1 : i = a + 1
  OBVIOUS
<1>2. a + 1 \in a + 1 .. a + 1 /\ (q + 1) - (a + 1) + (a + 1) = q + 1
  OBVIOUS
<1> QED
  BY <1>1, <1>2 DEF Agree

LEMMA AcrossOne ==
  ASSUME Asked, NEW p \in Nat
  PROVE  TransitionInit(request.delim, Byte(p + 1)) = Across(p, p + 1)
<1> DEFINE c == Byte(p + 1)
           J == {j \in 0 .. Width - 1 : request.delim[j + 1] = c}
<1>0. Width \in Nat /\ Width > 0 /\ p + 1 \in Nat
  BY Given
<1>1. TransitionInit(request.delim, c) = {<<0, 0>>} \cup {<<i, i + 1>> : i \in J}
  BY DEF TransitionInit, Start, Width
<1>2. ASSUME NEW e \in TransitionInit(request.delim, c) PROVE e \in Across(p, p + 1)
  <2>1. CASE e = <<0, 0>>
    BY <1>0, <2>1, AcrossMember, AgreeNone
  <2>2. CASE \E i \in J : e = <<i, i + 1>>
    <3>1. PICK i \in J : e = <<i, i + 1>>
      BY <2>2
    <3>2. i \in 0 .. Width /\ i + 1 \in 0 .. Width /\ i <= i + 1 /\ (i + 1) - i = 1 /\ i \in Nat
      BY <1>0
    <3>3. Agree(p + 1, i, i + 1)
      BY <3>2, AgreeOne
    <3> QED
      BY <1>0, <3>1, <3>2, <3>3, AcrossMember
  <2> QED
    BY <1>1, <1>2, <2>1, <2>2
<1>3. ASSUME NEW e \in Across(p, p + 1) PROVE e \in TransitionInit(request.delim, c)
  <2>1. PICK a \in Nat, b \in Nat : a = e[1] /\ b = e[2] /\ e = <<a, b>>
    BY <1>0, <1>3, AcrossPairs
  <2>2. /\ a \in 0 .. Width /\ b \in 0 .. Width /\ a <= b /\ Agree(p + 1, a, b)
        /\ b - a = (p + 1) - p \/ (a = 0 /\ b <= (p + 1) - p)
    BY <1>0, <1>3, <2>1, AcrossMember
  <2>3. CASE b = 0
    BY <1>1, <2>1, <2>2, <2>3
  <2>4. CASE b # 0
    <3>1. b = a + 1 /\ b - a = 1 /\ a \in 0 .. Width - 1 /\ a \in Nat
      BY <1>0, <2>2, <2>4
    <3>2. a \in J
      BY <2>2, <3>1, AgreeOne
    <3> QED
      BY <1>1, <2>1, <3>1, <3>2
  <2> QED
    BY <2>3, <2>4
<1> QED
  BY <1>2, <1>3

\* One more byte, for a multistate of what follows an empty match.
LEMMA TransitionJoins ==
  ASSUME Asked, NEW s, NEW c, <<0, 0>> \in s,
         \A l \in s : l = <<l[1], l[2]>> /\ l[1] \in 0 .. Width /\ l[2] \in 0 .. Width /\ l[1] <= l[2]
  PROVE  Transition(request.delim, c, s) = Join(s, TransitionInit(request.delim, c))
<1>0. Width \in Nat
  BY Given
<1>1. ASSUME NEW e
      PROVE  e \in Transition(request.delim, c, s) <=>
               e = <<0, 0>> \/ \E t \in s : /\ t[2] < Width /\ request.delim[t[2] + 1] = c
                                          /\ e = <<t[1], t[2] + 1>>
  BY DEF Transition, Start, Width
<1>2. ASSUME NEW i, NEW j
      PROVE  <<i, j>> \in TransitionInit(request.delim, c) <=>
               (i = 0 /\ j = 0) \/ (i \in 0 .. Width - 1 /\ request.delim[i + 1] = c /\ j = i + 1)
  BY DEF TransitionInit, Start, Width
<1>3. \A r \in TransitionInit(request.delim, c) : r = <<r[1], r[2]>>
  BY DEF TransitionInit, Start
<1>4. ASSUME NEW e \in Transition(request.delim, c, s) PROVE e \in Join(s, TransitionInit(request.delim, c))
  <2>1. CASE e = <<0, 0>>
    BY <1>2, <2>1, Joined
  <2>2. CASE \E t \in s : t[2] < Width /\ request.delim[t[2] + 1] = c /\ e = <<t[1], t[2] + 1>>
    <3>1. PICK t \in s : t[2] < Width /\ request.delim[t[2] + 1] = c /\ e = <<t[1], t[2] + 1>>
      BY <2>2
    <3>2. <<t[2], t[2] + 1>> \in TransitionInit(request.delim, c)
      BY <1>0, <1>2, <3>1
    <3> QED
      BY <3>1, <3>2, Joined
  <2> QED
    BY <1>1, <1>4, <2>1, <2>2
<1>5. ASSUME NEW e \in Join(s, TransitionInit(request.delim, c)) PROVE e \in Transition(request.delim, c, s)
  <2>1. PICK l \in s, r \in TransitionInit(request.delim, c) : r[1] = l[2] /\ e = <<l[1], r[2]>>
    BY <1>5, Joined
  <2>2. \/ r[1] = 0 /\ r[2] = 0
        \/ r[1] \in 0 .. Width - 1 /\ request.delim[r[1] + 1] = c /\ r[2] = r[1] + 1
    BY <1>2, <1>3, <2>1
  <2>3. CASE r[1] = 0 /\ r[2] = 0
    <3>2. l[1] \in 0 .. Width /\ l[1] <= l[2] /\ l[2] = 0
      BY <2>1, <2>3
    <3>3. l[1] = 0
      BY <1>0, <3>2
    <3>1. e = <<0, 0>>
      BY <2>1, <2>3, <3>3
    <3> QED
      BY <1>1, <3>1
  <2>4. CASE r[1] \in 0 .. Width - 1 /\ request.delim[r[1] + 1] = c /\ r[2] = r[1] + 1
    BY <1>0, <1>1, <2>1, <2>4
  <2> QED
    BY <2>2, <2>3, <2>4
<1> QED
  BY <1>4, <1>5

LEMMA NothingAcross ==
  ASSUME Asked, NEW p \in Nat, NEW q \in Nat, p <= q
  PROVE  <<0, 0>> \in Across(p, q)
<1>1. Width \in Nat
  BY Given
<1> QED
  BY <1>1, AcrossMember, AgreeNone

LEMMA Ordered ==
  ASSUME Asked, NEW p \in Nat, NEW q \in Nat, NEW l \in Across(p, q)
  PROVE  l = <<l[1], l[2]>> /\ l[1] \in 0 .. Width /\ l[2] \in 0 .. Width /\ l[1] <= l[2]
<1>1. l = <<l[1], l[2]>> /\ l[1] \in 0 .. Width /\ l[2] \in 0 .. Width
  BY AcrossPairs
<1>2. l[1] <= l[2]
  BY <1>1, AcrossMember
<1> QED
  BY <1>1, <1>2

LEMMA TransitionAcross ==
  ASSUME Asked, NEW p \in Nat, NEW q \in Nat, p <= q
  PROVE  Transition(request.delim, Byte(q + 1), Across(p, q)) = Across(p, q + 1)
<1>1. Transition(request.delim, Byte(q + 1), Across(p, q)) =
        Join(Across(p, q), TransitionInit(request.delim, Byte(q + 1)))
  BY NothingAcross, Ordered, TransitionJoins
<1>2. TransitionInit(request.delim, Byte(q + 1)) = Across(q, q + 1)
  BY AcrossOne
<1>3. Join(Across(p, q), Across(q, q + 1)) = Across(p, q + 1)
  BY AcrossJoins
<1> QED
  BY <1>1, <1>2, <1>3

LEMMA TransitionKnown ==
  ASSUME Asked, NEW q \in Nat, FirstOffset <= q
  PROVE  Transition(request.delim, Byte(q + 1), Known(q)) = Known(q + 1)
<1>0. FirstOffset \in Nat
  BY Given
<1>1. Transition(request.delim, Byte(q + 1), Known(q)) =
        Join(Known(q), TransitionInit(request.delim, Byte(q + 1)))
  BY <1>0, NothingAcross, Ordered, TransitionJoins DEF Known
<1>2. TransitionInit(request.delim, Byte(q + 1)) = Across(q, q + 1)
  BY AcrossOne
<1>3. Join(Known(q), Across(q, q + 1)) = Known(q + 1)
  BY KnownJoins
<1> QED
  BY <1>1, <1>2, <1>3

LEMMA KnownAtFirst ==
  ASSUME Asked
  PROVE  Known(FirstOffset) = Start
<1>1. FirstOffset \in Nat /\ Width \in Nat
  BY Given
<1>2. ASSUME NEW e \in Known(FirstOffset) PROVE e = <<0, 0>>
  <2>1. e \in Across(FirstOffset, FirstOffset) /\ e[1] = 0
    BY DEF Known
  <2>2. e = <<e[1], e[2]>> /\ e[2] \in 0 .. Width
    BY <2>1, AcrossPairs
  <2>3. e[2] - 0 = 0 \/ e[2] <= 0
    BY <1>1, <2>1, <2>2, AcrossMember
  <2>4. e[2] = 0
    BY <1>1, <2>2, <2>3
  <2> QED
    BY <2>1, <2>2, <2>4
<1>3. <<0, 0>> \in Known(FirstOffset)
  BY <1>1, NothingAcross DEF Known
<1> QED
  BY <1>2, <1>3 DEF Start

(***************************************************************************)
(* The chunk and its tiles.                                                 *)
(***************************************************************************)
Pos(b) == FirstOffset + b * TileBytes
At(b, t) == Pos(b) + t * ThreadBytes

\* The chunk is the part of what is split that begins at its first tile.
IsChunk(most) ==
  /\ host.chunk \in Seq(Nat) /\ Len(host.chunk) \in 1 .. most
  /\ host.chunkOffset = Pos(host.base)
  /\ host.chunkOffset + Len(host.chunk) <= Len(Content)
  /\ \A p \in DOMAIN host.chunk : host.chunk[p] = Content[host.chunkOffset + p]
  /\ Len(host.chunk) < most => host.chunkOffset + Len(host.chunk) = Len(Content)
Loaded ==
  /\ host.base \in Nat /\ host.tiles \in 1 .. TilesPerChunk
  /\ IsChunk(host.tiles * TileBytes) /\ Len(host.chunk) > (host.tiles - 1) * TileBytes

LEMMA Sizes ==
  /\ ThreadBytes \in Nat /\ ThreadBytes > 0 /\ TileBytes \in Nat /\ TileBytes > 0
  /\ TilesPerChunk \in Nat /\ TilesPerChunk > 0 /\ SpareTiles \in Nat
  /\ TileBytes \div ThreadBytes \in Nat /\ TileBytes \div ThreadBytes > 0
  /\ (TileBytes \div ThreadBytes) * ThreadBytes = TileBytes
  /\ Threads = 0 .. (TileBytes \div ThreadBytes) - 1
  /\ Cardinality(Threads) = TileBytes \div ThreadBytes
<1>1. /\ ThreadBytes \in Nat /\ ThreadBytes > 0 /\ TileBytes \in Nat /\ TileBytes > 0
      /\ TilesPerChunk \in Nat /\ TilesPerChunk > 0 /\ SpareTiles \in Nat /\ TileBytes % ThreadBytes = 0
  BY SizesAssumption
<1>2. TileBytes = ThreadBytes * (TileBytes \div ThreadBytes) + (TileBytes % ThreadBytes)
  BY <1>1
<1>3. TileBytes \div ThreadBytes \in Int
  BY <1>1
<1>4. PICK k \in Int : k = TileBytes \div ThreadBytes
  BY <1>3
<1>5. TileBytes = ThreadBytes * k
  BY <1>1, <1>2, <1>3, <1>4
<1>6. k > 0 /\ k * ThreadBytes = TileBytes
  <2>1. k <= 0 => ThreadBytes * k <= 0
    BY <1>1, <1>4
  <2> QED
    BY <1>1, <1>4, <1>5, <2>1
<1>7. Threads = 0 .. k - 1 /\ k - 1 \in Int
  BY <1>4 DEF Threads
<1>8. Cardinality(0 .. k - 1) = k
  <2>1. 0 <= k - 1 /\ (k - 1) - 0 + 1 = k
    BY <1>4, <1>6
  <2> QED
    BY <1>7, <2>1, FS_Interval
<1> QED
  BY <1>1, <1>4, <1>6, <1>7, <1>8

LEMMA ThreadsAre ==
  \E n \in Nat : n > 0 /\ n = TileBytes \div ThreadBytes /\ Threads = 0 .. n - 1 /\ n * ThreadBytes = TileBytes
<1>1. PICK n \in Nat : n = TileBytes \div ThreadBytes
  BY Sizes
<1>2. n > 0 /\ n * ThreadBytes = TileBytes
  BY <1>1, Sizes
<1>3. Threads = 0 .. n - 1
  BY <1>1, Sizes
<1> QED
  BY <1>1, <1>2, <1>3

LEMMA ThreadCount ==
  Cardinality(Threads) = TileBytes \div ThreadBytes
BY Sizes

LEMMA ContentIs ==
  ASSUME Asked
  PROVE  /\ Content \in Seq(Nat) /\ DOMAIN Content = 1 .. Len(request.text) /\ Len(Content) = Len(request.text)
         /\ \A i \in DOMAIN Content : Content[i] = i
<1>1. request.text \in Seq(Int)
  BY Given
<1>2. Content = [i \in 1 .. Len(request.text) |-> i]
  BY <1>1 DEF Content, IsBgzip, Asked
<1> QED
  BY <1>1, <1>2

LEMMA Positions ==
  ASSUME Asked, NEW b \in Nat
  PROVE  /\ Pos(b) \in Nat /\ Pos(b) >= FirstOffset /\ FirstOffset \in Nat /\ Pos(0) = FirstOffset
         /\ Pos(b + 1) = Pos(b) + TileBytes
<1>1. FirstOffset \in Nat /\ TileBytes \in Nat
  BY Given, Sizes
<1>2. b * TileBytes \in Nat /\ (b + 1) * TileBytes = b * TileBytes + TileBytes /\ 0 * TileBytes = 0
  BY <1>1
<1> QED
  BY <1>1, <1>2 DEF Pos

LEMMA TileChars ==
  ASSUME Asked, Loaded, NEW b \in Blocks, NEW j \in 1 .. TileBytes
  PROVE  /\ b \in Nat /\ FirstByte(b) \in Nat /\ host.chunkOffset \in Nat
         /\ host.chunkOffset + FirstByte(b) = Pos(b)
         /\ CharAt(FirstByte(b) + j) = Byte(Pos(b) + j)
         /\ FirstByte(b) + j <= Len(host.chunk) <=> Pos(b) + j \in DOMAIN Content
<1>1. /\ TileBytes \in Nat /\ TileBytes > 0 /\ FirstOffset \in Nat
      /\ host.base \in Nat /\ host.tiles \in Nat /\ host.tiles >= 1
  <2>1. host.base \in Nat /\ host.tiles \in 1 .. TilesPerChunk
    BY DEF Loaded
  <2>2. TileBytes \in Nat /\ TileBytes > 0 /\ TilesPerChunk \in Nat
    BY Sizes
  <2>3. FirstOffset \in Nat
    BY Given
  <2> QED
    BY <2>1, <2>2, <2>3
<1>2. b \in Nat /\ b >= host.base /\ b <= host.base + host.tiles - 1
  BY <1>1 DEF Blocks
<1>3. PICK k \in Nat : k = b - host.base
  BY <1>1, <1>2
<1>4. k <= host.tiles - 1
  BY <1>1, <1>2, <1>3
<1>5. k * TileBytes \in Nat /\ k * TileBytes + TileBytes <= host.tiles * TileBytes
  <2>1. k * TileBytes \in Nat
    BY <1>1, <1>3
  <2>2. (host.tiles - k) * TileBytes >= TileBytes
    <3>1. host.tiles - k >= 1 /\ host.tiles - k \in Nat
      BY <1>1, <1>3, <1>4
    <3>2. PICK d \in Nat : d = host.tiles - k
      BY <3>1
    <3>3. d >= 1 => d * TileBytes >= TileBytes
      BY <1>1
    <3> QED
      BY <3>1, <3>2, <3>3
  <2>3. (host.tiles - k) * TileBytes = host.tiles * TileBytes - k * TileBytes
    BY <1>1, <1>3
  <2> QED
    BY <1>1, <2>1, <2>2, <2>3
<1>6. FirstByte(b) = k * TileBytes
  BY <1>3 DEF FirstByte
<1>7. host.chunkOffset \in Nat /\ host.chunkOffset = FirstOffset + host.base * TileBytes
  <2>1. host.base * TileBytes \in Nat
    BY <1>1
  <2>2. host.chunkOffset = FirstOffset + host.base * TileBytes
    BY DEF Loaded, IsChunk, Pos
  <2> QED
    BY <1>1, <2>1, <2>2
<1>8. host.chunkOffset + FirstByte(b) = Pos(b)
  <2>1. b * TileBytes = host.base * TileBytes + k * TileBytes
    BY <1>1, <1>2, <1>3
  <2>2. host.base * TileBytes \in Nat
    BY <1>1
  <2> QED
    BY <1>1, <1>5, <1>6, <1>7, <2>1, <2>2 DEF Pos
<1>9. PICK n \in Nat : n = Len(host.chunk)
  BY DEF Loaded, IsChunk
<1>10. PICK m \in Nat : m = host.tiles * TileBytes
  BY <1>1
<1>11. /\ host.chunk \in Seq(Nat) /\ n <= m /\ host.chunkOffset + n <= Len(Content)
       /\ n < m => host.chunkOffset + n = Len(Content)
       /\ \A p \in 1 .. n : host.chunk[p] = Content[host.chunkOffset + p]
  BY <1>9, <1>10 DEF Loaded, IsChunk
<1>12. PICK f \in Nat : f = FirstByte(b)
  BY <1>5, <1>6
<1>13. /\ f + j \in Nat /\ f + j >= 1 /\ f + j <= m /\ Pos(b) + j = host.chunkOffset + (f + j)
  BY <1>1, <1>5, <1>6, <1>7, <1>8, <1>10, <1>12
<1>14. DOMAIN Content = 1 .. Len(Content) /\ Len(Content) \in Nat
  BY ContentIs
<1>15. f + j <= n <=> Pos(b) + j \in DOMAIN Content
  <2>6. Len(Content) \in Nat
    BY <1>14
  <2>1. PICK c \in Nat : c = Len(Content)
    BY <2>6
  <2>4. PICK o \in Nat : o = host.chunkOffset
    BY <1>7
  <2>5. PICK q \in Nat : q = Pos(b) + j
    <3>1. Pos(b) + j \in Nat
      BY <1>13, <2>4
    <3> QED
      BY <3>1
  <2>2. n <= m /\ o + n <= c /\ (n < m => o + n = c) /\ f + j <= m /\ q = o + (f + j)
    BY <1>11, <1>13, <2>1, <2>4, <2>5
  <2>3. f + j <= n <=> q \in 1 .. c
    BY <2>2
  <2> QED
    BY <1>14, <2>1, <2>3, <2>5
<1>16. CharAt(f + j) = Byte(Pos(b) + j)
  <2>1. CASE f + j <= n
    <3>1. host.chunk[f + j] = Content[Pos(b) + j]
      BY <1>11, <1>13, <2>1
    <3> QED
      BY <1>9, <1>15, <2>1, <3>1 DEF CharAt, Byte
  <2>2. CASE ~(f + j <= n)
    BY <1>9, <1>15, <2>2 DEF CharAt, Byte
  <2> QED
    BY <2>1, <2>2
<1> QED
  BY <1>2, <1>7, <1>8, <1>9, <1>12, <1>15, <1>16

LEMMA ThreadChars ==
  ASSUME Asked, Loaded, NEW b \in Blocks, NEW t \in Threads, NEW i \in 1 .. ThreadBytes
  PROVE  /\ At(b, t) \in Nat /\ At(b, t) >= Pos(b) /\ Pos(b) \in Nat /\ host.chunkOffset \in Nat
         /\ At(b, t + 1) = At(b, t) + ThreadBytes /\ At(b, 0) = Pos(b)
         /\ ThreadByte(b, t, i) = At(b, t) + i - host.chunkOffset
         /\ CharAt(ThreadByte(b, t, i)) = Byte(At(b, t) + i)
         /\ ThreadByte(b, t, i) <= Len(host.chunk) <=> At(b, t) + i \in DOMAIN Content
<1>1. PICK k \in Nat : k = TileBytes \div ThreadBytes
  BY Sizes
<1>2. t \in Nat /\ t <= k - 1 /\ k * ThreadBytes = TileBytes /\ ThreadBytes \in Nat
      /\ TileBytes \in Nat /\ ThreadBytes > 0
  BY <1>1, Sizes
<1>3. PICK x \in Nat : x = t * ThreadBytes
  BY <1>2
<1>4. x + ThreadBytes <= TileBytes
  <2>1. PICK d \in Nat : d = k - t
    BY <1>1, <1>2
  <2>2. d >= 1 => d * ThreadBytes >= ThreadBytes
    BY <1>2
  <2>3. d * ThreadBytes = k * ThreadBytes - t * ThreadBytes
    BY <1>1, <1>2, <2>1
  <2> QED
    BY <1>1, <1>2, <1>3, <2>1, <2>2, <2>3
<1>5. x + i \in 1 .. TileBytes
  BY <1>2, <1>4
<1>6. PICK j \in 1 .. TileBytes : j = x + i
  BY <1>5
<1>7. /\ b \in Nat /\ FirstByte(b) \in Nat /\ host.chunkOffset \in Nat
      /\ host.chunkOffset + FirstByte(b) = Pos(b)
      /\ CharAt(FirstByte(b) + j) = Byte(Pos(b) + j)
      /\ FirstByte(b) + j <= Len(host.chunk) <=> Pos(b) + j \in DOMAIN Content
  BY TileChars
<1>8. Pos(b) \in Nat
  BY <1>7, Positions
<1>9. At(b, t) = Pos(b) + x /\ (t + 1) * ThreadBytes = x + ThreadBytes /\ 0 * ThreadBytes = 0
  BY <1>2, <1>3 DEF At
<1>10. At(b, t + 1) = At(b, t) + ThreadBytes /\ At(b, 0) = Pos(b) /\ At(b, t) \in Nat
  BY <1>2, <1>8, <1>9 DEF At
<1>12. PICK f \in Nat, o \in Nat, y \in Nat : f = FirstByte(b) /\ o = host.chunkOffset /\ y = Pos(b)
  BY <1>7, <1>8
<1>13. o + f = y
  BY <1>7, <1>12
<1>11. ThreadByte(b, t, i) = f + j /\ At(b, t) + i = y + j
  <2>1. ThreadByte(b, t, i) = f + x + i /\ At(b, t) + i = y + x + i
    BY <1>3, <1>9, <1>12 DEF ThreadByte
  <2> QED
    BY <1>2, <1>3, <1>6, <1>12, <2>1
<1>14. f + j = (y + j) - o
  BY <1>6, <1>12, <1>13
<1>15. At(b, t) >= Pos(b)
  BY <1>3, <1>8, <1>9
<1>16. ThreadByte(b, t, i) = At(b, t) + i - host.chunkOffset
  <2>1. PICK z \in Nat : z = At(b, t)
    BY <1>10
  <2>2. z + i = y + j /\ ThreadByte(b, t, i) = f + j
    BY <1>11, <2>1
  <2>3. f + j = z + i - o
    BY <1>12, <1>14, <2>1, <2>2
  <2> QED
    BY <1>12, <2>1, <2>2, <2>3
<1>17. /\ CharAt(ThreadByte(b, t, i)) = Byte(At(b, t) + i)
       /\ ThreadByte(b, t, i) <= Len(host.chunk) <=> At(b, t) + i \in DOMAIN Content
  <2>1. ThreadByte(b, t, i) = FirstByte(b) + j /\ At(b, t) + i = Pos(b) + j
    BY <1>11, <1>12
  <2> QED
    BY <1>7, <2>1
<1> QED
  BY <1>7, <1>8, <1>10, <1>15, <1>16, <1>17

(***************************************************************************)
(* Recursion over the bytes of a thread and the threads of a block.           *)
(***************************************************************************)
LEMMA ALeast ==
  ASSUME NEW S, S \subseteq Nat, S # {}
  PROVE  \E n \in S : \A m \in S : ~(m < n)
<1>1. \E n \in S : \A m \in S : ~(<<m, n>> \in OpToRel(<, Nat))
  BY NatLessThanWellFounded, WFMin
<1>2. PICK n \in S : \A m \in S : ~(<<m, n>> \in OpToRel(<, Nat))
  BY <1>1
<1> QED
  BY <1>2 DEF OpToRel

LEMMA Stepwise ==
  ASSUME NEW lo \in Nat, NEW hi \in Nat, NEW f, NEW g, f[lo] = g[lo],
         \A i \in lo + 1 .. hi : f[i - 1] = g[i - 1] => f[i] = g[i]
  PROVE  \A i \in lo .. hi : f[i] = g[i]
<1> SUFFICES ASSUME NEW k \in lo .. hi, f[k] # g[k] PROVE FALSE
  OBVIOUS
<1> DEFINE S == {i \in lo .. hi : f[i] # g[i]}
<1>1. S \subseteq Nat /\ S # {}
  OBVIOUS
<1>2. PICK n \in S : \A m \in S : ~(m < n)
  BY <1>1, ALeast
<1>3. n \in lo .. hi /\ f[n] # g[n] /\ n # lo
  BY <1>2
<1>4. n \in lo + 1 .. hi /\ n - 1 \in lo .. hi /\ n - 1 < n
  BY <1>3
<1>5. n - 1 \notin S
  BY <1>2, <1>4
<1>6. f[n - 1] = g[n - 1]
  BY <1>4, <1>5
<1> QED
  BY <1>3, <1>4, <1>6

LEMMA ThreadStateIs ==
  ASSUME Asked, Loaded, NEW b \in Blocks, NEW t \in Threads
  PROVE  ThreadState(b, t) = Across(At(b, t), At(b, t + 1))
<1> DEFINE p == At(b, t)
           F == [i \in 1 .. ThreadBytes |-> Across(p, p + i)]
           Step(h) == [i \in 1 .. ThreadBytes |->
                         IF i = 1 THEN TransitionInit(request.delim, CharAt(ThreadByte(b, t, 1)))
                         ELSE Transition(request.delim, CharAt(ThreadByte(b, t, i)), h[i - 1])]
<1>0. ThreadBytes \in Nat /\ 1 \in 1 .. ThreadBytes /\ ThreadBytes \in 1 .. ThreadBytes
  BY Sizes
<1>1. p \in Nat /\ At(b, t + 1) = p + ThreadBytes
  BY <1>0, ThreadChars
<1>2. \A i \in 1 .. ThreadBytes : CharAt(ThreadByte(b, t, i)) = Byte(p + i)
  BY ThreadChars
<1>3. TransitionInit(request.delim, CharAt(ThreadByte(b, t, 1))) = F[1]
  BY <1>0, <1>1, <1>2, AcrossOne
<1>4. ASSUME NEW i \in 2 .. ThreadBytes
      PROVE  Transition(request.delim, CharAt(ThreadByte(b, t, i)), F[i - 1]) = F[i]
  <2>1. /\ i \in 1 .. ThreadBytes /\ i - 1 \in 1 .. ThreadBytes /\ p + (i - 1) \in Nat /\ p <= p + (i - 1)
        /\ (p + (i - 1)) + 1 = p + i
    BY <1>0, <1>1
  <2>2. F[i - 1] = Across(p, p + (i - 1)) /\ F[i] = Across(p, p + i)
    BY <2>1
  <2>3. Transition(request.delim, Byte((p + (i - 1)) + 1), Across(p, p + (i - 1))) = Across(p, (p + (i - 1)) + 1)
    BY <1>1, <2>1, TransitionAcross
  <2> QED
    BY <1>2, <2>1, <2>2, <2>3
<1>5. F = Step(F)
  <2>1. \A i \in 1 .. ThreadBytes : i = 1 \/ i \in 2 .. ThreadBytes
    BY <1>0
  <2>2. \A i \in 1 .. ThreadBytes : F[i] = Step(F)[i]
    BY <1>3, <1>4, <2>1
  <2> HIDE DEF Step
  <2> QED
    BY <2>2 DEF Step
<1>6. PICK g : g = (CHOOSE h : h = Step(h))
  OBVIOUS
<1>7. g = Step(g)
  BY <1>5, <1>6
<1>8. ThreadState(b, t) = g[ThreadBytes]
  BY <1>6 DEF ThreadState
<1>9. \A i \in 1 .. ThreadBytes : g[i] = F[i]
  <2>1. g[1] = F[1]
    BY <1>0, <1>3, <1>7
  <2>2. ASSUME NEW i \in 1 + 1 .. ThreadBytes, g[i - 1] = F[i - 1] PROVE g[i] = F[i]
    <3>1. i \in 2 .. ThreadBytes /\ i \in 1 .. ThreadBytes /\ i # 1
      BY <1>0
    <3>2. g[i] = Transition(request.delim, CharAt(ThreadByte(b, t, i)), g[i - 1])
      BY <1>7, <3>1
    <3> HIDE DEF F
    <3> QED
      BY <1>4, <2>2, <3>1, <3>2
  <2> HIDE DEF F
  <2> QED
    BY <1>0, <2>1, <2>2, Stepwise
<1> QED
  BY <1>0, <1>1, <1>8, <1>9

LEMMA ThreadJoins ==
  ASSUME Asked, Loaded, NEW b \in Blocks, NEW t \in Threads
  PROVE  /\ Pos(b) \in Nat /\ Pos(b) >= FirstOffset
         /\ Join(Across(Pos(b), At(b, t)), Across(At(b, t), At(b, t + 1))) = Across(Pos(b), At(b, t + 1))
         /\ Join(Known(Pos(b)), Across(Pos(b), At(b, t))) = Known(At(b, t))
<1>1. ThreadBytes \in Nat /\ 1 \in 1 .. ThreadBytes
  BY Sizes
<1>2. At(b, t) \in Nat /\ At(b, t) >= Pos(b) /\ Pos(b) \in Nat /\ At(b, t + 1) = At(b, t) + ThreadBytes
  BY <1>1, ThreadChars
<1>3. Pos(b) >= FirstOffset /\ FirstOffset \in Nat
  <2>1. b \in Nat
    <3>1. 1 \in 1 .. TileBytes
      BY Sizes
    <3> QED
      BY <3>1, TileChars
  <2> QED
    BY <2>1, Positions
<1>4. At(b, t + 1) \in Nat /\ At(b, t) <= At(b, t + 1) /\ Pos(b) <= At(b, t)
  BY <1>1, <1>2
<1> QED
  BY <1>2, <1>3, <1>4, AcrossJoins, KnownJoins

LEMMA BlockScanIs ==
  ASSUME Asked, Loaded, NEW b \in Blocks
  PROVE  \A t \in 1 .. Cardinality(Threads) : BlockScan(b)[t] = Across(Pos(b), At(b, t))
<1> DEFINE F == [t \in 1 .. Cardinality(Threads) |-> Across(Pos(b), At(b, t))]
           Step(h) == [t \in 1 .. Cardinality(Threads) |->
                         IF t = 1 THEN ThreadState(b, 0) ELSE Join(h[t - 1], ThreadState(b, t - 1))]
<1>0. PICK n \in Nat : n > 0 /\ n = TileBytes \div ThreadBytes /\ Threads = 0 .. n - 1
      /\ n * ThreadBytes = TileBytes
  BY ThreadsAre
<1>9. Cardinality(Threads) = n
  BY <1>0, ThreadCount
<1>1. 0 \in Threads /\ 1 \in 1 .. n
  BY <1>0
<1>2. ThreadState(b, 0) = F[1]
  <2>1. ThreadState(b, 0) = Across(At(b, 0), At(b, 0 + 1))
    BY <1>1, ThreadStateIs
  <2>2. At(b, 0) = Pos(b) /\ 0 + 1 = 1
    <3>1. 1 \in 1 .. ThreadBytes
      BY Sizes
    <3> QED
      BY <1>1, <3>1, ThreadChars
  <2> QED
    BY <1>1, <1>9, <2>1, <2>2
<1>3. ASSUME NEW t \in 2 .. n
      PROVE  Join(F[t - 1], ThreadState(b, t - 1)) = F[t]
  <2>0. t - 1 \in 0 .. n - 1 /\ (t - 1) + 1 = t /\ t \in 1 .. n /\ t - 1 \in 1 .. n
    BY <1>0
  <2>1. t - 1 \in Threads /\ (t - 1) + 1 = t /\ t \in 1 .. n /\ t - 1 \in 1 .. n
    BY <1>0, <2>0
  <2>2. ThreadState(b, t - 1) = Across(At(b, t - 1), At(b, (t - 1) + 1))
    BY <2>1, ThreadStateIs
  <2>3. Join(Across(Pos(b), At(b, t - 1)), Across(At(b, t - 1), At(b, (t - 1) + 1))) = Across(Pos(b), At(b, (t - 1) + 1))
    BY <2>1, ThreadJoins
  <2>4. F[t - 1] = Across(Pos(b), At(b, t - 1)) /\ F[t] = Across(Pos(b), At(b, t))
    BY <1>9, <2>1
  <2> QED
    BY <2>1, <2>2, <2>3, <2>4
<1>4. F = Step(F)
  <2>1. \A t \in 1 .. n : t = 1 \/ t \in 2 .. n
    BY <1>0
  <2>2. \A t \in 1 .. n : F[t] = Step(F)[t]
    BY <1>9, <1>2, <1>3, <2>1
  <2> HIDE DEF Step
  <2> QED
    BY <1>9, <2>2 DEF Step
<1>5. PICK g : g = (CHOOSE h : h = Step(h))
  OBVIOUS
<1>6. g = Step(g)
  BY <1>4, <1>5
<1>7. BlockScan(b) = g
  BY <1>5 DEF BlockScan
<1>8. \A t \in 1 .. n : g[t] = F[t]
  <2>1. g[1] = F[1]
    BY <1>1, <1>2, <1>6, <1>9
  <2>2. ASSUME NEW t \in 1 + 1 .. n, g[t - 1] = F[t - 1] PROVE g[t] = F[t]
    <3>1. t \in 2 .. n /\ t \in 1 .. n /\ t # 1
      BY <1>0
    <3>2. g[t] = Join(g[t - 1], ThreadState(b, t - 1))
      BY <1>9, <1>6, <3>1
    <3> HIDE DEF F
    <3> QED
      BY <1>3, <2>2, <3>1, <3>2
  <2> HIDE DEF F
  <2>3. n \in Nat /\ 1 \in Nat
    BY <1>0
  <2> QED
    BY <2>1, <2>2, <2>3, Stepwise
<1> QED
  BY <1>7, <1>8, <1>9

LEMMA BlockStateIs ==
  ASSUME Asked, Loaded, NEW b \in Blocks
  PROVE  BlockState(b) = Across(Pos(b), Pos(b + 1))
<1>1. PICK n \in Nat : n > 0 /\ n = TileBytes \div ThreadBytes /\ Threads = 0 .. n - 1
      /\ n * ThreadBytes = TileBytes
  BY ThreadsAre
<1>5. Cardinality(Threads) = n
  BY <1>1, ThreadCount
<1>6. n \in 1 .. n
  BY <1>1
<1>2. BlockState(b) = Across(Pos(b), At(b, n))
  BY <1>5, <1>6, BlockScanIs DEF BlockState
<1>3. b \in Nat
  <2>1. 1 \in 1 .. TileBytes
    BY Sizes
  <2> QED
    BY <2>1, TileChars
<1>4. Pos(b + 1) = Pos(b) + TileBytes
  BY <1>3, Positions
<1> QED
  BY <1>1, <1>2, <1>4 DEF At

LEMMA StateBeforeIs ==
  ASSUME Asked, Loaded, NEW b \in Blocks, NEW t \in Threads
  PROVE  StateBefore(b, t, Known(Pos(b))) = Known(At(b, t))
<1>1. CASE t = 0
  <2>1. 1 \in 1 .. ThreadBytes
    BY Sizes
  <2>2. At(b, 0) = Pos(b)
    BY <1>1, <2>1, ThreadChars
  <2> QED
    BY <1>1, <2>2 DEF StateBefore
<1>2. CASE t # 0
  <2>1. PICK n \in Nat : n > 0 /\ n = TileBytes \div ThreadBytes /\ Threads = 0 .. n - 1
        /\ n * ThreadBytes = TileBytes
    BY ThreadsAre
  <2>4. Cardinality(Threads) = n
    BY <2>1, ThreadCount
  <2>2. t \in 1 .. n
    BY <1>2, <2>1
  <2>3. BlockScan(b)[t] = Across(Pos(b), At(b, t))
    BY <2>4, <2>2, BlockScanIs
  <2> QED
    BY <1>2, <2>3, ThreadJoins DEF StateBefore
<1> QED
  BY <1>1, <1>2

(***************************************************************************)
(* Matches, and how many there are.                                         *)
(***************************************************************************)
\* Positions in the chunk.
Shifted(S) == {q - host.chunkOffset : q \in S}

LEMMA MapIsInjective ==
  ASSUME NEW S, NEW T, NEW f \in [S -> T], IsFiniteSet(T), \A x, y \in S : f[x] = f[y] => x = y
  PROVE  IsFiniteSet(S) /\ Cardinality(S) <= Cardinality(T)
         /\ ((\A t \in T : \E x \in S : f[x] = t) => Cardinality(S) = Cardinality(T))
<1>1. f \in Injection(S, T)
  BY DEF Injection, IsInjective
<1>2. (\A t \in T : \E x \in S : f[x] = t) => f \in Surjection(S, T)
  BY DEF Surjection
<1> QED
  BY <1>1, <1>2, FS_Injection

LEMMA FoundIsFinite ==
  ASSUME NEW p \in Nat, NEW q \in Nat
  PROVE  /\ IsFiniteSet(Found(p, q)) /\ Cardinality(Found(p, q)) \in Nat
         /\ p <= q => Cardinality(Found(p, q)) <= q - p
<1>1. Found(p, q) \in SUBSET (p + 1 .. q)
  BY DEF Found
<1>2. IsFiniteSet(p + 1 .. q) /\ Cardinality(p + 1 .. q) = IF p + 1 <= q THEN q - (p + 1) + 1 ELSE 0
  BY FS_Interval
<1>3. IsFiniteSet(Found(p, q)) /\ Cardinality(Found(p, q)) <= Cardinality(p + 1 .. q)
  BY <1>1, <1>2, FS_Subset
<1>4. Cardinality(Found(p, q)) \in Nat
  BY <1>3, FS_CardinalityType
<1> QED
  BY <1>2, <1>3, <1>4

LEMMA FoundAdds ==
  ASSUME NEW p \in Nat, NEW q \in Nat, NEW r \in Nat, p <= q, q <= r
  PROVE  Cardinality(Found(p, r)) = Cardinality(Found(p, q)) + Cardinality(Found(q, r))
<1>1. Found(p, r) = Found(p, q) \cup Found(q, r) /\ Found(p, q) \cap Found(q, r) = {}
  BY DEF Found
<1>2. IsFiniteSet(Found(p, q)) /\ IsFiniteSet(Found(q, r))
  BY FoundIsFinite
<1>3. Cardinality(Found(p, q)) \in Nat /\ Cardinality(Found(q, r)) \in Nat
  BY FoundIsFinite
<1>4. Cardinality(Found(p, q) \cup Found(q, r)) =
        Cardinality(Found(p, q)) + Cardinality(Found(q, r)) - Cardinality(Found(p, q) \cap Found(q, r))
  BY <1>2, FS_Union
<1>5. Cardinality(Found(p, q) \cap Found(q, r)) = 0
  BY <1>1, FS_EmptySet
<1> QED
  BY <1>1, <1>3, <1>4, <1>5

LEMMA FoundNone ==
  ASSUME NEW p \in Nat
  PROVE  Cardinality(Found(p, p)) = 0
<1>1. Found(p, p) = {}
  BY DEF Found
<1> QED
  BY <1>1, FS_EmptySet

LEMMA ShiftedCount ==
  ASSUME NEW p \in Nat, NEW q \in Nat, host.chunkOffset \in Nat
  PROVE  IsFiniteSet(Shifted(Found(p, q))) /\ Cardinality(Shifted(Found(p, q))) = Cardinality(Found(p, q))
<1> DEFINE S == Found(p, q)
           T == Shifted(S)
           f == [x \in T |-> x + host.chunkOffset]
<1> PICK o \in Nat : o = host.chunkOffset
  OBVIOUS
<1>1. \A y \in S : y \in Nat
  BY DEF Found
<1>2. \A x \in T : \E y \in S : x = y - o
  BY DEF Shifted
<1>3. \A x \in T : x \in Int /\ x + o \in S
  BY <1>1, <1>2
<1>4. \A y \in S : y - o \in T /\ (y - o) + o = y
  BY <1>1 DEF Shifted
<1>5. f \in [T -> S]
  BY <1>3
<1>6. \A x, y \in T : f[x] = f[y] => x = y
  BY <1>3
<1>7. \A y \in S : \E x \in T : f[x] = y
  BY <1>4
<1>8. IsFiniteSet(S)
  BY FoundIsFinite
<1> QED
  BY <1>5, <1>6, <1>7, <1>8, MapIsInjective

\* A multistate that ends with the whole delimiter.
LEMMA MaxTailIs ==
  ASSUME Asked, NEW q \in Nat, FirstOffset <= q
  PROVE  MaxTail(Known(q)) = Width <=> <<0, Width>> \in Known(q)
<1> DEFINE T == {s[2] : s \in Known(q)}
           IsMax(t) == \A s \in Known(q) : s[2] <= t
<1>0. Width \in Nat /\ FirstOffset \in Nat
  BY Given
<1>1. \A s \in Known(q) : s = <<s[1], s[2]>> /\ s[1] = 0 /\ s[2] \in 0 .. Width
  BY <1>0, Ordered DEF Known
<1>2. T \subseteq 0 .. Width /\ \A s \in Known(q) : s[2] \in T
  BY <1>1
<1>3. MaxTail(Known(q)) = CHOOSE t \in T : IsMax(t)
  BY DEF MaxTail
<1>4. ASSUME <<0, Width>> \in Known(q)
      PROVE  MaxTail(Known(q)) = Width
  <2>1. Width \in T
    <3>1. <<0, Width>>[2] \in T
      BY <1>2, <1>4
    <3> QED
      BY <3>1
  <2>2. IsMax(Width)
    BY <1>0, <1>1
  <2>3. \A t \in T : IsMax(t) => t = Width
    <3> SUFFICES ASSUME NEW t \in T, IsMax(t) PROVE t = Width
      OBVIOUS
    <3>1. t \in 0 .. Width
      BY <1>2
    <3>2. <<0, Width>>[2] <= t
      BY <1>4
    <3> QED
      BY <1>0, <3>1, <3>2
  <2> HIDE DEF T, IsMax
  <2> QED
    BY <1>3, <2>1, <2>2, <2>3
<1>5. ASSUME MaxTail(Known(q)) = Width
      PROVE  <<0, Width>> \in Known(q)
  <2>1. \E t \in T : IsMax(t)
    <3> DEFINE B == {m \in 0 .. Width : \A s \in Known(q) : s[2] <= m}
    <3>1. B \subseteq Nat /\ Width \in B
      BY <1>0, <1>1
    <3>2. PICK m \in B : \A n \in B : ~(n < m)
      BY <3>1, ALeast
    <3>3. m \in 0 .. Width /\ \A s \in Known(q) : s[2] <= m
      BY <3>2
    <3>4. PICK s \in Known(q) : s[2] = m
      <4>1. CASE m = 0
        <5>1. <<0, 0>> \in Known(q)
          BY <1>0, NothingAcross DEF Known
        <5> QED
          BY <4>1, <5>1
      <4>2. CASE m # 0
        <5>1. m - 1 \in 0 .. Width /\ m - 1 < m
          BY <1>0, <3>3, <4>2
        <5>2. m - 1 \notin B
          BY <3>2, <5>1
        <5>3. PICK s \in Known(q) : ~(s[2] <= m - 1)
          BY <5>1, <5>2
        <5>4. s[2] \in 0 .. Width /\ s[2] <= m
          BY <1>1, <3>3
        <5>5. s[2] = m
          BY <3>3, <5>3, <5>4
        <5> QED
          BY <5>5
      <4> QED
        BY <4>1, <4>2
    <3>5. m \in T
      BY <3>4
    <3> QED
      BY <3>3, <3>5
  <2>2. MaxTail(Known(q)) \in T
    <3> HIDE DEF T, IsMax
    <3> QED
      BY <1>3, <2>1
  <2>3. PICK s \in Known(q) : s[2] = Width
    BY <1>5, <2>2
  <2>4. s = <<0, Width>>
    BY <1>1, <2>3
  <2> QED
    BY <2>4
<1> QED
  BY <1>4, <1>5

LEMMA MatchesAre ==
  ASSUME Asked, Loaded, NEW b \in Blocks, NEW t \in Threads
  PROVE  Matches(b, t, Known(At(b, t))) = Shifted(Found(At(b, t), At(b, t + 1)))
<1> DEFINE p == At(b, t)
           F == [i \in 0 .. ThreadBytes |-> Known(p + i)]
           Step(h) == [i \in 0 .. ThreadBytes |->
                         IF i = 0 THEN Known(p)
                         ELSE Transition(request.delim, CharAt(ThreadByte(b, t, i)), h[i - 1])]
<1>0. ThreadBytes \in Nat /\ 1 \in 1 .. ThreadBytes
  BY Sizes
<1>1. p \in Nat /\ FirstOffset \in Nat /\ FirstOffset <= p /\ At(b, t + 1) = p + ThreadBytes
      /\ host.chunkOffset \in Nat
  <2>1. p \in Nat /\ Pos(b) \in Nat /\ p >= Pos(b) /\ At(b, t + 1) = p + ThreadBytes /\ host.chunkOffset \in Nat
    BY <1>0, ThreadChars
  <2>2. Pos(b) >= FirstOffset /\ FirstOffset \in Nat
    BY ThreadJoins, Given
  <2> QED
    BY <2>1, <2>2
<1>2. \A i \in 1 .. ThreadBytes : CharAt(ThreadByte(b, t, i)) = Byte(p + i)
  BY ThreadChars
<1>3. ASSUME NEW i \in 1 .. ThreadBytes
      PROVE  Transition(request.delim, CharAt(ThreadByte(b, t, i)), F[i - 1]) = F[i]
  <2>1. /\ i - 1 \in 0 .. ThreadBytes /\ i \in 0 .. ThreadBytes
        /\ p + (i - 1) \in Nat /\ FirstOffset <= p + (i - 1) /\ (p + (i - 1)) + 1 = p + i
    BY <1>0, <1>1
  <2>2. F[i - 1] = Known(p + (i - 1)) /\ F[i] = Known(p + i)
    BY <2>1
  <2>3. Transition(request.delim, Byte((p + (i - 1)) + 1), Known(p + (i - 1))) = Known((p + (i - 1)) + 1)
    BY <2>1, TransitionKnown
  <2> QED
    BY <1>2, <2>1, <2>2, <2>3
<1>4. F = Step(F)
  <2>1. \A i \in 0 .. ThreadBytes : i = 0 \/ i \in 1 .. ThreadBytes
    BY <1>0
  <2>2. F[0] = Known(p)
    BY <1>0, <1>1
  <2>3. \A i \in 0 .. ThreadBytes : F[i] = Step(F)[i]
    BY <1>3, <2>1, <2>2
  <2> HIDE DEF Step
  <2> QED
    BY <2>3 DEF Step
<1>5. PICK g : g = (CHOOSE h : h = Step(h))
  OBVIOUS
<1>6. g = Step(g)
  BY <1>4, <1>5
<1>7. \A i \in 0 .. ThreadBytes : g[i] = F[i]
  <2>1. g[0] = F[0]
    BY <1>0, <1>1, <1>6
  <2>2. ASSUME NEW i \in 0 + 1 .. ThreadBytes, g[i - 1] = F[i - 1] PROVE g[i] = F[i]
    <3>1. i \in 1 .. ThreadBytes /\ i \in 0 .. ThreadBytes /\ i # 0
      BY <1>0
    <3>2. g[i] = Transition(request.delim, CharAt(ThreadByte(b, t, i)), g[i - 1])
      BY <1>6, <3>1
    <3> HIDE DEF F
    <3> QED
      BY <1>3, <2>2, <3>1, <3>2
  <2> HIDE DEF F
  <2> QED
    BY <1>0, <2>1, <2>2, Stepwise
<1>8. Matches(b, t, Known(p)) =
        {ThreadByte(b, t, i) : i \in {j \in 1 .. ThreadBytes :
           ThreadByte(b, t, j) <= Len(host.chunk) /\ MaxTail(g[j]) = Len(request.delim)}}
  BY <1>5 DEF Matches
<1>9. ASSUME NEW i \in 1 .. ThreadBytes
      PROVE  /\ ThreadByte(b, t, i) = (p + i) - host.chunkOffset
             /\ ThreadByte(b, t, i) <= Len(host.chunk) /\ MaxTail(g[i]) = Len(request.delim) <=> IsFound(p + i)
  <2>1. /\ ThreadByte(b, t, i) = p + i - host.chunkOffset
        /\ ThreadByte(b, t, i) <= Len(host.chunk) <=> p + i \in DOMAIN Content
    BY ThreadChars
  <2>2. p + i \in Nat /\ FirstOffset <= p + i /\ i \in 0 .. ThreadBytes
    BY <1>0, <1>1
  <2>3. g[i] = Known(p + i)
    BY <1>7, <2>2
  <2>4. MaxTail(g[i]) = Len(request.delim) <=> <<0, Width>> \in Known(p + i)
    BY <2>2, <2>3, MaxTailIs DEF Width
  <2>5. IsFound(p + i) <=> p + i \in DOMAIN Content /\ <<0, Width>> \in Known(p + i)
    BY DEF IsFound
  <2>6. ThreadByte(b, t, i) <= Len(host.chunk) /\ MaxTail(g[i]) = Len(request.delim) <=> IsFound(p + i)
    BY <2>1, <2>4, <2>5, Zenon
  <2>7. ThreadByte(b, t, i) = p + i - host.chunkOffset
    BY <2>1
  <2>8. ThreadByte(b, t, i) = (p + i) - host.chunkOffset
    BY <1>1, <2>7
  <2> QED
    BY <2>6, <2>8
<1>10. Found(p, p + ThreadBytes) = {p + i : i \in {j \in 1 .. ThreadBytes : IsFound(p + j)}}
  <2>1. \A q \in p + 1 .. p + ThreadBytes : q - p \in 1 .. ThreadBytes /\ p + (q - p) = q
    BY <1>0, <1>1
  <2>2. \A i \in 1 .. ThreadBytes : p + i \in p + 1 .. p + ThreadBytes
    BY <1>0, <1>1
  <2> QED
    BY <2>1, <2>2 DEF Found
<1>11. Matches(b, t, Known(p)) = {(p + i) - host.chunkOffset : i \in {j \in 1 .. ThreadBytes : IsFound(p + j)}}
  <2> HIDE DEF p
  <2> QED
    BY <1>8, <1>9
<1>12. Shifted(Found(p, p + ThreadBytes)) =
         {(p + i) - host.chunkOffset : i \in {j \in 1 .. ThreadBytes : IsFound(p + j)}}
  <2> HIDE DEF p
  <2> QED
    BY <1>10 DEF Shifted
<1> QED
  BY <1>1, <1>11, <1>12

\* Every byte of a tile is one of a thread.
LEMMA ByteOfThread ==
  ASSUME Asked, Loaded, NEW b \in Blocks, NEW q
  PROVE  q \in Pos(b) + 1 .. Pos(b + 1) <=> \E t \in Threads : q \in At(b, t) + 1 .. At(b, t + 1)
<1>1. PICK n \in Nat : n > 0 /\ n = TileBytes \div ThreadBytes /\ Threads = 0 .. n - 1
      /\ n * ThreadBytes = TileBytes
  BY ThreadsAre
<1>2. ThreadBytes \in Nat /\ ThreadBytes > 0 /\ TileBytes \in Nat
  BY Sizes
<1>3. b \in Nat /\ Pos(b) \in Nat /\ Pos(b + 1) = Pos(b) + TileBytes
  <2>1. 1 \in 1 .. TileBytes
    BY Sizes
  <2> QED
    BY <2>1, TileChars, Positions
<1> PICK y \in Nat : y = Pos(b)
  BY <1>3
<1>4. \A t \in Threads : At(b, t) = y + t * ThreadBytes /\ At(b, t + 1) = y + t * ThreadBytes + ThreadBytes
  <2> SUFFICES ASSUME NEW t \in Threads
               PROVE  At(b, t) = y + t * ThreadBytes /\ At(b, t + 1) = y + t * ThreadBytes + ThreadBytes
    OBVIOUS
  <2>1. t \in Nat
    BY <1>1
  <2>2. (t + 1) * ThreadBytes = t * ThreadBytes + ThreadBytes /\ t * ThreadBytes \in Nat
    BY <1>2, <2>1
  <2>3. PICK x \in Nat : x = t * ThreadBytes
    BY <2>2
  <2>4. At(b, t) = y + x /\ At(b, t + 1) = y + (x + ThreadBytes)
    BY <2>2, <2>3 DEF At
  <2> QED
    BY <1>2, <2>3, <2>4
<1>5. ASSUME NEW t \in Threads, q \in At(b, t) + 1 .. At(b, t + 1)
      PROVE  q \in Pos(b) + 1 .. Pos(b + 1)
  <2>1. t \in Nat /\ t <= n - 1
    BY <1>1
  <2>2. PICK d \in Nat : d = n - t
    BY <1>1, <2>1
  <2>3. d >= 1 => d * ThreadBytes >= ThreadBytes
    BY <1>2
  <2>4. d * ThreadBytes = n * ThreadBytes - t * ThreadBytes
    BY <1>1, <1>2, <2>1, <2>2
  <2>5. PICK x \in Nat : x = t * ThreadBytes
    BY <1>2, <2>1
  <2>6. x + ThreadBytes <= TileBytes
    BY <1>1, <1>2, <2>1, <2>2, <2>3, <2>4, <2>5
  <2>7. q \in y + x + 1 .. y + x + ThreadBytes
    BY <1>4, <1>5, <2>5
  <2> QED
    BY <1>2, <1>3, <2>6, <2>7
<1>6. ASSUME q \in Pos(b) + 1 .. Pos(b + 1)
      PROVE  \E t \in Threads : q \in At(b, t) + 1 .. At(b, t + 1)
  <2>1. PICK d \in Nat : d = q - y - 1
    BY <1>3, <1>6
  <2>2. d < TileBytes
    BY <1>2, <1>3, <1>6, <2>1
  <2>3. d = ThreadBytes * (d \div ThreadBytes) + (d % ThreadBytes) /\ d % ThreadBytes \in 0 .. ThreadBytes - 1
    BY <1>2
  <2>4. d \div ThreadBytes \in Int /\ d % ThreadBytes \in Nat
    BY <1>2
  <2>5. PICK t \in Int, r \in Nat : t = d \div ThreadBytes /\ r = d % ThreadBytes
    BY <2>4
  <2>6. d = t * ThreadBytes + r /\ r < ThreadBytes
    BY <1>2, <2>3, <2>5
  <2>7. t >= 0
    <3>1. t <= -1 => t * ThreadBytes <= -ThreadBytes
      BY <1>2
    <3>2. t * ThreadBytes \in Int
      BY <1>2
    <3> QED
      BY <1>2, <2>6, <3>1, <3>2
  <2>8. t <= n - 1
    <3>1. t >= n => t * ThreadBytes >= n * ThreadBytes
      BY <1>2
    <3>2. t * ThreadBytes \in Int
      BY <1>2
    <3> QED
      BY <1>1, <1>2, <2>2, <2>6, <3>1, <3>2
  <2>9. t \in Threads
    BY <1>1, <2>7, <2>8
  <2>10. PICK x \in Int : x = t * ThreadBytes
    BY <1>2
  <2>11. q \in y + x + 1 .. y + x + ThreadBytes
    BY <1>2, <1>3, <1>6, <2>1, <2>6, <2>10
  <2> QED
    BY <1>4, <2>9, <2>10, <2>11
<1> QED
  BY <1>5, <1>6

LEMMA OneIsFound ==
  ASSUME Asked, Width = 1, NEW q \in Nat, FirstOffset < q
  PROVE  IsFound(q) <=> q \in DOMAIN Content /\ Byte(q) = request.delim[1]
<1>1. FirstOffset \in Nat
  BY Given
<1>2. PICK p \in Nat : q = p + 1
  BY <1>1
<1>3. Agree(p + 1, 0, 0 + 1) <=> Byte(p + 1) = request.delim[0 + 1]
  BY AgreeOne
<1>4. Agree(q, 0, 1) <=> Byte(q) = request.delim[1]
  BY <1>2, <1>3
<1>5. <<0, 1>> \in Across(FirstOffset, q) <=> Agree(q, 0, 1)
  <2>1. 0 \in 0 .. 1 /\ 1 \in 0 .. 1 /\ 1 <= q - FirstOffset
    BY <1>1
  <2> QED
    BY <1>1, <2>1, AcrossMember
<1>6. <<0, 1>> \in Known(q) <=> <<0, 1>> \in Across(FirstOffset, q)
  BY DEF Known
<1> QED
  BY <1>4, <1>5, <1>6 DEF IsFound

LEMMA BlockMatchesAre ==
  ASSUME Asked, Loaded, NEW b \in Blocks, Width > 1 => States!ExclusivePrefix(b) = Known(Pos(b))
  PROVE  BlockMatches(b) = Shifted(Found(Pos(b), Pos(b + 1)))
<1>0. b \in Nat /\ Pos(b) \in Nat /\ Pos(b) >= FirstOffset /\ FirstOffset \in Nat /\ Pos(b + 1) = Pos(b) + TileBytes
  <2>1. 1 \in 1 .. TileBytes
    BY Sizes
  <2> QED
    BY <2>1, TileChars, Positions
<1>9. TileBytes \in Nat /\ TileBytes > 0 /\ Width \in Nat /\ Width > 0
  BY Sizes, Given
<1>1. CASE Width = 1
  <2> DEFINE f == FirstByte(b)
  <2>1. f \in Nat /\ host.chunkOffset \in Nat /\ host.chunkOffset + f = Pos(b)
    <3>1. 1 \in 1 .. TileBytes
      BY Sizes
    <3> QED
      BY <3>1, TileChars
  <2>2. BlockMatches(b) = {p \in f + 1 .. f + TileBytes : p <= Len(host.chunk) /\ CharAt(p) = request.delim[1]}
    BY <1>1 DEF BlockMatches, Width
  <2>3. ASSUME NEW j \in 1 .. TileBytes
        PROVE  f + j <= Len(host.chunk) /\ CharAt(f + j) = request.delim[1] <=> IsFound(Pos(b) + j)
    <3>1. /\ CharAt(f + j) = Byte(Pos(b) + j)
          /\ f + j <= Len(host.chunk) <=> Pos(b) + j \in DOMAIN Content
      BY TileChars
    <3>2. Pos(b) + j \in Nat /\ FirstOffset < Pos(b) + j
      BY <1>0
    <3> QED
      BY <1>1, <3>1, <3>2, OneIsFound
  <2>4. BlockMatches(b) = {f + j : j \in {i \in 1 .. TileBytes : IsFound(Pos(b) + i)}}
    <3>1. \A p \in f + 1 .. f + TileBytes : p - f \in 1 .. TileBytes /\ f + (p - f) = p
      BY <1>9, <2>1
    <3>2. \A j \in 1 .. TileBytes : f + j \in f + 1 .. f + TileBytes
      BY <1>9, <2>1
    <3> HIDE DEF f
    <3> QED
      BY <2>2, <2>3, <3>1, <3>2
  <2>5. Found(Pos(b), Pos(b + 1)) = {Pos(b) + j : j \in {i \in 1 .. TileBytes : IsFound(Pos(b) + i)}}
    <3> PICK y \in Nat : y = Pos(b)
      BY <1>0
    <3>1. \A q \in y + 1 .. y + TileBytes : q - y \in 1 .. TileBytes /\ y + (q - y) = q
      BY <1>9
    <3>2. \A i \in 1 .. TileBytes : y + i \in y + 1 .. y + TileBytes
      BY <1>9
    <3> QED
      BY <1>0, <3>1, <3>2 DEF Found
  <2>6. \A j \in 1 .. TileBytes : f + j = (Pos(b) + j) - host.chunkOffset
    BY <1>0, <2>1
  <2> DEFINE J == {i \in 1 .. TileBytes : IsFound(Pos(b) + i)}
  <2>7. Shifted(Found(Pos(b), Pos(b + 1))) = {(Pos(b) + j) - host.chunkOffset : j \in J}
    BY <2>5 DEF Shifted
  <2>8. {f + j : j \in J} = {(Pos(b) + j) - host.chunkOffset : j \in J}
    BY <2>6
  <2>9. BlockMatches(b) = {f + j : j \in J}
    BY <2>4
  <2> HIDE DEF J, f
  <2> QED
    BY <2>7, <2>8, <2>9
<1>2. CASE Width > 1
  <2>3. States!ExclusivePrefix(b) = Known(Pos(b))
    BY <1>2
  <2>4. ~(Width = 1)
    BY <1>2, <1>9
  <2>5. ~(Len(request.delim) = 1)
    BY <2>4 DEF Width
  <2>0. ~(Len(request.delim) = 1) /\ States!ExclusivePrefix(b) = Known(Pos(b))
    BY <2>3, <2>5
  <2>1. BlockMatches(b) = UNION {Matches(b, t, StateBefore(b, t, Known(Pos(b)))) : t \in Threads}
    BY <2>0, Zenon DEF BlockMatches
  <2>2. \A t \in Threads : Matches(b, t, StateBefore(b, t, Known(Pos(b)))) = Shifted(Found(At(b, t), At(b, t + 1)))
    BY StateBeforeIs, MatchesAre
  <2>6. BlockMatches(b) = UNION {Shifted(Found(At(b, t), At(b, t + 1))) : t \in Threads}
    BY <2>1, <2>2
  <2>7. \A q : q \in Found(Pos(b), Pos(b + 1)) <=> \E t \in Threads : q \in Found(At(b, t), At(b, t + 1))
    BY ByteOfThread DEF Found
  <2> QED
    BY <2>6, <2>7 DEF Shifted
<1> QED
  BY <1>1, <1>2, <1>9

\* No more segments than occurrences of a character, and the empty match.
LEMMA AcrossIsSmall ==
  ASSUME Asked, Accepts(request.delim), NEW p \in Nat, NEW q \in Nat, p < q
  PROVE  Cardinality(Across(p, q)) <= MaxSegmentCount
<1> DEFINE Same == {i \in DOMAIN request.delim : request.delim[i] = Byte(q)}
           T == Same \cup {0}
           f == [s \in Across(p, q) |-> s[2]]
<1>0. Width \in Nat /\ Width > 0 /\ DOMAIN request.delim = 1 .. Width
  BY Given
<1>1. IsFiniteSet(Same) /\ Cardinality(Same) <= 6
  <2>1. IsFiniteSet(1 .. Width) /\ Same \in SUBSET (1 .. Width)
    BY <1>0, FS_Interval
  <2>2. IsFiniteSet(Same) /\ Cardinality(Same) \in Nat
    BY <2>1, FS_Subset, FS_CardinalityType
  <2>3. CASE Same = {}
    BY <2>2, <2>3, FS_EmptySet
  <2>4. CASE Same # {}
    <3>1. PICK c \in DOMAIN request.delim : request.delim[c] = Byte(q)
      BY <2>4
    <3>2. Cardinality({i \in DOMAIN request.delim : request.delim[i] = request.delim[c]}) < 7
      BY DEF Accepts, MaxSegmentCount
    <3>3. Cardinality(Same) < 7
      BY <3>1, <3>2
    <3> HIDE DEF Same
    <3> QED
      BY <2>2, <3>3
  <2> QED
    BY <2>3, <2>4
<1>2. IsFiniteSet(T) /\ Cardinality(T) <= 7
  <2> HIDE DEF Same
  <2>1. Cardinality(Same) \in Nat
    BY <1>1, FS_CardinalityType
  <2>2. IsFiniteSet(T) /\ Cardinality(T) = IF 0 \in Same THEN Cardinality(Same) ELSE Cardinality(Same) + 1
    BY <1>1, FS_AddElement
  <2> QED
    BY <1>1, <2>1, <2>2
<1>3. ASSUME NEW s \in Across(p, q)
      PROVE  /\ s = <<s[1], s[2]>> /\ s[1] \in 0 .. Width /\ s[2] \in 0 .. Width /\ s[1] <= s[2]
             /\ Agree(q, s[1], s[2]) /\ (s[2] - s[1] = q - p \/ (s[1] = 0 /\ s[2] <= q - p))
             /\ s[2] \in T
  <2>1. s = <<s[1], s[2]>> /\ s[1] \in 0 .. Width /\ s[2] \in 0 .. Width /\ s[1] <= s[2]
    BY Ordered
  <2>2. Agree(q, s[1], s[2]) /\ (s[2] - s[1] = q - p \/ (s[1] = 0 /\ s[2] <= q - p))
    BY <2>1, AcrossMember
  <2>3. s[2] \in T
    <3> PICK a \in Nat, b \in Nat : a = s[1] /\ b = s[2]
      BY <1>0, <2>1
    <3>1. CASE b = 0
      BY <3>1
    <3>2. CASE b # 0
      <4>1. a < b
        BY <2>1, <2>2, <3>2
      <4>2. b \in a + 1 .. b /\ q - b + b = q
        BY <4>1
      <4>3. Byte(q) = request.delim[b]
        BY <2>2, <4>2 DEF Agree
      <4>4. b \in 1 .. Width
        BY <2>1, <3>2
      <4> QED
        BY <1>0, <4>3, <4>4
    <3> QED
      BY <3>1, <3>2
  <2> QED
    BY <2>1, <2>2, <2>3
<1>4. f \in [Across(p, q) -> T]
  BY <1>3
<1>5. ASSUME NEW s \in Across(p, q), NEW t \in Across(p, q), s[2] = t[2] PROVE s = t
  <2>1. s[1] = t[1]
    <3> PICK a \in Nat, b \in Nat, c \in Nat : a = s[1] /\ b = t[1] /\ c = s[2]
      BY <1>0, <1>3
    <3>1. (c - a = q - p \/ (a = 0 /\ c <= q - p)) /\ (c - b = q - p \/ (b = 0 /\ c <= q - p))
      BY <1>3, <1>5
    <3> QED
      BY <3>1
  <2> QED
    BY <1>3, <1>5, <2>1
<1>6. \A s, t \in Across(p, q) : f[s] = f[t] => s = t
  BY <1>5
<1>7. IsFiniteSet(Across(p, q)) /\ Cardinality(Across(p, q)) <= Cardinality(T)
  <2> HIDE DEF T, f
  <2> QED
    BY <1>2, <1>4, <1>6, MapIsInjective
<1>8. Cardinality(Across(p, q)) \in Nat /\ Cardinality(T) \in Nat
  BY <1>2, <1>7, FS_CardinalityType
<1> HIDE DEF T
<1> QED
  BY <1>2, <1>7, <1>8 DEF MaxSegmentCount

(***************************************************************************)
(* The row offsets.                                                         *)
(***************************************************************************)
IsVector(v) ==
  /\ DOMAIN v = {"size", "elements"}
  /\ Len(v.elements) \in Nat /\ DOMAIN v.elements = 1 .. Len(v.elements)
  /\ v.size \in 0 .. Len(v.elements) /\ ChunkBytes <= Len(v.elements)

\* The last vector is used when the one before it is full.
BuilderInv(b) ==
  /\ DOMAIN b = {"size", "chunks"} /\ b.size \in Nat
  /\ Len(b.chunks) \in Nat /\ Len(b.chunks) > 0 /\ DOMAIN b.chunks = 1 .. Len(b.chunks)
  /\ \A c \in 1 .. Len(b.chunks) : IsVector(b.chunks[c])
  /\ LET n == Len(b.chunks) IN n > 1 /\ b.chunks[n].size > 0 => Builder!Free(b.chunks[n - 1]) = 0

HasRoom(b) ==
  Builder!FirstFree(b) < Len(b.chunks) \/ Builder!Free(b.chunks[Builder!FirstFree(b)]) >= ChunkBytes

LEMMA ChunkIs ==
  ChunkBytes \in Nat /\ ChunkBytes > 0 /\ ChunkBytes >= TileBytes
<1>1. TileBytes \in Nat /\ TileBytes > 0 /\ TilesPerChunk \in Nat /\ TilesPerChunk > 0
  BY Sizes
<1>2. TileBytes * TilesPerChunk \in Nat /\ TileBytes * TilesPerChunk >= TileBytes
  BY <1>1
<1> QED
  BY <1>1, <1>2 DEF ChunkBytes

LEMMA LengthIs ==
  ASSUME NEW n \in Nat, NEW f, DOMAIN f = 1 .. n, f = [i \in 1 .. n |-> f[i]]
  PROVE  Len(f) = n
<1>1. f \in [1 .. n -> {f[i] : i \in 1 .. n}]
  BY Zenon
<1>2. f \in Seq({f[i] : i \in 1 .. n})
  BY <1>1
<1> QED
  BY <1>2

LEMMA VectorIs ==
  ASSUME NEW n \in Nat, ChunkBytes <= n
  PROVE  IsVector(Builder!Vector(n)) /\ Builder!Vector(n).size = 0 /\ Len(Builder!Vector(n).elements) = n
<1> DEFINE e == [i \in 1 .. n |-> 0]
<1>1. e \in Seq({0}) /\ Len(e) = n /\ DOMAIN e = 1 .. n
  OBVIOUS
<1>2. Builder!Vector(n) = [size |-> 0, elements |-> e]
  BY DEF Builder!Vector
<1> HIDE DEF e
<1> QED
  BY <1>1, <1>2 DEF IsVector

LEMMA NewBuilderInv ==
  BuilderInv(Builder!NewBuilder) /\ Builder!NewBuilder.size = 0
<1> PICK m \in Nat : m = 2 * ChunkBytes
  BY ChunkIs
<1> PICK v : v = Builder!Vector(m)
  OBVIOUS
<1>1. ChunkBytes <= m
  BY ChunkIs
<1>2. IsVector(v)
  BY <1>1, VectorIs
<1>3. Builder!NewBuilder = [size |-> 0, chunks |-> <<v>>]
  BY DEF Builder!NewBuilder
<1>4. Len(<<v>>) = 1 /\ DOMAIN <<v>> = 1 .. 1 /\ <<v>>[1] = v
  OBVIOUS
<1> QED
  BY <1>2, <1>3, <1>4 DEF BuilderInv

\* Where the first free element is.
LEMMA FirstFreeIs ==
  ASSUME NEW b, BuilderInv(b), NEW n \in Nat, n = Len(b.chunks)
  PROVE  /\ n > 0 /\ IsVector(b.chunks[n]) /\ Builder!FirstFree(b) \in 1 .. n
         /\ n = 1 => Builder!FirstFree(b) = 1
         /\ n > 1 /\ b.chunks[n].size = 0 => Builder!FirstFree(b) = n - 1
         /\ n > 1 /\ b.chunks[n].size # 0 => Builder!FirstFree(b) = n /\ Builder!Free(b.chunks[n - 1]) = 0
<1>1. n > 0 /\ \A c \in 1 .. n : IsVector(b.chunks[c])
  BY DEF BuilderInv
<1>2. n \in 1 .. n
  BY <1>1
<1>3. b.chunks[n].size \in Nat /\ IsVector(b.chunks[n])
  BY <1>1, <1>2 DEF IsVector
<1>4. Builder!FirstFree(b) = IF n > 1 /\ b.chunks[n].size = 0 THEN n - 1 ELSE n
  BY DEF Builder!FirstFree
<1>5. n > 1 /\ b.chunks[n].size > 0 => Builder!Free(b.chunks[n - 1]) = 0
  BY DEF BuilderInv
<1> QED
  BY <1>1, <1>3, <1>4, <1>5

LEMMA FreeIs ==
  ASSUME NEW v, IsVector(v)
  PROVE  /\ Builder!Free(v) = Len(v.elements) - v.size /\ Builder!Free(v) \in Nat
         /\ v.size \in Nat /\ Len(v.elements) \in Nat /\ ChunkBytes <= Len(v.elements)
BY ChunkIs DEF IsVector, Builder!Free, Builder!Capacity

LEMMA NextOutputMakesRoom ==
  ASSUME NEW b, BuilderInv(b)
  PROVE  BuilderInv(Builder!NextOutput(b)) /\ HasRoom(Builder!NextOutput(b)) /\ Builder!NextOutput(b).size = b.size
<1> PICK n \in Nat : n = Len(b.chunks)
  BY DEF BuilderInv
<1> DEFINE full == ~(Builder!Free(b.chunks[Builder!FirstFree(b)]) >= ChunkBytes \/ Builder!FirstFree(b) < n)
<1>1. CASE ~full
  <2>1. Builder!NextOutput(b) = b
    BY <1>1 DEF Builder!NextOutput
  <2> QED
    BY <1>1, <2>1 DEF HasRoom
<1>2. CASE full
  <2> PICK m : m = Builder!Smaller(8 * ChunkBytes, 2 * Builder!Capacity(b.chunks[n]))
    OBVIOUS
  <2> PICK v : v = Builder!Vector(m)
    OBVIOUS
  <2> PICK s : s = Append(b.chunks, v)
    OBVIOUS
  <2>1. Builder!NextOutput(b) = [b EXCEPT !.chunks = s]
    BY <1>2 DEF Builder!NextOutput
  <2>2. /\ n > 0 /\ IsVector(b.chunks[n]) /\ Builder!FirstFree(b) = n
        /\ DOMAIN b = {"size", "chunks"} /\ b.size \in Nat
        /\ DOMAIN b.chunks = 1 .. n /\ \A c \in 1 .. n : IsVector(b.chunks[c])
    BY <1>2, FirstFreeIs DEF BuilderInv
  <2>3. m \in Nat /\ ChunkBytes <= m
    BY <2>2, ChunkIs, FreeIs DEF Builder!Smaller, Builder!Capacity
  <2>4. IsVector(v) /\ v.size = 0
    BY <2>3, VectorIs
  <2>5. s = [i \in 1 .. n + 1 |-> IF i = n + 1 THEN v ELSE b.chunks[i]]
    BY DEF Append
  <2>6. Len(s) = n + 1 /\ DOMAIN s = 1 .. n + 1
    BY <2>5, LengthIs
  <2>7. s[n + 1] = v /\ \A c \in 1 .. n : s[c] = b.chunks[c]
    BY <2>2, <2>5
  <2>8. \A c \in 1 .. n + 1 : IsVector(s[c])
    <3> SUFFICES ASSUME NEW c \in 1 .. n + 1 PROVE IsVector(s[c])
      OBVIOUS
    <3>1. c \in 1 .. n \/ c = n + 1
      OBVIOUS
    <3> QED
      BY <2>2, <2>4, <2>7, <3>1
  <2> PICK r : r = Builder!NextOutput(b)
    OBVIOUS
  <2>9. r.chunks = s /\ r.size = b.size /\ DOMAIN r = {"size", "chunks"}
    BY <2>1, <2>2
  <2>10. BuilderInv(r)
    <3>1. Len(s) \in Nat /\ Len(s) > 0 /\ DOMAIN s = 1 .. Len(s) /\ s[Len(s)].size = 0
      BY <2>4, <2>6, <2>7
    <3>2. \A c \in 1 .. Len(s) : IsVector(s[c])
      BY <2>6, <2>8
    <3> QED
      BY <2>2, <2>9, <3>1, <3>2 DEF BuilderInv
  <2>11. Builder!FirstFree(r) = n
    <3>1. n + 1 > 1 /\ s[n + 1].size = 0 /\ (n + 1) - 1 = n
      BY <2>2, <2>4, <2>7
    <3> QED
      BY <2>6, <2>9, <3>1 DEF Builder!FirstFree
  <2>12. HasRoom(r)
    BY <2>6, <2>9, <2>11 DEF HasRoom
  <2> QED
    BY <2>9, <2>10, <2>12
<1> QED
  BY <1>1, <1>2

LEMMA RoomHasPlace ==
  ASSUME NEW b, BuilderInv(b), HasRoom(b), NEW i \in 0 .. ChunkBytes - 1
  PROVE  Builder!HasPlace(b, i)
<1> PICK n \in Nat : n = Len(b.chunks)
  BY DEF BuilderInv
<1> PICK f \in 1 .. n : f = Builder!FirstFree(b)
  BY FirstFreeIs
<1>1. \A c \in 1 .. n : IsVector(b.chunks[c])
  BY DEF BuilderInv
<1> PICK free \in Nat : free = Builder!Free(b.chunks[f])
  BY <1>1, FreeIs
<1>2. f < n \/ free >= ChunkBytes
  BY DEF HasRoom
<1>3. i < ChunkBytes /\ i \in Nat
  BY ChunkIs
<1>4. Builder!Place(b, i) = IF i < free THEN <<f, b.chunks[f].size + i + 1>> ELSE <<f + 1, i - free + 1>>
  BY DEF Builder!Place
<1>5. Builder!Place(b, i)[1] = IF i < free THEN f ELSE f + 1
  BY <1>4
<1>6. Builder!Place(b, i)[1] <= n
  BY <1>2, <1>3, <1>5, ChunkIs
<1> QED
  BY <1>3, <1>6 DEF Builder!HasPlace

\* What a kernel writes moves nothing.
LEMMA WrittenKeeps ==
  ASSUME NEW b, BuilderInv(b), HasRoom(b), NEW w
  PROVE  BuilderInv(Builder!Written(b, w)) /\ HasRoom(Builder!Written(b, w)) /\ Builder!Written(b, w).size = b.size
<1> PICK n \in Nat : n = Len(b.chunks)
  BY DEF BuilderInv
<1> DEFINE value(c, k) == IF \E i \in DOMAIN w : Builder!Place(b, i) = <<c, k>>
                         THEN w[CHOOSE i \in DOMAIN w : Builder!Place(b, i) = <<c, k>>]
                         ELSE b.chunks[c].elements[k]
           elements(c) == [k \in DOMAIN b.chunks[c].elements |-> value(c, k)]
           s == [c \in 1 .. n |-> [b.chunks[c] EXCEPT !.elements = elements(c)]]
           r == Builder!Written(b, w)
<1>1. /\ n > 0 /\ DOMAIN b = {"size", "chunks"} /\ b.size \in Nat /\ DOMAIN b.chunks = 1 .. n
      /\ \A c \in 1 .. n : IsVector(b.chunks[c])
  BY DEF BuilderInv
<1>2. r = [b EXCEPT !.chunks = s]
  <2>1. r = [b EXCEPT !.chunks = [c \in DOMAIN b.chunks |-> [b.chunks[c] EXCEPT !.elements = elements(c)]]]
    BY <1>1, Zenon DEF Builder!Written
  <2> HIDE DEF elements
  <2> QED
    BY <1>1, <2>1
<1>3. r.chunks = s /\ r.size = b.size /\ DOMAIN r = {"size", "chunks"}
  <2> HIDE DEF r, s
  <2> QED
    BY <1>1, <1>2
<1>4. Len(s) = n /\ DOMAIN s = 1 .. n
  <2>1. DOMAIN s = 1 .. n /\ s = [c \in 1 .. n |-> s[c]]
    <3> HIDE DEF elements
    <3> QED
      OBVIOUS
  <2> HIDE DEF s
  <2> QED
    BY <2>1, LengthIs
<1>5. ASSUME NEW c \in 1 .. n
      PROVE  IsVector(s[c]) /\ s[c].size = b.chunks[c].size /\ Builder!Free(s[c]) = Builder!Free(b.chunks[c])
  <2> PICK v : v = b.chunks[c]
    OBVIOUS
  <2> PICK m \in Nat : m = Len(v.elements)
    BY <1>1 DEF IsVector
  <2> PICK e : e = elements(c)
    OBVIOUS
  <2>1. IsVector(v) /\ DOMAIN v.elements = 1 .. m /\ DOMAIN v = {"size", "elements"}
    BY <1>1 DEF IsVector
  <2>2. DOMAIN e = 1 .. m /\ e = [k \in 1 .. m |-> e[k]]
    <3>1. e = [k \in 1 .. m |-> value(c, k)]
      BY <2>1
    <3> HIDE DEF value, elements
    <3> QED
      BY <3>1
  <2>3. Len(e) = m
    BY <2>2, LengthIs
  <2>4. s[c] = [v EXCEPT !.elements = e]
    <3> HIDE DEF elements
    <3> QED
      OBVIOUS
  <2>5. s[c].size = v.size /\ s[c].elements = e /\ DOMAIN s[c] = {"size", "elements"}
    <3> HIDE DEF s, elements
    <3> QED
      BY <2>1, <2>4
  <2> HIDE DEF s, elements
  <2> QED
    BY <2>1, <2>2, <2>3, <2>5 DEF IsVector, Builder!Free, Builder!Capacity
<1> HIDE DEF s, r
<1>6. n > 1 /\ s[n].size > 0 => Builder!Free(s[n - 1]) = 0
  <2> SUFFICES ASSUME n > 1, s[n].size > 0 PROVE Builder!Free(s[n - 1]) = 0
    OBVIOUS
  <2>1. n \in 1 .. n /\ n - 1 \in 1 .. n
    OBVIOUS
  <2>2. b.chunks[n].size > 0
    BY <1>5, <2>1
  <2>3. Builder!Free(b.chunks[n - 1]) = 0
    BY <2>2 DEF BuilderInv
  <2> QED
    BY <1>5, <2>1, <2>3
<1>7. BuilderInv(r)
  BY <1>1, <1>3, <1>4, <1>5, <1>6 DEF BuilderInv
<1>8. Builder!FirstFree(r) = Builder!FirstFree(b) /\ Builder!FirstFree(b) \in 1 .. n
  <2>1. n \in 1 .. n
    BY <1>1
  <2>2. s[n].size = b.chunks[n].size
    BY <1>5, <2>1
  <2> QED
    BY <1>3, <1>4, <2>2, FirstFreeIs DEF Builder!FirstFree
<1>9. HasRoom(r)
  BY <1>3, <1>4, <1>5, <1>8 DEF HasRoom
<1> QED
  BY <1>3, <1>7, <1>9 DEF r

LEMMA Grown ==
  ASSUME NEW v, IsVector(v), NEW i \in Nat, i <= Builder!Free(v), NEW g, g = [v EXCEPT !.size = @ + i]
  PROVE  /\ IsVector(g) /\ g.size = v.size + i /\ g.elements = v.elements
         /\ Builder!Free(g) = Builder!Free(v) - i
<1>1. DOMAIN g = {"size", "elements"} /\ g.size = v.size + i /\ g.elements = v.elements
  BY DEF IsVector
<1>2. Builder!Free(v) = Len(v.elements) - v.size /\ v.size \in Nat /\ Len(v.elements) \in Nat
  BY FreeIs
<1> QED
  BY <1>1, <1>2 DEF IsVector, Builder!Free, Builder!Capacity

LEMMA AdvancedAlone ==
  ASSUME NEW b, BuilderInv(b), HasRoom(b), NEW k \in 0 .. ChunkBytes, Len(b.chunks) = 1
  PROVE  /\ BuilderInv(Builder!Advanced(b, k)) /\ Builder!Advanced(b, k).size = b.size + k
         /\ k > 0 => Builder!BackElement(Builder!Advanced(b, k)) = Builder!ElementAt(b, k - 1)
<1>0. k \in Nat /\ k <= ChunkBytes /\ ChunkBytes \in Nat /\ b.size + k \in Nat
  BY ChunkIs DEF BuilderInv
<1>1. PICK v : v = b.chunks[1]
  OBVIOUS
<1>2. PICK g : g = [v EXCEPT !.size = @ + k]
  OBVIOUS
<1>3. PICK r : r = Builder!Advanced(b, k)
  OBVIOUS
<1>4. Builder!FirstFree(b) = 1
  BY FirstFreeIs
<1>5. IsVector(v)
  BY <1>1 DEF BuilderInv
<1>6. PICK size \in Nat, free \in Nat : size = v.size /\ free = Builder!Free(v)
  BY <1>5, FreeIs
<1>7. free >= ChunkBytes
  BY <1>1, <1>4, <1>6 DEF HasRoom
<1>8. k <= free
  BY <1>0, <1>7
<1>9. IsVector(g) /\ g.size = size + k /\ g.elements = v.elements
  BY <1>0, <1>2, <1>5, <1>6, <1>8, Grown
<1>10. r = [size |-> b.size + k, chunks |-> <<g>>]
  BY <1>1, <1>2, <1>3 DEF Builder!Advanced
<1>11. r.size = b.size + k /\ r.chunks = <<g>> /\ DOMAIN r = {"size", "chunks"}
  BY <1>10
<1>12. Len(r.chunks) = 1 /\ DOMAIN r.chunks = 1 .. 1 /\ r.chunks[1] = g
  BY <1>11
<1>13. BuilderInv(r)
  BY <1>0, <1>9, <1>11, <1>12 DEF BuilderInv
<1>14. ASSUME k > 0 PROVE Builder!BackElement(r) = Builder!ElementAt(b, k - 1)
  <2>1. Builder!FirstFree(r) = 1
    BY <1>12 DEF Builder!FirstFree
  <2>2. Builder!BackElement(r) = v.elements[size + k]
    BY <1>9, <1>12, <2>1 DEF Builder!BackElement
  <2>3. k - 1 < free
    BY <1>0, <1>8
  <2>4. Builder!Place(b, k - 1) = <<1, size + (k - 1) + 1>>
    BY <1>1, <1>4, <1>6, <2>3 DEF Builder!Place
  <2>5. size + (k - 1) + 1 = size + k
    BY <1>0
  <2> QED
    BY <1>1, <2>2, <2>4, <2>5 DEF Builder!ElementAt
<1> QED
  BY <1>3, <1>11, <1>13, <1>14

LEMMA AdvancedPair ==
  ASSUME NEW b, BuilderInv(b), HasRoom(b), NEW k \in 0 .. ChunkBytes, Len(b.chunks) > 1
  PROVE  /\ BuilderInv(Builder!Advanced(b, k)) /\ Builder!Advanced(b, k).size = b.size + k
         /\ k > 0 => Builder!BackElement(Builder!Advanced(b, k)) = Builder!ElementAt(b, k - 1)
<1>0. k \in Nat /\ k <= ChunkBytes /\ ChunkBytes \in Nat /\ b.size + k \in Nat
  BY ChunkIs DEF BuilderInv
<1>1. PICK n \in Nat : n = Len(b.chunks)
  BY DEF BuilderInv
<1>2. PICK p \in Nat : p = n - 1
  BY <1>1
<1>3. p \in 1 .. n /\ n \in 1 .. n /\ p # n /\ n > 1 /\ p + 1 = n
  BY <1>1, <1>2
<1>4. PICK v, w : v = b.chunks[p] /\ w = b.chunks[n]
  OBVIOUS
<1>5. IsVector(v) /\ IsVector(w) /\ DOMAIN b.chunks = 1 .. n /\ \A c \in 1 .. n : IsVector(b.chunks[c])
  BY <1>1, <1>3, <1>4 DEF BuilderInv
<1>6. PICK size \in Nat, free \in Nat : size = v.size /\ free = Builder!Free(v)
  BY <1>5, FreeIs
<1>7. PICK last \in Nat, left \in Nat : last = w.size /\ left = Builder!Free(w) /\ (last = 0 => ChunkBytes <= left)
  <2>1. w.size \in Nat /\ Len(w.elements) \in Nat /\ Builder!Free(w) \in Nat /\ ChunkBytes <= Len(w.elements)
        /\ Builder!Free(w) = Len(w.elements) - w.size
    BY <1>5, FreeIs
  <2>2. w.size = 0 => ChunkBytes <= Builder!Free(w)
    BY <2>1, <1>0
  <2> QED
    BY <2>1, <2>2
<1>8. PICK inPrev \in Nat : inPrev = Builder!Smaller(k, free)
  BY <1>0 DEF Builder!Smaller
<1>9. inPrev <= k /\ inPrev <= free /\ (inPrev = k \/ inPrev = free)
  BY <1>0, <1>8 DEF Builder!Smaller
<1>10. PICK rest \in Nat : rest = k - inPrev
  BY <1>0, <1>9
<1>11. last = 0 => Builder!FirstFree(b) = p
  BY <1>1, <1>2, <1>3, <1>4, <1>7, FirstFreeIs
<1>12. last # 0 => Builder!FirstFree(b) = n /\ free = 0
  BY <1>1, <1>2, <1>3, <1>4, <1>6, <1>7, FirstFreeIs
<1>13. last # 0 => left >= ChunkBytes
  BY <1>1, <1>4, <1>7, <1>12 DEF HasRoom
<1>14. rest <= left
  BY <1>0, <1>7, <1>9, <1>10, <1>13
<1>15. PICK g : g = [v EXCEPT !.size = @ + inPrev]
  OBVIOUS
<1>16. PICK h : h = [w EXCEPT !.size = @ + rest]
  OBVIOUS
<1>17. IsVector(g) /\ g.size = size + inPrev /\ g.elements = v.elements /\ Builder!Free(g) = free - inPrev
  BY <1>5, <1>6, <1>9, <1>15, Grown
<1>18. IsVector(h) /\ h.size = last + rest /\ h.elements = w.elements
  BY <1>5, <1>7, <1>14, <1>16, Grown
<1>19. PICK s : s = [b.chunks EXCEPT ![p] = g, ![n] = h]
  OBVIOUS
<1>20. PICK r : r = Builder!Advanced(b, k)
  OBVIOUS
<1>21. r = [size |-> b.size + k, chunks |-> s]
  <2>1. ~(n < 2)
    BY <1>3
  <2>2. Builder!Free(b.chunks[n - 1]) = free
    BY <1>2, <1>4, <1>6
  <2>3. Builder!Smaller(k, Builder!Free(b.chunks[n - 1])) = inPrev
    BY <1>8, <2>2
  <2>4. g = [b.chunks[n - 1] EXCEPT !.size = @ + inPrev] /\ h = [b.chunks[n] EXCEPT !.size = @ + (k - inPrev)]
    BY <1>2, <1>4, <1>10, <1>15, <1>16
  <2>5. s = [b.chunks EXCEPT ![n - 1] = g, ![n] = h]
    BY <1>2, <1>19
  <2> QED
    BY <1>1, <1>20, <2>1, <2>3, <2>4, <2>5, Zenon DEF Builder!Advanced
<1>22. /\ DOMAIN s = 1 .. n /\ s = [c \in 1 .. n |-> s[c]] /\ s[p] = g /\ s[n] = h
       /\ \A c \in 1 .. n : c # p /\ c # n => s[c] = b.chunks[c]
  BY <1>3, <1>5, <1>19
<1>23. Len(s) = n
  BY <1>22, LengthIs
<1>24. r.size = b.size + k /\ r.chunks = s /\ DOMAIN r = {"size", "chunks"}
  BY <1>21
<1>25. BuilderInv(r)
  <2>1. \A c \in 1 .. n : IsVector(s[c])
    BY <1>5, <1>17, <1>18, <1>22
  <2>2. s[n].size > 0 => Builder!Free(s[n - 1]) = 0
    <3>1. s[n].size = last + rest /\ s[n - 1] = g
      BY <1>2, <1>18, <1>22
    <3>2. last # 0 \/ rest > 0 => free = inPrev
      BY <1>9, <1>10, <1>12
    <3> QED
      BY <1>17, <3>1, <3>2
  <2> QED
    BY <1>0, <1>3, <1>22, <1>23, <1>24, <2>1, <2>2 DEF BuilderInv
<1>26. ASSUME k > 0 PROVE Builder!BackElement(r) = Builder!ElementAt(b, k - 1)
  <2>1. CASE last + rest = 0
    <3>1. last = 0 /\ rest = 0 /\ inPrev = k
      BY <1>0, <1>10, <2>1
    <3>2. Builder!FirstFree(r) = p
      <4>1. n > 1 /\ s[n].size = 0
        BY <1>3, <1>18, <1>22, <2>1
      <4> QED
        BY <1>2, <1>23, <1>24, <4>1 DEF Builder!FirstFree
    <3>3. Builder!BackElement(r) = v.elements[size + k]
      BY <1>17, <1>22, <1>24, <3>1, <3>2 DEF Builder!BackElement
    <3>4. k - 1 < free
      BY <1>0, <1>9, <3>1
    <3>5. Builder!Place(b, k - 1) = <<p, size + (k - 1) + 1>>
      BY <1>4, <1>6, <1>11, <3>1, <3>4 DEF Builder!Place
    <3>6. size + (k - 1) + 1 = size + k
      BY <1>0
    <3> QED
      BY <1>4, <3>3, <3>5, <3>6 DEF Builder!ElementAt
  <2>2. CASE last + rest # 0
    <3>1. Builder!FirstFree(r) = n
      <4>1. ~(s[n].size = 0)
        BY <1>18, <1>22, <2>2
      <4> QED
        BY <1>23, <1>24, <4>1 DEF Builder!FirstFree
    <3>2. Builder!BackElement(r) = w.elements[last + rest]
      BY <1>18, <1>22, <1>24, <3>1 DEF Builder!BackElement
    <3>3. CASE last = 0
      <4>1. inPrev = free /\ ~(k - 1 < free) /\ (k - 1) - free + 1 = rest
        BY <1>0, <1>9, <1>10, <2>2, <3>3
      <4>2. Builder!Place(b, k - 1) = <<p + 1, (k - 1) - free + 1>>
        BY <1>4, <1>6, <1>11, <3>3, <4>1 DEF Builder!Place
      <4>3. last + rest = rest
        BY <3>3
      <4> QED
        BY <1>3, <1>4, <3>2, <4>1, <4>2, <4>3 DEF Builder!ElementAt
    <3>4. CASE last # 0
      <4>1. k - 1 < left
        BY <1>0, <1>13, <3>4
      <4>2. Builder!Place(b, k - 1) = <<n, last + (k - 1) + 1>>
        BY <1>4, <1>7, <1>12, <3>4, <4>1 DEF Builder!Place
      <4>3. last + (k - 1) + 1 = last + rest
        BY <1>0, <1>9, <1>10, <1>12, <3>4
      <4> QED
        BY <1>4, <3>2, <4>2, <4>3 DEF Builder!ElementAt
    <3> QED
      BY <3>3, <3>4
  <2> QED
    BY <2>1, <2>2
<1> QED
  BY <1>20, <1>24, <1>25, <1>26

\* What is kept of it goes on where the last ended.
LEMMA AdvancedKeeps ==
  ASSUME NEW b, BuilderInv(b), HasRoom(b), NEW k \in 0 .. ChunkBytes
  PROVE  /\ BuilderInv(Builder!Advanced(b, k)) /\ Builder!Advanced(b, k).size = b.size + k
         /\ k > 0 => Builder!BackElement(Builder!Advanced(b, k)) = Builder!ElementAt(b, k - 1)
<1>1. PICK n \in Nat : n = Len(b.chunks)
  BY DEF BuilderInv
<1>2. n > 0
  BY <1>1, FirstFreeIs
<1>3. n = 1 \/ n > 1
  BY <1>2
<1>4. CASE n = 1
  BY <1>1, <1>4, AdvancedAlone
<1>5. CASE n > 1
  BY <1>1, <1>5, AdvancedPair
<1> QED
  BY <1>3, <1>4, <1>5

(***************************************************************************)
(* The invariant.                                                           *)
(***************************************************************************)
\* The tiles that the last kernel took, whose blocks have ended when the host goes on.
ScanBase == IF host.pc \in {"running", "copy"} THEN host.base ELSE host.base - host.tiles

StateScan == INSTANCE LookBackProofs WITH
  NumTiles <- SlotCount, Plus <- Join, Seed <- Start, Garbage <- {},
  status <- stateStatus, partial <- statePartial, inclusive <- stateInclusive, frame <- stateFrame,
  Values <- Multistates, base <- ScanBase, count <- host.tiles,
  aggregate <- [b \in Nat |-> Across(Pos(b), Pos(b + 1))], prefix <- [b \in Nat |-> Known(Pos(b))]

CountScan == INSTANCE LookBackProofs WITH
  NumTiles <- SlotCount, Plus <- Sum, Seed <- 0, Garbage <- 99,
  status <- countStatus, partial <- countPartial, inclusive <- countInclusive, frame <- countFrame,
  Values <- Nat, base <- ScanBase, count <- host.tiles,
  aggregate <- [b \in Nat |-> Cardinality(Found(Pos(b), Pos(b + 1)))],
  prefix <- [b \in Nat |-> Cardinality(Found(FirstOffset, Pos(b)))]

HostInv ==
  /\ host.pc \in {"start", "loop", "running", "copy", "done", "failed"}
  /\ DOMAIN host = {"pc", "chunk", "chunkOffset", "base", "tiles", "first", "last"}
  /\ host.base \in Nat /\ host.tiles \in 0 .. TilesPerChunk /\ ScanBase \in Nat
  /\ host.pc = "start" => /\ host.base = 0 /\ host.tiles = 0 /\ host.last = NoOffset
                          /\ reader = [position |-> 0] /\ rows = Builder!NewBuilder
  /\ host.pc \in {"loop", "running", "copy"} => Accepts(request.delim)
  /\ host.pc = "loop" /\ host.chunk # <<>> => IsChunk(ChunkBytes)
  /\ host.pc \in {"running", "copy"} => IsChunk(ChunkBytes) /\ Loaded
  /\ host.pc \in {"loop", "running", "copy"} /\ host.chunk # <<>> =>
       reader = [position |-> host.chunkOffset + Len(host.chunk)]
  /\ host.pc = "running" => host.last = NoOffset

\* What is kept of a kernel are all its offsets, but in the end those up to the last row.
RowsInv ==
  /\ BuilderInv(rows)
  /\ host.pc = "running" => HasRoom(rows)
  /\ host.pc \in {"loop", "running", "copy"} /\ host.last = NoOffset =>
       rows.size = Cardinality(Found(FirstOffset, Pos(IF host.pc = "copy" THEN host.base + host.tiles ELSE host.base)))

\* A block has looked back for the state of its first byte before it knows its matches.
TileInv(b) ==
  /\ DOMAIN tile[b] = {"pc", "matches"}
  /\ tile[b].pc \in {"loaded", "states", "counts", "done"}
  /\ tile[b].pc = "states" => Width > 1
  /\ tile[b].pc = "counts" => tile[b].matches = Shifted(Found(Pos(b), Pos(b + 1)))
  /\ tile[b].pc \in {"counts", "done"} /\ Width > 1 => States!Returned(b)
  /\ tile[b].pc = "done" => Counts!Returned(b)

ScansInv ==
  /\ CountScan!ScanInv
  /\ IF Width > 1 THEN StateScan!ScanInv ELSE States!ScanTypeOK
  /\ \A s \in States!Slots : Cardinality(statePartial[s]) <= MaxSegmentCount
  /\ host.pc # "running" =>
       \A b \in CountScan!Tiles : Counts!Returned(b) /\ (Width > 1 => States!Returned(b))

SplitInv ==
  /\ Asked /\ HostInv /\ RowsInv /\ ScansInv
  /\ host.pc = "running" => DOMAIN tile = Blocks /\ \A b \in Blocks : TileInv(b)

(***************************************************************************)
(* What is scanned.                                                         *)
(***************************************************************************)
LEMMA SlotCountIs ==
  SlotCount \in Nat /\ SlotCount > TilesPerChunk /\ SlotCount > 1
BY Sizes DEF SlotCount

LEMMA StateSums ==
  ASSUME Asked
  PROVE  StateScan!Sums
<1> DEFINE A == [b \in Nat |-> Across(Pos(b), Pos(b + 1))]
           P == [b \in Nat |-> Known(Pos(b))]
<1>1. A \in [Nat -> Multistates] /\ P \in [Nat -> Multistates]
  BY AcrossIsMultistate, KnownIsMultistate
<1>2. P[0] = Start
  BY KnownAtFirst, Positions
<1>3. ASSUME NEW i \in Nat PROVE P[i + 1] = Join(P[i], A[i])
  <2>1. /\ Pos(i) \in Nat /\ Pos(i) >= FirstOffset /\ FirstOffset \in Nat
        /\ Pos(i + 1) = Pos(i) + TileBytes /\ TileBytes \in Nat
    BY Positions, Sizes
  <2>2. Join(Known(Pos(i)), Across(Pos(i), Pos(i + 1))) = Known(Pos(i + 1))
    BY <2>1, KnownJoins
  <2>3. i + 1 \in Nat
    OBVIOUS
  <2> QED
    BY <2>2, <2>3
<1>4. \A a, b \in Multistates : Join(a, b) \in Multistates
  BY JoinIsMultistate
<1>5. \A a, b, c \in Multistates : Join(Join(a, b), c) = Join(a, Join(b, c))
  BY JoinAssociates
<1>6. SlotCount \in Nat /\ SlotCount > 1
  BY SlotCountIs
<1> HIDE DEF A, P
<1> QED
  BY <1>1, <1>2, <1>3, <1>4, <1>5, <1>6 DEF StateScan!Sums, A, P

LEMMA CountSums ==
  ASSUME Asked
  PROVE  CountScan!Sums
<1> DEFINE A == [b \in Nat |-> Cardinality(Found(Pos(b), Pos(b + 1)))]
           P == [b \in Nat |-> Cardinality(Found(FirstOffset, Pos(b)))]
<1>0. ASSUME NEW i \in Nat
      PROVE  /\ Pos(i) \in Nat /\ Pos(i) >= FirstOffset /\ FirstOffset \in Nat /\ Pos(i + 1) \in Nat
             /\ Pos(i + 1) >= Pos(i)
  <2>1. Pos(i) \in Nat /\ Pos(i) >= FirstOffset /\ FirstOffset \in Nat /\ Pos(i + 1) = Pos(i) + TileBytes
    BY Positions
  <2>2. TileBytes \in Nat
    BY Sizes
  <2> QED
    BY <2>1, <2>2
<1>1. A \in [Nat -> Nat] /\ P \in [Nat -> Nat]
  BY <1>0, FoundIsFinite
<1>2. P[0] = 0
  BY FoundNone, Positions, Given
<1>3. ASSUME NEW i \in Nat PROVE P[i + 1] = Sum(P[i], A[i])
  <2>1. Cardinality(Found(FirstOffset, Pos(i + 1))) =
          Cardinality(Found(FirstOffset, Pos(i))) + Cardinality(Found(Pos(i), Pos(i + 1)))
    BY <1>0, FoundAdds
  <2>2. i + 1 \in Nat
    OBVIOUS
  <2> QED
    BY <2>1, <2>2 DEF Sum
<1>4. \A a, b \in Nat : Sum(a, b) \in Nat
  BY DEF Sum
<1>5. \A a, b, c \in Nat : Sum(Sum(a, b), c) = Sum(a, Sum(b, c))
  BY DEF Sum
<1>6. SlotCount \in Nat /\ SlotCount > 1
  BY SlotCountIs
<1> HIDE DEF A, P
<1> QED
  BY <1>1, <1>2, <1>3, <1>4, <1>5, <1>6 DEF CountScan!Sums, A, P

LEMMA SameText ==
  ASSUME UNCHANGED request
  PROVE  /\ UNCHANGED <<Width, FirstOffset, RangeEnd, Content, Asked>>
         /\ UNCHANGED [b \in Nat |-> Across(Pos(b), Pos(b + 1))]
         /\ UNCHANGED [b \in Nat |-> Known(Pos(b))]
         /\ UNCHANGED [b \in Nat |-> Cardinality(Found(Pos(b), Pos(b + 1)))]
         /\ UNCHANGED [b \in Nat |-> Cardinality(Found(FirstOffset, Pos(b)))]
         /\ \A b : UNCHANGED <<Pos(b), Found(Pos(b), Pos(b + 1)), Cardinality(Found(FirstOffset, Pos(b)))>>
BY DEF Width, FirstOffset, RangeEnd, Content, Asked, Across, Known, Found, IsFound, Pos, Agree, Byte, IsBgzip

\* The scans rest while the host goes on.
LEMMA ScansRest ==
  ASSUME Asked, ScansInv, UNCHANGED <<request, stateVars, countVars, host.tiles, ScanBase>>,
         host.pc # "running" \/ host'.pc = "running"
           \/ \A b \in CountScan!Tiles : Counts!Returned(b) /\ (Width > 1 => States!Returned(b))
  PROVE  ScansInv'
<1>1. UNCHANGED CountScan!vars /\ UNCHANGED StateScan!vars /\ UNCHANGED Width
  BY SameText DEF CountScan!vars, StateScan!vars, CountScan!scanVars, StateScan!scanVars, stateVars, countVars
<1>2. CountScan!ScanInv'
  BY <1>1, CountScan!Stutter DEF ScansInv
<1>3. IF Width' > 1 THEN StateScan!ScanInv' ELSE States!ScanTypeOK'
  <2>1. CASE Width > 1
    BY <1>1, <2>1, StateScan!Stutter DEF ScansInv
  <2>2. CASE ~(Width > 1)
    BY <1>1, <2>2 DEF ScansInv, States!ScanTypeOK, stateVars, States!Slots
  <2> QED
    BY <1>1, <2>1, <2>2
<1>4. (\A s \in States!Slots : Cardinality(statePartial[s]) <= MaxSegmentCount)'
  BY DEF ScansInv, stateVars, States!Slots
<1>5. CountScan!Tiles' = CountScan!Tiles
  BY DEF CountScan!Tiles
<1>6. (host.pc # "running" =>
         \A b \in CountScan!Tiles : Counts!Returned(b) /\ (Width > 1 => States!Returned(b)))'
  BY <1>1, <1>5 DEF ScansInv, Counts!Returned, States!Returned, stateVars, countVars
<1> QED
  BY <1>2, <1>3, <1>4, <1>6 DEF ScansInv

(***************************************************************************)
(* The host's steps.                                                        *)
(***************************************************************************)
LEMMA ReadIs ==
  ASSUME Asked, NEW p \in Nat, p <= Len(Content), NEW next, next = NextChunk([position |-> p])
  PROVE  /\ next.bytes \in Seq(Nat) /\ Len(next.bytes) \in 0 .. ChunkBytes /\ p + Len(next.bytes) <= Len(Content)
         /\ next.reader = [position |-> p + Len(next.bytes)]
         /\ \A i \in DOMAIN next.bytes : next.bytes[i] = Content[p + i]
         /\ Len(next.bytes) < ChunkBytes => p + Len(next.bytes) = Len(Content)
         /\ Len(next.bytes) = 0 => next.bytes = <<>>
<1>1. PICK m \in Nat : m = Len(request.text) /\ m = Len(Content)
  <2>1. Len(request.text) \in Nat
    BY Given
  <2>2. Len(Content) = Len(request.text)
    BY ContentIs
  <2> QED
    BY <2>1, <2>2
<1>2. PICK n \in Nat : n = Lesser(ChunkBytes, m - p)
  BY <1>1, ChunkIs DEF Lesser
<1>3. n <= ChunkBytes /\ p + n <= m /\ (n < ChunkBytes => p + n = m) /\ ChunkBytes \in Nat
  BY <1>1, <1>2, ChunkIs DEF Lesser
<1>4. PICK s : s = [i \in 1 .. n |-> p + i]
  OBVIOUS
<1>5. next = [bytes |-> s, reader |-> [position |-> p + n]]
  BY <1>1, <1>2, <1>4 DEF NextChunk, IsBgzip, Asked
<1>6. s \in Seq(Nat) /\ Len(s) = n /\ DOMAIN s = 1 .. n
  BY <1>4
<1>7. n = 0 => s = <<>>
  BY <1>6
<1>8. \A i \in 1 .. n : s[i] = Content[p + i]
  <2> SUFFICES ASSUME NEW i \in 1 .. n PROVE s[i] = Content[p + i]
    OBVIOUS
  <2>1. p + i \in 1 .. m
    BY <1>3
  <2>2. DOMAIN Content = 1 .. m /\ \A j \in DOMAIN Content : Content[j] = j
    BY <1>1, ContentIs
  <2> QED
    BY <1>4, <2>1, <2>2
<1>9. next.bytes = s /\ next.reader = [position |-> p + n] /\ Len(next.bytes) = n /\ n \in 0 .. ChunkBytes
  BY <1>3, <1>5, <1>6
<1>10. \A i \in DOMAIN next.bytes : next.bytes[i] = Content[p + i]
  BY <1>6, <1>8, <1>9
<1>11. p + n <= Len(Content) /\ (n < ChunkBytes => p + n = Len(Content))
  BY <1>1, <1>3
<1> QED
  BY <1>6, <1>7, <1>9, <1>10, <1>11

LEMMA CeilingIs ==
  ASSUME NEW n \in 1 .. ChunkBytes, NEW t, t = (n + TileBytes - 1) \div TileBytes
  PROVE  /\ t \in 1 .. TilesPerChunk /\ n <= t * TileBytes /\ n > (t - 1) * TileBytes
         /\ t * TileBytes <= ChunkBytes
<1>1. TileBytes \in Nat /\ TileBytes > 0 /\ TilesPerChunk \in Nat /\ TilesPerChunk > 0
  BY Sizes
<1>2. n \in Nat /\ n > 0 /\ n <= TileBytes * TilesPerChunk
  BY ChunkIs DEF ChunkBytes
<1>3. PICK m \in Nat : m = n + TileBytes - 1
  BY <1>1, <1>2
<1>4. m = TileBytes * (m \div TileBytes) + (m % TileBytes) /\ m % TileBytes \in 0 .. TileBytes - 1
      /\ m \div TileBytes \in Int
  BY <1>1
<1>5. PICK k \in Int, r \in Nat : k = t /\ m = TileBytes * k + r /\ r < TileBytes
  BY <1>1, <1>3, <1>4
<1>6. PICK x \in Int : x = k * TileBytes /\ x = TileBytes * k /\ (k - 1) * TileBytes = x - TileBytes
  BY <1>1
<1>7. m = x + r /\ m = n + TileBytes - 1
  BY <1>3, <1>5, <1>6
<1>8. n <= x /\ n > x - TileBytes
  BY <1>1, <1>2, <1>5, <1>7
<1>9. k >= 1
  <2>1. k <= 0 => k * TileBytes <= 0
    BY <1>1
  <2> QED
    BY <1>2, <1>6, <1>8, <2>1
<1>10. k <= TilesPerChunk
  <2>1. PICK d \in Int : d = k - 1 - TilesPerChunk
    BY <1>1
  <2>2. d >= 0 => d * TileBytes >= 0
    BY <1>1
  <2>3. d * TileBytes = (k - 1) * TileBytes - TilesPerChunk * TileBytes
    BY <1>1, <2>1
  <2>4. TilesPerChunk * TileBytes = TileBytes * TilesPerChunk /\ TileBytes * TilesPerChunk \in Nat
    BY <1>1
  <2>5. d * TileBytes \in Int
    BY <1>1
  <2>6. ~(d >= 0)
    BY <1>1, <1>2, <1>6, <1>8, <2>2, <2>3, <2>4, <2>5
  <2> QED
    BY <1>1, <2>1, <2>6
<1>11. x <= ChunkBytes
  <2>1. PICK d \in Nat : d = TilesPerChunk - k
    BY <1>1, <1>10
  <2>2. d * TileBytes \in Nat
    BY <1>1
  <2>3. d * TileBytes = TilesPerChunk * TileBytes - k * TileBytes
    BY <1>1, <2>1
  <2>4. TilesPerChunk * TileBytes = TileBytes * TilesPerChunk /\ TileBytes * TilesPerChunk \in Nat
    BY <1>1
  <2> QED
    BY <1>6, <2>2, <2>3, <2>4 DEF ChunkBytes
<1> QED
  BY <1>1, <1>5, <1>6, <1>8, <1>9, <1>10, <1>11

LEMMA EndStep ==
  ASSUME SplitInv, host.pc \in {"start", "loop"}, NEW pc \in {"done", "failed"}, host' = [host EXCEPT !.pc = pc],
         UNCHANGED <<request, rows, stateVars, countVars>>
  PROVE  SplitInv'
<1>1. Asked' /\ Asked
  BY SameText DEF SplitInv
<1>2. DOMAIN host = {"pc", "chunk", "chunkOffset", "base", "tiles", "first", "last"} /\ HostInv
      /\ RowsInv /\ ScansInv
  BY DEF SplitInv, HostInv
<1>3. /\ host'.pc = pc /\ host'.base = host.base /\ host'.tiles = host.tiles
      /\ DOMAIN host' = {"pc", "chunk", "chunkOffset", "base", "tiles", "first", "last"}
  BY <1>2
<1>4. ScanBase' = ScanBase
  BY <1>3 DEF ScanBase
<1>5. HostInv'
  BY <1>2, <1>3, <1>4 DEF HostInv
<1>6. RowsInv'
  BY <1>2, <1>3 DEF RowsInv, BuilderInv, HasRoom
<1>7. ScansInv'
  BY <1>1, <1>2, <1>3, <1>4, ScansRest
<1> QED
  BY <1>1, <1>3, <1>5, <1>6, <1>7 DEF SplitInv

LEMMA BeginStep ==
  ASSUME SplitInv, Begin
  PROVE  SplitInv'
<1>1. Asked' /\ Asked /\ HostInv /\ RowsInv /\ ScansInv
  BY SameText DEF SplitInv, Begin
<1>2. PICK next : next = NextChunk(Skip(reader, FirstOffset))
  OBVIOUS
<1>3. /\ host.pc = "start" /\ Accepts(request.delim) /\ UNCHANGED <<request, rows, stateVars, countVars>>
      /\ host' = [host EXCEPT !.pc = "loop", !.chunk = next.bytes, !.chunkOffset = FirstOffset,
                              !.first = IF request.offset = 0 THEN 0 ELSE NoOffset]
      /\ reader' = next.reader
  BY <1>2 DEF Begin
<1>4. /\ host.base = 0 /\ host.tiles = 0 /\ host.last = NoOffset /\ reader = [position |-> 0]
      /\ rows = Builder!NewBuilder
      /\ DOMAIN host = {"pc", "chunk", "chunkOffset", "base", "tiles", "first", "last"}
  BY <1>1, <1>3 DEF HostInv
<1>5. /\ host'.pc = "loop" /\ host'.chunk = next.bytes /\ host'.chunkOffset = FirstOffset /\ host'.base = 0
      /\ host'.tiles = 0 /\ host'.last = NoOffset
      /\ DOMAIN host' = {"pc", "chunk", "chunkOffset", "base", "tiles", "first", "last"}
  BY <1>3, <1>4
<1>6. ScanBase' = 0 /\ ScanBase = 0
  BY <1>3, <1>4, <1>5 DEF ScanBase
<1>7. PICK m \in Nat, p \in Nat : m = Len(Content) /\ p = Lesser(FirstOffset, m)
  <2>1. Len(request.text) \in Nat /\ FirstOffset \in Nat
    BY <1>1, Given
  <2>2. Len(Content) = Len(request.text)
    BY <1>1, ContentIs
  <2> QED
    BY <2>1, <2>2 DEF Lesser
<1>8. p <= m /\ (p < m => p = FirstOffset)
  <2>1. FirstOffset \in Nat
    BY <1>1, Given
  <2> QED
    BY <1>7, <2>1 DEF Lesser
<1>9. Skip(reader, FirstOffset) = [position |-> p]
  <2>1. Len(Content) = Len(request.text)
    BY <1>1, ContentIs
  <2> QED
    BY <1>1, <1>7, <2>1 DEF Skip, IsBgzip, Asked
<1>10. /\ next.bytes \in Seq(Nat) /\ Len(next.bytes) \in 0 .. ChunkBytes /\ p + Len(next.bytes) <= m
       /\ next.reader = [position |-> p + Len(next.bytes)]
       /\ \A i \in DOMAIN next.bytes : next.bytes[i] = Content[p + i]
       /\ Len(next.bytes) < ChunkBytes => p + Len(next.bytes) = m
       /\ Len(next.bytes) = 0 => next.bytes = <<>>
  BY <1>1, <1>2, <1>7, <1>8, <1>9, ReadIs
<1>11. next.bytes # <<>> => p = FirstOffset /\ Len(next.bytes) \in 1 .. ChunkBytes
  BY <1>7, <1>8, <1>10
<1>12. Content' = Content /\ FirstOffset' = FirstOffset /\ Pos(0)' = Pos(0) /\ Pos(0) = FirstOffset
  BY <1>1, <1>3, SameText, Positions
<1>13. host'.chunk # <<>> => IsChunk(ChunkBytes)' /\ reader' = [position |-> host'.chunkOffset + Len(host'.chunk)]
  BY <1>3, <1>5, <1>7, <1>10, <1>11, <1>12 DEF IsChunk
<1>14. HostInv'
  BY <1>1, <1>3, <1>5, <1>6, <1>13 DEF HostInv
<1>15. RowsInv'
  <2>1. rows.size = 0 /\ BuilderInv(rows)
    BY <1>4, NewBuilderInv
  <2>2. Cardinality(Found(FirstOffset, Pos(0))) = 0
    BY <1>1, <1>12, FoundNone, Given
  <2>3. Cardinality(Found(FirstOffset, Pos(0)))' = Cardinality(Found(FirstOffset, Pos(0)))
    BY <1>3, SameText
  <2>4. rows' = rows
    BY <1>3
  <2>5. BuilderInv(rows)'
    BY <2>1, <2>4 DEF BuilderInv
  <2> QED
    BY <1>5, <2>1, <2>2, <2>3, <2>4, <2>5 DEF RowsInv
<1>16. ScansInv'
  BY <1>1, <1>3, <1>4, <1>5, <1>6, ScansRest
<1> QED
  BY <1>1, <1>5, <1>14, <1>15, <1>16 DEF SplitInv

LEMMA LaunchStep ==
  ASSUME SplitInv, Launch
  PROVE  SplitInv'
<1>1. Asked' /\ Asked /\ HostInv /\ RowsInv /\ ScansInv
  BY SameText DEF SplitInv, Launch
<1>2. PICK tiles : tiles = (Len(host.chunk) + TileBytes - 1) \div TileBytes
  OBVIOUS
<1>3. /\ host.pc = "loop" /\ host.chunk # <<>> /\ ~RangeIsDone /\ UNCHANGED <<request, reader>>
      /\ rows' = Builder!NextOutput(rows)
      /\ States!Reset(host.base, tiles) /\ Counts!Reset(host.base, tiles)
      /\ tile' = [b \in host.base .. host.base + tiles - 1 |-> [pc |-> "loaded", matches |-> {}]]
      /\ host' = [host EXCEPT !.pc = "running", !.tiles = tiles]
  BY <1>2 DEF Launch
<1>4. /\ DOMAIN host = {"pc", "chunk", "chunkOffset", "base", "tiles", "first", "last"}
      /\ host.base \in Nat /\ host.tiles \in Nat /\ Accepts(request.delim) /\ IsChunk(ChunkBytes)
      /\ reader = [position |-> host.chunkOffset + Len(host.chunk)] /\ host.last = NoOffset
  BY <1>1, <1>3, Sizes DEF HostInv, RangeIsDone
<1>5. /\ host'.pc = "running" /\ host'.chunk = host.chunk /\ host'.chunkOffset = host.chunkOffset
      /\ host'.base = host.base /\ host'.tiles = tiles /\ host'.last = NoOffset
      /\ DOMAIN host' = {"pc", "chunk", "chunkOffset", "base", "tiles", "first", "last"}
  BY <1>3, <1>4
<1>6. Len(host.chunk) \in 1 .. ChunkBytes
  BY <1>4 DEF IsChunk
<1>7. /\ tiles \in 1 .. TilesPerChunk /\ Len(host.chunk) <= tiles * TileBytes
      /\ Len(host.chunk) > (tiles - 1) * TileBytes /\ tiles * TileBytes <= ChunkBytes
  BY <1>2, <1>6, CeilingIs
<1>8. /\ UNCHANGED <<Content, Width, FirstOffset>> /\ \A b : UNCHANGED Pos(b)
  BY <1>3, SameText
<1>9. IsChunk(ChunkBytes)'
  BY <1>4, <1>5, <1>8 DEF IsChunk, Pos
<1>10. Loaded'
  <2>1. IsChunk(tiles * TileBytes)
    <3>2. tiles \in Nat /\ TileBytes \in Nat /\ ChunkBytes \in Nat
      BY <1>7, Sizes, ChunkIs
    <3>3. tiles * TileBytes \in Nat /\ Len(host.chunk) \in Nat
      BY <1>6, <3>2
    <3> PICK x \in Nat, n \in Nat : x = tiles * TileBytes /\ n = Len(host.chunk)
      BY <3>3
    <3>1. n \in 1 .. x /\ (n < x => n < ChunkBytes)
      BY <1>6, <1>7, ChunkIs
    <3> QED
      BY <1>4, <3>1 DEF IsChunk
  <2>2. IsChunk(tiles * TileBytes)'
    BY <1>5, <1>8, <2>1 DEF IsChunk, Pos
  <2> QED
    BY <1>4, <1>5, <1>7, <2>2 DEF Loaded
<1>11. PICK last \in Nat : last = host.base - host.tiles /\ ScanBase = last /\ last + host.tiles = host.base
  BY <1>1, <1>3, <1>4 DEF HostInv, ScanBase
<1>12. ScanBase' = host.base
  BY <1>5 DEF ScanBase
<1>13. HostInv'
  BY <1>3, <1>4, <1>5, <1>7, <1>8, <1>9, <1>10, <1>12 DEF HostInv
<1>14. RowsInv'
  <2>1. BuilderInv(rows') /\ HasRoom(rows') /\ rows'.size = rows.size
    BY <1>1, <1>3, NextOutputMakesRoom DEF RowsInv
  <2>2. rows.size = Cardinality(Found(FirstOffset, Pos(host.base)))
    BY <1>1, <1>3, <1>4 DEF RowsInv
  <2>3. \A b : Cardinality(Found(FirstOffset, Pos(b)))' = Cardinality(Found(FirstOffset, Pos(b)))
    BY <1>3, SameText
  <2>4. BuilderInv(rows)' /\ HasRoom(rows)'
    BY <2>1 DEF BuilderInv, HasRoom
  <2>5. Cardinality(Found(FirstOffset, Pos(IF host.pc = "copy" THEN host.base + host.tiles ELSE host.base)))' = rows'.size
    BY <1>5, <2>1, <2>2, <2>3, Zenon DEF Found, Pos, IsFound, Known, Across, Agree, Byte, Content, FirstOffset, Width
  <2> QED
    BY <2>4, <2>5 DEF RowsInv
<1>15. PICK n \in 1 .. SlotCount - 1 : n = tiles
  BY <1>7, SlotCountIs, Sizes
<1>16. CountScan!ScanInv'
  <2>1. CountScan!Reset(ScanBase + host.tiles, n)
    BY <1>3, <1>11, <1>15 DEF CountScan!Reset, Counts!Reset, CountScan!Slots, Counts!Slots,
       CountScan!Offset, Counts!Offset, CountScan!Idle, Counts!Idle
  <2>2. \A b \in CountScan!Tiles : CountScan!Returned(b)
    BY <1>1, <1>3 DEF ScansInv, CountScan!Returned, Counts!Returned
  <2>3. CountScan!Kernel(n)
    BY <1>3, <1>5, <1>11, <1>12, <1>15, <2>1, <2>2, SameText DEF CountScan!Kernel
  <2> QED
    BY <1>1, <2>3, CountSums, CountScan!KernelStep DEF ScansInv
<1>17. IF Width' > 1 THEN StateScan!ScanInv' ELSE States!ScanTypeOK'
  <2>1. CASE Width > 1
    <3>1. StateScan!Reset(ScanBase + host.tiles, n)
      BY <1>3, <1>11, <1>15 DEF StateScan!Reset, States!Reset, StateScan!Slots, States!Slots,
         StateScan!Offset, States!Offset, StateScan!Idle, States!Idle
    <3>2. \A b \in StateScan!Tiles : StateScan!Returned(b)
      BY <1>1, <1>3, <2>1 DEF ScansInv, StateScan!Returned, States!Returned, StateScan!Tiles, CountScan!Tiles
    <3>3. StateScan!Kernel(n)
      BY <1>3, <1>5, <1>11, <1>12, <1>15, <3>1, <3>2, SameText DEF StateScan!Kernel
    <3>4. StateScan!ScanInv'
      BY <1>1, <2>1, <3>3, StateSums, StateScan!KernelStep DEF ScansInv
    <3> QED
      BY <1>8, <2>1, <3>4
  <2>2. CASE ~(Width > 1)
    <3>1. States!ScanTypeOK
      BY <1>1, <2>2 DEF ScansInv
    <3>2. States!ScanTypeOK'
      BY <1>3, <3>1 DEF States!ScanTypeOK, States!Reset, States!Slots, States!Idle
    <3> QED
      BY <1>8, <2>2, <3>2
  <2> QED
    BY <2>1, <2>2
<1>18. (\A s \in States!Slots : Cardinality(statePartial[s]) <= MaxSegmentCount)'
  BY <1>1, <1>3 DEF ScansInv, States!Reset, States!Slots
<1>19. ScansInv'
  BY <1>5, <1>16, <1>17, <1>18 DEF ScansInv
<1>20. DOMAIN tile' = Blocks' /\ \A b \in Blocks' : TileInv(b)'
  BY <1>3, <1>5 DEF Blocks, TileInv
<1> QED
  BY <1>1, <1>13, <1>14, <1>19, <1>20 DEF SplitInv

LEMMA CopyStep ==
  ASSUME SplitInv, Copy
  PROVE  SplitInv'
<1>1. Asked' /\ Asked /\ HostInv /\ RowsInv /\ ScansInv
  BY SameText DEF SplitInv, Copy
<1>2. PICK next : next = NextChunk(reader)
  OBVIOUS
<1>3. /\ host.pc = "copy" /\ UNCHANGED <<request, rows, stateVars, countVars>> /\ reader' = next.reader
      /\ host' = [host EXCEPT !.pc = "loop", !.base = @ + host.tiles,
                              !.chunkOffset = @ + Len(host.chunk), !.chunk = next.bytes]
  BY <1>2 DEF Copy
<1>4. /\ DOMAIN host = {"pc", "chunk", "chunkOffset", "base", "tiles", "first", "last"}
      /\ host.base \in Nat /\ host.tiles \in 1 .. TilesPerChunk /\ Accepts(request.delim)
      /\ IsChunk(ChunkBytes) /\ IsChunk(host.tiles * TileBytes) /\ ScanBase = host.base
  BY <1>1, <1>3 DEF HostInv, Loaded, ScanBase
<1>5. PICK base \in Nat, tiles \in Nat, o \in Nat, n \in Nat, m \in Nat :
        /\ base = host.base /\ tiles = host.tiles /\ o = host.chunkOffset /\ n = Len(host.chunk) /\ m = Len(Content)
        /\ tiles \in 1 .. TilesPerChunk
  <2>1. host.tiles \in Nat
    BY <1>4, Sizes
  <2>2. host.chunkOffset \in Nat
    BY <1>1, <1>4, Positions DEF IsChunk
  <2>3. Len(host.chunk) \in Nat
    BY <1>4 DEF IsChunk
  <2>4. Len(Content) \in Nat
    BY <1>1, ContentIs
  <2> QED
    BY <1>4, <2>1, <2>2, <2>3, <2>4
<1>6. n \in 1 .. ChunkBytes /\ o = Pos(base) /\ o + n <= m /\ n <= tiles * TileBytes /\ host.chunk # <<>>
      /\ (n < ChunkBytes => o + n = m)
  BY <1>4, <1>5 DEF IsChunk
<1>17. PICK p \in Nat : p = o + n /\ p <= m
  BY <1>6
<1>7. reader = [position |-> p]
  BY <1>1, <1>3, <1>5, <1>6, <1>17 DEF HostInv
<1>18. /\ next.bytes \in Seq(Nat) /\ Len(next.bytes) \in 0 .. ChunkBytes /\ p + Len(next.bytes) <= Len(Content)
       /\ next.reader = [position |-> p + Len(next.bytes)]
       /\ \A i \in DOMAIN next.bytes : next.bytes[i] = Content[p + i]
       /\ Len(next.bytes) < ChunkBytes => p + Len(next.bytes) = Len(Content)
       /\ Len(next.bytes) = 0 => next.bytes = <<>>
  <2>1. p <= Len(Content)
    BY <1>5, <1>17
  <2>2. next = NextChunk([position |-> p])
    BY <1>2, <1>7
  <2> QED
    BY <1>1, <2>1, <2>2, ReadIs
<1>8. p + Len(next.bytes) <= m /\ (Len(next.bytes) < ChunkBytes => p + Len(next.bytes) = m)
  BY <1>5, <1>18
<1>9. /\ host'.pc = "loop" /\ host'.chunk = next.bytes /\ host'.chunkOffset = p
      /\ host'.base = base + tiles /\ host'.tiles = tiles /\ host'.last = host.last
      /\ DOMAIN host' = {"pc", "chunk", "chunkOffset", "base", "tiles", "first", "last"}
  BY <1>3, <1>4, <1>5, <1>17
<1>10. next.bytes # <<>> => p = Pos(base + tiles) /\ Len(next.bytes) \in 1 .. ChunkBytes
  <2> SUFFICES ASSUME next.bytes # <<>>
               PROVE  p = Pos(base + tiles) /\ Len(next.bytes) \in 1 .. ChunkBytes
    OBVIOUS
  <2>1. Len(next.bytes) \in 1 .. ChunkBytes
    BY <1>18, ChunkIs
  <2>2. n = ChunkBytes
    BY <1>6, <1>8, <1>17, <2>1, ChunkIs
  <2>3. tiles = TilesPerChunk
    <3>0. TileBytes \in Nat /\ TileBytes > 0 /\ TilesPerChunk \in Nat
      BY Sizes
    <3>1. PICK d \in Nat : d = TilesPerChunk - tiles
      BY <1>5, <3>0
    <3>2. d >= 1 => d * TileBytes >= TileBytes
      BY <3>0
    <3>3. d * TileBytes = TilesPerChunk * TileBytes - tiles * TileBytes
      BY <3>0, <3>1
    <3>4. TilesPerChunk * TileBytes = ChunkBytes /\ tiles * TileBytes \in Nat
      BY <3>0 DEF ChunkBytes
    <3>5. ~(d >= 1)
      BY <1>6, <2>2, <3>0, <3>2, <3>3, <3>4, ChunkIs
    <3> QED
      BY <1>5, <3>0, <3>1, <3>5
  <2>4. Pos(base + tiles) = Pos(base) + ChunkBytes
    <3>0. TileBytes \in Nat /\ TilesPerChunk \in Nat /\ FirstOffset \in Nat
      BY <1>1, Sizes, Given
    <3>1. (base + tiles) * TileBytes = base * TileBytes + tiles * TileBytes
      BY <3>0
    <3>2. tiles * TileBytes = ChunkBytes /\ base * TileBytes \in Nat /\ ChunkBytes \in Nat
      BY <2>3, <3>0, ChunkIs DEF ChunkBytes
    <3> QED
      BY <3>0, <3>1, <3>2 DEF Pos
  <2> QED
    BY <1>6, <1>17, <2>1, <2>2, <2>4
<1>11. /\ UNCHANGED <<Content, Width, FirstOffset>> /\ \A b : UNCHANGED Pos(b)
  BY <1>3, SameText
<1>12. host'.chunk # <<>> => IsChunk(ChunkBytes)' /\ reader' = [position |-> host'.chunkOffset + Len(host'.chunk)]
  BY <1>3, <1>9, <1>10, <1>11, <1>18 DEF IsChunk, Pos
<1>13. ScanBase' = ScanBase /\ ScanBase \in Nat
  <2>1. (base + tiles) - tiles = base
    OBVIOUS
  <2> QED
    BY <1>4, <1>5, <1>9, <2>1 DEF ScanBase
<1>14. HostInv'
  <2>1. tiles \in 0 .. TilesPerChunk /\ base + tiles \in Nat
    BY <1>5, Sizes
  <2> QED
    BY <1>3, <1>4, <1>9, <1>12, <1>13, <2>1 DEF HostInv
<1>15. RowsInv'
  <2>1. BuilderInv(rows)'
    BY <1>1, <1>3 DEF RowsInv, BuilderInv
  <2>2. host.last = NoOffset => rows.size = Cardinality(Found(FirstOffset, Pos(base + tiles)))
    BY <1>1, <1>3, <1>5 DEF RowsInv
  <2>3. Cardinality(Found(FirstOffset, Pos(base + tiles)))' = Cardinality(Found(FirstOffset, Pos(base + tiles)))
    BY <1>3, SameText
  <2> QED
    BY <1>3, <1>9, <2>1, <2>2, <2>3 DEF RowsInv
<1>16. ScansInv'
  <2>1. host'.tiles = host.tiles
    BY <1>5, <1>9
  <2>2. \A b \in CountScan!Tiles : Counts!Returned(b) /\ (Width > 1 => States!Returned(b))
    BY <1>1, <1>3 DEF ScansInv
  <2> QED
    BY <1>1, <1>3, <1>13, <2>1, <2>2, ScansRest
<1> QED
  BY <1>1, <1>9, <1>14, <1>15, <1>16 DEF SplitInv

\* The offsets that a kernel wrote are as many as the delimiters in its tiles.
LEMMA NewOffsetsCount ==
  ASSUME SplitInv, host.pc = "running", \A b \in Blocks : tile[b].pc = "done"
  PROVE  \E before \in Nat, here \in Nat :
           /\ before = rows.size /\ here <= ChunkBytes
           /\ Cardinality(Found(FirstOffset, Pos(host.base + host.tiles))) = before + here
           /\ Counts!InclusivePrefix(host.base + host.tiles - 1) - rows.size = here
<1>1. /\ Asked /\ HostInv /\ RowsInv /\ ScansInv /\ DOMAIN tile = Blocks
      /\ \A b \in Blocks : TileInv(b)
  BY DEF SplitInv
<1>2. Loaded /\ host.last = NoOffset
  BY <1>1 DEF HostInv
<1>3. PICK base \in Nat, tiles \in Nat : base = host.base /\ tiles = host.tiles /\ tiles \in 1 .. TilesPerChunk
  <2>1. host.base \in Nat /\ host.tiles \in 1 .. TilesPerChunk
    BY <1>2 DEF Loaded
  <2>2. TilesPerChunk \in Nat
    BY Sizes
  <2>3. host.tiles \in Nat
    BY <2>1, <2>2
  <2> QED
    BY <2>1, <2>3
<1>4. ScanBase = base /\ CountScan!Tiles = Blocks
  BY <1>3 DEF ScanBase, CountScan!Tiles, Blocks
<1>5. \A b \in CountScan!Tiles : CountScan!Returned(b)
  BY <1>1, <1>4 DEF TileInv, CountScan!Returned, Counts!Returned
<1>6. CountScan!PrefixesAreSums
  BY <1>1, CountSums, CountScan!SumsFollow DEF ScansInv
<1>7. base + tiles \in Nat /\ tiles > 0
  BY <1>3
<1>8. CountScan!InclusivePrefix(base + tiles - 1) = Cardinality(Found(FirstOffset, Pos(base + tiles)))
  <2>1. CountScan!InclusivePrefix(ScanBase + host.tiles - 1) =
          [b \in Nat |-> Cardinality(Found(FirstOffset, Pos(b)))][ScanBase + host.tiles]
    BY <1>3, <1>5, <1>6, <1>7 DEF CountScan!PrefixesAreSums
  <2> QED
    BY <1>3, <1>4, <1>7, <2>1
<1>9. PICK before \in Nat, here \in Nat :
        /\ before = rows.size /\ before = Cardinality(Found(FirstOffset, Pos(base)))
        /\ here = Cardinality(Found(Pos(base), Pos(base + tiles)))
  <2>1. rows.size = Cardinality(Found(FirstOffset, Pos(base)))
    BY <1>1, <1>2, <1>3 DEF RowsInv
  <2>2. Pos(base) \in Nat /\ Pos(base + tiles) \in Nat /\ FirstOffset \in Nat
    BY <1>1, <1>7, Positions
  <2> QED
    BY <2>1, <2>2, FoundIsFinite
<1>10. Pos(base) \in Nat /\ Pos(base) >= FirstOffset /\ FirstOffset \in Nat /\ Pos(base + tiles) \in Nat
  BY <1>1, <1>7, Positions
<1>11. Pos(base + tiles) >= Pos(base) /\ Pos(base + tiles) - Pos(base) <= ChunkBytes
  <2>0. TileBytes \in Nat /\ TilesPerChunk \in Nat
    BY Sizes
  <2>1. (base + tiles) * TileBytes = base * TileBytes + tiles * TileBytes /\ tiles * TileBytes \in Nat
        /\ base * TileBytes \in Nat
    BY <2>0
  <2>2. PICK d \in Nat : d = TilesPerChunk - tiles
    BY <1>3, <2>0
  <2>3. d * TileBytes = TilesPerChunk * TileBytes - tiles * TileBytes /\ d * TileBytes \in Nat
    BY <2>0, <2>2
  <2>4. TilesPerChunk * TileBytes = ChunkBytes
    BY <2>0 DEF ChunkBytes
  <2>5. tiles * TileBytes <= ChunkBytes
    BY <2>1, <2>3, <2>4, ChunkIs
  <2> QED
    BY <1>10, <2>1, <2>5, ChunkIs DEF Pos
<1>12. here <= ChunkBytes
  <2>1. here <= Pos(base + tiles) - Pos(base)
    BY <1>9, <1>10, <1>11, FoundIsFinite
  <2> QED
    BY <1>10, <1>11, <2>1, ChunkIs
<1>13. Cardinality(Found(FirstOffset, Pos(base + tiles))) = before + here
  BY <1>9, <1>10, <1>11, FoundAdds
<1>14. Counts!InclusivePrefix(host.base + host.tiles - 1) - rows.size = here
  <2>1. Counts!InclusivePrefix(base + tiles - 1) = before + here
    BY <1>8, <1>13 DEF CountScan!InclusivePrefix, Counts!InclusivePrefix, CountScan!Offset, Counts!Offset
  <2> QED
    BY <1>3, <1>9, <2>1
<1> QED
  BY <1>3, <1>9, <1>12, <1>13, <1>14

\* All of them are kept, or those up to the first that is not in the range.
LEMMA NewOffsetsAre ==
  ASSUME SplitInv, host.pc = "running", \A b \in Blocks : tile[b].pc = "done", NEW new, new = NewOffsets
  PROVE  /\ new.kept \in 0 .. ChunkBytes
         /\ rows.size + new.kept <= Cardinality(Found(FirstOffset, Pos(host.base + host.tiles)))
         /\ new.last => /\ new.kept > 0 /\ Builder!ElementAt(rows, new.kept - 1) >= RangeEnd
                        /\ \A i \in 0 .. new.kept - 2 : ~(Builder!ElementAt(rows, i) >= RangeEnd)
         /\ ~new.last =>
              /\ rows.size + new.kept = Cardinality(Found(FirstOffset, Pos(host.base + host.tiles)))
              /\ \/ host.chunkOffset + Len(host.chunk) < RangeEnd
                 \/ \A i \in 0 .. new.kept - 1 : ~(Builder!ElementAt(rows, i) >= RangeEnd)
<1>1. PICK before \in Nat, here \in Nat :
        /\ before = rows.size /\ here <= ChunkBytes
        /\ Cardinality(Found(FirstOffset, Pos(host.base + host.tiles))) = before + here
        /\ Counts!InclusivePrefix(host.base + host.tiles - 1) - rows.size = here
  BY NewOffsetsCount
<1>2. PICK outside : outside = {i \in 0 .. here - 1 : Builder!ElementAt(rows, i) >= RangeEnd}
  OBVIOUS
<1>3. new = IF host.chunkOffset + Len(host.chunk) < RangeEnd \/ outside = {} THEN [kept |-> here, last |-> FALSE]
            ELSE [kept |-> 1 + CHOOSE i \in outside : \A j \in outside : i <= j, last |-> TRUE]
  BY <1>1, <1>2, Zenon DEF NewOffsets
<1>4. CASE /\ host.chunkOffset + Len(host.chunk) < RangeEnd \/ outside = {}
           /\ new = [kept |-> here, last |-> FALSE]
  <2>1. new.kept = here /\ ~new.last
    BY <1>4
  <2>2. here \in 0 .. ChunkBytes
    BY <1>1, ChunkIs
  <2>3. outside = {} => \A i \in 0 .. here - 1 : ~(Builder!ElementAt(rows, i) >= RangeEnd)
    BY <1>2
  <2> QED
    BY <1>1, <1>4, <2>1, <2>2, <2>3
<1>5. CASE outside # {} /\ new = [kept |-> 1 + CHOOSE i \in outside : \A j \in outside : i <= j, last |-> TRUE]
  <2>1. \E i \in outside : \A j \in outside : i <= j
    <3>1. outside \subseteq Nat
      BY <1>2
    <3>2. PICK i \in outside : \A j \in outside : ~(j < i)
      BY <1>5, <3>1, ALeast
    <3>3. \A j \in outside : i <= j
      BY <3>1, <3>2
    <3> QED
      BY <3>3
  <2>2. PICK i : i = CHOOSE k \in outside : \A j \in outside : k <= j
    OBVIOUS
  <2>3. i \in outside /\ \A j \in outside : i <= j
    BY <2>1, <2>2
  <2>4. i \in 0 .. here - 1 /\ Builder!ElementAt(rows, i) >= RangeEnd
    BY <1>2, <2>3
  <2>5. new.kept = 1 + i /\ new.last
    BY <1>5, <2>2
  <2>6. 1 + i \in 0 .. ChunkBytes /\ 1 + i > 0 /\ (1 + i) - 1 = i /\ (1 + i) - 2 = i - 1 /\ before + (1 + i) <= before + here
    BY <1>1, <2>4, ChunkIs
  <2>7. \A j \in 0 .. i - 1 : ~(Builder!ElementAt(rows, j) >= RangeEnd)
    <3> SUFFICES ASSUME NEW j \in 0 .. i - 1, Builder!ElementAt(rows, j) >= RangeEnd PROVE FALSE
      OBVIOUS
    <3>1. j \in 0 .. here - 1 /\ ~(i <= j)
      BY <2>4
    <3> QED
      BY <1>2, <2>3, <3>1
  <2> QED
    BY <1>1, <2>4, <2>5, <2>6, <2>7
<1> QED
  BY <1>3, <1>4, <1>5

LEMMA CollectStep ==
  ASSUME SplitInv, Collect
  PROVE  SplitInv'
<1>1. Asked' /\ Asked /\ HostInv /\ RowsInv /\ ScansInv
  BY SameText DEF SplitInv, Collect
<1>2. PICK new : new = NewOffsets
  OBVIOUS
<1>3. PICK kept : kept = Builder!Advanced(rows, new.kept)
  OBVIOUS
<1>4. /\ host.pc = "running" /\ (\A b \in Blocks : tile[b].pc = "done") /\ rows' = kept
      /\ UNCHANGED <<request, reader, tile, stateVars, countVars>>
      /\ host' = [host EXCEPT !.pc = "copy",
                    !.first = IF @ = NoOffset /\ new.kept > 0 THEN Builder!FrontElement(kept) ELSE @,
                    !.last = IF new.last THEN Builder!BackElement(kept) ELSE @]
  BY <1>2, <1>3 DEF Collect
<1>5. /\ new.kept \in 0 .. ChunkBytes
      /\ new.last => new.kept > 0 /\ Builder!ElementAt(rows, new.kept - 1) >= RangeEnd
      /\ ~new.last => rows.size + new.kept = Cardinality(Found(FirstOffset, Pos(host.base + host.tiles)))
  BY <1>2, <1>4, NewOffsetsAre
<1>6. /\ DOMAIN host = {"pc", "chunk", "chunkOffset", "base", "tiles", "first", "last"}
      /\ BuilderInv(rows) /\ HasRoom(rows) /\ host.last = NoOffset /\ ScanBase = host.base
  BY <1>1, <1>4 DEF HostInv, RowsInv, ScanBase
<1>7. /\ host'.pc = "copy" /\ host'.chunk = host.chunk /\ host'.chunkOffset = host.chunkOffset
      /\ host'.base = host.base /\ host'.tiles = host.tiles
      /\ host'.last = IF new.last THEN Builder!BackElement(kept) ELSE NoOffset
      /\ DOMAIN host' = {"pc", "chunk", "chunkOffset", "base", "tiles", "first", "last"}
  BY <1>4, <1>6
<1>8. /\ BuilderInv(kept) /\ kept.size = rows.size + new.kept
      /\ new.kept > 0 => Builder!BackElement(kept) = Builder!ElementAt(rows, new.kept - 1)
  BY <1>3, <1>5, <1>6, AdvancedKeeps
<1>9. host'.last = NoOffset => ~new.last
  <2> SUFFICES ASSUME new.last PROVE host'.last # NoOffset
    OBVIOUS
  <2>1. PICK e : e = Builder!BackElement(kept) /\ e >= RangeEnd
    BY <1>5, <1>8
  <2>2. RangeEnd \in Nat
    BY <1>1, Given
  <2>3. e # NoOffset
    BY <2>1, <2>2 DEF NoOffset
  <2> QED
    BY <1>7, <2>1, <2>3
<1>10. /\ UNCHANGED <<Content, Width, FirstOffset>> /\ \A b : UNCHANGED Pos(b)
  BY <1>4, SameText
<1>11. ScanBase' = ScanBase
  BY <1>6, <1>7 DEF ScanBase
<1>12. HostInv'
  <2>1. IsChunk(ChunkBytes)' /\ Loaded'
    BY <1>1, <1>4, <1>7, <1>10 DEF HostInv, IsChunk, Loaded, Pos
  <2> QED
    BY <1>1, <1>4, <1>7, <1>11, <2>1 DEF HostInv
<1>13. RowsInv'
  <2>1. BuilderInv(rows)'
    BY <1>4, <1>8 DEF BuilderInv
  <2>2. Cardinality(Found(FirstOffset, Pos(host.base + host.tiles)))' =
          Cardinality(Found(FirstOffset, Pos(host.base + host.tiles)))
    BY <1>4, <1>7 DEF Found, Pos, IsFound, Known, Across, Agree, Byte, Content, FirstOffset, Width, IsBgzip
  <2>3. host'.last = NoOffset => rows'.size = Cardinality(Found(FirstOffset, Pos(host.base + host.tiles)))'
    BY <1>4, <1>5, <1>8, <1>9, <2>2
  <2>4. (IF host.pc = "copy" THEN host.base + host.tiles ELSE host.base)' = (host.base + host.tiles)'
    BY <1>7
  <2>5. host'.last = NoOffset =>
          rows'.size =
            Cardinality(Found(FirstOffset, Pos(IF host.pc = "copy" THEN host.base + host.tiles ELSE host.base)))'
    BY <2>3, <2>4, Zenon DEF Found, Pos, IsFound, Known, Across, Agree, Byte, Content, FirstOffset, Width, IsBgzip
  <2>6. host'.pc # "running"
    BY <1>7
  <2> QED
    BY <2>1, <2>5, <2>6 DEF RowsInv
<1>14. ScansInv'
  <2>1. \A b \in Blocks : TileInv(b) /\ tile[b].pc = "done"
    BY <1>4 DEF SplitInv
  <2>2. \A b \in Blocks : Counts!Returned(b) /\ (Width > 1 => States!Returned(b))
    BY <2>1 DEF TileInv
  <2>3. CountScan!Tiles = Blocks
    BY <1>6 DEF CountScan!Tiles, Blocks
  <2>4. \A b \in CountScan!Tiles : Counts!Returned(b) /\ (Width > 1 => States!Returned(b))
    BY <2>2, <2>3
  <2>5. UNCHANGED <<request, stateVars, countVars, host.tiles, ScanBase>>
    BY <1>4, <1>7, <1>11
  <2> QED
    BY <1>1, <2>4, <2>5, ScansRest
<1> QED
  BY <1>1, <1>7, <1>12, <1>13, <1>14 DEF SplitInv

(***************************************************************************)
(* The steps of the thread blocks.                                          *)
(***************************************************************************)
\* What holds while a kernel runs.
LEMMA Running ==
  ASSUME SplitInv, host.pc = "running"
  PROVE  /\ Asked /\ Loaded /\ Accepts(request.delim) /\ ScanBase = host.base
         /\ CountScan!Tiles = Blocks /\ StateScan!Tiles = Blocks /\ Blocks \subseteq Nat
         /\ CountScan!Sums /\ StateScan!Sums /\ ScansInv /\ RowsInv
         /\ BuilderInv(rows) /\ HasRoom(rows)
         /\ DOMAIN tile = Blocks /\ \A b \in Blocks : TileInv(b)
<1>1. /\ Asked /\ HostInv /\ RowsInv /\ ScansInv /\ DOMAIN tile = Blocks
      /\ \A b \in Blocks : TileInv(b)
  BY DEF SplitInv
<1>2. Loaded /\ Accepts(request.delim) /\ ScanBase = host.base
  BY <1>1 DEF HostInv, ScanBase
<1>3. CountScan!Tiles = Blocks /\ StateScan!Tiles = Blocks
  BY <1>2 DEF CountScan!Tiles, StateScan!Tiles, Blocks
<1>4. Blocks \subseteq Nat
  BY <1>2 DEF Loaded, Blocks
<1>5. CountScan!Sums /\ StateScan!Sums
  BY <1>1, CountSums, StateSums
<1>6. BuilderInv(rows) /\ HasRoom(rows)
  BY <1>1 DEF RowsInv
<1> QED
  BY <1>1, <1>2, <1>3, <1>4, <1>5, <1>6

\* A step of a block leaves the host alone.
LEMMA BlockRests ==
  ASSUME SplitInv, host.pc = "running", UNCHANGED <<request, host, reader>>,
         BuilderInv(rows'), HasRoom(rows'), rows'.size = rows.size,
         ScansInv', DOMAIN tile' = Blocks, \A b \in Blocks : TileInv(b)'
  PROVE  SplitInv'
<1>1. Asked' /\ Asked /\ HostInv /\ RowsInv
  BY SameText DEF SplitInv
<1>2. UNCHANGED <<Content, Width, FirstOffset>> /\ \A b : UNCHANGED Pos(b)
  BY SameText
<1>3. ScanBase' = ScanBase
  BY DEF ScanBase
<1>4. HostInv'
  <2>1. IsChunk(ChunkBytes)' <=> IsChunk(ChunkBytes)
    BY <1>2 DEF IsChunk, Pos
  <2>2. Loaded' <=> Loaded
    BY <1>2 DEF IsChunk, Loaded, Pos
  <2> QED
    BY <1>1, <1>3, <2>1, <2>2 DEF HostInv
<1>5. RowsInv'
  <2>1. BuilderInv(rows)' /\ HasRoom(rows)'
    BY DEF BuilderInv, HasRoom
  <2>2. Cardinality(Found(FirstOffset, Pos(host.base)))' = Cardinality(Found(FirstOffset, Pos(host.base)))
    BY DEF Found, Pos, IsFound, Known, Across, Agree, Byte, Content, FirstOffset, Width, IsBgzip
  <2>3. host.last = NoOffset => rows.size = Cardinality(Found(FirstOffset, Pos(host.base)))
    BY <1>1 DEF RowsInv
  <2>4. (IF host.pc = "copy" THEN host.base + host.tiles ELSE host.base)' = host.base'
    OBVIOUS
  <2>5. host'.last = NoOffset =>
          rows'.size =
            Cardinality(Found(FirstOffset, Pos(IF host.pc = "copy" THEN host.base + host.tiles ELSE host.base)))'
    BY <2>2, <2>3, <2>4, Zenon DEF Found, Pos, IsFound, Known, Across, Agree, Byte, Content, FirstOffset, Width, IsBgzip
  <2> QED
    BY <2>1, <2>5 DEF RowsInv
<1>6. Blocks' = Blocks
  BY DEF Blocks
<1> QED
  BY <1>1, <1>4, <1>5, <1>6 DEF SplitInv

LEMMA TileRests ==
  ASSUME UNCHANGED <<request, host>>, NEW b, TileInv(b), tile'[b] = tile[b],
         States!Returned(b) => States!Returned(b)', Counts!Returned(b) => Counts!Returned(b)'
  PROVE  TileInv(b)'
<1>1. Shifted(Found(Pos(b), Pos(b + 1)))' = Shifted(Found(Pos(b), Pos(b + 1)))
  BY SameText DEF Shifted
<1>2. Width' = Width
  BY SameText
<1> QED
  BY <1>1, <1>2 DEF TileInv

LEMMA CountsGoOn ==
  ASSUME SplitInv, host.pc = "running", UNCHANGED <<request, host, stateVars>>, CountScan!ScanInv'
  PROVE  ScansInv'
<1>1. ScansInv /\ Width' = Width
  BY SameText DEF SplitInv
<1>2. UNCHANGED StateScan!vars
  BY SameText DEF StateScan!vars, StateScan!scanVars, stateVars, ScanBase
<1>3. IF Width' > 1 THEN StateScan!ScanInv' ELSE States!ScanTypeOK'
  <2>1. CASE Width > 1
    BY <1>1, <1>2, <2>1, StateScan!Stutter DEF ScansInv
  <2>2. CASE ~(Width > 1)
    BY <1>1, <2>2 DEF ScansInv, States!ScanTypeOK, stateVars, States!Slots
  <2> QED
    BY <1>1, <2>1, <2>2
<1>4. (\A s \in States!Slots : Cardinality(statePartial[s]) <= MaxSegmentCount)'
  BY <1>1 DEF ScansInv, stateVars, States!Slots
<1> QED
  BY <1>3, <1>4 DEF ScansInv

LEMMA StatesGoOn ==
  ASSUME SplitInv, host.pc = "running", UNCHANGED <<request, host, countVars>>, Width > 1, StateScan!ScanInv',
         \A s \in States!Slots : Cardinality(statePartial'[s]) <= MaxSegmentCount
  PROVE  ScansInv'
<1>1. ScansInv /\ Width' = Width
  BY SameText DEF SplitInv
<1>2. UNCHANGED CountScan!vars
  BY SameText DEF CountScan!vars, CountScan!scanVars, countVars, ScanBase
<1>3. CountScan!ScanInv'
  BY <1>1, <1>2, CountScan!Stutter DEF ScansInv
<1>4. (\A s \in States!Slots : Cardinality(statePartial[s]) <= MaxSegmentCount)'
  BY DEF States!Slots
<1> QED
  BY <1>1, <1>3, <1>4 DEF ScansInv

LEMMA ScanStatesStep ==
  ASSUME SplitInv, host.pc = "running", NEW b \in Blocks, ScanStates(b)
  PROVE  SplitInv'
<1>1. /\ Asked /\ Loaded /\ Accepts(request.delim) /\ ScanBase = host.base
      /\ StateScan!Tiles = Blocks /\ Blocks \subseteq Nat
      /\ StateScan!Sums /\ ScansInv /\ BuilderInv(rows) /\ HasRoom(rows)
      /\ DOMAIN tile = Blocks /\ \A c \in Blocks : TileInv(c)
  BY Running
<1>2. /\ tile[b].pc = "loaded" /\ Width > 1 /\ States!Call(b, BlockState(b))
      /\ tile' = [tile EXCEPT ![b].pc = "states"]
      /\ UNCHANGED <<request, hostVars, countVars>>
  BY DEF ScanStates, Width
<1>3. UNCHANGED <<request, host, reader, rows, countVars>>
  BY <1>2 DEF hostVars
<1>4. b \in Nat /\ b + 1 \in Nat /\ BlockState(b) = Across(Pos(b), Pos(b + 1))
  BY <1>1, BlockStateIs
<1>5. StateScan!ScanInv
  BY <1>1, <1>2 DEF ScansInv
<1>6. StateScan!Call(b, [c \in Nat |-> Across(Pos(c), Pos(c + 1))][b])
  BY <1>2, <1>4 DEF StateScan!Call, States!Call, StateScan!Offset, States!Offset, StateScan!Idle, States!Idle
<1>7. StateScan!ScanInv'
  <2>1. UNCHANGED <<ScanBase, host.tiles, [c \in Nat |-> Across(Pos(c), Pos(c + 1))], [c \in Nat |-> Known(Pos(c))]>>
    BY <1>3, SameText DEF ScanBase
  <2> QED
    BY <1>1, <1>5, <1>6, <2>1, StateScan!CallStep
<1>8. \A s \in States!Slots : Cardinality(statePartial'[s]) <= MaxSegmentCount
  <2>1. Cardinality(Across(Pos(b), Pos(b + 1))) <= MaxSegmentCount
    <3>1. Pos(b) \in Nat /\ Pos(b + 1) = Pos(b) + TileBytes /\ TileBytes \in Nat /\ TileBytes > 0
      BY <1>1, <1>4, Positions, Sizes
    <3>2. Pos(b) < Pos(b + 1) /\ Pos(b + 1) \in Nat
      BY <3>1
    <3> QED
      BY <1>1, <3>1, <3>2, AcrossIsSmall
  <2>2. \A s \in States!Slots : Cardinality(statePartial[s]) <= MaxSegmentCount
    BY <1>1 DEF ScansInv
  <2>3. DOMAIN statePartial = States!Slots
    BY <1>5 DEF StateScan!ScanInv, StateScan!Types, StateScan!Slots, States!Slots
  <2>4. statePartial' = [statePartial EXCEPT ![States!Offset(b)] = Across(Pos(b), Pos(b + 1))]
    BY <1>2, <1>4 DEF States!Call
  <2> QED
    BY <2>1, <2>2, <2>3, <2>4
<1>9. ScansInv'
  BY <1>2, <1>3, <1>7, <1>8, StatesGoOn
<1>10. DOMAIN tile' = Blocks
  BY <1>1, <1>2
<1>11. ASSUME NEW c \in Blocks PROVE TileInv(c)'
  <2>1. CASE c = b
    <3>1. tile'[b].pc = "states" /\ DOMAIN tile'[b] = {"pc", "matches"} /\ Width' = Width
      BY <1>1, <1>2, <1>3, SameText DEF TileInv
    <3> QED
      BY <1>2, <2>1, <3>1 DEF TileInv
  <2>2. CASE c # b
    <3>1. tile'[c] = tile[c]
      BY <1>1, <1>2, <2>2
    <3>2. States!Returned(c)' <=> States!Returned(c)
      <4>1. stateFrame' = [stateFrame EXCEPT ![b] = stateFrame'[b]] /\ c \in DOMAIN stateFrame
        BY <1>1, <1>2, <1>5 DEF States!Call, StateScan!ScanInv, StateScan!Types
      <4> QED
        BY <2>2, <4>1 DEF States!Returned
    <3>3. Counts!Returned(c)' <=> Counts!Returned(c)
      BY <1>3 DEF Counts!Returned, countVars
    <3> QED
      BY <1>1, <1>3, <3>1, <3>2, <3>3, TileRests
  <2> QED
    BY <2>1, <2>2
<1>12. BuilderInv(rows') /\ HasRoom(rows') /\ rows'.size = rows.size
  BY <1>1, <1>3
<1> QED
  BY <1>3, <1>9, <1>10, <1>11, <1>12, BlockRests

LEMMA StatesKnown ==
  ASSUME SplitInv, host.pc = "running", NEW b \in Blocks, Width > 1, States!Returned(b)
  PROVE  States!ExclusivePrefix(b) = Known(Pos(b))
<1>1. StateScan!Sums /\ StateScan!ScanInv /\ StateScan!Tiles = Blocks /\ b \in Nat
  BY Running DEF ScansInv
<1>2. StateScan!PrefixesAreSums
  BY <1>1, StateScan!SumsFollow
<1>3. StateScan!ExclusivePrefix(b) = [c \in Nat |-> Known(Pos(c))][b]
  BY <1>1, <1>2 DEF StateScan!PrefixesAreSums, StateScan!Returned, States!Returned
<1> QED
  BY <1>1, <1>3 DEF StateScan!ExclusivePrefix, States!ExclusivePrefix

LEMMA CountsKnown ==
  ASSUME SplitInv, host.pc = "running", NEW b \in Blocks, Counts!Returned(b)
  PROVE  Counts!ExclusivePrefix(b) = Cardinality(Found(FirstOffset, Pos(b)))
<1>1. CountScan!Sums /\ CountScan!ScanInv /\ CountScan!Tiles = Blocks /\ b \in Nat
  BY Running DEF ScansInv
<1>2. CountScan!PrefixesAreSums
  BY <1>1, CountScan!SumsFollow
<1>3. CountScan!ExclusivePrefix(b) = [c \in Nat |-> Cardinality(Found(FirstOffset, Pos(c)))][b]
  BY <1>1, <1>2 DEF CountScan!PrefixesAreSums, CountScan!Returned, Counts!Returned
<1> QED
  BY <1>1, <1>3 DEF CountScan!ExclusivePrefix, Counts!ExclusivePrefix

LEMMA ScanCountsStep ==
  ASSUME SplitInv, host.pc = "running", NEW b \in Blocks, ScanCounts(b)
  PROVE  SplitInv'
<1>1. /\ Asked /\ Loaded /\ ScanBase = host.base
      /\ CountScan!Tiles = Blocks /\ Blocks \subseteq Nat
      /\ CountScan!Sums /\ ScansInv /\ BuilderInv(rows) /\ HasRoom(rows)
      /\ DOMAIN tile = Blocks /\ \A c \in Blocks : TileInv(c)
  BY Running
<1>2. /\ IF Width = 1 THEN tile[b].pc = "loaded" ELSE tile[b].pc = "states" /\ States!Returned(b)
      /\ tile' = [tile EXCEPT ![b] = [pc |-> "counts", matches |-> BlockMatches(b)]]
      /\ Counts!Call(b, Cardinality(tile'[b].matches))
      /\ UNCHANGED <<request, hostVars, stateVars>>
  BY DEF ScanCounts, Width
<1>3. UNCHANGED <<request, host, reader, rows, stateVars>>
  BY <1>2 DEF hostVars
<1>4. Width > 1 => States!Returned(b)
  BY <1>2
<1>5. BlockMatches(b) = Shifted(Found(Pos(b), Pos(b + 1)))
  BY <1>1, <1>4, StatesKnown, BlockMatchesAre
<1>6. tile'[b] = [pc |-> "counts", matches |-> Shifted(Found(Pos(b), Pos(b + 1)))]
  BY <1>1, <1>2, <1>5
<1>7. /\ b \in Nat /\ host.chunkOffset \in Nat
      /\ Cardinality(Shifted(Found(Pos(b), Pos(b + 1)))) = Cardinality(Found(Pos(b), Pos(b + 1)))
  <2>1. b \in Nat /\ b + 1 \in Nat
    BY <1>1
  <2>2. Pos(b) \in Nat /\ Pos(b + 1) \in Nat
    BY <1>1, <2>1, Positions
  <2>3. host.chunkOffset \in Nat
    BY <1>1, Positions DEF Loaded, IsChunk
  <2> QED
    BY <2>1, <2>2, <2>3, ShiftedCount
<1>8. CountScan!Call(b, [c \in Nat |-> Cardinality(Found(Pos(c), Pos(c + 1)))][b])
  <2>1. PICK n : n = Cardinality(Found(Pos(b), Pos(b + 1)))
    OBVIOUS
  <2>2. Cardinality(tile'[b].matches) = n
    BY <1>6, <1>7, <2>1
  <2>3. [c \in Nat |-> Cardinality(Found(Pos(c), Pos(c + 1)))][b] = n
    BY <1>7, <2>1
  <2>4. Counts!Call(b, n)
    BY <1>2, <2>2
  <2>5. CountScan!Call(b, n)
    BY <2>4 DEF CountScan!Call, Counts!Call, CountScan!Offset, Counts!Offset, CountScan!Idle, Counts!Idle
  <2> QED
    BY <2>3, <2>5
<1>9. CountScan!ScanInv /\ CountScan!ScanInv'
  <2>1. UNCHANGED <<ScanBase, host.tiles, [c \in Nat |-> Cardinality(Found(Pos(c), Pos(c + 1)))],
                    [c \in Nat |-> Cardinality(Found(FirstOffset, Pos(c)))]>>
    BY <1>3, SameText DEF ScanBase
  <2>2. CountScan!ScanInv
    BY <1>1 DEF ScansInv
  <2> QED
    BY <1>1, <1>8, <2>1, <2>2, CountScan!CallStep
<1>10. ScansInv'
  BY <1>3, <1>9, CountsGoOn
<1>11. DOMAIN tile' = Blocks
  BY <1>1, <1>2
<1>12. \A c \in Blocks : States!Returned(c)' <=> States!Returned(c)
  BY <1>3 DEF States!Returned, stateVars
<1>13. ASSUME NEW c \in Blocks PROVE TileInv(c)'
  <2>1. CASE c = b
    <3>1. Width' = Width /\ Shifted(Found(Pos(b), Pos(b + 1)))' = Shifted(Found(Pos(b), Pos(b + 1)))
      BY <1>3, SameText DEF Shifted
    <3> QED
      BY <1>4, <1>6, <1>12, <2>1, <3>1 DEF TileInv
  <2>2. CASE c # b
    <3>1. tile'[c] = tile[c]
      BY <1>1, <1>2, <2>2
    <3>2. Counts!Returned(c)' <=> Counts!Returned(c)
      <4>1. countFrame' = [countFrame EXCEPT ![b] = countFrame'[b]] /\ c \in DOMAIN countFrame
        BY <1>1, <1>2, <1>9 DEF Counts!Call, CountScan!ScanInv, CountScan!Types
      <4> QED
        BY <2>2, <4>1 DEF Counts!Returned
    <3> QED
      BY <1>1, <1>3, <1>12, <3>1, <3>2, TileRests
  <2> QED
    BY <2>1, <2>2
<1>14. BuilderInv(rows') /\ HasRoom(rows') /\ rows'.size = rows.size
  BY <1>1, <1>3
<1> QED
  BY <1>3, <1>10, <1>11, <1>13, <1>14, BlockRests

LEMMA LookBackStatesStep ==
  ASSUME SplitInv, host.pc = "running", NEW b \in Blocks, LookBackStates(b)
  PROVE  SplitInv'
<1>1. /\ Asked /\ ScanBase = host.base
      /\ StateScan!Tiles = Blocks /\ Blocks \subseteq Nat
      /\ StateScan!Sums /\ ScansInv /\ BuilderInv(rows) /\ HasRoom(rows)
      /\ DOMAIN tile = Blocks /\ \A c \in Blocks : TileInv(c)
  BY Running
<1>2. /\ tile[b].pc = "states" /\ States!Step(b)
      /\ UNCHANGED <<request, host, reader, rows, tile, countVars>>
  BY DEF LookBackStates, hostVars
<1>3. Width > 1 /\ StateScan!ScanInv
  BY <1>1, <1>2 DEF TileInv, ScansInv
<1>4. StateScan!Step(b)
  <2>1. \A i : StateScan!Offset(i) = States!Offset(i)
    BY DEF StateScan!Offset, States!Offset
  <2>2. StateScan!Idle = States!Idle
    BY DEF StateScan!Idle, States!Idle
  <2> QED
    BY <1>2, <2>1, <2>2 DEF StateScan!Step, States!Step, StateScan!Publish,
       States!Publish, StateScan!Poll, States!Poll,
       StateScan!Read, States!Read, StateScan!Store, States!Store, StateScan!Announce, States!Announce
<1>5. StateScan!ScanInv'
  <2>1. UNCHANGED <<ScanBase, host.tiles, [c \in Nat |-> Across(Pos(c), Pos(c + 1))], [c \in Nat |-> Known(Pos(c))]>>
    BY <1>2, SameText DEF ScanBase
  <2>2. StateScan!Block(b)
    BY <1>4, <2>1 DEF StateScan!Block
  <2> QED
    BY <1>1, <1>3, <2>2, StateScan!BlockPreserves
<1>6. ScansInv'
  <2>1. statePartial' = statePartial
    BY <1>2 DEF States!Step, States!Publish, States!Poll, States!Read, States!Store, States!Announce
  <2>2. \A s \in States!Slots : Cardinality(statePartial'[s]) <= MaxSegmentCount
    BY <1>1, <2>1 DEF ScansInv
  <2> QED
    BY <1>2, <1>3, <1>5, <2>2, StatesGoOn
<1>7. ASSUME NEW c \in Blocks PROVE TileInv(c)'
  <2>1. Counts!Returned(c) => Counts!Returned(c)'
    BY <1>2 DEF Counts!Returned, countVars
  <2>2. CASE c = b
    BY <1>1, <1>2, <1>3, <2>2, SameText DEF TileInv
  <2>3. CASE c # b
    <3>1. \E g : stateFrame' = [stateFrame EXCEPT ![b] = g]
      BY <1>2 DEF States!Step, States!Publish, States!Poll, States!Read, States!Store, States!Announce
    <3>2. c \in DOMAIN stateFrame
      BY <1>1, <1>3 DEF StateScan!ScanInv, StateScan!Types
    <3>3. stateFrame'[c] = stateFrame[c]
      BY <2>3, <3>1, <3>2
    <3>4. States!Returned(c) => States!Returned(c)'
      BY <3>3 DEF States!Returned
    <3> QED
      BY <1>1, <1>2, <2>1, <3>4, TileRests
  <2> QED
    BY <2>2, <2>3
<1>8. /\ BuilderInv(rows') /\ HasRoom(rows') /\ rows'.size = rows.size /\ DOMAIN tile' = Blocks
      /\ UNCHANGED <<request, host, reader>>
  BY <1>1, <1>2
<1> QED
  BY <1>6, <1>7, <1>8, BlockRests

LEMMA LookBackCountsStep ==
  ASSUME SplitInv, host.pc = "running", NEW b \in Blocks, LookBackCounts(b)
  PROVE  SplitInv'
<1>1. /\ Asked /\ ScanBase = host.base
      /\ CountScan!Tiles = Blocks /\ Blocks \subseteq Nat
      /\ CountScan!Sums /\ ScansInv /\ BuilderInv(rows) /\ HasRoom(rows)
      /\ DOMAIN tile = Blocks /\ \A c \in Blocks : TileInv(c)
  BY Running
<1>2. /\ tile[b].pc = "counts" /\ Counts!Step(b)
      /\ UNCHANGED <<request, host, reader, rows, tile, stateVars>>
  BY DEF LookBackCounts, hostVars
<1>3. CountScan!ScanInv
  BY <1>1 DEF ScansInv
<1>4. CountScan!Step(b)
  <2>1. \A i : CountScan!Offset(i) = Counts!Offset(i)
    BY DEF CountScan!Offset, Counts!Offset
  <2>2. CountScan!Idle = Counts!Idle
    BY DEF CountScan!Idle, Counts!Idle
  <2> QED
    BY <1>2, <2>1, <2>2 DEF CountScan!Step, Counts!Step, CountScan!Publish,
       Counts!Publish, CountScan!Poll, Counts!Poll,
       CountScan!Read, Counts!Read, CountScan!Store, Counts!Store, CountScan!Announce, Counts!Announce
<1>5. CountScan!ScanInv'
  <2>1. UNCHANGED <<ScanBase, host.tiles, [c \in Nat |-> Cardinality(Found(Pos(c), Pos(c + 1)))],
                    [c \in Nat |-> Cardinality(Found(FirstOffset, Pos(c)))]>>
    BY <1>2, SameText DEF ScanBase
  <2>2. CountScan!Block(b)
    BY <1>4, <2>1 DEF CountScan!Block
  <2> QED
    BY <1>1, <1>3, <2>2, CountScan!BlockPreserves
<1>6. ScansInv'
  BY <1>2, <1>5, CountsGoOn
<1>7. ASSUME NEW c \in Blocks PROVE TileInv(c)'
  <2>1. States!Returned(c)' <=> States!Returned(c)
    BY <1>2 DEF States!Returned, stateVars
  <2>2. CASE c = b
    <3>1. Width' = Width /\ Shifted(Found(Pos(b), Pos(b + 1)))' = Shifted(Found(Pos(b), Pos(b + 1)))
      BY <1>2, SameText DEF Shifted
    <3> QED
      BY <1>1, <1>2, <2>1, <2>2, <3>1 DEF TileInv
  <2>3. CASE c # b
    <3>1. \E g : countFrame' = [countFrame EXCEPT ![b] = g]
      BY <1>2 DEF Counts!Step, Counts!Publish, Counts!Poll, Counts!Read, Counts!Store, Counts!Announce
    <3>2. c \in DOMAIN countFrame
      BY <1>1, <1>3 DEF CountScan!ScanInv, CountScan!Types
    <3>3. countFrame'[c] = countFrame[c]
      BY <2>3, <3>1, <3>2
    <3>4. Counts!Returned(c) => Counts!Returned(c)'
      BY <3>3 DEF Counts!Returned
    <3> QED
      BY <1>1, <1>2, <2>1, <3>4, TileRests
  <2> QED
    BY <2>2, <2>3
<1>8. /\ BuilderInv(rows') /\ HasRoom(rows') /\ rows'.size = rows.size /\ DOMAIN tile' = Blocks
      /\ UNCHANGED <<request, host, reader>>
  BY <1>1, <1>2
<1> QED
  BY <1>6, <1>7, <1>8, BlockRests

LEMMA WriteOffsetsStep ==
  ASSUME SplitInv, host.pc = "running", NEW b \in Blocks, WriteOffsets(b)
  PROVE  SplitInv'
<1>1. /\ Asked /\ ScansInv /\ BuilderInv(rows) /\ HasRoom(rows)
      /\ DOMAIN tile = Blocks /\ \A c \in Blocks : TileInv(c)
  BY Running
<1>2. PICK written : /\ tile[b].pc = "counts" /\ Counts!Returned(b)
                     /\ rows' = Builder!Written(rows, written)
                     /\ tile' = [tile EXCEPT ![b] = [pc |-> "done", matches |-> {}]]
                     /\ UNCHANGED <<request, host, reader, stateVars, countVars>>
  BY DEF WriteOffsets
<1>3. BuilderInv(rows') /\ HasRoom(rows') /\ rows'.size = rows.size
  BY <1>1, <1>2, WrittenKeeps
<1>4. ScansInv'
  <2>1. UNCHANGED CountScan!vars
    BY <1>2, SameText DEF CountScan!vars, CountScan!scanVars, countVars, ScanBase
  <2>2. CountScan!ScanInv'
    BY <1>1, <2>1, CountScan!Stutter DEF ScansInv
  <2> QED
    BY <1>2, <2>2, CountsGoOn
<1>5. \A c \in Blocks : (States!Returned(c)' <=> States!Returned(c)) /\ (Counts!Returned(c)' <=> Counts!Returned(c))
  BY <1>2 DEF States!Returned, stateVars, Counts!Returned, countVars
<1>6. DOMAIN tile' = Blocks /\ tile'[b] = [pc |-> "done", matches |-> {}]
  BY <1>1, <1>2
<1>7. ASSUME NEW c \in Blocks PROVE TileInv(c)'
  <2>1. CASE c = b
    <3>1. Width' = Width
      BY <1>2, SameText
    <3>2. Width > 1 => States!Returned(b)
      BY <1>1, <1>2 DEF TileInv
    <3> QED
      BY <1>2, <1>5, <1>6, <2>1, <3>1, <3>2 DEF TileInv
  <2>2. CASE c # b
    <3>1. tile'[c] = tile[c]
      BY <1>1, <1>2, <2>2
    <3> QED
      BY <1>1, <1>2, <1>5, <3>1, TileRests
  <2> QED
    BY <2>1, <2>2
<1> QED
  BY <1>2, <1>3, <1>4, <1>6, <1>7, BlockRests

(***************************************************************************)
(* The invariant holds.                                                     *)
(***************************************************************************)
LEMMA SplitInit ==
  ASSUME Init, ~IsBgzip
  PROVE  SplitInv
<1>1. Asked
  BY DEF Init, Asked, IsBgzip
<1>2. /\ host.pc = "start" /\ host.base = 0 /\ host.tiles = 0 /\ host.last = NoOffset
      /\ DOMAIN host = {"pc", "chunk", "chunkOffset", "base", "tiles", "first", "last"}
      /\ reader = NewReader /\ rows = Builder!NewBuilder
      /\ States!Init(TilesPerChunk) /\ Counts!Init(TilesPerChunk)
  BY DEF Init
<1>3. reader = [position |-> 0]
  BY <1>1, <1>2 DEF NewReader, IsBgzip, Asked
<1>4. TilesPerChunk \in Nat /\ ScanBase = 0
  BY <1>2, Sizes DEF ScanBase
<1>5. HostInv
  BY <1>2, <1>3, <1>4 DEF HostInv
<1>6. RowsInv
  BY <1>2, NewBuilderInv DEF RowsInv
<1>7. CountScan!ScanInv
  <2>1. CountScan!Init(TilesPerChunk)
    BY <1>2 DEF CountScan!Init, Counts!Init, CountScan!Slots, Counts!Slots, CountScan!Offset, Counts!Offset
  <2> QED
    BY <1>1, <1>2, <1>4, <2>1, CountSums, CountScan!ScanInit
<1>8. StateScan!ScanInv
  <2>1. StateScan!Init(TilesPerChunk)
    BY <1>2 DEF StateScan!Init, States!Init, StateScan!Slots, States!Slots, StateScan!Offset, States!Offset
  <2> QED
    BY <1>1, <1>2, <1>4, <2>1, StateSums, StateScan!ScanInit
<1>9. States!ScanTypeOK
  BY <1>2 DEF States!Init, States!ScanTypeOK, States!Slots
<1>10. \A s \in States!Slots : Cardinality(statePartial[s]) <= MaxSegmentCount
  BY <1>2, FS_EmptySet DEF States!Init, MaxSegmentCount
<1>11. CountScan!Tiles = {}
  BY <1>2, <1>4 DEF CountScan!Tiles
<1>12. ScansInv
  BY <1>7, <1>8, <1>9, <1>10, <1>11 DEF ScansInv
<1> QED
  BY <1>1, <1>2, <1>5, <1>6, <1>12 DEF SplitInv

LEMMA SplitRests ==
  ASSUME SplitInv, UNCHANGED splitVars
  PROVE  SplitInv'
<1>1. UNCHANGED <<request, host, reader, rows, tile, stateVars, countVars>>
  BY DEF splitVars, hostVars
<1>2. Asked' /\ Asked /\ HostInv /\ RowsInv /\ ScansInv
  BY <1>1, SameText DEF SplitInv
<1>3. ScanBase' = ScanBase /\ Blocks' = Blocks
  BY <1>1 DEF ScanBase, Blocks
<1>4. ScansInv'
  <2>1. UNCHANGED <<request, stateVars, countVars, host.tiles, ScanBase>>
        /\ (host.pc # "running" \/ host'.pc = "running")
    BY <1>1, <1>3
  <2> QED
    BY <1>2, <2>1, ScansRest
<1>5. \A b \in Blocks : (States!Returned(b)' <=> States!Returned(b)) /\ (Counts!Returned(b)' <=> Counts!Returned(b))
  BY <1>1 DEF States!Returned, stateVars, Counts!Returned, countVars
<1>6. CASE host.pc = "running"
  <2>1. /\ BuilderInv(rows) /\ HasRoom(rows) /\ DOMAIN tile = Blocks /\ \A b \in Blocks : TileInv(b)
    BY <1>6, Running
  <2>2. \A b \in Blocks : TileInv(b)'
    BY <1>1, <1>5, <2>1, TileRests
  <2>3. BuilderInv(rows') /\ HasRoom(rows') /\ rows'.size = rows.size /\ DOMAIN tile' = Blocks
    BY <1>1, <2>1
  <2> QED
    BY <1>1, <1>4, <1>6, <2>2, <2>3, BlockRests
<1>7. CASE host.pc # "running"
  <2>1. UNCHANGED <<Content, Width, FirstOffset>> /\ \A b : UNCHANGED Pos(b)
    BY <1>1, SameText
  <2>2. HostInv'
    <3>1. IsChunk(ChunkBytes)' <=> IsChunk(ChunkBytes)
      BY <1>1, <2>1 DEF IsChunk, Pos
    <3>2. Loaded' <=> Loaded
      BY <1>1, <2>1 DEF IsChunk, Loaded, Pos
    <3> QED
      BY <1>1, <1>2, <1>3, <3>1, <3>2 DEF HostInv
  <2>3. RowsInv'
    <3>1. Cardinality(Found(FirstOffset, Pos(IF host.pc = "copy" THEN host.base + host.tiles ELSE host.base)))' =
          Cardinality(Found(FirstOffset, Pos(IF host.pc = "copy" THEN host.base + host.tiles ELSE host.base)))
      BY <1>1 DEF Found, Pos, IsFound, Known, Across, Agree, Byte, Content, FirstOffset, Width, IsBgzip
    <3>2. BuilderInv(rows)' <=> BuilderInv(rows)
      BY <1>1 DEF BuilderInv
    <3> QED
      BY <1>1, <1>2, <1>7, <3>1, <3>2 DEF RowsInv
  <2> QED
    BY <1>1, <1>2, <1>4, <1>7, <2>2, <2>3 DEF SplitInv
<1> QED
  BY <1>6, <1>7

LEMMA SplitStep ==
  ASSUME SplitInv, [Next]_splitVars
  PROVE  SplitInv'
<1>1. CASE Fails
  <2>1. host.pc = "start" /\ host' = [host EXCEPT !.pc = "failed"]
        /\ UNCHANGED <<request, rows, stateVars, countVars>>
    BY <1>1 DEF Fails
  <2> QED
    BY <2>1, EndStep
<1>2. CASE ReturnAtOnce
  <2>1. host.pc = "start" /\ host' = [host EXCEPT !.pc = "done"]
        /\ UNCHANGED <<request, rows, stateVars, countVars>>
    BY <1>2 DEF ReturnAtOnce
  <2> QED
    BY <2>1, EndStep
<1>3. CASE Begin
  BY <1>3, BeginStep
<1>4. CASE Launch
  BY <1>4, LaunchStep
<1>5. CASE Collect
  BY <1>5, CollectStep
<1>6. CASE Copy
  BY <1>6, CopyStep
<1>7. CASE Return
  <2>1. host.pc = "loop" /\ host' = [host EXCEPT !.pc = "done"] /\ UNCHANGED <<request, rows, stateVars, countVars>>
    BY <1>7 DEF Return
  <2> QED
    BY <2>1, EndStep
<1>8. ASSUME host.pc = "running", NEW b \in Blocks, Block(b) PROVE SplitInv'
  BY <1>8, ScanStatesStep, ScanCountsStep, LookBackStatesStep, LookBackCountsStep, WriteOffsetsStep DEF Block
<1>9. CASE UNCHANGED splitVars
  BY <1>9, SplitRests
<1> QED
  BY <1>1, <1>2, <1>3, <1>4, <1>5, <1>6, <1>7, <1>8, <1>9 DEF Next

(***************************************************************************)
(* What follows from the invariant.                                         *)
(***************************************************************************)
\* A tile is less than a chunk behind the first of its kernel, and begins inside the text.
LEMMA TileBegins ==
  ASSUME Asked, Loaded, NEW b \in Blocks
  PROVE  /\ host.chunkOffset + FirstByte(b) = Pos(b) /\ Pos(b) \in Nat /\ Pos(b) <= Len(Content)
         /\ Pos(host.base) \in Nat /\ Pos(b) >= Pos(host.base)
         /\ Pos(b + 1) \in Nat /\ Pos(b + 1) >= Pos(b) /\ Pos(b + 1) - Pos(host.base) <= ChunkBytes
<1>1. /\ host.base \in Nat /\ host.tiles \in 1 .. TilesPerChunk /\ host.chunkOffset = Pos(host.base)
      /\ Len(host.chunk) > (host.tiles - 1) * TileBytes
      /\ host.chunkOffset + Len(host.chunk) <= Len(Content) /\ Len(host.chunk) \in Nat
  BY DEF Loaded, IsChunk
<1>2. TileBytes \in Nat /\ TileBytes > 0 /\ TilesPerChunk \in Nat
  BY Sizes
<1>3. PICK base \in Nat, tiles \in Nat : base = host.base /\ tiles = host.tiles /\ tiles \in 1 .. TilesPerChunk
  BY <1>1, <1>2
<1>4. PICK d \in Nat : d = b - base /\ b = base + d /\ d <= tiles - 1
  BY <1>3 DEF Blocks
<1>5. b \in Nat
  BY <1>3, <1>4
<1>6. PICK o \in Nat, p \in Nat, q \in Nat, n \in Nat, m \in Nat :
        o = Pos(base) /\ p = Pos(b) /\ q = Pos(b + 1) /\ n = Len(host.chunk) /\ m = Len(Content)
              /\ q = p + TileBytes
  <2>1. Pos(base) \in Nat
    BY <1>3, Positions
  <2>2. Pos(b) \in Nat /\ Pos(b + 1) = Pos(b) + TileBytes
    BY <1>5, Positions
  <2>3. Pos(b + 1) \in Nat
    BY <1>2, <2>2
  <2>4. Len(Content) \in Nat
    BY ContentIs
  <2> QED
    BY <1>1, <2>1, <2>2, <2>3, <2>4
<1>7. PICK x \in Nat : x = d * TileBytes
  BY <1>2
<1>8. p = o + x
  <2>1. b * TileBytes = base * TileBytes + d * TileBytes /\ base * TileBytes \in Nat
    BY <1>2, <1>4
  <2>2. FirstOffset \in Nat
    BY Given
  <2> QED
    BY <1>6, <1>7, <2>1, <2>2 DEF Pos
<1>9. FirstByte(b) = x
  BY <1>3, <1>4, <1>7 DEF FirstByte
<1>10. x <= (tiles - 1) * TileBytes
  <2>1. PICK e \in Nat : e = tiles - 1 - d
    BY <1>4
  <2>2. e * TileBytes = (tiles - 1) * TileBytes - d * TileBytes /\ e * TileBytes \in Nat
    BY <1>2, <2>1
  <2>3. PICK y \in Int, z \in Nat : y = (tiles - 1) * TileBytes /\ z = e * TileBytes
    BY <1>2, <2>2
  <2>4. z = y - x
    BY <1>7, <2>2, <2>3
  <2> QED
    BY <2>3, <2>4
<1>11. o + n <= m /\ n > (tiles - 1) * TileBytes
  BY <1>1, <1>3, <1>6
<1>12. p <= m
  <2>1. PICK y \in Int : y = (tiles - 1) * TileBytes
    BY <1>2
  <2> QED
    BY <1>8, <1>10, <1>11, <2>1
<1>13. x + TileBytes <= ChunkBytes
  <2>1. PICK e \in Nat : e = TilesPerChunk - 1 - d
    BY <1>2, <1>3, <1>4
  <2>2. e * TileBytes = TilesPerChunk * TileBytes - TileBytes - d * TileBytes /\ e * TileBytes \in Nat
    BY <1>2, <2>1
  <2>3. TilesPerChunk * TileBytes = ChunkBytes
    BY <1>2 DEF ChunkBytes
  <2> QED
    BY <1>2, <1>7, <2>2, <2>3, ChunkIs
<1>14. q - o <= ChunkBytes
  BY <1>2, <1>6, <1>8, <1>13, ChunkIs
<1>15. host.chunkOffset + FirstByte(b) = Pos(b)
  BY <1>1, <1>3, <1>6, <1>8, <1>9
<1>16. Pos(host.base) = o /\ p >= o /\ q >= p
  <2>1. Pos(host.base) = o
    BY <1>3, <1>6
  <2>2. p >= o /\ q >= p
    BY <1>2, <1>6, <1>8
  <2> QED
    BY <2>1, <2>2
<1> QED
  BY <1>6, <1>12, <1>14, <1>15, <1>16

LEMMA KnownIs ==
  ASSUME Asked, NEW q \in Nat, FirstOffset <= q, q <= Len(Content)
  PROVE  Known(q) = {<<0, n>> : n \in {m \in 0 .. Len(request.delim) : EndsWith(FirstOffset, q, m)}}
<1>1. FirstOffset \in Nat /\ Width \in Nat /\ Width = Len(request.delim)
  BY Given DEF Width
<1>2. ASSUME NEW m \in 0 .. Width, FirstOffset + m <= q
      PROVE  Agree(q, 0, m) <=> \A i \in 1 .. m : request.text[Content[q - m + i]] = request.delim[i]
  <2>1. PICK n \in Nat : n = Len(Content) /\ DOMAIN Content = 1 .. n
    BY ContentIs
  <2>2. ASSUME NEW i \in 1 .. m PROVE Byte(q - m + i) = request.text[Content[q - m + i]]
    <3>1. m \in Nat /\ i \in Nat /\ m <= q
      BY <1>1, <1>2
    <3>2. PICK j \in Int : j = q - m + i /\ j >= 1 /\ j <= q
      BY <2>2, <3>1
    <3>3. j \in DOMAIN Content
      BY <2>1, <3>2
    <3> QED
      BY <3>2, <3>3 DEF Byte
  <2>3. 0 + 1 = 1
    OBVIOUS
  <2> QED
    BY <2>2, <2>3 DEF Agree
<1>3. ASSUME NEW m \in 0 .. Width PROVE <<0, m>> \in Known(q) <=> EndsWith(FirstOffset, q, m)
  <2>1. <<0, m>> \in Known(q) <=> Agree(q, 0, m) /\ (m - 0 = q - FirstOffset \/ m <= q - FirstOffset)
    BY <1>1, AcrossMember DEF Known
  <2>2. (m - 0 = q - FirstOffset \/ m <= q - FirstOffset) <=> FirstOffset + m <= q
    BY <1>1
  <2> QED
    BY <1>2, <2>1, <2>2 DEF EndsWith
<1>4. ASSUME NEW s \in Known(q) PROVE s[2] \in 0 .. Width /\ s = <<0, s[2]>>
  BY <1>1, AcrossPairs DEF Known
<1> QED
  BY <1>1, <1>3, <1>4

LEMMA FoundIs ==
  ASSUME Asked, NEW q \in Nat, FirstOffset <= q, q <= Len(Content)
  PROVE  Found(FirstOffset, q) = {p \in FirstOffset .. q : EndsWith(FirstOffset, p, Len(request.delim))}
<1>1. FirstOffset \in Nat /\ Width \in Nat /\ Width > 0 /\ Width = Len(request.delim)
  BY Given DEF Width
<1>2. PICK n \in Nat : n = Len(Content) /\ DOMAIN Content = 1 .. n
  BY ContentIs
<1>3. ~EndsWith(FirstOffset, FirstOffset, Width)
  <2>1. ~(FirstOffset + Width <= FirstOffset)
    BY <1>1
  <2> QED
    BY <2>1, Zenon DEF EndsWith
<1>4. ASSUME NEW p \in FirstOffset + 1 .. q PROVE IsFound(p) <=> EndsWith(FirstOffset, p, Width)
  <2>1. p \in Nat /\ FirstOffset <= p /\ p <= Len(Content) /\ p \in DOMAIN Content
    BY <1>1, <1>2
  <2>2. Known(p) = {<<0, k>> : k \in {m \in 0 .. Width : EndsWith(FirstOffset, p, m)}}
    BY <1>1, <2>1, KnownIs
  <2>3. <<0, Width>> \in Known(p) <=> EndsWith(FirstOffset, p, Width)
    BY <1>1, <2>2
  <2> QED
    BY <2>1, <2>3 DEF IsFound
<1>5. \A p : p \in FirstOffset .. q <=> p = FirstOffset \/ p \in FirstOffset + 1 .. q
  BY <1>1
<1> QED
  BY <1>1, <1>3, <1>4, <1>5 DEF Found

LEMMA PrefixesFollow ==
  ASSUME SplitInv
  PROVE  PrefixesAreTrue
<1> SUFFICES ASSUME host.pc = "running", NEW b \in Blocks
             PROVE  LET before == host.chunkOffset + FirstByte(b)
                    IN  /\ tile[b].pc = "states" /\ States!Returned(b) =>
                             States!ExclusivePrefix(b) =
                               {<<0, n>> : n \in {m \in 0 .. Len(request.delim) : EndsWith(FirstOffset, before, m)}}
                        /\ tile[b].pc = "counts" /\ Counts!Returned(b) =>
                             Counts!ExclusivePrefix(b) =
                               Cardinality({p \in FirstOffset .. before : EndsWith(FirstOffset, p, Len(request.delim))})
  BY DEF PrefixesAreTrue
<1>1. Asked /\ Loaded /\ TileInv(b) /\ b \in Nat
  BY Running
<1>2. PICK q : q = Pos(b)
  OBVIOUS
<1>3. host.chunkOffset + FirstByte(b) = q /\ q \in Nat /\ q <= Len(Content)
  BY <1>1, <1>2, TileBegins
<1>4. FirstOffset <= q
  BY <1>1, <1>2, Positions
<1>5. ASSUME tile[b].pc = "states", States!Returned(b)
      PROVE  States!ExclusivePrefix(b) =
               {<<0, n>> : n \in {m \in 0 .. Len(request.delim) : EndsWith(FirstOffset, q, m)}}
  <2>1. Width > 1
    BY <1>1, <1>5 DEF TileInv
  <2>2. States!ExclusivePrefix(b) = Known(q)
    BY <1>2, <1>5, <2>1, StatesKnown
  <2> QED
    BY <1>1, <1>3, <1>4, <2>2, KnownIs
<1>6. ASSUME tile[b].pc = "counts", Counts!Returned(b)
      PROVE  Counts!ExclusivePrefix(b) =
               Cardinality({p \in FirstOffset .. q : EndsWith(FirstOffset, p, Len(request.delim))})
  <2>1. Counts!ExclusivePrefix(b) = Cardinality(Found(FirstOffset, q))
    BY <1>2, <1>6, CountsKnown
  <2> QED
    BY <1>1, <1>3, <1>4, <2>1, FoundIs
<1> QED
  BY <1>3, <1>5, <1>6

\* What a block writes has a place: it is part of what its kernel's chunk can hold.
LEMMA WritesHavePlace ==
  ASSUME SplitInv, host.pc = "running", NEW b \in Blocks, tile[b].pc = "counts", Counts!Returned(b),
         NEW k \in 0 .. countFrame[b].window + Cardinality(tile[b].matches) - rows.size - 1
  PROVE  Builder!HasPlace(rows, k)
<1>1. /\ Asked /\ Loaded /\ TileInv(b) /\ b \in Nat /\ RowsInv /\ HostInv /\ BuilderInv(rows) /\ HasRoom(rows)
  BY Running DEF SplitInv
<1>2. /\ Pos(b) \in Nat /\ Pos(host.base) \in Nat /\ Pos(b) >= Pos(host.base)
      /\ Pos(b + 1) \in Nat /\ Pos(b + 1) >= Pos(b) /\ Pos(b + 1) - Pos(host.base) <= ChunkBytes
  BY <1>1, TileBegins
<1>3. host.base \in Nat /\ host.last = NoOffset /\ host.chunkOffset = Pos(host.base)
  BY <1>1 DEF HostInv, Loaded, IsChunk
<1>4. FirstOffset \in Nat /\ FirstOffset <= Pos(host.base)
  BY <1>1, <1>3, Positions
<1>5. PICK base \in Nat, p \in Nat, q \in Nat : base = Pos(host.base) /\ p = Pos(b) /\ q = Pos(b + 1)
  BY <1>2
<1>6. base <= p /\ p <= q /\ q - base <= ChunkBytes /\ FirstOffset <= base /\ base <= q
  BY <1>2, <1>4, <1>5
<1>7. PICK i \in Nat, j \in Nat, l \in Nat :
        /\ i = Cardinality(Found(FirstOffset, base)) /\ j = Cardinality(Found(base, p))
        /\ l = Cardinality(Found(p, q))
  BY <1>4, <1>5, FoundIsFinite
<1>8. rows.size = i
  BY <1>1, <1>3, <1>5, <1>7 DEF RowsInv
<1>9. countFrame[b].window = i + j
  <2>1. Counts!ExclusivePrefix(b) = Cardinality(Found(FirstOffset, p))
    BY <1>5, CountsKnown
  <2>2. Cardinality(Found(FirstOffset, p)) = i + j
    BY <1>4, <1>6, <1>7, FoundAdds
  <2> QED
    BY <2>1, <2>2 DEF Counts!ExclusivePrefix
<1>10. Cardinality(tile[b].matches) = l
  <2>1. tile[b].matches = Shifted(Found(p, q))
    BY <1>1, <1>5 DEF TileInv
  <2>2. host.chunkOffset \in Nat
    BY <1>2, <1>3
  <2> QED
    BY <1>7, <2>1, <2>2, ShiftedCount
<1>11. j + l <= ChunkBytes
  <2>1. Cardinality(Found(base, q)) = j + l
    BY <1>6, <1>7, FoundAdds
  <2>2. Cardinality(Found(base, q)) <= q - base
    BY <1>6, FoundIsFinite
  <2> QED
    BY <1>6, <2>1, <2>2, ChunkIs
<1>12. k \in 0 .. (i + j) + l - i - 1
  BY <1>8, <1>9, <1>10
<1>13. k \in 0 .. ChunkBytes - 1
  BY <1>11, <1>12, ChunkIs
<1> QED
  BY <1>1, <1>13, RoomHasPlace

LEMMA TypesFollow ==
  ASSUME SplitInv
  PROVE  SplitTypeOK
<1>1. Asked /\ HostInv /\ ScansInv
  BY DEF SplitInv
<1>2. CountScan!ScanInv /\ CountScan!Sums
  BY <1>1, CountSums DEF ScansInv
<1>3. Counts!ScanTypeOK
  <2>1. CountScan!Types
    BY <1>2 DEF CountScan!ScanInv
  <2>2. countStatus \in [Counts!Slots -> {"oob", "invalid", "partial", "inclusive"}]
    BY <2>1 DEF CountScan!Types, CountScan!Slots, CountScan!Statuses, Counts!Slots
  <2>3. DOMAIN countPartial = Counts!Slots /\ DOMAIN countInclusive = Counts!Slots
    BY <2>1 DEF CountScan!Types, CountScan!Slots, Counts!Slots
  <2>4. \A b \in DOMAIN countFrame :
          countFrame[b].pc \in {"idle", "publish", "poll", "read", "store", "announce", "returned"}
    BY <2>1 DEF CountScan!Types, CountScan!Frames, CountScan!Pcs
  <2> QED
    BY <2>2, <2>3, <2>4 DEF Counts!ScanTypeOK
<1>4. States!ScanTypeOK
  <2>1. CASE Width > 1
    <3>1. StateScan!Types
      BY <1>1, <2>1 DEF ScansInv, StateScan!ScanInv
    <3>2. stateStatus \in [States!Slots -> {"oob", "invalid", "partial", "inclusive"}]
      BY <3>1 DEF StateScan!Types, StateScan!Slots, StateScan!Statuses, States!Slots
    <3>3. DOMAIN statePartial = States!Slots /\ DOMAIN stateInclusive = States!Slots
      BY <3>1 DEF StateScan!Types, StateScan!Slots, States!Slots
    <3>4. \A b \in DOMAIN stateFrame :
            stateFrame[b].pc \in {"idle", "publish", "poll", "read", "store", "announce", "returned"}
      BY <3>1 DEF StateScan!Types, StateScan!Frames, StateScan!Pcs
    <3> QED
      BY <3>2, <3>3, <3>4 DEF States!ScanTypeOK
  <2>2. CASE ~(Width > 1)
    BY <1>1, <2>2 DEF ScansInv
  <2> QED
    BY <2>1, <2>2
<1>5. \A s \in States!Slots : Cardinality(statePartial[s]) <= MaxSegmentCount
  BY <1>1 DEF ScansInv
<1>6. ASSUME host.pc = "running"
      PROVE  /\ \A b \in Blocks : tile[b].pc \in {"loaded", "states", "counts", "done"}
             /\ \A b, c \in (host.base - 1) .. (host.base + host.tiles - 1) :
                  States!Offset(b) = States!Offset(c) => b = c
  <2>1. (\A b \in Blocks : TileInv(b)) /\ ScanBase = host.base
    BY <1>6, Running
  <2>2. ASSUME NEW b \in (host.base - 1) .. (host.base + host.tiles - 1),
               NEW c \in (host.base - 1) .. (host.base + host.tiles - 1), b # c
        PROVE  States!Offset(b) # States!Offset(c)
    <3>1. CountScan!Types
      BY <1>2 DEF CountScan!ScanInv
    <3>2. CountScan!Offset(b) # CountScan!Offset(c)
      BY <1>2, <2>1, <2>2, <3>1, CountScan!TilesApart
    <3> QED
      BY <3>2 DEF CountScan!Offset, States!Offset
  <2> QED
    BY <2>1, <2>2 DEF TileInv
<1>7. host.pc \in {"start", "loop", "running", "copy", "done", "failed"}
  BY <1>1 DEF HostInv
<1>8. ASSUME host.pc = "running", NEW b \in Blocks, tile[b].pc = "counts" /\ Counts!Returned(b),
             NEW k \in 0 .. countFrame[b].window + Cardinality(tile[b].matches) - rows.size - 1
      PROVE  Builder!HasPlace(rows, k)
  BY <1>8, WritesHavePlace
<1> QED
  BY <1>3, <1>4, <1>5, <1>6, <1>7, <1>8 DEF SplitTypeOK

(***************************************************************************)
(* The theorems.                                                            *)
(***************************************************************************)
\* The invariant holds for plain texts.  (What a block-gzipped file holds is read otherwise.)
LEMMA SplitInvariant ==
  Spec /\ ~IsBgzip => []SplitInv
<1>1. Init /\ ~IsBgzip => SplitInv
  BY SplitInit
<1>2. SplitInv /\ [Next]_splitVars => SplitInv'
  BY SplitStep
<1> QED
  BY <1>1, <1>2, PTL DEF Spec

\* In every split of a plain text, a thread block that has looked back knows how much of the
\* delimiter the bytes before its tile end with, in all ways, and how many delimiters are in
\* them, whatever the sizes of tiles, chunks and rings, the number of blocks that run at once
\* and their order (multibyte_split, multibyte_split_kernel, byte_split_kernel).
THEOREM SplitPrefixesAreTrue ==
  Spec /\ ~IsBgzip => []PrefixesAreTrue
<1>1. SplitInv => PrefixesAreTrue
  BY PrefixesFollow
<1> QED
  BY <1>1, SplitInvariant, PTL

\* Nor does a multistate ever have more segments than its words hold, an offset that a kernel
\* writes lie outside the vectors that output_builder made room in, or two tiles in flight
\* share a slot of the ring.
THEOREM SplitTypes ==
  Spec /\ ~IsBgzip => []SplitTypeOK
<1>1. SplitInv => SplitTypeOK
  BY TypesFollow
<1> QED
  BY <1>1, SplitInvariant, PTL
=============================================================================
