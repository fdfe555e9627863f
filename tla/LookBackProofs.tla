--------------------------- MODULE LookBackProofs ---------------------------
(***************************************************************************)
(* The look-back scan is right, for every associative operation, number of   *)
(* slots and of tiles, and order of the thread blocks: a block that has        *)
(* looked back has the sum of all tiles before its own.                      *)
(*                                                                         *)
(* Here the scan is on its own.  The kernels follow each other, each on the     *)
(* next tiles (multibyte_split_scan_full_source), and what their blocks will   *)
(* ask the callback to add is known from the start.                           *)
(***************************************************************************)
EXTENDS LookBack, TLAPS

CONSTANT Values  \* what is scanned

VARIABLES
  base, count,       \* the tiles of the kernel that runs
  aggregate, prefix  \* of each tile, and the sum of those before it: they never change
vars == <<scanVars, base, count, aggregate, prefix>>

\* prefix is the scan of aggregate.  The ring has a slot for what a kernel goes on from.
Sums ==
  /\ NumTiles \in Nat /\ NumTiles > 1
  /\ aggregate \in [Nat -> Values] /\ prefix \in [Nat -> Values]
  /\ prefix[0] = Seed
  /\ \A i \in Nat : prefix[i + 1] = Plus(prefix[i], aggregate[i])
  /\ \A a, b \in Values : Plus(a, b) \in Values
  /\ \A a, b, c \in Values : Plus(Plus(a, b), c) = Plus(a, Plus(b, c))

Tiles == base .. base + count - 1

\* A kernel takes fewer tiles than there are slots.
Kernel(n) ==
  /\ \A tile \in Tiles : Returned(tile)
  /\ Reset(base + count, n)
  /\ base' = base + count /\ count' = n /\ UNCHANGED <<aggregate, prefix>>

Block(tile) ==
  /\ Call(tile, aggregate[tile]) \/ Step(tile)
  /\ UNCHANGED <<base, count, aggregate, prefix>>

ScanSpec ==
  /\ \E n \in Nat : Init(n) /\ base = 0 /\ count = 0
  /\ [][\/ \E n \in 1 .. NumTiles - 1 : Kernel(n)
        \/ \E tile \in Tiles : Block(tile)]_vars

\* What the callback returns, and what the host reads when the kernel has ended.
PrefixesAreSums ==
  /\ \A tile \in Tiles : Returned(tile) => ExclusivePrefix(tile) = prefix[tile]
  /\ count > 0 /\ (\A tile \in Tiles : Returned(tile)) =>
       InclusivePrefix(base + count - 1) = prefix[base + count]

(***************************************************************************)
(* The invariant.                                                           *)
(***************************************************************************)
Pcs == {"idle", "publish", "poll", "read", "store", "announce", "returned"}
Statuses == {"oob", "invalid", "partial", "inclusive"}

Frames == [pc : Pcs, aggregate : Values, at : Int, seen : Statuses, window : Values]

Types ==
  /\ base \in Nat /\ count \in 0 .. NumTiles - 1
  /\ status \in [Slots -> Statuses]
  /\ partial \in [Slots -> Values \cup {Garbage}]
  /\ inclusive \in [Slots -> Values \cup {Garbage}]
  /\ frame \in [Tiles -> Frames]

\* What a status stands for is there.
Holds(i, s) ==
  /\ s \in {"partial", "inclusive"}
  /\ s = "partial" => i >= base /\ partial[Offset(i)] = aggregate[i]
  /\ s = "inclusive" => inclusive[Offset(i)] = prefix[i + 1]

\* The tile that the kernel goes on from, and those of its own.
SlotInv(i) == status[Offset(i)] = "invalid" \/ Holds(i, status[Offset(i)])
GoesOnFrom == status[Offset(base - 1)] = "inclusive" /\ Holds(base - 1, "inclusive")

\* What a block has added so far goes from where it looks up to its tile.
Looks(tile) ==
  LET f == frame[tile] IN
  /\ f.at \in base - 1 .. tile - 1
  /\ f.at < tile - 1 => Plus(prefix[f.at + 1], f.window) = prefix[tile]

FrameInv(tile) ==
  LET f == frame[tile]
      s == status[Offset(tile)]
  IN
  /\ f.pc \in {"idle", "publish"} => s = "invalid"
  /\ f.pc = "publish" => partial[Offset(tile)] = aggregate[tile] /\ f.at = tile - 1
  /\ f.pc \in {"poll", "read", "store", "announce"} => s = "partial"
  /\ f.pc \in {"publish", "poll", "read", "store", "announce"} => f.aggregate = aggregate[tile]
  /\ f.pc \in {"poll", "read"} => Looks(tile)
  /\ f.pc = "read" => Holds(f.at, f.seen) /\ status[Offset(f.at)] \in {f.seen, "inclusive"}
  /\ f.pc \in {"store", "announce", "returned"} => f.window = prefix[tile]
  /\ f.pc = "announce" => inclusive[Offset(tile)] = prefix[tile + 1]
  /\ f.pc = "returned" => s = "inclusive"

ScanInv ==
  /\ Types /\ GoesOnFrom
  /\ \A i \in Tiles : SlotInv(i) /\ FrameInv(i)

(***************************************************************************)
(* Slots.                                                                   *)
(***************************************************************************)
LEMMA Slotted ==
  ASSUME Sums, NEW i \in Int, i >= -1
  PROVE  Offset(i) \in Slots
<1>1. i + NumTiles \in Nat /\ NumTiles \in Nat /\ NumTiles > 0
  BY DEF Sums
<1>2. (i + NumTiles) % NumTiles \in 0 .. NumTiles - 1
  BY <1>1
<1> QED
  BY <1>2 DEF Offset, Slots

\* Tiles that are less than a round of the ring apart have slots of their own.
LEMMA SlotsDiffer ==
  ASSUME Sums, NEW i \in Int, NEW j \in Int, i >= -1, j > i, j - i < NumTiles
  PROVE  Offset(i) # Offset(j)
<1>1. NumTiles \in Nat /\ NumTiles > 0
  BY DEF Sums
<1> DEFINE N == NumTiles
           a == i + N
           b == j + N
<1>2. a \in Nat /\ b \in Nat /\ b - a \in 1 .. N - 1
  BY <1>1
<1>3. a = N * (a \div N) + (a % N) /\ b = N * (b \div N) + (b % N)
  BY <1>1, <1>2
<1>4. a \div N \in Int /\ b \div N \in Int /\ a % N \in Int /\ b % N \in Int
  BY <1>1, <1>2
<1>5. ASSUME NEW q \in Int PROVE N * q \notin 1 .. N - 1
  <2>1. q >= 1 => N * q >= N
    BY <1>1
  <2>2. q <= 0 => N * q <= 0
    BY <1>1
  <2> QED
    BY <1>1, <2>1, <2>2
<1>6. N * ((b \div N) - (a \div N)) = N * (b \div N) - N * (a \div N)
  BY <1>1, <1>4
<1>7. (a % N) # (b % N)
  <2> PICK p \in Int, q \in Int, r \in Int, w \in Int :
        p = a \div N /\ q = b \div N /\ r = a % N /\ w = b % N
    BY <1>4
  <2>1. a = N * p + r /\ b = N * q + w /\ N * (q - p) = N * q - N * p
    BY <1>3, <1>6
  <2>2. PICK x \in Int, y \in Int : x = N * p /\ y = N * q
    BY <1>1
  <2>3. a = x + r /\ b = y + w /\ N * (q - p) = y - x
    BY <2>1, <2>2
  <2>4. r = w => y - x = b - a
    BY <1>2, <2>3, <2>2
  <2>5. q - p \in Int
    OBVIOUS
  <2>6. N * (q - p) \notin 1 .. N - 1
    BY <1>5, <2>5
  <2>7. r # w
    BY <1>2, <2>3, <2>4, <2>6
  <2> QED
    BY <2>7
<1> QED
  BY <1>7 DEF Offset

LEMMA TilesApart ==
  ASSUME Sums, Types, NEW i \in base - 1 .. base + count - 1, NEW j \in base - 1 .. base + count - 1
  PROVE  Offset(i) \in Slots /\ (i # j => Offset(i) # Offset(j))
<1>1. base \in Nat /\ count \in 0 .. NumTiles - 1 /\ NumTiles \in Nat
  BY DEF Sums, Types
<1>2. i \in Int /\ j \in Int /\ i >= -1 /\ j >= -1 /\ j - i < NumTiles /\ i - j < NumTiles
  BY <1>1
<1>3. Offset(i) \in Slots
  BY <1>2, Slotted
<1>4. j > i => Offset(i) # Offset(j)
  BY <1>2, SlotsDiffer
<1>5. i > j => Offset(i) # Offset(j)
  BY <1>2, SlotsDiffer
<1> QED
  BY <1>2, <1>3, <1>4, <1>5

(***************************************************************************)
(* A step of one block.                                                      *)
(***************************************************************************)
\* It writes to its own slot, and there to nothing that the status stands for.
Writes(t) ==
  LET o == Offset(t) IN
  /\ UNCHANGED <<base, count, aggregate, prefix>>
  /\ \A u \in Tiles \ {t} : frame'[u] = frame[u]
  /\ \A s \in Slots \ {o} :
       status'[s] = status[s] /\ partial'[s] = partial[s] /\ inclusive'[s] = inclusive[s]
  /\ status[o] \in {"partial", "inclusive"} =>
       partial'[o] = partial[o] /\ status'[o] \in {status[o], "inclusive"}
  /\ status[o] = "inclusive" => inclusive'[o] = inclusive[o]

LEMMA StillHolds ==
  ASSUME Sums, ScanInv, NEW t \in Tiles, Writes(t), NEW i \in base - 1 .. base + count - 1,
         NEW s, Holds(i, s), status[Offset(i)] \in {s, "inclusive"}
  PROVE  Holds(i, s)' /\ status'[Offset(i)] \in {s, "inclusive"}
<1>1. Types /\ t \in base - 1 .. base + count - 1
  BY DEF ScanInv, Types, Tiles
<1>2. Offset(i) \in Slots /\ (i # t => Offset(i) # Offset(t))
  BY <1>1, TilesApart
<1>3. base' = base /\ NumTiles' = NumTiles /\ aggregate' = aggregate /\ prefix' = prefix
  BY DEF Writes
<1>4. CASE i = t
  BY <1>3, <1>4 DEF Writes, Holds
<1>5. CASE i # t
  BY <1>2, <1>3, <1>5 DEF Writes, Holds
<1> QED
  BY <1>4, <1>5

LEMMA BlockStep ==
  ASSUME Sums, ScanInv, NEW t \in Tiles, Writes(t), Types', SlotInv(t)', FrameInv(t)'
  PROVE  ScanInv'
<1>0. Types /\ base \in Nat /\ NumTiles \in Nat /\ count \in 0 .. NumTiles - 1
  BY DEF ScanInv, Types, Sums
<1>1. t \in base - 1 .. base + count - 1 /\ count \in Nat
  BY <1>0 DEF Tiles
<1>2. base' = base /\ count' = count /\ Tiles' = Tiles /\ aggregate' = aggregate /\ prefix' = prefix
  BY DEF Writes, Tiles
<1>3. GoesOnFrom'
  <2>1. PICK i \in base - 1 .. base + count - 1 : i = base - 1
    BY <1>0, <1>1
  <2>2. Holds(i, "inclusive") /\ status[Offset(i)] \in {"inclusive"}
    BY <2>1 DEF ScanInv, GoesOnFrom
  <2>3. Holds(i, "inclusive")' /\ status'[Offset(i)] \in {"inclusive"}
    BY <2>2, StillHolds
  <2>4. i = base' - 1
    BY <2>1, <1>2
  <2> QED
    BY <2>3, <2>4 DEF GoesOnFrom, Holds
<1>4. ASSUME NEW i \in Tiles, i # t PROVE SlotInv(i)' /\ FrameInv(i)'
  <2> PICK f : f = frame[i]
    OBVIOUS
  <2>1. i \in base - 1 .. base + count - 1 /\ SlotInv(i) /\ FrameInv(i)
    BY <1>0, <1>1 DEF ScanInv, Tiles
  <2>2. Offset(i) \in Slots /\ Offset(i) # Offset(t)
    BY <1>0, <1>1, <1>4, <2>1, TilesApart
  <2>3. /\ status'[Offset(i)] = status[Offset(i)] /\ partial'[Offset(i)] = partial[Offset(i)]
        /\ inclusive'[Offset(i)] = inclusive[Offset(i)] /\ frame'[i] = f
    BY <1>4, <2>2 DEF Writes
  <2>4. SlotInv(i)'
    BY <1>2, <2>1, <2>3 DEF SlotInv, Holds
  <2>5. Looks(i)' <=> Looks(i)
    BY <1>2, <2>3 DEF Looks
  <2>6. f.pc = "read" => Holds(f.at, f.seen)' /\ status'[Offset(f.at)] \in {f.seen, "inclusive"}
    <3> SUFFICES ASSUME f.pc = "read"
                 PROVE  Holds(f.at, f.seen)' /\ status'[Offset(f.at)] \in {f.seen, "inclusive"}
      OBVIOUS
    <3>1. /\ Holds(f.at, f.seen) /\ status[Offset(f.at)] \in {f.seen, "inclusive"}
          /\ f.at \in base - 1 .. i - 1
      BY <2>1 DEF FrameInv, Looks
    <3>2. f.at \in base - 1 .. base + count - 1
      BY <1>0, <1>1, <2>1, <3>1
    <3> QED
      BY <3>1, <3>2, StillHolds
  <2>7. FrameInv(i)'
    BY <1>2, <2>1, <2>3, <2>5, <2>6 DEF FrameInv
  <2> QED
    BY <2>4, <2>7
<1> QED
  BY <1>2, <1>3, <1>4 DEF ScanInv

\* What is known of the tile and of the block whose step it is.
LEMMA Here ==
  ASSUME Sums, ScanInv, NEW t \in Tiles
  PROVE  /\ Types /\ t \in base .. base + count - 1 /\ t \in Nat /\ Offset(t) \in Slots
         /\ frame[t] \in Frames /\ SlotInv(t) /\ FrameInv(t)
         /\ aggregate[t] \in Values /\ prefix[t] \in Values
         /\ prefix[t + 1] = Plus(prefix[t], aggregate[t])
<1>1. Types /\ base \in Nat /\ count \in 0 .. NumTiles - 1 /\ NumTiles \in Nat
  BY DEF ScanInv, Types, Sums
<1>2. t \in base .. base + count - 1 /\ t \in base - 1 .. base + count - 1 /\ t \in Nat
  BY <1>1 DEF Tiles
<1>3. Offset(t) \in Slots
  BY <1>1, <1>2, TilesApart
<1>4. frame[t] \in Frames /\ SlotInv(t) /\ FrameInv(t)
  BY <1>1 DEF ScanInv, Types
<1> QED
  BY <1>1, <1>2, <1>3, <1>4 DEF Sums

LEMMA SeedIsValue ==
  ASSUME Sums
  PROVE  Seed \in Values
BY DEF Sums

LEMMA IdleIsFrame ==
  ASSUME Sums
  PROVE  Idle \in Frames
BY SeedIsValue DEF Idle, Frames, Pcs, Statuses

\* A block that changes only its frame.
LEMMA FrameStep ==
  ASSUME Sums, ScanInv, NEW t \in Tiles, UNCHANGED <<base, count, aggregate, prefix, status, partial, inclusive>>,
         NEW g \in Frames, frame' = [frame EXCEPT ![t] = g], FrameInv(t)'
  PROVE  ScanInv'
<1>1. Types /\ SlotInv(t)
  BY Here
<1>2. Writes(t)
  BY <1>1 DEF Writes, Types
<1>3. Types'
  BY <1>1 DEF Types, Tiles
<1>4. SlotInv(t)'
  BY <1>1 DEF SlotInv, Holds
<1> QED
  BY <1>2, <1>3, <1>4, BlockStep

LEMMA CallStep ==
  ASSUME Sums, ScanInv, NEW t \in Tiles, Call(t, aggregate[t]), UNCHANGED <<base, count, aggregate, prefix>>
  PROVE  ScanInv'
<1> DEFINE o == Offset(t)
<1> PICK g : g = [Idle EXCEPT !.pc = "publish", !.aggregate = aggregate[t], !.at = t - 1]
  OBVIOUS
<1>1. /\ Types /\ t \in Nat /\ o \in Slots /\ FrameInv(t) /\ aggregate[t] \in Values
      /\ Seed \in Values /\ frame[t].pc = "idle"
  BY Here, SeedIsValue DEF Call
<1>2. /\ partial' = [partial EXCEPT ![o] = aggregate[t]] /\ frame' = [frame EXCEPT ![t] = g]
      /\ UNCHANGED <<status, inclusive>>
  BY DEF Call
<1>3. status[o] = "invalid"
  BY <1>1 DEF FrameInv
<1>4. Writes(t)
  BY <1>1, <1>2, <1>3 DEF Writes, Types
<1>5. Types'
  <2>1. g \in Frames
    <3>1. PICK d \in Int : d = t - 1
      BY <1>1
    <3>2. g = [Idle EXCEPT !.pc = "publish", !.aggregate = aggregate[t], !.at = d]
      BY <3>1, Zenon
    <3> QED
      BY <1>1, <3>2, IdleIsFrame DEF Frames, Pcs
  <2>2. frame' \in [Tiles -> Frames]
    BY <1>1, <1>2, <2>1 DEF Types
  <2>3. partial' \in [Slots -> Values \cup {Garbage}]
    BY <1>1, <1>2 DEF Types
  <2> QED
    BY <1>1, <1>2, <2>2, <2>3 DEF Types, Tiles
<1>6. SlotInv(t)'
  BY <1>2, <1>3 DEF SlotInv
<1>7. frame'[t] = g /\ partial'[o] = aggregate[t] /\ status'[o] = "invalid"
  BY <1>1, <1>2, <1>3 DEF Types
<1>8. g.pc = "publish" /\ g.aggregate = aggregate[t] /\ g.at = t - 1
  BY IdleIsFrame DEF Frames
<1>9. FrameInv(t)'
  BY <1>7, <1>8 DEF FrameInv
<1> QED
  BY <1>4, <1>5, <1>6, <1>9, BlockStep

LEMMA PublishStep ==
  ASSUME Sums, ScanInv, NEW t \in Tiles, Publish(t), UNCHANGED <<base, count, aggregate, prefix>>
  PROVE  ScanInv'
<1> DEFINE o == Offset(t)
<1> PICK f : f = frame[t]
  OBVIOUS
<1> PICK g : g = [pc |-> "poll", aggregate |-> f.aggregate, at |-> f.at, seen |-> f.seen, window |-> f.window]
  OBVIOUS
<1>1. /\ Types /\ t \in base .. base + count - 1 /\ t \in Nat /\ o \in Slots /\ f \in Frames /\ FrameInv(t)
      /\ f.pc = "publish" /\ base \in Nat /\ count \in Nat
  BY Here DEF Publish, Types
<1>2. /\ f.at = t - 1 /\ f.aggregate = aggregate[t] /\ partial[o] = aggregate[t] /\ status[o] = "invalid"
  BY <1>1 DEF FrameInv
<1>3. status' = [status EXCEPT ![o] = "partial"] /\ UNCHANGED <<partial, inclusive>>
  BY DEF Publish
<1>4. frame' = [frame EXCEPT ![t] = g]
  <2>1. [f EXCEPT !.pc = "poll"] = g
    BY <1>1 DEF Frames
  <2> QED
    BY <2>1, <1>1 DEF Publish, Types
<1>5. Writes(t)
  BY <1>1, <1>2, <1>3, <1>4 DEF Writes, Types
<1>6. Types'
  <2>1. g \in Frames
    BY <1>1 DEF Frames, Pcs
  <2>2. frame' \in [Tiles -> Frames]
    BY <1>1, <1>4, <2>1 DEF Types
  <2>3. status' \in [Slots -> Statuses]
    BY <1>1, <1>3 DEF Types, Statuses
  <2> QED
    BY <1>1, <1>3, <2>2, <2>3 DEF Types, Tiles
<1>7. frame'[t] = g /\ partial'[o] = aggregate[t] /\ status'[o] = "partial"
  BY <1>1, <1>2, <1>3, <1>4 DEF Types
<1>8. SlotInv(t)'
  BY <1>1, <1>7 DEF SlotInv, Holds
<1>9. Looks(t)'
  BY <1>1, <1>2, <1>7 DEF Looks
<1>10. FrameInv(t)'
  BY <1>2, <1>7, <1>9 DEF FrameInv
<1> QED
  BY <1>5, <1>6, <1>8, <1>10, BlockStep

LEMMA PollStep ==
  ASSUME Sums, ScanInv, NEW t \in Tiles, Poll(t), UNCHANGED <<base, count, aggregate, prefix>>
  PROVE  ScanInv'
<1> PICK f : f = frame[t]
  OBVIOUS
<1> PICK s : s = status[Offset(f.at)]
  OBVIOUS
<1> PICK g : g = [f EXCEPT !.pc = "read", !.seen = s]
  OBVIOUS
<1>1. /\ Types /\ t \in base .. base + count - 1 /\ f \in Frames /\ FrameInv(t) /\ f.pc = "poll"
      /\ s # "invalid" /\ base \in Nat /\ count \in 0 .. NumTiles - 1 /\ NumTiles \in Nat
  BY Here DEF Poll, Types, Sums
<1>2. f.aggregate = aggregate[t] /\ status[Offset(t)] = "partial" /\ Looks(t) /\ f.at \in base - 1 .. t - 1
  BY <1>1 DEF FrameInv, Looks
<1>3. PICK i \in base - 1 .. base + count - 1 : i = f.at
  BY <1>1, <1>2
<1>4. Holds(i, s)
  <2>1. CASE i = base - 1
    BY <1>3, <2>1 DEF ScanInv, GoesOnFrom
  <2>2. CASE i \in base .. base + count - 1
    BY <1>1, <1>3, <2>2 DEF ScanInv, SlotInv, Tiles
  <2> QED
    BY <1>1, <1>3, <2>1, <2>2
<1>5. frame' = [frame EXCEPT ![t] = g]
  <2>1. frame' = [frame EXCEPT ![t].pc = "read", ![t].seen = s]
    BY DEF Poll
  <2>2. [[frame EXCEPT ![t].pc = "read"] EXCEPT ![t].seen = s] = [frame EXCEPT ![t] = g]
    BY <1>1 DEF Types, Frames
  <2>3. [frame EXCEPT ![t].pc = "read", ![t].seen = s] = [[frame EXCEPT ![t].pc = "read"] EXCEPT ![t].seen = s]
    BY Zenon
  <2> QED
    BY <2>1, <2>2, <2>3
<1>6. g \in Frames /\ g.pc = "read" /\ g.aggregate = f.aggregate /\ g.at = f.at /\ g.seen = s /\ g.window = f.window
  BY <1>1, <1>4 DEF Frames, Pcs, Statuses, Holds
<1>7. UNCHANGED <<status, partial, inclusive>> /\ frame'[t] = g
  BY <1>1, <1>5 DEF Poll, Types
<1>8. Looks(t)'
  BY <1>2, <1>6, <1>7 DEF Looks
<1>9. Holds(i, s)'
  BY <1>4, <1>7 DEF Holds
<1>10. FrameInv(t)'
  BY <1>2, <1>3, <1>6, <1>7, <1>8, <1>9 DEF FrameInv
<1> QED
  BY <1>5, <1>6, <1>7, <1>10, FrameStep

\* What Read adds in front of the window goes from where it looks on to its tile.
LEMMA ReadSum ==
  ASSUME Sums, NEW t \in Nat, NEW at \in Int, NEW w \in Values, at >= -1, at < t,
         at < t - 1 => Plus(prefix[at + 1], w) = prefix[t]
  PROVE  /\ at >= 0 => LET sum == IF at = t - 1 THEN aggregate[at] ELSE Plus(aggregate[at], w)
                       IN  sum \in Values /\ Plus(prefix[at], sum) = prefix[t]
         /\ LET sum == IF at = t - 1 THEN prefix[at + 1] ELSE Plus(prefix[at + 1], w)
            IN  sum \in Values /\ sum = prefix[t]
<1>0. PICK next \in Nat : next = at + 1
  OBVIOUS
<1>1. prefix[t] \in Values /\ prefix[next] \in Values
  BY DEF Sums
<1>2. ASSUME at >= 0
      PROVE  LET sum == IF at = t - 1 THEN aggregate[at] ELSE Plus(aggregate[at], w)
             IN  sum \in Values /\ Plus(prefix[at], sum) = prefix[t]
  <2>1. at \in Nat
    BY <1>2
  <2>2. PICK a \in Values, p \in Values : a = aggregate[at] /\ p = prefix[at]
    BY <2>1 DEF Sums
  <2>3. prefix[at + 1] = Plus(p, a)
    BY <2>1, <2>2 DEF Sums
  <2>4. CASE at = t - 1
    <3>1. at + 1 = t
      BY <2>4
    <3> QED
      BY <2>2, <2>3, <2>4, <3>1
  <2>5. CASE at # t - 1
    <3>1. Plus(Plus(p, a), w) = prefix[t]
      BY <2>1, <2>3, <2>5
    <3>2. Plus(Plus(p, a), w) = Plus(p, Plus(a, w)) /\ Plus(a, w) \in Values
      BY <2>2 DEF Sums
    <3> QED
      BY <2>2, <2>5, <3>1, <3>2
  <2> QED
    BY <2>4, <2>5
<1>3. at = t - 1 => prefix[at + 1] = prefix[t]
  OBVIOUS
<1> QED
  BY <1>0, <1>1, <1>2, <1>3

LEMMA ReadStep ==
  ASSUME Sums, ScanInv, NEW t \in Tiles, Read(t), UNCHANGED <<base, count, aggregate, prefix>>
  PROVE  ScanInv'
<1> PICK f : f = frame[t]
  OBVIOUS
<1> DEFINE value == IF f.seen = "partial" THEN partial[Offset(f.at)] ELSE inclusive[Offset(f.at)]
           sum == IF f.at = t - 1 THEN value ELSE Plus(value, f.window)
<1>1. /\ Types /\ t \in base .. base + count - 1 /\ t \in Nat /\ f \in Frames /\ FrameInv(t) /\ f.pc = "read"
      /\ base \in Nat /\ count \in Nat /\ f.at \in Int /\ f.window \in Values
  BY Here DEF Read, Types, Frames
<1>2. /\ f.aggregate = aggregate[t] /\ status[Offset(t)] = "partial" /\ Looks(t) /\ Holds(f.at, f.seen)
      /\ f.at \in base - 1 .. t - 1
  BY <1>1 DEF FrameInv, Looks
<1>3. f.at >= -1 /\ f.at < t /\ (f.at < t - 1 => Plus(prefix[f.at + 1], f.window) = prefix[t])
  BY <1>1, <1>2 DEF Looks
<1>4. /\ UNCHANGED <<status, partial, inclusive>>
      /\ frame' = [frame EXCEPT ![t] =
           IF f.seen = "inclusive" THEN [f EXCEPT !.pc = "store", !.window = sum]
           ELSE [f EXCEPT !.pc = "poll", !.at = f.at - 1, !.window = sum]]
  BY DEF Read
<1>5. CASE f.seen = "inclusive"
  <2>1. value = prefix[f.at + 1]
    BY <1>2, <1>5 DEF Holds
  <2>2. sum \in Values /\ sum = prefix[t]
    BY <1>1, <1>3, <2>1, ReadSum
  <2> PICK m \in Values : m = sum
    BY <2>2
  <2> HIDE DEF sum
  <2> PICK g : g = [f EXCEPT !.pc = "store", !.window = m]
    OBVIOUS
  <2>3. frame' = [frame EXCEPT ![t] = g]
    BY <1>4, <1>5
  <2>4. g \in Frames /\ g.pc = "store" /\ g.aggregate = f.aggregate /\ g.window = m
    BY <1>1 DEF Frames, Pcs
  <2>5. frame'[t] = g
    BY <1>1, <2>3 DEF Types
  <2>6. FrameInv(t)'
    BY <1>2, <1>4, <2>2, <2>4, <2>5 DEF FrameInv
  <2> QED
    BY <1>4, <2>3, <2>4, <2>6, FrameStep
<1>6. CASE f.seen # "inclusive"
  <2>1. f.seen = "partial" /\ f.at >= base /\ value = aggregate[f.at]
    BY <1>2, <1>6 DEF Holds
  <2>2. f.at >= 0
    BY <1>1, <2>1
  <2>3. sum \in Values /\ Plus(prefix[f.at], sum) = prefix[t]
    <3> PICK at \in Int : at = f.at
      BY <1>1
    <3>1. LET s == IF at = t - 1 THEN aggregate[at] ELSE Plus(aggregate[at], f.window)
          IN  s \in Values /\ Plus(prefix[at], s) = prefix[t]
      BY <1>1, <1>3, <2>2, ReadSum
    <3> QED
      BY <2>1, <3>1
  <2> PICK m \in Values : m = sum
    BY <2>3
  <2> HIDE DEF sum
  <2> PICK d \in Int : d = f.at - 1
    BY <1>1
  <2> PICK g : g = [f EXCEPT !.pc = "poll", !.at = d, !.window = m]
    OBVIOUS
  <2>4. frame' = [frame EXCEPT ![t] = g]
    BY <1>4, <1>6
  <2>5. g \in Frames /\ g.pc = "poll" /\ g.aggregate = f.aggregate /\ g.at = d /\ g.window = m
    BY <1>1 DEF Frames, Pcs
  <2>6. frame'[t] = g
    BY <1>1, <2>4 DEF Types
  <2>7. d \in base - 1 .. t - 1 /\ d + 1 = f.at
    BY <1>1, <1>2, <2>1
  <2>8. Looks(t)'
    BY <2>3, <2>5, <2>6, <2>7 DEF Looks
  <2>9. FrameInv(t)'
    BY <1>2, <1>4, <2>5, <2>6, <2>8 DEF FrameInv
  <2> QED
    BY <1>4, <2>4, <2>5, <2>9, FrameStep
<1> QED
  BY <1>5, <1>6

LEMMA StoreStep ==
  ASSUME Sums, ScanInv, NEW t \in Tiles, Store(t), UNCHANGED <<base, count, aggregate, prefix>>
  PROVE  ScanInv'
<1> DEFINE o == Offset(t)
<1> PICK f : f = frame[t]
  OBVIOUS
<1> PICK g : g = [f EXCEPT !.pc = "announce"]
  OBVIOUS
<1>1. /\ Types /\ t \in base .. base + count - 1 /\ t \in Nat /\ o \in Slots /\ f \in Frames
      /\ FrameInv(t) /\ SlotInv(t) /\ f.pc = "store"
  BY Here DEF Store
<1>2. f.aggregate = aggregate[t] /\ f.window = prefix[t] /\ status[o] = "partial"
  BY <1>1 DEF FrameInv
<1>3. PICK m \in Values : m = Plus(f.window, f.aggregate)
  BY <1>1, <1>2, Here DEF Sums
<1>4. m = prefix[t + 1]
  BY <1>2, <1>3, Here
<1>5. /\ inclusive' = [inclusive EXCEPT ![o] = m] /\ frame' = [frame EXCEPT ![t] = g]
      /\ UNCHANGED <<status, partial>>
  BY <1>1, <1>3 DEF Store, Types
<1>6. g \in Frames /\ g.pc = "announce" /\ g.aggregate = f.aggregate /\ g.window = f.window
  BY <1>1 DEF Frames, Pcs
<1>7. Writes(t)
  BY <1>1, <1>2, <1>5 DEF Writes, Types
<1>8. Types'
  <2>1. frame' \in [Tiles -> Frames]
    BY <1>1, <1>5, <1>6 DEF Types
  <2>2. inclusive' \in [Slots -> Values \cup {Garbage}]
    BY <1>1, <1>5 DEF Types
  <2> QED
    BY <1>1, <1>5, <2>1, <2>2 DEF Types, Tiles
<1>9. frame'[t] = g /\ inclusive'[o] = m /\ status'[o] = "partial" /\ partial'[o] = partial[o]
  BY <1>1, <1>2, <1>5 DEF Types
<1>10. SlotInv(t)'
  BY <1>1, <1>2, <1>9 DEF SlotInv, Holds
<1>11. FrameInv(t)'
  BY <1>2, <1>4, <1>6, <1>9 DEF FrameInv
<1> QED
  BY <1>7, <1>8, <1>10, <1>11, BlockStep

LEMMA AnnounceStep ==
  ASSUME Sums, ScanInv, NEW t \in Tiles, Announce(t), UNCHANGED <<base, count, aggregate, prefix>>
  PROVE  ScanInv'
<1> DEFINE o == Offset(t)
<1> PICK f : f = frame[t]
  OBVIOUS
<1> PICK g : g = [Idle EXCEPT !.pc = "returned", !.window = f.window]
  OBVIOUS
<1>1. /\ Types /\ t \in base .. base + count - 1 /\ t \in Nat /\ o \in Slots /\ f \in Frames
      /\ FrameInv(t) /\ f.pc = "announce"
  BY Here DEF Announce
<1>2. f.window = prefix[t] /\ status[o] = "partial" /\ inclusive[o] = prefix[t + 1]
  BY <1>1 DEF FrameInv
<1>3. /\ status' = [status EXCEPT ![o] = "inclusive"] /\ frame' = [frame EXCEPT ![t] = g]
      /\ UNCHANGED <<partial, inclusive>>
  BY DEF Announce
<1>4. g \in Frames /\ g.pc = "returned" /\ g.window = f.window
  BY <1>1, IdleIsFrame DEF Frames, Pcs
<1>5. Writes(t)
  BY <1>1, <1>2, <1>3 DEF Writes, Types
<1>6. Types'
  <2>1. frame' \in [Tiles -> Frames]
    BY <1>1, <1>3, <1>4 DEF Types
  <2>2. status' \in [Slots -> Statuses]
    BY <1>1, <1>3 DEF Types, Statuses
  <2> QED
    BY <1>1, <1>3, <2>1, <2>2 DEF Types, Tiles
<1>7. frame'[t] = g /\ status'[o] = "inclusive" /\ inclusive'[o] = prefix[t + 1]
  BY <1>1, <1>2, <1>3 DEF Types
<1>8. SlotInv(t)'
  BY <1>7 DEF SlotInv, Holds
<1>9. FrameInv(t)'
  BY <1>2, <1>4, <1>7 DEF FrameInv
<1> QED
  BY <1>5, <1>6, <1>8, <1>9, BlockStep

(***************************************************************************)
(* A kernel follows another.                                                 *)
(***************************************************************************)
LEMMA KernelStep ==
  ASSUME Sums, ScanInv, NEW n \in 1 .. NumTiles - 1, Kernel(n)
  PROVE  ScanInv'
<1>0. Types /\ base \in Nat /\ NumTiles \in Nat /\ count \in 0 .. NumTiles - 1
  BY DEF ScanInv, Types, Sums
<1>1. Types /\ base \in Nat /\ NumTiles \in Nat /\ count \in 0 .. NumTiles - 1 /\ n \in Nat
  BY <1>0
<1> PICK b \in Nat : b = base + count
  BY <1>1
<1>2. /\ base' = b /\ count' = n /\ UNCHANGED <<partial, inclusive, aggregate, prefix>>
      /\ status' = [s \in Slots |-> IF \E i \in b .. b + n - 1 : s = Offset(i) THEN "invalid" ELSE status[s]]
      /\ frame' = [i \in b .. b + n - 1 |-> Idle]
  BY DEF Kernel, Reset
<1>3. Tiles' = b .. b + n - 1
  BY <1>2 DEF Tiles
<1>4. Types'
  <2>1. frame' \in [Tiles' -> Frames]
    BY <1>2, <1>3, IdleIsFrame
  <2>2. status' \in [Slots -> Statuses]
    BY <1>1, <1>2 DEF Types, Statuses
  <2> QED
    BY <1>1, <1>2, <2>1, <2>2 DEF Types
<1>5. PICK p \in Int : p = b - 1
  BY <1>1
<1>6. status[Offset(p)] = "inclusive" /\ Holds(p, "inclusive")
  <2>1. CASE count = 0
    <3>1. p = base - 1
      BY <1>1, <1>5, <2>1
    <3> QED
      BY <3>1 DEF ScanInv, GoesOnFrom
  <2>2. CASE count # 0
    <3>1. p \in Tiles
      BY <1>1, <1>5, <2>2 DEF Tiles
    <3>2. SlotInv(p) /\ FrameInv(p) /\ frame[p].pc = "returned"
      BY <3>1 DEF ScanInv, Kernel, Returned
    <3> QED
      BY <3>2 DEF SlotInv, FrameInv
  <2> QED
    BY <2>1, <2>2
<1>7. Offset(p) \in Slots /\ \A i \in b .. b + n - 1 : Offset(i) \in Slots /\ Offset(p) # Offset(i)
  <2>1. Offset(p) \in Slots
    BY <1>5, Slotted
  <2>2. ASSUME NEW i \in b .. b + n - 1
        PROVE  Offset(i) \in Slots /\ Offset(p) # Offset(i)
    <3>1. i \in Int /\ i >= -1 /\ p >= -1 /\ i > p /\ i - p < NumTiles
      BY <1>1, <1>5
    <3> QED
      BY <3>1, Slotted, SlotsDiffer
  <2> QED
    BY <2>1, <2>2
<1>8. GoesOnFrom'
  <2>1. status'[Offset(p)] = "inclusive"
    BY <1>2, <1>6, <1>7
  <2>2. Holds(p, "inclusive")'
    BY <1>2, <1>6 DEF Holds
  <2>3. p = base' - 1
    BY <1>2, <1>5
  <2> QED
    BY <2>1, <2>2, <2>3 DEF GoesOnFrom
<1>9. ASSUME NEW i \in b .. b + n - 1 PROVE SlotInv(i)' /\ FrameInv(i)'
  <2>1. status'[Offset(i)] = "invalid" /\ frame'[i] = Idle /\ Idle.pc = "idle"
    BY <1>2, <1>7 DEF Idle
  <2> QED
    BY <2>1 DEF SlotInv, FrameInv
<1> QED
  BY <1>3, <1>4, <1>8, <1>9 DEF ScanInv

LEMMA ScanInit ==
  ASSUME Sums, NEW n \in Nat, Init(n), base = 0, count = 0
  PROVE  ScanInv
<1>1. NumTiles \in Nat /\ NumTiles > 1 /\ Seed \in Values /\ prefix[0] = Seed
  BY SeedIsValue DEF Sums
<1>2. Tiles = {}
  BY DEF Tiles
<1>3. /\ status = [s \in Slots |-> IF s # Offset(-1) /\ s >= NumTiles - n THEN "oob" ELSE "inclusive"]
      /\ inclusive = [s \in Slots |-> IF s = Offset(-1) THEN Seed ELSE Garbage]
      /\ partial = [s \in Slots |-> Garbage] /\ frame = <<>>
  BY DEF Init
<1>4. Types
  <2>1. status \in [Slots -> Statuses]
    BY <1>3 DEF Statuses
  <2>2. partial \in [Slots -> Values \cup {Garbage}] /\ inclusive \in [Slots -> Values \cup {Garbage}]
    BY <1>1, <1>3
  <2>3. frame \in [Tiles -> Frames]
    BY <1>2, <1>3
  <2> QED
    BY <1>1, <2>1, <2>2, <2>3 DEF Types
<1>5. PICK p \in Int : p = -1
  OBVIOUS
<1>6. Offset(p) \in Slots
  BY <1>5, Slotted
<1>7. status[Offset(p)] = "inclusive" /\ inclusive[Offset(p)] = prefix[0]
  BY <1>1, <1>3, <1>5, <1>6
<1>8. p = base - 1 /\ p + 1 = 0
  BY <1>5
<1>9. GoesOnFrom
  BY <1>7, <1>8 DEF GoesOnFrom, Holds
<1> QED
  BY <1>2, <1>4, <1>9 DEF ScanInv

(***************************************************************************)
(* The theorem.                                                             *)
(***************************************************************************)
LEMMA BlockPreserves ==
  ASSUME Sums, ScanInv, NEW tile \in Tiles, Block(tile)
  PROVE  ScanInv'
BY CallStep, PublishStep, PollStep, ReadStep, StoreStep, AnnounceStep DEF Block, Step

LEMMA Stutter ==
  ASSUME ScanInv, UNCHANGED vars
  PROVE  ScanInv'
BY DEF vars, scanVars, ScanInv, Types, Tiles, GoesOnFrom, SlotInv, FrameInv, Looks, Holds

LEMMA SumsFollow ==
  ASSUME Sums, ScanInv
  PROVE  PrefixesAreSums
<1>1. ASSUME NEW tile \in Tiles, Returned(tile)
      PROVE  ExclusivePrefix(tile) = prefix[tile] /\ InclusivePrefix(tile) = prefix[tile + 1]
  <2>1. FrameInv(tile) /\ SlotInv(tile) /\ frame[tile].pc = "returned"
    BY <1>1 DEF ScanInv, Returned
  <2> QED
    BY <2>1 DEF FrameInv, SlotInv, Holds, ExclusivePrefix, InclusivePrefix
<1>2. ASSUME count > 0, \A tile \in Tiles : Returned(tile)
      PROVE  InclusivePrefix(base + count - 1) = prefix[base + count]
  <2>1. base \in Nat /\ count \in Nat
    BY DEF ScanInv, Types, Sums
  <2>2. PICK last \in Tiles : last = base + count - 1
    BY <1>2, <2>1 DEF Tiles
  <2>3. last + 1 = base + count
    BY <2>1, <2>2
  <2> QED
    BY <1>1, <1>2, <2>2, <2>3
<1> QED
  BY <1>1, <1>2 DEF PrefixesAreSums

\* Whatever the order in which the thread blocks publish, look back and announce, and whatever
\* lies in the memory they were given, a block that has looked back holds the sum of the tiles
\* before its own, and what the host reads after a kernel is the sum of all tiles so far: the
\* offsets and the states of the trie that multibyte_split writes by.
THEOREM LookBackSumsTheTiles == Sums /\ ScanSpec => []PrefixesAreSums
<1> DEFINE ScanNext == (\E n \in 1 .. NumTiles - 1 : Kernel(n)) \/ (\E tile \in Tiles : Block(tile))
<1>1. Sums /\ (\E n \in Nat : Init(n) /\ base = 0 /\ count = 0) => Sums /\ ScanInv
  BY ScanInit
<1>2. ASSUME Sums, ScanInv, [ScanNext]_vars
      PROVE  (Sums /\ ScanInv)'
  <2>1. ScanInv'
    BY <1>2, KernelStep, BlockPreserves, Stutter
  <2>2. UNCHANGED <<aggregate, prefix>>
    BY <1>2 DEF Kernel, Block, vars
  <2>3. Sums'
    BY <1>2, <2>2 DEF Sums
  <2> QED
    BY <2>1, <2>3
<1>3. Sums /\ ScanInv => PrefixesAreSums
  BY SumsFollow
<1> QED
  BY <1>1, <1>2, <1>3, PTL DEF ScanSpec
=============================================================================
