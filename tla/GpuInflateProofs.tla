-------------------------- MODULE GpuInflateProofs --------------------------
(***************************************************************************)
(* Safety of GpuInflate: symbols are written in order and completely, and    *)
(* input is read in order if codes are not too long.                        *)
(***************************************************************************)
EXTENDS GpuInflate, SequenceTheorems, TLAPS

Batches == 0 .. BatchCount - 1
After(b) == (b + 1) % BatchCount

(***************************************************************************)
(* The queue as a ring of batches.  From batch h up to before batch t the     *)
(* batches are full: n[b] symbols in q[b].  The symbols after number s are to  *)
(* be taken next, those after number e to be added next.                      *)
(***************************************************************************)
IsFull(b, h, t, n) ==
  IF h < t THEN h <= b /\ b < t
  ELSE IF t < h THEN h <= b \/ b < t
  ELSE n[t] > 0

QueueOK(n, q, h, s, t, e) ==
  /\ \A b \in Batches : n[b] > 0 <=> IsFull(b, h, t, n)
  /\ \A b \in Batches : n[b] > 0 =>
       /\ \A i \in 1 .. n[b] : q[b][i] = q[b][1] + i - 1
       /\ q[b][1] + n[b] = IF After(b) = t THEN e + 1 ELSE q[After(b)][1]
  /\ IF n[h] > 0 THEN q[h][1] = s + 1 ELSE h = t /\ e = s

Lengths == [Batches -> -1 .. BatchSize]
Contents == [Batches -> [1 .. BatchSize -> Nat]]

LEMMA Sizes ==
  /\ BatchCount \in Nat /\ BatchCount > 0 /\ BatchSize \in Nat /\ BatchSize > 1
  /\ PrefetchSize \in Nat /\ PrefetchSize > 0 /\ PrefetchSize % 4 = 0
  /\ ChunkSize \in Nat /\ ChunkSize > 0
BY SizesFit

\* The next batch.
LEMMA AfterIs ==
  ASSUME NEW b \in Batches
  PROVE  After(b) \in Batches /\ After(b) = IF b = BatchCount - 1 THEN 0 ELSE b + 1
BY Sizes DEF After, Batches

\* A batch behind the full ones becomes full.
LEMMA Enqueue ==
  ASSUME NEW n \in Lengths, NEW q \in Contents, NEW h \in Batches, NEW t \in Batches,
         NEW s \in Nat, NEW e \in Nat, NEW k \in 1 .. BatchSize,
         QueueOK(n, q, h, s, t, e), n[t] = 0,
         \A i \in 1 .. k : q[t][i] = e + i
  PROVE  QueueOK([n EXCEPT ![t] = k], q, h, s, After(t), e + k)
<1> DEFINE m == [n EXCEPT ![t] = k]
<1>1. After(t) \in Batches /\ After(t) = IF t = BatchCount - 1 THEN 0 ELSE t + 1
  BY AfterIs
<1>2. \A b \in Batches : After(b) \in Batches /\ After(b) = IF b = BatchCount - 1 THEN 0 ELSE b + 1
  BY AfterIs
<1>3. m \in Lengths /\ m[t] = k /\ \A b \in Batches : b # t => m[b] = n[b]
  BY DEF Lengths
<1> HIDE DEF m
<1>10. /\ \A b \in Batches : n[b] > 0 <=> IsFull(b, h, t, n)
      /\ BatchCount \in Nat \ {0} /\ h \in 0 .. BatchCount - 1 /\ t \in 0 .. BatchCount - 1
  BY Sizes DEF QueueOK, Batches
<1>11. k > 0 /\ ~(n[t] > 0)
  OBVIOUS
<1>4. ASSUME NEW b \in Batches
      PROVE  m[b] > 0 <=> IsFull(b, h, After(t), m)
  <2>1. b \in 0 .. BatchCount - 1
    BY DEF Batches
  <2>2. m[b] > 0 <=> b = t \/ IsFull(b, h, t, n)
    BY <1>3, <1>10, <1>11
  <2>3. After(t) = h => (m[After(t)] > 0 <=> h = t \/ IsFull(h, h, t, n))
    BY <1>3, <1>10, <1>11
  <2> QED
    BY <1>1, <1>10, <1>11, <2>1, <2>2, <2>3 DEF IsFull
<1>5. ASSUME NEW b \in Batches, m[b] > 0
      PROVE  /\ \A i \in 1 .. m[b] : q[b][i] = q[b][1] + i - 1
             /\ q[b][1] + m[b] = IF After(b) = After(t) THEN e + k + 1 ELSE q[After(b)][1]
  <2>1. CASE b = t
    <3>1. q[b][1] = e + 1
      BY <2>1
    <3> QED
      BY <2>1, <3>1, <1>3
  <2>2. CASE b # t
    <3>1. n[b] > 0 /\ m[b] = n[b]
      BY <2>2, <1>3, <1>5
    <3>2. After(b) # After(t)
      BY <2>2, <1>2, Sizes DEF Batches
    <3>3. After(b) = t => q[t][1] = e + 1
      BY Sizes
    <3> QED
      BY <3>1, <3>2, <3>3 DEF QueueOK
  <2> QED
    BY <2>1, <2>2
<1>6. IF m[h] > 0 THEN q[h][1] = s + 1 ELSE h = After(t) /\ e + k = s
  <2>1. CASE h = t
    BY <2>1, <1>3, Sizes DEF QueueOK
  <2>2. CASE h # t
    BY <2>2, <1>3 DEF QueueOK
  <2> QED
    BY <2>1, <2>2
<1> QED
  BY <1>4, <1>5, <1>6 DEF QueueOK, m

\* The first of the full batches becomes empty.
LEMMA Dequeue ==
  ASSUME NEW n \in Lengths, NEW q \in Contents, NEW h \in Batches, NEW t \in Batches,
         NEW s \in Nat, NEW e \in Nat,
         QueueOK(n, q, h, s, t, e), n[h] > 0
  PROVE  /\ \A i \in 1 .. n[h] : q[h][i] = s + i
         /\ QueueOK([n EXCEPT ![h] = 0], q, After(h), s + n[h], t, e)
<1> DEFINE m == [n EXCEPT ![h] = 0]
<1>1. \A b \in Batches : After(b) \in Batches /\ After(b) = IF b = BatchCount - 1 THEN 0 ELSE b + 1
  BY AfterIs
<1>2. m \in Lengths /\ m[h] = 0 /\ \A b \in Batches : b # h => m[b] = n[b]
  BY Sizes DEF Lengths
<1>3. n[h] \in 1 .. BatchSize
  BY Sizes DEF Lengths
<1>4. q[h][1] = s + 1 /\ \A i \in 1 .. n[h] : q[h][i] = s + i
  BY <1>3, Sizes DEF QueueOK
<1> HIDE DEF m
<1>10. /\ \A b \in Batches : n[b] > 0 <=> IsFull(b, h, t, n)
      /\ BatchCount \in Nat \ {0} /\ h \in 0 .. BatchCount - 1 /\ t \in 0 .. BatchCount - 1
  BY Sizes DEF QueueOK, Batches
<1>11. \A b \in Batches : m[b] > 0 <=> b # h /\ IsFull(b, h, t, n)
  BY <1>2, <1>10
<1>12. IsFull(h, h, t, n) /\ (t = h => ~(m[t] > 0)) /\ (t # h => m[t] = n[t])
  BY <1>2, <1>10
<1>13. t # h => (m[t] > 0 <=> IsFull(t, h, t, n))
  BY <1>11
<1>5. ASSUME NEW b \in Batches
      PROVE  m[b] > 0 <=> IsFull(b, After(h), t, m)
  <2>1. b \in 0 .. BatchCount - 1
    BY DEF Batches
  <2>2. m[b] > 0 <=> b # h /\ IsFull(b, h, t, n)
    BY <1>11
  <2> QED
    BY <1>1, <1>10, <1>12, <1>13, <2>1, <2>2 DEF IsFull
<1>6. ASSUME NEW b \in Batches, m[b] > 0
      PROVE  /\ \A i \in 1 .. m[b] : q[b][i] = q[b][1] + i - 1
             /\ q[b][1] + m[b] = IF After(b) = t THEN e + 1 ELSE q[After(b)][1]
  <2>1. b # h /\ n[b] > 0 /\ m[b] = n[b]
    BY <1>6, <1>2
  <2> QED
    BY <2>1 DEF QueueOK
<1>7. IF m[After(h)] > 0 THEN q[After(h)][1] = s + n[h] + 1 ELSE After(h) = t /\ e = s + n[h]
  <2>1. q[h][1] + n[h] = IF After(h) = t THEN e + 1 ELSE q[After(h)][1]
    BY DEF QueueOK
  <2>2. CASE After(h) = t
    <3>1. e = s + n[h]
      BY <2>1, <2>2, <1>3, <1>4
    <3>2. ~(m[t] > 0)
      BY <1>1, <1>10, <1>12, <1>13, <2>2 DEF IsFull
    <3> QED
      BY <2>2, <3>1, <3>2
  <2>3. CASE After(h) # t
    <3>1. m[After(h)] > 0
      <4>1. m[After(h)] > 0 <=> After(h) # h /\ IsFull(After(h), h, t, n)
        BY <1>1, <1>11
      <4> QED
        BY <4>1, <1>1, <1>10, <1>12, <2>3 DEF IsFull
    <3> QED
      BY <3>1, <2>1, <2>3, <1>3, <1>4
  <2> QED
    BY <2>2, <2>3
<1> QED
  BY <1>4, <1>5, <1>6, <1>7 DEF QueueOK, m

\* What is in a batch that is not full does not matter.
LEMMA Refill ==
  ASSUME NEW n \in Lengths, NEW q \in Contents, NEW r \in Contents, NEW h \in Batches,
         NEW t \in Batches, NEW s \in Nat, NEW e \in Nat,
         QueueOK(n, q, h, s, t, e), n[t] <= 0,
         \A b \in Batches : b # t => r[b] = q[b]
  PROVE  QueueOK(n, r, h, s, t, e)
<1>1. \A b \in Batches : After(b) \in Batches
  BY AfterIs
<1>2. \A b \in Batches : n[b] > 0 => r[b] = q[b]
  BY DEF Lengths
<1> QED
  BY <1>1, <1>2 DEF QueueOK

\* The end mark is no batch.
LEMMA Mark ==
  ASSUME NEW n \in Lengths, NEW q \in Contents, NEW h \in Batches, NEW t \in Batches,
         NEW s \in Nat, NEW e \in Nat,
         QueueOK(n, q, h, s, t, e), n[t] = 0
  PROVE  QueueOK([n EXCEPT ![t] = -1], q, h, s, t, e)
<1> DEFINE m == [n EXCEPT ![t] = -1]
<1>1. m[t] = -1 /\ \A b \in Batches : b # t => m[b] = n[b]
  BY DEF Lengths
<1> HIDE DEF m
<1>2. \A b \in Batches : m[b] > 0 <=> n[b] > 0
  BY <1>1
<1>3. \A b \in Batches : n[b] > 0 => m[b] = n[b]
  BY <1>1
<1> QED
  BY <1>2, <1>3 DEF QueueOK, IsFull, m

(***************************************************************************)
(* Slots of the prefetch ring.                                              *)
(***************************************************************************)
LEMMA SlotForm ==
  ASSUME NEW a \in Nat
  PROVE  \E d \in Int : Slot(a) = a - PrefetchSize * d /\ Slot(a) \in 0 .. PrefetchSize - 1
BY Sizes, a = PrefetchSize * (a \div PrefetchSize) + (a % PrefetchSize), a \div PrefetchSize \in Int,
   a % PrefetchSize \in 0 .. PrefetchSize - 1 DEF Slot

\* A word's slot is one of the ring's.
LEMMA SlotIsWord ==
  ASSUME NEW a \in Nat, a % 4 = 0
  PROVE  Slot(a) \in Words(0, PrefetchSize)
<1>1. PICK p \in Nat : PrefetchSize = 4 * p /\ p > 0
  <2>1. PrefetchSize = 4 * (PrefetchSize \div 4) /\ PrefetchSize \div 4 \in Nat /\ PrefetchSize \div 4 > 0
    BY Sizes
  <2> QED
    BY <2>1
<1>2. PICK c \in Nat : a = 4 * c
  BY a = 4 * (a \div 4), a \div 4 \in Nat
<1>3. PICK d \in Int : Slot(a) = a - PrefetchSize * d /\ Slot(a) \in 0 .. PrefetchSize - 1
  BY SlotForm
<1>4. PICK x \in Int : x = p * d
  BY <1>1, <1>3
<1>5. Slot(a) = 4 * (c - x)
  BY <1>1, <1>2, <1>3, <1>4
<1>6. Slot(a) % 4 = 0
  BY <1>4, <1>5
<1> QED
  BY <1>3, <1>6, Sizes DEF Words

\* Words less than a ring apart have different slots.
LEMMA SlotsDiffer ==
  ASSUME NEW a \in Nat, NEW b \in Nat, a <= b, b - a < PrefetchSize, Slot(a) = Slot(b)
  PROVE  a = b
<1>1. PICK d \in Int : Slot(a) = a - PrefetchSize * d
  BY SlotForm
<1>2. PICK e \in Int : Slot(b) = b - PrefetchSize * e
  BY SlotForm
<1>3. PICK n \in Int : n = e - d
  BY <1>1, <1>2
<1>4. b - a = PrefetchSize * n
  <2>1. a - PrefetchSize * d = b - PrefetchSize * e
    BY <1>1, <1>2
  <2>2. PrefetchSize * n = PrefetchSize * e - PrefetchSize * d
    BY <1>3, Sizes
  <2>3. PrefetchSize * n \in Int /\ PrefetchSize * e \in Int /\ PrefetchSize * d \in Int
    BY <1>3, Sizes
  <2> QED
    BY <2>1, <2>2, <2>3
<1>5. n >= 1 => PrefetchSize * n >= PrefetchSize
  BY <1>3, Sizes
<1>6. n <= -1 => PrefetchSize * n < 0
  BY <1>3, Sizes
<1>7. n = 0
  <2>1. ~(n >= 1)
    BY <1>4, <1>5, Sizes
  <2>2. ~(n <= -1)
    BY <1>4, <1>6, Sizes
  <2> QED
    BY <2>1, <2>2, <1>3
<1> QED
  BY <1>4, <1>7, Sizes

(***************************************************************************)
(* The inductive invariant of the queue.                                    *)
(***************************************************************************)
DecoderAt == {"wait", "symbol", "distance", "publish", "last", "drain", "barrier"}
ConsumerAt == {"poll", "read", "write", "barrier"}
PrefetcherAt == {"look", "fetch", "publish", "barrier"}

Types ==
  /\ TypeOK
  /\ dec \in [pc : DecoderAt, batch : Batches, len : 0 .. BatchSize]
  /\ con \in [pc : ConsumerAt, batch : Batches, len : 0 .. BatchSize, symbols : Seq(Nat)]
  /\ pre \in [pc : PrefetcherAt, at : Nat]
  /\ published \in Nat /\ curP \in Nat /\ decoded \in Nat /\ out \in Nat
  /\ dec.pc = "symbol" => dec.len <= BatchSize - 2
  /\ dec.pc = "distance" => dec.len <= BatchSize - 1

\* The batch that the consumer takes next and the last symbol before it; a batch that was
\* read is free before its symbols are written.
Front == IF con.pc = "write" THEN After(con.batch) ELSE con.batch
Taken == IF con.pc = "write" THEN out + con.len ELSE out

\* The decoder adds symbols to its batch; the last symbol before that batch.
Filling == dec.pc \in {"symbol", "distance", "publish", "last"}
First == IF Filling THEN decoded - dec.len ELSE decoded

DecoderInv ==
  /\ First \in Nat
  /\ Filling => /\ batchLen[dec.batch] = 0
                /\ \A i \in 1 .. dec.len : queue[dec.batch][i] = First + i
  /\ \A b \in Batches : batchLen[b] < 0 => dec.pc = "barrier"

ConsumerInv ==
  /\ con.pc = "read" => con.len > 0 /\ batchLen[con.batch] = con.len
  /\ con.pc = "write" => con.symbols = [i \in 1 .. con.len |-> out + i]
  /\ con.pc = "barrier" => dec.pc = "barrier" /\ out = decoded

QueueInv ==
  /\ QueueOK(batchLen, queue, Front, Taken, dec.batch, First)
  /\ DecoderInv /\ ConsumerInv

(***************************************************************************)
(* Types.                                                                   *)
(***************************************************************************)
LEMMA InitTypes == Init => Types
<1> SUFFICES ASSUME Init PROVE Types
  OBVIOUS
<1>1. cur \in Nat /\ cur % 4 = 0 /\ bitpos \in 0 .. 31 /\ bitbuf \in Int \X Int
  BY DEF Init
<1>2. ring \in [Words(0, PrefetchSize) -> Int]
  BY DEF Init
<1>3. /\ batchLen \in [0 .. BatchCount - 1 -> -1 .. BatchSize]
      /\ queue \in [0 .. BatchCount - 1 -> [1 .. BatchSize -> Nat]]
  BY Sizes DEF Init
<1>4. /\ dec \in [pc : DecoderAt, batch : Batches, len : 0 .. BatchSize]
      /\ con \in [pc : ConsumerAt, batch : Batches, len : 0 .. BatchSize, symbols : Seq(Nat)]
      /\ pre \in [pc : PrefetcherAt, at : Nat]
  BY Sizes DEF Init, DecoderAt, ConsumerAt, PrefetcherAt, Batches
<1> QED
  BY <1>1, <1>2, <1>3, <1>4 DEF Init, Types, TypeOK, Batches

\* Bits that are skipped: at most one word is read.
LEMMA SkipTypes ==
  ASSUME Types, NEW n \in 0 .. 30, SkipBits(n)
  PROVE  /\ cur' \in Nat /\ cur' % 4 = 0 /\ bitpos' \in 0 .. 31
         /\ bitbuf' \in Int \X Int
<1>1. cur \in Nat /\ cur % 4 = 0 /\ bitpos \in 0 .. 31 /\ bitbuf \in Int \X Int
  BY DEF Types, TypeOK
<1>2. CASE bitpos + n < 32
  BY <1>1, <1>2 DEF SkipBits
<1>3. CASE bitpos + n >= 32
  <2>1. cur' = cur + 4 /\ bitpos' = bitpos + n - 32
    BY <1>1, <1>3 DEF SkipBits
  <2>2. Slot(cur + 8) \in Words(0, PrefetchSize)
    BY <1>1, SlotIsWord
  <2>3. ring[Slot(cur + 8)] \in Int
    BY <2>2 DEF Types, TypeOK
  <2>4. bitbuf' \in Int \X Int
    BY <1>1, <1>3, <2>3 DEF SkipBits
  <2> QED
    BY <1>1, <1>3, <2>1, <2>4
<1> QED
  BY <1>1, <1>2, <1>3

\* Symbols that are put into a batch.
LEMMA PutTypes ==
  ASSUME Types, NEW k \in 0 .. 2, Put(k)
  PROVE  /\ queue' \in [0 .. BatchCount - 1 -> [1 .. BatchSize -> Nat]]
         /\ decoded' \in Nat
<1>1. dec.batch \in Batches /\ dec.len \in 0 .. BatchSize /\ decoded \in Nat /\ queue \in Contents
  BY DEF Types, TypeOK, Contents, Batches
<1> DEFINE batch == [i \in 1 .. BatchSize |->
              IF i > dec.len /\ i <= dec.len + k THEN decoded + i - dec.len ELSE queue[dec.batch][i]]
<1>2. batch \in [1 .. BatchSize -> Nat]
  BY <1>1, Sizes DEF Contents
<1>3. queue' = [queue EXCEPT ![dec.batch] = batch]
  BY DEF Put
<1> HIDE DEF batch
<1> QED
  BY <1>1, <1>2, <1>3 DEF Put, Contents, Batches

\* The parts of the state that the decoder's inner loop leaves alone.
LEMMA LoopTypes ==
  ASSUME Types, NEW n \in 0 .. 30, SkipBits(n), NEW k \in 0 .. 2, Put(k),
         UNCHANGED <<published, ringVars, batchLen, con, pre, out>>,
         dec' \in [pc : DecoderAt, batch : Batches, len : 0 .. BatchSize],
         dec'.pc = "symbol" => dec'.len <= BatchSize - 2,
         dec'.pc = "distance" => dec'.len <= BatchSize - 1
  PROVE  Types'
<1>1. /\ cur' \in Nat /\ cur' % 4 = 0 /\ bitpos' \in 0 .. 31
      /\ bitbuf' \in Int \X Int
  BY SkipTypes
<1>2. /\ queue' \in [0 .. BatchCount - 1 -> [1 .. BatchSize -> Nat]]
      /\ decoded' \in Nat
  BY PutTypes
<1> QED
  BY <1>1, <1>2 DEF Types, TypeOK, ringVars, Batches

LEMMA CodeBits ==
  /\ LiteralBits \subseteq 1 .. 15 /\ LengthBits \subseteq 1 .. 20 /\ DistanceBits \subseteq 1 .. 28
  /\ Shorts \subseteq 0 .. 10
  /\ \A short \in Shorts : One(short) \in 0 .. 1
BY BitsFit DEF Shorts, One

\* A record of the decoder with another place and length.
LEMMA DecTypes ==
  ASSUME NEW pc \in DecoderAt, NEW b \in Batches, NEW k \in Nat, k <= BatchSize
  PROVE  [pc |-> pc, batch |-> b, len |-> k] \in [pc : DecoderAt, batch : Batches, len : 0 .. BatchSize]
BY Sizes

LEMMA DecodeTypes == Types /\ Decode => Types'
<1> SUFFICES ASSUME Types, Decode PROVE Types'
  OBVIOUS
<1>1. /\ dec.pc \in DecoderAt /\ dec.batch \in Batches /\ dec.len \in Nat /\ dec.len <= BatchSize
      /\ After(dec.batch) \in Batches /\ 0 \in Batches
  BY AfterIs, Sizes DEF Types, Batches
<1>10. dec = [pc |-> dec.pc, batch |-> dec.batch, len |-> dec.len]
  BY DEF Types
<1>11. DOMAIN batchLen = 0 .. BatchCount - 1 /\ \A b \in Batches : batchLen[b] \in -1 .. BatchSize
  BY DEF Types, TypeOK, Batches
<1>12. {"wait", "symbol", "distance", "publish", "last", "drain", "barrier"} = DecoderAt
  BY DEF DecoderAt
<1>2. CASE StartBatch
  <2>1. PICK pc \in {"drain", "symbol"}, k \in {dec.len, 0} :
          /\ dec' = [pc |-> pc, batch |-> dec.batch, len |-> k]
          /\ pc = "symbol" => k = 0
    BY <1>10, <1>2 DEF StartBatch
  <2>2. dec' \in [pc : DecoderAt, batch : Batches, len : 0 .. BatchSize]
    BY <1>1, <1>12, <2>1, DecTypes, Sizes
  <2>3. dec'.pc # "distance" /\ (dec'.pc = "symbol" => dec'.len = 0)
    BY <2>1
  <2>4. dec'.pc = "symbol" => dec'.len <= BatchSize - 2
    BY <2>3, Sizes
  <2> QED
    BY <2>2, <2>3, <2>4, <1>2 DEF StartBatch, Types, TypeOK, inputVars, ringVars, queueVars, Batches
<1>3. CASE Publish
  <2>1. PICK pc \in {"drain", "wait"}, b \in {After(dec.batch), dec.batch} :
          dec' = [pc |-> pc, batch |-> b, len |-> dec.len]
    BY <1>10, <1>3 DEF Publish, After
  <2>2. dec' \in [pc : DecoderAt, batch : Batches, len : 0 .. BatchSize]
    BY <1>1, <1>12, <2>1, DecTypes
  <2>3. dec'.pc \in {"drain", "wait"}
    BY <2>1
  <2>4. dec.len \in -1 .. BatchSize
    BY <1>1, Sizes
  <2>5. batchLen' \in [0 .. BatchCount - 1 -> -1 .. BatchSize]
    BY <1>11, <2>4, <1>3 DEF Publish, Batches
  <2> QED
    BY <2>2, <2>3, <2>5, <1>3 DEF Publish, Types, TypeOK, ringVars, Batches
<1>4. CASE Drain
  <2>1. dec' = [pc |-> "barrier", batch |-> dec.batch, len |-> dec.len]
    BY <1>10, <1>4 DEF Drain
  <2>2. dec' \in [pc : DecoderAt, batch : Batches, len : 0 .. BatchSize]
    BY <1>1, <1>12, <2>1, DecTypes
  <2>3. -1 \in -1 .. BatchSize
    BY Sizes
  <2>4. batchLen' \in [0 .. BatchCount - 1 -> -1 .. BatchSize]
    BY <1>11, <2>3, <1>4 DEF Drain, Batches
  <2> QED
    BY <2>1, <2>2, <2>4, <1>4 DEF Drain, Types, TypeOK, inputVars, Batches
<1>5. ASSUME NEW n \in DistanceBits, Distance(n) PROVE Types'
  <2>1. n \in 0 .. 30 /\ SkipBits(n) /\ Put(1) /\ 1 \in 0 .. 2
    BY <1>5, CodeBits DEF Distance
  <2>2. dec.len <= BatchSize - 1
    BY <1>5 DEF Distance, Types
  <2>3. PICK pc \in {"symbol", "publish"} :
          /\ dec' = [pc |-> pc, batch |-> dec.batch, len |-> dec.len + 1]
          /\ pc = "symbol" => dec.len + 1 < BatchSize - 1
    BY <1>10, <1>5 DEF Distance, Proceed
  <2>4. dec' \in [pc : DecoderAt, batch : Batches, len : 0 .. BatchSize]
    BY <1>1, <1>12, <2>2, <2>3, DecTypes, Sizes
  <2>5. (dec'.pc = "symbol" => dec'.len <= BatchSize - 2) /\ dec'.pc # "distance"
    BY <1>1, <2>3, Sizes
  <2> QED
    BY <2>1, <2>4, <2>5, <1>5, LoopTypes DEF Distance
<1>6. ASSUME NEW short \in Shorts, BadCode(short) PROVE Types'
  <2>1. short \in 0 .. 30 /\ SkipBits(short) /\ One(short) \in 0 .. 2 /\ Put(One(short))
    BY <1>6, CodeBits DEF BadCode
  <2>2. dec.len + One(short) <= BatchSize
    BY <1>6, CodeBits, <1>1, Sizes DEF BadCode, Types, One
  <2>3. dec' = [pc |-> "last", batch |-> dec.batch, len |-> dec.len + One(short)]
    BY <1>10, <1>6 DEF BadCode
  <2>4. dec' \in [pc : DecoderAt, batch : Batches, len : 0 .. BatchSize]
    BY <1>1, <1>12, <2>1, <2>2, <2>3, DecTypes
  <2> QED
    BY <2>1, <2>3, <2>4, <1>6, LoopTypes DEF BadCode
<1>7. ASSUME NEW short \in Shorts, NEW n \in LiteralBits, Literal(short, n) PROVE Types'
  <2>1. short + n \in 0 .. 30 /\ SkipBits(short + n) /\ One(short) + 1 \in 0 .. 2 /\ Put(One(short) + 1)
    BY <1>7, CodeBits DEF Literal
  <2>2. dec.len <= BatchSize - 2 /\ One(short) \in 0 .. 1
    BY <1>7, CodeBits DEF Literal, Types
  <2>3. PICK pc \in {"symbol", "publish"} :
          /\ dec' = [pc |-> pc, batch |-> dec.batch, len |-> dec.len + (One(short) + 1)]
          /\ pc = "symbol" => dec.len + (One(short) + 1) < BatchSize - 1
    BY <1>10, <1>7 DEF Literal, Proceed
  <2>4. dec' \in [pc : DecoderAt, batch : Batches, len : 0 .. BatchSize]
    BY <1>1, <1>12, <2>2, <2>3, DecTypes, Sizes
  <2>5. (dec'.pc = "symbol" => dec'.len <= BatchSize - 2) /\ dec'.pc # "distance"
    BY <1>1, <2>2, <2>3, Sizes
  <2> QED
    BY <2>1, <2>4, <2>5, <1>7, LoopTypes DEF Literal
<1>8. ASSUME NEW short \in Shorts, NEW n \in LiteralBits, EndOfBlock(short, n) PROVE Types'
  <2>1. short + n \in 0 .. 30 /\ SkipBits(short + n) /\ One(short) \in 0 .. 2 /\ Put(One(short))
    BY <1>8, CodeBits DEF EndOfBlock
  <2>2. dec.len <= BatchSize - 2 /\ One(short) \in 0 .. 1
    BY <1>8, CodeBits DEF EndOfBlock, Types
  <2>3. dec' = [pc |-> "last", batch |-> dec.batch, len |-> dec.len + One(short)]
    BY <1>10, <1>8 DEF EndOfBlock
  <2>4. dec' \in [pc : DecoderAt, batch : Batches, len : 0 .. BatchSize]
    BY <1>1, <1>12, <2>2, <2>3, DecTypes, Sizes
  <2> QED
    BY <2>1, <2>3, <2>4, <1>8, LoopTypes DEF EndOfBlock
<1>9. ASSUME NEW short \in Shorts, NEW n \in LengthBits, Length(short, n) PROVE Types'
  <2>1. short + n \in 0 .. 30 /\ SkipBits(short + n) /\ One(short) \in 0 .. 2 /\ Put(One(short))
    BY <1>9, CodeBits DEF Length
  <2>2. dec.len <= BatchSize - 2 /\ One(short) \in 0 .. 1
    BY <1>9, CodeBits DEF Length, Types
  <2>3. dec' = [pc |-> "distance", batch |-> dec.batch, len |-> dec.len + One(short)]
    BY <1>10, <1>9 DEF Length
  <2>4. dec' \in [pc : DecoderAt, batch : Batches, len : 0 .. BatchSize]
    BY <1>1, <1>12, <2>2, <2>3, DecTypes, Sizes
  <2>5. dec'.len <= BatchSize - 1
    BY <1>1, <2>2, <2>3, Sizes
  <2> QED
    BY <2>1, <2>3, <2>4, <2>5, <1>9, LoopTypes DEF Length
<1> QED
  BY <1>2, <1>3, <1>4, <1>5, <1>6, <1>7, <1>8, <1>9 DEF Decode

LEMMA ConsumeTypes == Types /\ Consume => Types'
<1> SUFFICES ASSUME Types, Consume PROVE Types'
  OBVIOUS
<1>1. /\ con \in [pc : ConsumerAt, batch : Batches, len : 0 .. BatchSize, symbols : Seq(Nat)]
      /\ con = [pc |-> con.pc, batch |-> con.batch, len |-> con.len, symbols |-> con.symbols]
      /\ After(con.batch) \in Batches
  BY AfterIs DEF Types
<1>2. CASE Poll
  <2>1. batchLen[con.batch] \in -1 .. BatchSize
    BY <1>1 DEF Types, TypeOK, Batches
  <2>2. PICK pc \in {"barrier", "read"}, k \in {con.len, batchLen[con.batch]} :
          /\ con' = [pc |-> pc, batch |-> con.batch, len |-> k, symbols |-> con.symbols]
          /\ k = con.len \/ ~(batchLen[con.batch] < 0)
    BY <1>1, <1>2 DEF Poll
  <2>3. k \in 0 .. BatchSize
    BY <1>1, <2>1, <2>2, Sizes
  <2>4. con' \in [pc : ConsumerAt, batch : Batches, len : 0 .. BatchSize, symbols : Seq(Nat)]
    BY <1>1, <2>2, <2>3 DEF ConsumerAt
  <2> QED
    BY <2>4, <1>2 DEF Poll, Types, TypeOK, inputVars, ringVars, queueVars, Batches
<1>3. CASE Read
  <2>1. /\ queue[con.batch] \in Seq(Nat) /\ Len(queue[con.batch]) = BatchSize
        /\ con.len \in 0 .. BatchSize
    <3>1. queue[con.batch] \in [1 .. BatchSize -> Nat]
      BY <1>1 DEF Types, TypeOK, Batches
    <3>2. \A f \in [1 .. BatchSize -> Nat] : f \in Seq(Nat) /\ Len(f) = BatchSize
      BY Sizes
    <3> QED
      BY <1>1, <3>1, <3>2
  <2>2. SubSeq(queue[con.batch], 1, con.len) \in Seq(Nat)
    BY <2>1, Sizes, SubSeqProperties
  <2>3. con' \in [pc : ConsumerAt, batch : Batches, len : 0 .. BatchSize, symbols : Seq(Nat)]
    BY <1>1, <1>3, <2>2 DEF Read, ConsumerAt
  <2>4. batchLen' \in [0 .. BatchCount - 1 -> -1 .. BatchSize]
    BY <1>3, Sizes DEF Read, Types, TypeOK
  <2> QED
    BY <2>3, <2>4, <1>3 DEF Read, Types, TypeOK, inputVars, ringVars, Batches
<1>4. CASE Write
  <2>1. Len(con.symbols) \in Nat
    BY <1>1
  <2>2. con' \in [pc : ConsumerAt, batch : Batches, len : 0 .. BatchSize, symbols : Seq(Nat)]
    BY <1>1, <1>4, Sizes DEF Write, ConsumerAt, After
  <2>3. out' \in Nat
    BY <1>4, <2>1 DEF Write, Types
  <2> QED
    BY <2>2, <2>3, <1>4 DEF Write, Types, TypeOK, inputVars, ringVars, queueVars, Batches
<1> QED
  BY <1>2, <1>3, <1>4 DEF Consume

LEMMA PrefetchTypes == Types /\ Prefetch => Types'
<1> SUFFICES ASSUME Types, Prefetch PROVE Types'
  OBVIOUS
<1>1. /\ pre \in [pc : PrefetcherAt, at : Nat] /\ pre = [pc |-> pre.pc, at |-> pre.at]
      /\ ring \in [Words(0, PrefetchSize) -> Int]
  BY DEF Types, TypeOK
<1>2. CASE Look
  <2>1. pre' \in [pc : PrefetcherAt, at : Nat]
    BY <1>1, <1>2 DEF Look, PrefetcherAt
  <2> QED
    BY <2>1, <1>2 DEF Look, Types, TypeOK, inputVars, ringVars, queueVars
<1>3. CASE Fetch
  <2>1. pre' \in [pc : PrefetcherAt, at : Nat]
    BY <1>1, <1>3, Sizes DEF Fetch, PrefetcherAt
  <2>2. ring' \in [Words(0, PrefetchSize) -> Int]
    <3>1. CASE pre.at - published < Lead
      <4> DEFINE W(s) == {a \in Words(pre.at, ChunkSize) : Slot(a) = s}
      <4>1. \A s : W(s) # {} => (CHOOSE a \in W(s) : TRUE) \in W(s)
        OBVIOUS
      <4>2. \A s : W(s) \subseteq Int
        BY <1>1, Sizes DEF Words
      <4>3. \A s : W(s) # {} => (CHOOSE a \in W(s) : TRUE) \in Int
        BY <4>1, <4>2
      <4>4. ring' = [s \in DOMAIN ring |-> IF W(s) = {} THEN ring[s] ELSE CHOOSE a \in W(s) : TRUE]
        BY <1>3, <3>1 DEF Fetch
      <4> QED
        BY <1>1, <4>3, <4>4
    <3>2. CASE ~(pre.at - published < Lead)
      BY <1>1, <1>3, <3>2 DEF Fetch
    <3> QED
      BY <3>1, <3>2
  <2> QED
    BY <2>1, <2>2, <1>3 DEF Fetch, Types, TypeOK, inputVars, queueVars
<1>4. CASE PublishFetch
  <2>1. pre' \in [pc : PrefetcherAt, at : Nat] /\ curP' \in Nat
    BY <1>1, <1>4 DEF PublishFetch, PrefetcherAt
  <2> QED
    BY <2>1, <1>4 DEF PublishFetch, Types, TypeOK, inputVars, queueVars
<1> QED
  BY <1>2, <1>3, <1>4 DEF Prefetch

LEMMA SeekTypes ==
  ASSUME NEW p \in Nat, Seek(p)
  PROVE  /\ cur' \in Nat /\ cur' % 4 = 0 /\ bitpos' \in 0 .. 31
         /\ bitbuf' = <<cur', cur' + 4>> /\ 8 * cur' + bitpos' = p
BY DEF Seek

LEMMA BlockTypes ==
  ASSUME Types, NEW last \in BOOLEAN,
         (\E h \in HeaderBits : CodedBlock(h, last)) \/ (\E n \in StoredBytes : StoredBlock(n, last))
  PROVE  Types'
<1>1. cur \in Nat /\ bitpos \in 0 .. 31 /\ HeaderBits \subseteq Nat /\ StoredBytes \subseteq Nat
  BY BitsFit DEF Types, TypeOK
<1>2. ASSUME NEW h \in HeaderBits, CodedBlock(h, last) PROVE Types'
  <2>1. 8 * cur + bitpos + h \in Nat /\ Seek(8 * cur + bitpos + h)
    BY <1>1, <1>2 DEF CodedBlock
  <2>2. cur' \in Nat /\ cur' % 4 = 0 /\ bitpos' \in 0 .. 31 /\ bitbuf' \in Int \X Int
    BY <2>1, SeekTypes
  <2>3. /\ batchLen' \in [0 .. BatchCount - 1 -> -1 .. BatchSize]
        /\ dec' \in [pc : DecoderAt, batch : Batches, len : 0 .. BatchSize] /\ dec'.pc = "wait"
    BY <1>2, Sizes DEF CodedBlock, DecoderAt, Batches
  <2>4. /\ con' \in [pc : ConsumerAt, batch : Batches, len : 0 .. BatchSize, symbols : Seq(Nat)]
        /\ pre' \in [pc : PrefetcherAt, at : Nat]
    BY <1>2, <2>2, Sizes DEF CodedBlock, ConsumerAt, PrefetcherAt, Batches
  <2> QED
    BY <2>2, <2>3, <2>4, <1>2 DEF CodedBlock, Types, TypeOK, Batches
<1>3. ASSUME NEW n \in StoredBytes, StoredBlock(n, last) PROVE Types'
  <2> DEFINE p == ((8 * cur + bitpos + 3 + 7) \div 8) * 8 + 32 + 8 * n
  <2>1. p \in Nat /\ Seek(p)
    BY <1>1, <1>3 DEF StoredBlock
  <2>2. cur' \in Nat /\ cur' % 4 = 0 /\ bitpos' \in 0 .. 31 /\ bitbuf' \in Int \X Int
    BY <2>1, SeekTypes
  <2> QED
    BY <2>2, <1>3 DEF StoredBlock, Types, TypeOK, ringVars, queueVars
<1> QED
  BY <1>2, <1>3

LEMMA StepTypes == Types /\ [Next]_vars => Types'
<1> SUFFICES ASSUME Types, [Next]_vars PROVE Types'
  OBVIOUS
<1>1. CASE BadBlock
  BY <1>1 DEF BadBlock, Types, TypeOK, inputVars, ringVars, queueVars
<1>2. CASE UNCHANGED vars
  BY <1>2 DEF vars, Types, TypeOK, inputVars, ringVars, queueVars
<1> QED
  BY <1>1, <1>2, DecodeTypes, ConsumeTypes, PrefetchTypes, BlockTypes DEF Next, Terminated

\* Types of what the warps share: positions, the ring, lengths and symbols of batches.
THEOREM TypesHold == Spec => []TypeOK
<1>1. Types => TypeOK
  BY DEF Types
<1> QED
  BY <1>1, InitTypes, StepTypes, PTL DEF Spec

(***************************************************************************)
(* The queue.                                                               *)
(***************************************************************************)
LEMMA EmptyQueue ==
  ASSUME NEW n, n = [b \in 0 .. BatchCount - 1 |-> 0], NEW q, NEW s \in Nat
  PROVE  QueueOK(n, q, 0, s, 0, s)
<1>1. \A b \in Batches : ~(n[b] > 0)
  BY DEF Batches
<1>2. 0 \in Batches /\ ~(n[0] > 0)
  BY <1>1, Sizes DEF Batches
<1>3. \A b \in Batches : ~IsFull(b, 0, 0, n)
  BY <1>2 DEF IsFull
<1> QED
  BY <1>1, <1>2, <1>3 DEF QueueOK

LEMMA InitQueue == Init => QueueInv
<1> SUFFICES ASSUME Init PROVE QueueInv
  OBVIOUS
<1>1. /\ dec = [pc |-> "barrier", batch |-> 0, len |-> 0]
      /\ con = [pc |-> "barrier", batch |-> 0, len |-> 0, symbols |-> <<>>]
      /\ decoded = 0 /\ out = 0
      /\ batchLen = [b \in 0 .. BatchCount - 1 |-> 0]
  BY DEF Init
<1>2. QueueOK(batchLen, queue, Front, Taken, dec.batch, First)
  BY <1>1, EmptyQueue DEF Front, Taken, First, Filling
<1>3. DecoderInv /\ ConsumerInv
  BY <1>1 DEF DecoderInv, ConsumerInv, First, Filling
<1> QED
  BY <1>2, <1>3 DEF QueueInv

\* What the lemmas about the ring of batches ask for.
LEMMA QueueTypes ==
  ASSUME Types, QueueInv
  PROVE  /\ batchLen \in Lengths /\ queue \in Contents
         /\ Front \in Batches /\ dec.batch \in Batches /\ con.batch \in Batches
         /\ Taken \in Nat /\ First \in Nat
<1>1. batchLen \in Lengths /\ queue \in Contents
  BY DEF Types, TypeOK, Lengths, Contents, Batches
<1>2. dec.batch \in Batches /\ con.batch \in Batches /\ con.len \in Nat /\ out \in Nat
  BY DEF Types
<1>3. Front \in Batches
  BY <1>2, AfterIs DEF Front
<1>4. Taken \in Nat /\ First \in Nat
  BY <1>2 DEF Taken, QueueInv, DecoderInv
<1> QED
  BY <1>1, <1>2, <1>3, <1>4

\* The inner loop: symbols are put into a batch that is not yet full.
LEMMA LoopQueue ==
  ASSUME Types, QueueInv, dec.pc \in {"symbol", "distance"},
         NEW k \in 0 .. 2, Put(k), dec.len + k <= BatchSize,
         NEW pc \in {"symbol", "distance", "publish", "last"},
         dec' = [pc |-> pc, batch |-> dec.batch, len |-> dec.len + k],
         UNCHANGED <<batchLen, con, out>>
  PROVE  QueueInv'
<1>1. /\ batchLen \in Lengths /\ queue \in Contents /\ Front \in Batches /\ dec.batch \in Batches
      /\ Taken \in Nat /\ First \in Nat /\ dec.len \in Nat /\ decoded \in Nat
  BY QueueTypes DEF Types
<1>2. /\ QueueOK(batchLen, queue, Front, Taken, dec.batch, First)
      /\ First = decoded - dec.len /\ batchLen[dec.batch] = 0
      /\ \A i \in 1 .. dec.len : queue[dec.batch][i] = First + i
  BY DEF QueueInv, DecoderInv, First, Filling
<1>3. queue' \in Contents
  BY PutTypes DEF Contents, Batches
<1>4. First' = First
  BY <1>1, <1>2 DEF First, Filling, Put
<1>5. \A b \in Batches : b # dec.batch => queue'[b] = queue[b]
  BY <1>1 DEF Put, Contents
<1>6. \A i \in 1 .. dec.len + k : queue'[dec.batch][i] = First + i
  <2> TAKE i \in 1 .. dec.len + k
  <2>1. i \in 1 .. BatchSize
    BY <1>1, Sizes
  <2>2. queue'[dec.batch][i] = IF i > dec.len /\ i <= dec.len + k THEN decoded + i - dec.len
                               ELSE queue[dec.batch][i]
    BY <1>1, <2>1 DEF Put, Contents
  <2> QED
    BY <1>1, <1>2, <2>2
<1>7. QueueOK(batchLen, queue', Front, Taken, dec.batch, First)
  BY <1>1, <1>2, <1>3, <1>5, Refill
<1>8. Front' = Front /\ Taken' = Taken /\ dec'.batch = dec.batch /\ dec'.len = dec.len + k
  BY DEF Front, Taken
<1>9. DecoderInv'
  BY <1>1, <1>2, <1>4, <1>6, <1>8 DEF DecoderInv, QueueInv, Filling
<1>10. ConsumerInv'
  BY DEF ConsumerInv, QueueInv
<1>11. QueueOK(batchLen, queue, Front, Taken, dec.batch, First)'
  BY <1>4, <1>7, <1>8
<1> QED
  BY <1>9, <1>10, <1>11 DEF QueueInv

LEMMA DecodeQueue == Types /\ QueueInv /\ Decode => QueueInv'
<1> SUFFICES ASSUME Types, QueueInv, Decode PROVE QueueInv'
  OBVIOUS
<1>1. /\ batchLen \in Lengths /\ queue \in Contents /\ Front \in Batches /\ dec.batch \in Batches
      /\ Taken \in Nat /\ First \in Nat /\ con.batch \in Batches
      /\ dec.len \in 0 .. BatchSize /\ decoded \in Nat
  BY QueueTypes DEF Types
<1>2. dec = [pc |-> dec.pc, batch |-> dec.batch, len |-> dec.len]
  BY DEF Types
<1>3. /\ QueueOK(batchLen, queue, Front, Taken, dec.batch, First)
      /\ Filling => /\ batchLen[dec.batch] = 0
                    /\ \A i \in 1 .. dec.len : queue[dec.batch][i] = First + i
      /\ \A b \in Batches : batchLen[b] < 0 => dec.pc = "barrier"
      /\ ConsumerInv
  BY DEF QueueInv, DecoderInv
<1>4. CASE StartBatch
  <2>1. PICK pc \in {"drain", "symbol"}, k \in {dec.len, 0} :
          /\ dec' = [pc |-> pc, batch |-> dec.batch, len |-> k]
          /\ pc = "symbol" => k = 0
    BY <1>2, <1>4 DEF StartBatch
  <2>2. /\ dec.pc = "wait" /\ batchLen[dec.batch] = 0
        /\ UNCHANGED <<batchLen, queue, con, decoded, out>>
    BY <1>4 DEF StartBatch, queueVars
  <2>3. First' = First
    BY <1>1, <2>1, <2>2 DEF First, Filling
  <2>4. Front' = Front /\ Taken' = Taken /\ dec'.batch = dec.batch
    BY <2>1, <2>2 DEF Front, Taken
  <2>5. DecoderInv'
    BY <1>1, <1>3, <2>1, <2>2, <2>3 DEF DecoderInv, Filling
  <2>6. ConsumerInv'
    BY <1>3, <2>2 DEF ConsumerInv
  <2> QED
    BY <1>3, <2>2, <2>3, <2>4, <2>5, <2>6 DEF QueueInv
<1>5. CASE Publish
  <2>1. /\ Filling /\ UNCHANGED <<queue, con, decoded, out>>
        /\ dec.pc # "barrier" /\ dec.pc # "wait"
        /\ batchLen' = [batchLen EXCEPT ![dec.batch] = dec.len]
    BY <1>5 DEF Publish, Filling
  <2>2. /\ dec'.pc \in {"drain", "wait"}
        /\ dec'.batch = IF dec.len # 0 THEN After(dec.batch) ELSE dec.batch
    BY <1>2, <1>5 DEF Publish, After
  <2>3. First' = decoded /\ decoded = First + dec.len
    BY <1>1, <2>1, <2>2 DEF First, Filling
  <2>4. Front' = Front /\ Taken' = Taken
    BY <2>1 DEF Front, Taken
  <2>5. QueueOK(batchLen', queue, Front, Taken, dec'.batch, First')
    <3>1. CASE dec.len = 0
      <4>1. batchLen' = batchLen /\ dec'.batch = dec.batch /\ First' = First
        BY <1>1, <1>3, <2>1, <2>2, <2>3, <3>1 DEF Lengths
      <4> QED
        BY <1>3, <4>1
    <3>2. CASE dec.len # 0
      <4>1. dec.len \in 1 .. BatchSize
        BY <1>1, <3>2
      <4>2. batchLen[dec.batch] = 0 /\ \A i \in 1 .. dec.len : queue[dec.batch][i] = First + i
        BY <1>3, <2>1
      <4>3. QueueOK([batchLen EXCEPT ![dec.batch] = dec.len], queue, Front, Taken,
                    After(dec.batch), First + dec.len)
        BY <1>1, <1>3, <4>1, <4>2, Enqueue
      <4> QED
        BY <2>1, <2>2, <2>3, <3>2, <4>3
    <3> QED
      BY <3>1, <3>2
  <2>6. \A b \in Batches : ~(batchLen'[b] < 0)
    BY <1>1, <1>3, <2>1 DEF Lengths
  <2>7. DecoderInv'
    <3>1. First' \in Nat /\ ~Filling'
      BY <1>1, <2>2, <2>3 DEF Filling
    <3> QED
      BY <2>6, <3>1 DEF DecoderInv
  <2>8. ConsumerInv'
    BY <1>1, <1>3, <2>1 DEF ConsumerInv, Lengths
  <2> QED
    BY <2>1, <2>4, <2>5, <2>7, <2>8 DEF QueueInv
<1>6. CASE Drain
  <2>1. /\ dec.pc = "drain" /\ batchLen[dec.batch] = 0 /\ UNCHANGED <<queue, con, decoded, out>>
        /\ batchLen' = [batchLen EXCEPT ![dec.batch] = -1]
    BY <1>6 DEF Drain
  <2>2. dec'.pc = "barrier" /\ dec'.batch = dec.batch
    BY <1>2, <1>6 DEF Drain
  <2>3. First' = First /\ First = decoded
    BY <2>1, <2>2 DEF First, Filling
  <2>4. Front' = Front /\ Taken' = Taken
    BY <2>1 DEF Front, Taken
  <2>5. QueueOK(batchLen', queue, Front, Taken, dec.batch, First)
    BY <1>1, <1>3, <2>1, Mark
  <2>6. DecoderInv'
    BY <1>1, <2>2, <2>3 DEF DecoderInv, Filling
  <2>7. ConsumerInv'
    BY <1>1, <1>3, <2>1 DEF ConsumerInv, Lengths
  <2> QED
    BY <2>1, <2>2, <2>3, <2>4, <2>5, <2>6, <2>7 DEF QueueInv
<1>7. ASSUME NEW n \in DistanceBits, Distance(n) PROVE QueueInv'
  <2>1. PICK pc \in {"symbol", "publish"} : dec' = [pc |-> pc, batch |-> dec.batch, len |-> dec.len + 1]
    BY <1>2, <1>7 DEF Distance, Proceed
  <2>2. dec.len + 1 <= BatchSize
    BY <1>1, <1>7, Sizes DEF Distance, Types
  <2> QED
    BY <2>1, <2>2, <1>7, LoopQueue DEF Distance
<1>8. ASSUME NEW short \in Shorts, BadCode(short) PROVE QueueInv'
  <2>1. One(short) \in 0 .. 2 /\ dec.len + One(short) <= BatchSize
    BY <1>1, <1>8, CodeBits, Sizes DEF BadCode, Types, One
  <2>2. dec' = [pc |-> "last", batch |-> dec.batch, len |-> dec.len + One(short)]
    BY <1>2, <1>8 DEF BadCode
  <2> QED
    BY <2>1, <2>2, <1>8, LoopQueue DEF BadCode
<1>9. ASSUME NEW short \in Shorts, NEW n \in LiteralBits, Literal(short, n) PROVE QueueInv'
  <2>1. One(short) + 1 \in 0 .. 2 /\ dec.len + (One(short) + 1) <= BatchSize
    BY <1>1, <1>9, CodeBits, Sizes DEF Literal, Types
  <2>2. PICK pc \in {"symbol", "publish"} :
          dec' = [pc |-> pc, batch |-> dec.batch, len |-> dec.len + (One(short) + 1)]
    BY <1>2, <1>9 DEF Literal, Proceed
  <2> QED
    BY <2>1, <2>2, <1>9, LoopQueue DEF Literal
<1>10. ASSUME NEW short \in Shorts, NEW n \in LiteralBits, EndOfBlock(short, n) PROVE QueueInv'
  <2>1. One(short) \in 0 .. 2 /\ dec.len + One(short) <= BatchSize
    BY <1>1, <1>10, CodeBits, Sizes DEF EndOfBlock, Types
  <2>2. dec' = [pc |-> "last", batch |-> dec.batch, len |-> dec.len + One(short)]
    BY <1>2, <1>10 DEF EndOfBlock
  <2> QED
    BY <2>1, <2>2, <1>10, LoopQueue DEF EndOfBlock
<1>11. ASSUME NEW short \in Shorts, NEW n \in LengthBits, Length(short, n) PROVE QueueInv'
  <2>1. One(short) \in 0 .. 2 /\ dec.len + One(short) <= BatchSize
    BY <1>1, <1>11, CodeBits, Sizes DEF Length, Types
  <2>2. dec' = [pc |-> "distance", batch |-> dec.batch, len |-> dec.len + One(short)]
    BY <1>2, <1>11 DEF Length
  <2> QED
    BY <2>1, <2>2, <1>11, LoopQueue DEF Length
<1> QED
  BY <1>4, <1>5, <1>6, <1>7, <1>8, <1>9, <1>10, <1>11 DEF Decode

LEMMA ConsumeQueue == Types /\ QueueInv /\ Consume => QueueInv'
<1> SUFFICES ASSUME Types, QueueInv, Consume PROVE QueueInv'
  OBVIOUS
<1>1. /\ batchLen \in Lengths /\ queue \in Contents /\ Front \in Batches /\ dec.batch \in Batches
      /\ Taken \in Nat /\ First \in Nat /\ con.batch \in Batches
      /\ con.len \in 0 .. BatchSize /\ out \in Nat
  BY QueueTypes DEF Types
<1>2. con = [pc |-> con.pc, batch |-> con.batch, len |-> con.len, symbols |-> con.symbols]
  BY DEF Types
<1>3. /\ QueueOK(batchLen, queue, Front, Taken, dec.batch, First)
      /\ DecoderInv /\ ConsumerInv
  BY DEF QueueInv
<1>4. CASE Poll
  <2>1. /\ con.pc = "poll" /\ batchLen[con.batch] # 0
        /\ UNCHANGED <<batchLen, queue, dec, decoded, out>>
    BY <1>4 DEF Poll, queueVars
  <2>2. con'.batch = con.batch /\ con'.pc \in {"barrier", "read"}
    BY <1>2, <1>4 DEF Poll
  <2>3. /\ con'.pc = "barrier" => batchLen[con.batch] < 0
        /\ con'.pc = "read" => ~(batchLen[con.batch] < 0) /\ con'.len = batchLen[con.batch]
    BY <1>2, <1>4 DEF Poll
  <2>4. Front' = Front /\ Taken' = Taken /\ Front = con.batch /\ Taken = out
    BY <2>1, <2>2 DEF Front, Taken
  <2>5. First' = First
    BY <2>1 DEF First, Filling
  <2>6. DecoderInv'
    BY <1>3, <2>1, <2>5 DEF DecoderInv, Filling
  <2>7. con'.pc = "barrier" => dec'.pc = "barrier" /\ out' = decoded'
    <3> SUFFICES ASSUME con'.pc = "barrier" PROVE dec.pc = "barrier" /\ out = decoded
      BY <2>1
    <3>1. batchLen[con.batch] < 0 /\ dec.pc = "barrier"
      BY <1>1, <1>3, <2>3 DEF DecoderInv
    <3>2. First = Taken /\ First = decoded
      BY <1>1, <1>3, <2>4, <3>1 DEF QueueOK, First, Filling, Lengths
    <3> QED
      BY <2>4, <3>1, <3>2
  <2>8. ConsumerInv'
    BY <1>1, <2>1, <2>2, <2>3, <2>7 DEF ConsumerInv, Lengths
  <2> QED
    BY <1>3, <2>1, <2>4, <2>5, <2>6, <2>8 DEF QueueInv
<1>5. CASE Read
  <2>1. /\ con.pc = "read" /\ UNCHANGED <<queue, dec, decoded, out>>
        /\ batchLen' = [batchLen EXCEPT ![con.batch] = 0]
        /\ con' = [pc |-> "write", batch |-> con.batch, len |-> con.len,
                   symbols |-> SubSeq(queue[con.batch], 1, con.len)]
    BY <1>2, <1>5 DEF Read
  <2>2. con.len > 0 /\ batchLen[con.batch] = con.len /\ Front = con.batch /\ Taken = out
    BY <1>3, <2>1 DEF ConsumerInv, Front, Taken
  <2>3. Front' = After(con.batch) /\ Taken' = out + con.len /\ First' = First
    BY <2>1 DEF Front, Taken, First, Filling
  <2>4. /\ \A i \in 1 .. con.len : queue[con.batch][i] = out + i
        /\ QueueOK(batchLen', queue, After(con.batch), out + con.len, dec.batch, First)
    <3>1. QueueOK(batchLen, queue, con.batch, out, dec.batch, First) /\ batchLen[con.batch] > 0
      BY <1>3, <2>2
    <3>2. /\ \A i \in 1 .. batchLen[con.batch] : queue[con.batch][i] = out + i
          /\ QueueOK([batchLen EXCEPT ![con.batch] = 0], queue, After(con.batch),
                     out + batchLen[con.batch], dec.batch, First)
      BY <1>1, <3>1, Dequeue
    <3> QED
      BY <2>1, <2>2, <3>2
  <2>5. SubSeq(queue[con.batch], 1, con.len) = [i \in 1 .. con.len |-> out + i]
    <3>1. queue[con.batch] \in [1 .. BatchSize -> Nat]
      BY <1>1 DEF Contents
    <3>2. \A f \in [1 .. BatchSize -> Nat] : f \in Seq(Nat) /\ Len(f) = BatchSize
      BY Sizes
    <3> DEFINE taken == SubSeq(queue[con.batch], 1, con.len)
    <3>3. /\ taken \in Seq(Nat) /\ Len(taken) = con.len
          /\ \A i \in 1 .. con.len : taken[i] = queue[con.batch][i]
      BY <1>1, <2>2, <3>1, <3>2, Sizes, SubSeqProperties
    <3>4. DOMAIN taken = 1 .. con.len /\ taken = [i \in 1 .. con.len |-> taken[i]]
      BY <3>3
    <3> QED
      BY <2>4, <3>3, <3>4
  <2>6. \A b \in Batches : batchLen'[b] < 0 => batchLen[b] < 0
    BY <1>1, <2>1 DEF Lengths
  <2>7. Filling => batchLen'[dec.batch] = 0
    BY <1>1, <1>3, <2>1 DEF DecoderInv, Lengths
  <2>8. DecoderInv'
    BY <1>3, <2>1, <2>3, <2>6, <2>7 DEF DecoderInv, Filling
  <2>9. ConsumerInv'
    BY <2>1, <2>5 DEF ConsumerInv
  <2> QED
    BY <2>1, <2>3, <2>4, <2>8, <2>9 DEF QueueInv
<1>6. CASE Write
  <2>1. /\ con.pc = "write" /\ UNCHANGED <<batchLen, queue, dec, decoded>>
        /\ out' = out + Len(con.symbols)
        /\ con'.pc = "poll" /\ con'.batch = After(con.batch)
    BY <1>6 DEF Write, queueVars, After
  <2>2. Len(con.symbols) = con.len
    <3>1. con.symbols = [i \in 1 .. con.len |-> out + i]
      BY <1>3, <2>1 DEF ConsumerInv
    <3>2. con.symbols \in Seq(Nat) /\ con.len \in Nat
      BY <1>1 DEF Types
    <3> QED
      BY <3>1, <3>2
  <2>3. Front' = Front /\ Taken' = Taken /\ First' = First
    BY <2>1, <2>2 DEF Front, Taken, First, Filling
  <2>4. DecoderInv'
    BY <1>3, <2>1, <2>3 DEF DecoderInv, Filling
  <2>5. ConsumerInv'
    BY <2>1 DEF ConsumerInv
  <2> QED
    BY <1>3, <2>1, <2>3, <2>4, <2>5 DEF QueueInv
<1> QED
  BY <1>4, <1>5, <1>6 DEF Consume

LEMMA StepQueue == Types /\ QueueInv /\ [Next]_vars => QueueInv'
<1> SUFFICES ASSUME Types, QueueInv, [Next]_vars PROVE QueueInv'
  OBVIOUS
<1>1. ASSUME UNCHANGED <<queueVars, dec, con, decoded, out>> PROVE QueueInv'
  <2>1. Front' = Front /\ Taken' = Taken /\ First' = First
    BY <1>1 DEF Front, Taken, First, Filling
  <2> QED
    BY <1>1, <2>1 DEF QueueInv, DecoderInv, ConsumerInv, Filling, queueVars
<1>2. ASSUME NEW h \in HeaderBits, NEW last \in BOOLEAN, CodedBlock(h, last) PROVE QueueInv'
  <2>1. out = decoded /\ out \in Nat
    BY <1>2 DEF CodedBlock, NewBlock, Between, AtBarrier, QueueInv, ConsumerInv, Types
  <2>2. /\ batchLen' = [b \in 0 .. BatchCount - 1 |-> 0]
        /\ dec' = [pc |-> "wait", batch |-> 0, len |-> 0]
        /\ con' = [pc |-> "poll", batch |-> 0, len |-> 0, symbols |-> <<>>]
        /\ UNCHANGED <<queue, decoded, out>>
    BY <1>2 DEF CodedBlock
  <2>3. Front' = 0 /\ Taken' = out /\ First' = out /\ dec'.batch = 0
    BY <2>1, <2>2 DEF Front, Taken, First, Filling
  <2>4. QueueOK(batchLen', queue', 0, out, 0, out)
    BY <2>1, <2>2, EmptyQueue
  <2>5. DecoderInv' /\ ConsumerInv'
    BY <2>1, <2>2, <2>3 DEF DecoderInv, ConsumerInv, Filling, Batches
  <2> QED
    BY <2>3, <2>4, <2>5 DEF QueueInv
<1>3. CASE Prefetch
  BY <1>1, <1>3 DEF Prefetch, Look, Fetch, PublishFetch
<1>4. CASE BadBlock
  BY <1>1, <1>4 DEF BadBlock
<1>5. ASSUME NEW n \in StoredBytes, NEW last \in BOOLEAN, StoredBlock(n, last) PROVE QueueInv'
  BY <1>1, <1>5 DEF StoredBlock
<1>6. CASE UNCHANGED vars
  BY <1>1, <1>6 DEF vars
<1> QED
  BY <1>2, <1>3, <1>4, <1>5, <1>6, DecodeQueue, ConsumeQueue DEF Next, Terminated

\* The consumer writes the symbols in the order in which they were decoded, each once,
\* although the two warps share nothing but the batches and their lengths.
THEOREM OutputStaysInOrder == Spec => []OutputInOrder
<1>1. QueueInv => OutputInOrder
  BY DEF QueueInv, ConsumerInv, OutputInOrder
<1> QED
  BY <1>1, InitTypes, StepTypes, InitQueue, StepQueue, PTL DEF Spec

\* When the warps meet at the end of a block, all that was decoded was written.
THEOREM BlocksAreComplete == Spec => []BlockIsComplete
<1>1. QueueInv => BlockIsComplete
  BY DEF QueueInv, ConsumerInv, BlockIsComplete, AtBarrier
<1> QED
  BY <1>1, InitTypes, StepTypes, InitQueue, StepQueue, PTL DEF Spec

(***************************************************************************)
(* The input.  A symbol takes at most w bits, l of them for a length code;     *)
(* what the wait allows for, 48 bits per symbol, must also cover the two words *)
(* that the decoder is ahead.                                               *)
(***************************************************************************)
NarrowCodes(w, l) ==
  /\ \A n \in LiteralBits \cup ShortBits : n <= w
  /\ \A n \in LengthBits : n <= l
  /\ \A n \in DistanceBits : n <= w - l
  /\ w * BatchSize + 64 <= 48 * BatchSize

\* The ring holds the words from the position that the decoder published up to the
\* prefetcher's; the decoder is behind the prefetcher and in front of what was published.
RingInv ==
  /\ published <= cur /\ curP <= pre.at
  /\ published <= pre.at /\ pre.at - published < PrefetchSize
  /\ \A a \in published .. pre.at - 1 : a % 4 = 0 => ring[Slot(a)] = a

\* The bits that the rest of the batch may still take.
Budget(w, l) ==
  /\ dec.pc = "symbol" => 8 * (curP - cur) - bitpos >= 48 * BatchSize - 31 - w * dec.len
  /\ dec.pc = "distance" => 8 * (curP - cur) - bitpos >= 48 * BatchSize - 31 - w * dec.len - l
  /\ dec.pc \in {"publish", "last"} => cur <= curP

InputInv(w, l) == RingInv /\ InputInOrder /\ Budget(w, l)

LEMMA Products ==
  ASSUME NEW w \in Nat, NEW a \in Nat, NEW b \in Nat
  PROVE  w * (a + b) = w * a + w * b /\ (a <= b => w * a <= w * b)
<1>1. a <= b => w * (b - a) >= 0
  OBVIOUS
<1>2. w * (b - a) = w * b - w * a
  OBVIOUS
<1>3. w * a \in Nat /\ w * b \in Nat
  OBVIOUS
<1> QED
  BY <1>1, <1>2, <1>3

\* Skipping bits reads the right word if enough input is there.
LEMMA SkipInOrder ==
  ASSUME Types, RingInv, InputInOrder, NEW n \in 0 .. 30, SkipBits(n),
         8 * (curP - cur) - bitpos - n >= 33
  PROVE  /\ InputInOrder' /\ cur' >= cur /\ 8 * cur' + bitpos' = 8 * cur + bitpos + n
<1>1. /\ cur \in Nat /\ cur % 4 = 0 /\ bitpos \in 0 .. 31
      /\ published \in Nat /\ curP \in Nat /\ pre.at \in Nat
  BY DEF Types, TypeOK
<1>2. CASE bitpos + n < 32
  BY <1>1, <1>2 DEF SkipBits, InputInOrder
<1>3. CASE bitpos + n >= 32
  <2>1. cur' = cur + 4 /\ bitpos' = bitpos + n - 32 /\ bitbuf' = <<bitbuf[2], ring[Slot(cur + 8)]>>
    BY <1>1, <1>3 DEF SkipBits
  <2>2. (cur + 8) % 4 = 0 /\ cur + 8 \in published .. pre.at - 1
    BY <1>1, <1>3 DEF RingInv
  <2>3. ring[Slot(cur + 8)] = cur + 8
    BY <2>2 DEF RingInv
  <2>4. bitbuf[2] = cur + 4
    BY DEF InputInOrder
  <2> QED
    BY <1>1, <2>1, <2>3, <2>4 DEF InputInOrder
<1> QED
  BY <1>1, <1>2, <1>3

\* A pass of the inner loop takes bits bits and adds k symbols.
LEMMA LoopInput ==
  ASSUME NEW w \in Nat, NEW l \in Nat, NarrowCodes(w, l), Types, InputInv(w, l),
         NEW n \in 0 .. 30, SkipBits(n), NEW k \in Nat, dec.len + k <= BatchSize,
         dec'.len = dec.len + k, UNCHANGED <<published, ringVars, pre>>,
         NEW before \in {0, l}, NEW after \in {0, l, w},
         8 * (curP - cur) - bitpos >= 48 * BatchSize - 31 - w * dec.len - before,
         n + before <= w * k + after, dec.len + k < BatchSize \/ after = 0, l <= w,
         dec'.pc = "symbol" => after = 0, dec'.pc = "distance" => after = l
  PROVE  InputInv(w, l)'
<1>1. /\ cur \in Nat /\ bitpos \in 0 .. 31 /\ curP \in Nat /\ dec.len \in Nat /\ BatchSize \in Nat
  BY Sizes DEF Types, TypeOK
<1>2. /\ w * dec.len \in Nat /\ w * k \in Nat /\ w * BatchSize \in Nat
      /\ w * (dec.len + k) = w * dec.len + w * k
      /\ w * (dec.len + k) + after <= w * BatchSize
  <2>1. w * dec.len \in Nat /\ w * k \in Nat /\ w * BatchSize \in Nat
    BY <1>1
  <2>2. w * (dec.len + k) = w * dec.len + w * k
    BY <1>1, Products
  <2>3. CASE after = 0
    <3>1. w * (dec.len + k) <= w * BatchSize
      BY <1>1, Products
    <3> QED
      BY <1>1, <2>1, <2>2, <2>3, <3>1
  <2>4. CASE after # 0
    <3>1. dec.len + k + 1 <= BatchSize
      BY <1>1, <2>4
    <3>2. w * (dec.len + k + 1) <= w * BatchSize
      BY <1>1, <3>1, Products
    <3>3. w * (dec.len + k + 1) = w * (dec.len + k) + w * 1
      BY <1>1, Products
    <3> QED
      BY <1>1, <2>1, <2>2, <3>2, <3>3
  <2> QED
    BY <2>1, <2>2, <2>3, <2>4
<1>3. 8 * (curP - cur) - bitpos - n >= 48 * BatchSize - 31 - w * (dec.len + k) - after
  BY <1>1, <1>2
<1>4. 8 * (curP - cur) - bitpos - n >= 33
  BY <1>1, <1>2, <1>3 DEF NarrowCodes
<1>5. InputInOrder' /\ cur' >= cur /\ 8 * cur' + bitpos' = 8 * cur + bitpos + n
  BY <1>4, SkipInOrder DEF InputInv
<1>6. cur' \in Nat /\ bitpos' \in 0 .. 31
  BY SkipTypes
<1>7. RingInv'
  BY <1>1, <1>5, <1>6 DEF InputInv, RingInv, ringVars, Types
<1>8. curP' = curP /\ 8 * (curP' - cur') - bitpos' >= 48 * BatchSize - 31 - w * dec'.len - after
  <2>1. curP' = curP /\ w * dec'.len = w * (dec.len + k)
    BY DEF ringVars
  <2>2. 8 * (curP - cur') - bitpos' = 8 * (curP - cur) - bitpos - n
    <3>1. PICK c \in Nat, e \in 0 .. 31 : c = cur' /\ e = bitpos'
      BY <1>6
    <3>2. 8 * c + e = 8 * cur + bitpos + n
      BY <1>5, <3>1
    <3>3. 8 * (curP - c) - e = 8 * (curP - cur) - bitpos - n
      BY <1>1, <3>2
    <3> QED
      BY <3>1, <3>3
  <2> QED
    BY <1>3, <2>1, <2>2
<1>9. cur' <= curP'
  <2>1. PICK c \in Nat, e \in 0 .. 31 : c = cur' /\ e = bitpos'
    BY <1>6
  <2>2. 8 * c + e = 8 * cur + bitpos + n
    BY <1>5, <2>1
  <2>3. c <= curP
    BY <1>1, <1>4, <2>2
  <2> QED
    BY <1>8, <2>1, <2>3
<1>10. Budget(w, l)'
  BY <1>1, <1>2, <1>8, <1>9 DEF Budget
<1> QED
  BY <1>5, <1>7, <1>10 DEF InputInv

LEMMA DecodeInput ==
  ASSUME NEW w \in Nat, NEW l \in Nat, NarrowCodes(w, l), l <= w, Types, InputInv(w, l), Decode
  PROVE  InputInv(w, l)'
<1>1. /\ cur \in Nat /\ bitpos \in 0 .. 31 /\ curP \in Nat /\ dec.len \in 0 .. BatchSize
      /\ dec.pc = "symbol" => dec.len <= BatchSize - 2
      /\ dec.pc = "distance" => dec.len <= BatchSize - 1
      /\ published \in Nat /\ pre.at \in Nat
  BY DEF Types, TypeOK
<1>2. dec = [pc |-> dec.pc, batch |-> dec.batch, len |-> dec.len]
  BY DEF Types
<1>3. RingInv /\ InputInOrder /\ Budget(w, l)
  BY DEF InputInv
<1>4. CASE StartBatch
  <2>1. PICK pc \in {"drain", "symbol"}, k \in {dec.len, 0} :
          /\ dec' = [pc |-> pc, batch |-> dec.batch, len |-> k]
          /\ pc = "symbol" => k = 0
    BY <1>2, <1>4 DEF StartBatch
  <2>2. curP - cur >= BatchSize * 6 /\ UNCHANGED <<inputVars, ringVars, pre>>
    BY <1>4 DEF StartBatch, Margin
  <2>3. RingInv' /\ InputInOrder'
    BY <1>3, <2>2 DEF RingInv, InputInOrder, inputVars, ringVars
  <2>4. 8 * (curP' - cur') - bitpos' >= 48 * BatchSize - 31 - w * 0
    BY <1>1, <2>2, Sizes DEF inputVars, ringVars
  <2>5. Budget(w, l)'
    BY <2>1, <2>4 DEF Budget
  <2> QED
    BY <2>3, <2>5 DEF InputInv
<1>5. CASE Publish
  <2>1. dec'.pc \in {"drain", "wait"}
    BY <1>2, <1>5 DEF Publish
  <2>2. published' = cur /\ UNCHANGED <<cur, bitpos, bitbuf, ringVars, pre>>
    BY <1>5 DEF Publish
  <2>3. InputInOrder'
    BY <1>3, <2>2 DEF InputInOrder
  <2>4. curP' = curP /\ pre' = pre /\ ring' = ring /\ cur' = cur
    BY <2>2 DEF ringVars
  <2>5. RingInv'
    <3>1. published <= cur /\ cur <= curP /\ curP <= pre.at /\ pre.at - published < PrefetchSize
      BY <1>3, <1>5 DEF RingInv, Budget, Publish
    <3>2. \A a \in cur .. pre.at - 1 : a \in published .. pre.at - 1
      BY <1>1, <3>1
    <3>3. \A a \in cur .. pre.at - 1 : a % 4 = 0 => ring[Slot(a)] = a
      BY <1>3, <3>2 DEF RingInv
    <3>4. cur <= cur /\ cur <= pre.at /\ pre.at - cur < PrefetchSize
      BY <1>1, <3>1, Sizes
    <3> QED
      BY <2>2, <2>4, <3>1, <3>3, <3>4 DEF RingInv
  <2> QED
    BY <2>1, <2>3, <2>5 DEF InputInv, Budget
<1>6. CASE Drain
  <2>1. dec'.pc = "barrier"
    BY <1>2, <1>6 DEF Drain
  <2>2. UNCHANGED <<inputVars, ring, curP, pre>>
    BY <1>6 DEF Drain
  <2>3. RingInv' /\ InputInOrder'
    BY <1>3, <2>2 DEF RingInv, InputInOrder, inputVars
  <2> QED
    BY <2>1, <2>3 DEF InputInv, Budget
<1>7. /\ \A n \in LiteralBits \cup ShortBits : n <= w
      /\ \A n \in LengthBits : n <= l
      /\ \A n \in DistanceBits : n <= w - l
  BY DEF NarrowCodes
<1>8. ASSUME NEW short \in Shorts
      PROVE  One(short) \in 0 .. 1 /\ short <= w * One(short) /\ w * (One(short) + 1) = w * One(short) + w
  BY <1>7 DEF Shorts, One
<1>9. dec.pc = "symbol" => 8 * (curP - cur) - bitpos >= 48 * BatchSize - 31 - w * dec.len - 0
  BY <1>1, <1>3, Sizes DEF Budget
<1>10. ASSUME NEW n \in DistanceBits, Distance(n) PROVE InputInv(w, l)'
  <2>1. /\ n \in 0 .. 30 /\ SkipBits(n) /\ UNCHANGED <<published, ringVars, pre>>
        /\ dec.pc = "distance"
    BY <1>10, CodeBits DEF Distance
  <2>2. PICK pc \in {"symbol", "publish"} : dec' = [pc |-> pc, batch |-> dec.batch, len |-> dec.len + 1]
    BY <1>2, <1>10 DEF Distance, Proceed
  <2>3. n + l <= w * 1 + 0 /\ dec.len + 1 <= BatchSize
    BY <1>1, <1>7, <2>1, Sizes
  <2>4. 8 * (curP - cur) - bitpos >= 48 * BatchSize - 31 - w * dec.len - l
    BY <1>3, <2>1 DEF Budget
  <2>5. dec'.len = dec.len + 1 /\ dec'.pc # "distance"
    BY <2>2
  <2> QED
    BY <2>1, <2>3, <2>4, <2>5, LoopInput
<1>11. ASSUME NEW short \in Shorts, BadCode(short) PROVE InputInv(w, l)'
  <2>1. /\ short \in 0 .. 30 /\ SkipBits(short) /\ UNCHANGED <<published, ringVars, pre>>
        /\ dec.pc \in {"symbol", "distance"} /\ (dec.pc = "distance" => short = 0)
    BY <1>11, CodeBits DEF BadCode
  <2>2. dec' = [pc |-> "last", batch |-> dec.batch, len |-> dec.len + One(short)]
    BY <1>2, <1>11 DEF BadCode
  <2>3. dec'.len = dec.len + One(short) /\ dec'.pc = "last" /\ One(short) \in Nat
    BY <1>8, <2>2
  <2>4. CASE dec.pc = "symbol"
    <3>1. short + 0 <= w * One(short) + 0 /\ dec.len + One(short) <= BatchSize
      BY <1>1, <1>8, <2>1, <2>4, Sizes
    <3> QED
      BY <1>9, <2>1, <2>3, <2>4, <3>1, LoopInput
  <2>5. CASE dec.pc = "distance"
    <3>1. short + l <= w * One(short) + l /\ One(short) = 0 /\ dec.len < BatchSize
      BY <1>1, <2>1, <2>5, Sizes DEF One
    <3>2. 8 * (curP - cur) - bitpos >= 48 * BatchSize - 31 - w * dec.len - l
      BY <1>3, <2>5 DEF Budget
    <3>3. dec.len + One(short) < BatchSize /\ dec.len + One(short) <= BatchSize
      BY <1>1, <3>1, Sizes
    <3> QED
      BY <2>1, <2>3, <2>5, <3>1, <3>2, <3>3, LoopInput
  <2> QED
    BY <2>1, <2>4, <2>5
<1>12. ASSUME NEW short \in Shorts, NEW n \in LiteralBits, Literal(short, n) PROVE InputInv(w, l)'
  <2>1. /\ short + n \in 0 .. 30 /\ SkipBits(short + n) /\ UNCHANGED <<published, ringVars, pre>>
        /\ dec.pc = "symbol"
    BY <1>12, CodeBits DEF Literal
  <2>2. PICK pc \in {"symbol", "publish"} :
          dec' = [pc |-> pc, batch |-> dec.batch, len |-> dec.len + (One(short) + 1)]
    BY <1>2, <1>12 DEF Literal, Proceed
  <2>3. dec'.len = dec.len + (One(short) + 1) /\ dec'.pc # "distance" /\ One(short) + 1 \in Nat
    BY <1>8, <2>2
  <2>4. n <= w /\ short \in 0 .. 10 /\ n \in 1 .. 15
    BY <1>7, CodeBits
  <2>5. w * One(short) \in Nat
    BY <1>8
  <2>6. (short + n) + 0 <= w * (One(short) + 1) + 0
    BY <1>8, <2>4, <2>5
  <2>7. dec.len + (One(short) + 1) <= BatchSize
    BY <1>1, <1>8, <2>1, Sizes
  <2> QED
    BY <1>9, <2>1, <2>3, <2>6, <2>7, LoopInput
<1>13. ASSUME NEW short \in Shorts, NEW n \in LiteralBits, EndOfBlock(short, n) PROVE InputInv(w, l)'
  <2>1. /\ short + n \in 0 .. 30 /\ SkipBits(short + n) /\ UNCHANGED <<published, ringVars, pre>>
        /\ dec.pc = "symbol"
    BY <1>13, CodeBits DEF EndOfBlock
  <2>2. dec' = [pc |-> "last", batch |-> dec.batch, len |-> dec.len + One(short)]
    BY <1>2, <1>13 DEF EndOfBlock
  <2>3. dec'.len = dec.len + One(short) /\ dec'.pc = "last" /\ One(short) \in Nat
    BY <1>8, <2>2
  <2>4. n <= w /\ short \in 0 .. 10 /\ n \in 1 .. 15 /\ w * One(short) \in Nat
    BY <1>7, <1>8, CodeBits
  <2>5. (short + n) + 0 <= w * One(short) + w
    BY <1>8, <2>4
  <2>6. dec.len + One(short) < BatchSize /\ dec.len + One(short) <= BatchSize
    BY <1>1, <1>8, <2>1, Sizes
  <2> QED
    BY <1>9, <2>1, <2>3, <2>5, <2>6, LoopInput
<1>14. ASSUME NEW short \in Shorts, NEW n \in LengthBits, Length(short, n) PROVE InputInv(w, l)'
  <2>1. /\ short + n \in 0 .. 30 /\ SkipBits(short + n) /\ UNCHANGED <<published, ringVars, pre>>
        /\ dec.pc = "symbol"
    BY <1>14, CodeBits DEF Length
  <2>2. dec' = [pc |-> "distance", batch |-> dec.batch, len |-> dec.len + One(short)]
    BY <1>2, <1>14 DEF Length
  <2>3. dec'.len = dec.len + One(short) /\ dec'.pc = "distance" /\ One(short) \in Nat
    BY <1>8, <2>2
  <2>4. n <= l /\ short \in 0 .. 10 /\ n \in 1 .. 20 /\ w * One(short) \in Nat
    BY <1>7, <1>8, CodeBits
  <2>5. (short + n) + 0 <= w * One(short) + l
    BY <1>8, <2>4
  <2>6. dec.len + One(short) < BatchSize /\ dec.len + One(short) <= BatchSize
    BY <1>1, <1>8, <2>1, Sizes
  <2> QED
    BY <1>9, <2>1, <2>3, <2>5, <2>6, LoopInput
<1> QED
  BY <1>4, <1>5, <1>6, <1>10, <1>11, <1>12, <1>13, <1>14 DEF Decode

LEMMA PrefetchInput ==
  ASSUME NEW w \in Nat, NEW l \in Nat, Types, InputInv(w, l), Prefetch
  PROVE  InputInv(w, l)'
<1>1. /\ cur \in Nat /\ bitpos \in 0 .. 31 /\ curP \in Nat /\ published \in Nat /\ pre.at \in Nat
      /\ dec.len \in 0 .. BatchSize /\ ring \in [Words(0, PrefetchSize) -> Int]
      /\ pre = [pc |-> pre.pc, at |-> pre.at]
  BY DEF Types, TypeOK
<1>2. RingInv /\ InputInOrder /\ Budget(w, l)
  BY DEF InputInv
<1>3. /\ published <= cur /\ curP <= pre.at
      /\ published <= pre.at /\ pre.at - published < PrefetchSize
      /\ \A a \in published .. pre.at - 1 : a % 4 = 0 => ring[Slot(a)] = a
  BY <1>2 DEF RingInv
<1>4. CASE Look
  <2>1. pre'.at = pre.at /\ UNCHANGED <<inputVars, ringVars, dec>>
    BY <1>1, <1>4 DEF Look
  <2> QED
    BY <1>2, <2>1 DEF InputInv, RingInv, InputInOrder, Budget, inputVars, ringVars
<1>5. CASE Fetch
  <2>1. UNCHANGED <<inputVars, curP, run, dec>>
    BY <1>5 DEF Fetch
  <2>2. InputInOrder' /\ Budget(w, l)'
    BY <1>2, <2>1 DEF InputInOrder, Budget, inputVars
  <2>3. CASE ~(pre.at - published < Lead)
    <3>1. pre'.at = pre.at /\ ring' = ring
      BY <1>1, <1>5, <2>3 DEF Fetch
    <3> QED
      BY <1>2, <2>1, <2>2, <3>1 DEF InputInv, RingInv, inputVars
  <2>4. CASE pre.at - published < Lead
    <3> DEFINE W(s) == {a \in Words(pre.at, ChunkSize) : Slot(a) = s}
    <3>1. /\ pre'.at = pre.at + ChunkSize
          /\ ring' = [s \in DOMAIN ring |-> IF W(s) = {} THEN ring[s] ELSE CHOOSE a \in W(s) : TRUE]
      BY <1>5, <2>4 DEF Fetch
    <3>2. pre.at + ChunkSize - published < PrefetchSize - 4
      BY <1>1, <2>4, Sizes DEF Lead
    <3>3. ASSUME NEW a \in published .. pre.at + ChunkSize - 1, a % 4 = 0
          PROVE  ring'[Slot(a)] = a
      <4>1. a \in Nat /\ Slot(a) \in DOMAIN ring
        BY <1>1, <3>3, SlotIsWord
      <4>2. ASSUME NEW c \in W(Slot(a)) PROVE c = a
        <5>1. c \in Nat /\ c >= published /\ c < pre.at + ChunkSize /\ Slot(c) = Slot(a)
          BY <1>1, <1>3, <4>2, Sizes DEF Words
        <5>2. CASE a <= c
          BY <1>1, <3>2, <4>1, <5>1, <5>2, SlotsDiffer, Sizes
        <5>3. CASE c <= a
          BY <1>1, <3>2, <4>1, <5>1, <5>3, SlotsDiffer, Sizes
        <5> QED
          BY <4>1, <5>1, <5>2, <5>3
      <4>3. CASE a < pre.at
        <5>1. ring[Slot(a)] = a
          BY <1>1, <1>3, <3>3, <4>3
        <5>2. W(Slot(a)) # {} => (CHOOSE c \in W(Slot(a)) : TRUE) = a
          BY <4>2
        <5> QED
          BY <3>1, <4>1, <5>1, <5>2
      <4>4. CASE a >= pre.at
        <5>1. a \in W(Slot(a))
          BY <1>1, <3>3, <4>1, <4>4, Sizes DEF Words
        <5>2. (CHOOSE c \in W(Slot(a)) : TRUE) = a
          BY <4>2, <5>1
        <5> QED
          BY <3>1, <4>1, <5>1, <5>2
      <4> QED
        BY <1>1, <4>1, <4>3, <4>4
    <3> HIDE DEF W
    <3>4. published' = published /\ cur' = cur /\ curP' = curP
      BY <2>1 DEF inputVars
    <3>5. /\ curP <= pre.at + ChunkSize /\ published <= pre.at + ChunkSize
          /\ pre.at + ChunkSize - published < PrefetchSize
      BY <1>1, <1>3, <3>2, Sizes
    <3>6. RingInv'
      <4>1. PICK e \in Int : e = pre.at + ChunkSize /\ pre'.at = e
        BY <1>1, <3>1, Sizes
      <4>2. \A a \in published .. e - 1 : a % 4 = 0 => ring'[Slot(a)] = a
        <5>1. e - 1 = pre.at + ChunkSize - 1
          BY <1>1, <4>1, Sizes
        <5> QED
          BY <3>3, <5>1, Zenon
      <4>3. published <= cur
        BY <1>3
      <4>4. curP <= e /\ published <= e /\ e - published < PrefetchSize
        BY <1>1, <3>5, <4>1, Sizes
      <4>5. published' <= cur' /\ curP' <= pre'.at
        BY <3>4, <4>1, <4>3, <4>4
      <4>6. published' <= pre'.at /\ pre'.at - published' < PrefetchSize
        BY <3>4, <4>1, <4>4
      <4>7. \A a \in published' .. pre'.at - 1 : a % 4 = 0 => ring'[Slot(a)] = a
        BY <3>4, <4>1, <4>2
      <4> QED
        BY <4>5, <4>6, <4>7 DEF RingInv
    <3> QED
      BY <2>2, <3>6 DEF InputInv
  <2> QED
    BY <2>3, <2>4
<1>6. CASE PublishFetch
  <2>1. curP' = pre.at /\ pre'.at = pre.at /\ UNCHANGED <<inputVars, ring, run, dec>>
    BY <1>1, <1>6 DEF PublishFetch
  <2>2. RingInv' /\ InputInOrder'
    <3>1. InputInOrder'
      BY <1>2, <2>1 DEF InputInOrder, inputVars
    <3>2. published' = published /\ cur' = cur /\ ring' = ring
      BY <2>1 DEF inputVars
    <3>3. pre.at <= pre.at
      BY <1>1
    <3>4. RingInv'
      BY <1>3, <2>1, <3>2, <3>3 DEF RingInv
    <3> QED
      BY <3>1, <3>4
  <2>3. 8 * (curP' - cur') - bitpos' >= 8 * (curP - cur) - bitpos
    BY <1>1, <1>3, <2>1 DEF inputVars
  <2>4. /\ 8 * (curP' - cur') - bitpos' \in Int /\ 8 * (curP - cur) - bitpos \in Int
        /\ w * dec.len \in Int /\ BatchSize \in Nat
    BY <1>1, <2>1, Sizes DEF inputVars
  <2>5. cur <= curP => cur' <= curP'
    BY <1>1, <1>3, <2>1 DEF inputVars
  <2>6. Budget(w, l)'
    BY <1>2, <2>1, <2>3, <2>4, <2>5 DEF Budget
  <2> QED
    BY <2>2, <2>6 DEF InputInv
<1> QED
  BY <1>4, <1>5, <1>6 DEF Prefetch

\* The word that holds a bit is not before the word of an earlier bit.
LEMMA LaterWord ==
  ASSUME NEW a \in Nat, NEW b \in Nat, NEW d \in 0 .. 31, NEW e \in 0 .. 31,
         a % 4 = 0, b % 4 = 0, 8 * b + e >= 8 * a + d
  PROVE  b >= a
<1>1. a = 4 * (a \div 4) /\ b = 4 * (b \div 4) /\ a \div 4 \in Int /\ b \div 4 \in Int
  OBVIOUS
<1>2. PICK m \in Int, k \in Int : a = 4 * m /\ b = 4 * k
  BY <1>1
<1>3. 32 * k + e >= 32 * m + d
  BY <1>2
<1> QED
  BY <1>2, <1>3

LEMMA BlockInput ==
  ASSUME NEW w \in Nat, NEW l \in Nat, Types, InputInv(w, l), NEW last \in BOOLEAN,
         (\E h \in HeaderBits : CodedBlock(h, last)) \/ (\E n \in StoredBytes : StoredBlock(n, last))
  PROVE  InputInv(w, l)'
<1>1. /\ cur \in Nat /\ cur % 4 = 0 /\ bitpos \in 0 .. 31 /\ published \in Nat /\ pre.at \in Nat
      /\ HeaderBits \subseteq Nat /\ StoredBytes \subseteq Nat
  BY BitsFit DEF Types, TypeOK
<1>2. RingInv
  BY DEF InputInv
<1>3. ASSUME NEW h \in HeaderBits, CodedBlock(h, last) PROVE InputInv(w, l)'
  <2>1. 8 * cur + bitpos + h \in Nat /\ Seek(8 * cur + bitpos + h)
    BY <1>1, <1>3 DEF CodedBlock
  <2>2. cur' \in Nat /\ InputInOrder'
    BY <2>1, SeekTypes DEF InputInOrder
  <2>3. published' = cur' /\ curP' = cur' /\ pre'.at = cur' /\ dec'.pc = "wait"
    BY <1>3 DEF CodedBlock
  <2>4. RingInv'
    <3>1. PICK c \in Nat : c = cur'
      BY <2>2
    <3>2. c <= c /\ c - c < PrefetchSize /\ c .. c - 1 = {}
      BY Sizes
    <3>3. published' = c /\ curP' = c /\ pre'.at = c
      BY <2>3, <3>1
    <3> QED
      BY <3>1, <3>2, <3>3 DEF RingInv
  <2> QED
    BY <2>2, <2>3, <2>4 DEF InputInv, Budget
<1>4. ASSUME NEW n \in StoredBytes, StoredBlock(n, last) PROVE InputInv(w, l)'
  <2> DEFINE p == ((8 * cur + bitpos + 3 + 7) \div 8) * 8 + 32 + 8 * n
  <2>1. p \in Nat /\ p >= 8 * cur + bitpos /\ Seek(p)
    BY <1>1, <1>4 DEF StoredBlock
  <2> HIDE DEF p
  <2>2. /\ cur' \in Nat /\ bitpos' \in 0 .. 31 /\ 8 * cur' + bitpos' = p /\ cur' % 4 = 0
        /\ InputInOrder'
    BY <2>1, SeekTypes DEF InputInOrder
  <2>3. cur' >= cur
    <3>1. PICK c \in Nat, e \in 0 .. 31 : c = cur' /\ e = bitpos'
      BY <2>2
    <3>2. 8 * c + e >= 8 * cur + bitpos /\ c % 4 = 0
      BY <2>1, <2>2, <3>1
    <3>3. c >= cur
      BY <1>1, <3>2, LaterWord
    <3> QED
      BY <3>1, <3>3
  <2>4. UNCHANGED <<published, ringVars, dec, pre>> /\ dec.pc = "barrier"
    BY <1>4 DEF StoredBlock, NewBlock, Between, AtBarrier
  <2>5. RingInv'
    BY <1>1, <1>2, <2>2, <2>3, <2>4 DEF RingInv, ringVars
  <2> QED
    BY <2>2, <2>4, <2>5 DEF InputInv, Budget
<1> QED
  BY <1>3, <1>4

LEMMA StepInput ==
  ASSUME NEW w \in Nat, NEW l \in Nat, NarrowCodes(w, l), l <= w, Types, InputInv(w, l), [Next]_vars
  PROVE  InputInv(w, l)'
<1>1. ASSUME UNCHANGED <<inputVars, ringVars, dec, pre>> PROVE InputInv(w, l)'
  BY <1>1 DEF InputInv, RingInv, InputInOrder, Budget, inputVars, ringVars
<1>2. CASE Consume
  BY <1>1, <1>2 DEF Consume, Poll, Read, Write
<1>3. CASE BadBlock
  BY <1>1, <1>3 DEF BadBlock
<1>4. CASE UNCHANGED vars
  BY <1>1, <1>4 DEF vars
<1> QED
  BY <1>2, <1>3, <1>4, DecodeInput, PrefetchInput, BlockInput DEF Next, Terminated

LEMMA InitInput ==
  ASSUME NEW w \in Nat, NEW l \in Nat, Init
  PROVE  InputInv(w, l)
<1>1. RingInv
  BY Sizes DEF Init, RingInv
<1> QED
  BY <1>1 DEF Init, InputInv, InputInOrder, Budget

\* No word is read from the ring before it is there or after it was replaced, if a symbol
\* takes at most w bits and (48 - w) * BatchSize >= 64: with 32 symbols, 46 bits.
THEOREM InputStaysInOrder ==
  ASSUME NEW w \in Nat, NEW l \in 0 .. w, NarrowCodes(w, l)
  PROVE  Spec => []InputInOrder
<1>1. Init => Types /\ InputInv(w, l)
  BY InitTypes, InitInput
<1>2. Types /\ InputInv(w, l) /\ [Next]_vars => Types' /\ InputInv(w, l)'
  BY StepTypes, StepInput
<1>3. InputInv(w, l) => InputInOrder
  BY DEF InputInv
<1> QED
  BY <1>1, <1>2, <1>3, PTL DEF Spec

=============================================================================
