----------------------------- MODULE GpuInflate -----------------------------
(***************************************************************************)
(* The DEFLATE kernel of libcudf (cpp/src/io/comp/gpuinflate.cu): a thread    *)
(* block decompresses one stream.  For each compressed block of the stream    *)
(* three warps form a pipeline in shared memory, without barriers: the        *)
(* prefetcher copies input words into a ring, the decoder takes bits from it   *)
(* and queues symbols in batches, the consumer turns batches into output.      *)
(*                                                                         *)
(* Input positions are byte addresses of 32-bit words; a word is known by its  *)
(* address, so that the ring holds addresses.  Symbols are numbered as they    *)
(* are decoded.  How many bits a code takes is an input.                     *)
(***************************************************************************)
EXTENDS Integers, Sequences

CONSTANTS
  BatchCount, BatchSize,   \* batches of the symbol queue, symbols of a batch
  PrefetchSize, ChunkSize, \* bytes of the ring, bytes the warp fetches at once
  LiteralBits,  \* bits that a literal or the end-of-block code may take
  LengthBits,   \* bits of a length code with its extra bits
  DistanceBits, \* bits of a distance code with its extra bits
  ShortBits,    \* bits of a literal in the lookup table, decoded two at a time
  HeaderBits,   \* bits of a coded block's header and tables
  StoredBytes,  \* bytes of a stored block
  InputEnd,     \* s->end
  MaxBlocks     \* bound: blocks of a stream

ASSUME SizesFit ==
  /\ {BatchCount, BatchSize, PrefetchSize, ChunkSize, InputEnd, MaxBlocks} \subseteq Nat \ {0}
  /\ BatchSize > 1 \* a literal may come with a short one
  /\ PrefetchSize % 4 = 0 /\ ChunkSize % 4 = 0
ASSUME BitsFit ==
  /\ LiteralBits \subseteq 1 .. 15 /\ ShortBits \subseteq 1 .. 10
  /\ LengthBits \subseteq 1 .. 20 /\ DistanceBits \subseteq 1 .. 28
  /\ HeaderBits \subseteq Nat /\ StoredBytes \subseteq Nat

\* "a worst-case of 48 bits per symbol"
Margin == BatchSize * 6
\* How far the prefetcher gets ahead of the position the decoder published.
Lead == PrefetchSize - ChunkSize - 4

VARIABLES
  cur, bitpos, bitbuf, \* the decoder's position and its two words
  published,  \* s->cur
  ring,       \* s->pref.pref_data
  curP, run,  \* s->pref.cur_p, s->pref.run
  batchLen,   \* s->x.batch_len: < 0 end, 0 not ready, > 0 symbol count
  queue,      \* s->x.u.symqueue
  err, blast, \* s->err (some error), s->blast
  dec,        \* [pc, batch, len]: thread 0 of warp 0
  con,        \* [pc, batch, len, symbols]: warp 1
  pre,        \* [pc, at]: warp 2 and its own cur_p
  decoded,    \* symbols decoded so far
  out,        \* symbols written to the output so far
  blocks      \* compressed blocks so far

inputVars == <<cur, bitpos, bitbuf, published>>
ringVars == <<ring, curP, run>>
queueVars == <<batchLen, queue>>
kernelVars == <<err, blast, blocks>>
vars == <<inputVars, ringVars, queueVars, kernelVars, dec, con, pre, decoded, out>>

Slot(a) == a % PrefetchSize
Words(a, n) == {w \in a .. a + n - 1 : w % 4 = 0}

(***************************************************************************)
(* Warp 0: decode_symbols.                                                  *)
(***************************************************************************)
\* Mutant: the batch may still be with the consumer.
StartBatchBusy ==
  /\ dec.pc = "wait"
  /\ curP - cur >= Margin
  /\ IF cur + bitpos \div 8 >= InputEnd
     THEN err' = TRUE /\ dec' = [dec EXCEPT !.pc = "drain"]
     ELSE dec' = [dec EXCEPT !.pc = "symbol", !.len = 0] /\ UNCHANGED err
  /\ UNCHANGED <<inputVars, ringVars, queueVars, blast, blocks, con, pre, decoded, out>>

\* Mutant: the wait allows for 32 bits per symbol.
StartBatchEarly ==
  /\ dec.pc = "wait"
  /\ curP - cur >= BatchSize * 4 /\ batchLen[dec.batch] = 0
  /\ IF cur + bitpos \div 8 >= InputEnd
     THEN err' = TRUE /\ dec' = [dec EXCEPT !.pc = "drain"]
     ELSE dec' = [dec EXCEPT !.pc = "symbol", !.len = 0] /\ UNCHANGED err
  /\ UNCHANGED <<inputVars, ringVars, queueVars, blast, blocks, con, pre, decoded, out>>

\* The wait for input and for an empty batch, and the check for the end.
StartBatch ==
  /\ dec.pc = "wait"
  /\ curP - cur >= Margin /\ batchLen[dec.batch] = 0
  /\ IF cur + bitpos \div 8 >= InputEnd
     THEN err' = TRUE /\ dec' = [dec EXCEPT !.pc = "drain"]
     ELSE dec' = [dec EXCEPT !.pc = "symbol", !.len = 0] /\ UNCHANGED err
  /\ UNCHANGED <<inputVars, ringVars, queueVars, blast, blocks, con, pre, decoded, out>>

\* n more bits are used up; a new word comes from the ring.
SkipBits(n) ==
  IF bitpos + n < 32
  THEN bitpos' = bitpos + n /\ UNCHANGED <<cur, bitbuf>>
  ELSE /\ bitpos' = bitpos + n - 32
       /\ bitbuf' = <<bitbuf[2], ring[Slot(cur + 8)]>>
       /\ cur' = cur + 4

\* n symbols are appended to the batch.
Put(n) ==
  /\ queue' = [queue EXCEPT ![dec.batch] =
       [i \in 1 .. BatchSize |->
          IF i > dec.len /\ i <= dec.len + n THEN decoded + i - dec.len ELSE @[i]]]
  /\ decoded' = decoded + n

\* Mutant: the loop goes on with room for one symbol only.
ProceedFull(n) ==
  dec' = [dec EXCEPT !.len = @ + n,
                     !.pc = IF dec.len + n < BatchSize THEN "symbol" ELSE "publish"]

\* After the batch got its n symbols: the inner loop's condition leaves room for
\* the two symbols of another pass.
Proceed(n) ==
  dec' = [dec EXCEPT !.len = @ + n,
                     !.pc = IF dec.len + n < BatchSize - 1 THEN "symbol" ELSE "publish"]

\* A short literal may be decoded together with the code that follows it:
\* short is the bits it took, 0 when there was none.
Shorts == ShortBits \cup {0}
One(short) == IF short = 0 THEN 0 ELSE 1

Literal(short, n) ==
  /\ dec.pc = "symbol"
  /\ SkipBits(short + n)
  /\ Put(One(short) + 1) /\ Proceed(One(short) + 1)
  /\ UNCHANGED <<published, ringVars, batchLen, kernelVars, con, pre, out>>

\* A length code: its distance comes next.
Length(short, n) ==
  /\ dec.pc = "symbol"
  /\ SkipBits(short + n)
  /\ Put(One(short))
  /\ dec' = [dec EXCEPT !.len = @ + One(short), !.pc = "distance"]
  /\ UNCHANGED <<published, ringVars, batchLen, kernelVars, con, pre, out>>

Distance(n) ==
  /\ dec.pc = "distance"
  /\ SkipBits(n)
  /\ Put(1) /\ Proceed(1)
  /\ UNCHANGED <<published, ringVars, batchLen, kernelVars, con, pre, out>>

EndOfBlock(short, n) ==
  /\ dec.pc = "symbol"
  /\ SkipBits(short + n)
  /\ Put(One(short))
  /\ dec' = [dec EXCEPT !.len = @ + One(short), !.pc = "last"]
  /\ UNCHANGED <<published, ringVars, batchLen, kernelVars, con, pre, out>>

\* No code has these bits: err = -10, and the block ends.
BadCode(short) ==
  /\ dec.pc \in {"symbol", "distance"} /\ (dec.pc = "distance" => short = 0)
  /\ SkipBits(short)
  /\ Put(One(short))
  /\ dec' = [dec EXCEPT !.len = @ + One(short), !.pc = "last"]
  /\ err' = TRUE
  /\ UNCHANGED <<published, ringVars, batchLen, blast, blocks, con, pre, out>>

\* Mutant: the prefetcher is not told how far the decoder has come.
PublishQueueOnly ==
  /\ dec.pc \in {"publish", "last"}
  /\ batchLen' = [batchLen EXCEPT ![dec.batch] = dec.len]
  /\ dec' = [dec EXCEPT !.pc = IF dec.pc = "last" THEN "drain" ELSE "wait",
                        !.batch = IF dec.len # 0 THEN (@ + 1) % BatchCount ELSE @]
  /\ UNCHANGED <<inputVars, ringVars, queue, kernelVars, con, pre, decoded, out>>

Publish ==
  /\ dec.pc \in {"publish", "last"}
  /\ batchLen' = [batchLen EXCEPT ![dec.batch] = dec.len]
  /\ published' = cur
  /\ dec' = [dec EXCEPT !.pc = IF dec.pc = "last" THEN "drain" ELSE "wait",
                        !.batch = IF dec.len # 0 THEN (@ + 1) % BatchCount ELSE @]
  /\ UNCHANGED <<cur, bitpos, bitbuf, ringVars, queue, kernelVars, con, pre, decoded, out>>

\* Mutant: the end is marked whether or not the batch was taken.
DrainAtOnce ==
  /\ dec.pc = "drain"
  /\ batchLen' = [batchLen EXCEPT ![dec.batch] = -1]
  /\ run' = FALSE
  /\ dec' = [dec EXCEPT !.pc = "barrier"]
  /\ UNCHANGED <<inputVars, ring, curP, queue, kernelVars, con, pre, decoded, out>>

\* The end mark goes into the next batch once it is empty; then the prefetcher
\* is stopped.
Drain ==
  /\ dec.pc = "drain" /\ batchLen[dec.batch] = 0
  /\ batchLen' = [batchLen EXCEPT ![dec.batch] = -1]
  /\ run' = FALSE
  /\ dec' = [dec EXCEPT !.pc = "barrier"]
  /\ UNCHANGED <<inputVars, ring, curP, queue, kernelVars, con, pre, decoded, out>>

Decode ==
  \/ StartBatch \/ Publish \/ Drain
  \/ \E n \in DistanceBits : Distance(n)
  \/ \E short \in Shorts :
       \/ BadCode(short)
       \/ \E n \in LiteralBits : Literal(short, n) \/ EndOfBlock(short, n)
       \/ \E n \in LengthBits : Length(short, n)

(***************************************************************************)
(* Warp 1: process_symbols.                                                 *)
(***************************************************************************)
\* Lane 0 polls the batch's length.
Poll ==
  /\ con.pc = "poll" /\ batchLen[con.batch] # 0
  /\ con' = IF batchLen[con.batch] < 0
            THEN [con EXCEPT !.pc = "barrier"]
            ELSE [con EXCEPT !.pc = "read", !.len = batchLen[con.batch]]
  /\ UNCHANGED <<inputVars, ringVars, queueVars, kernelVars, dec, pre, decoded, out>>

\* Every lane has its symbol when the ballot returns; then the batch is free.
Read ==
  /\ con.pc = "read"
  /\ con' = [con EXCEPT !.pc = "write", !.symbols = SubSeq(queue[con.batch], 1, con.len)]
  /\ batchLen' = [batchLen EXCEPT ![con.batch] = 0]
  /\ UNCHANGED <<inputVars, ringVars, queue, kernelVars, dec, pre, decoded, out>>

\* Literals and matches are written in the batch's order.
Write ==
  /\ con.pc = "write"
  /\ out' = out + Len(con.symbols)
  /\ con' = [pc |-> "poll", batch |-> (con.batch + 1) % BatchCount,
             len |-> 0, symbols |-> <<>>]
  /\ UNCHANGED <<inputVars, ringVars, queueVars, kernelVars, dec, pre, decoded>>

Consume == Poll \/ Read \/ Write

(***************************************************************************)
(* Warp 2: prefetch_warp.                                                   *)
(***************************************************************************)
Look ==
  /\ pre.pc = "look"
  /\ pre' = [pre EXCEPT !.pc = IF run THEN "fetch" ELSE "barrier"]
  /\ UNCHANGED <<inputVars, ringVars, queueVars, kernelVars, dec, con, decoded, out>>

\* The warp copies a chunk, if the decoder has published that it is past what
\* the chunk overwrites.
Fetch ==
  /\ pre.pc = "fetch"
  /\ IF pre.at - published < Lead
     THEN /\ ring' = [s \in DOMAIN ring |->
               LET w == {a \in Words(pre.at, ChunkSize) : Slot(a) = s}
               IN  IF w = {} THEN ring[s] ELSE CHOOSE a \in w : TRUE]
          /\ pre' = [pc |-> "publish", at |-> pre.at + ChunkSize]
     ELSE pre' = [pre EXCEPT !.pc = "look"] /\ UNCHANGED ring
  /\ UNCHANGED <<inputVars, curP, run, queueVars, kernelVars, dec, con, decoded, out>>

PublishFetch ==
  /\ pre.pc = "publish"
  /\ curP' = pre.at
  /\ pre' = [pre EXCEPT !.pc = "look"]
  /\ UNCHANGED <<inputVars, ring, run, queueVars, kernelVars, dec, con, decoded, out>>

Prefetch == Look \/ Fetch \/ PublishFetch

(***************************************************************************)
(* inflate_kernel.                                                          *)
(***************************************************************************)
AtBarrier == dec.pc = "barrier" /\ con.pc = "barrier" /\ pre.pc = "barrier"
Finished == AtBarrier /\ (err \/ blast)

\* The bits of the stream up to position p are used up, from global memory.
Seek(p) == /\ cur' = (p \div 32) * 4
           /\ bitpos' = p % 32
           /\ bitbuf' = <<(p \div 32) * 4, (p \div 32) * 4 + 4>>

Between == AtBarrier /\ ~err /\ ~blast
HasInput == cur + bitpos \div 8 < InputEnd
NewBlock(last) == /\ Between /\ HasInput
                  /\ blocks < MaxBlocks /\ blocks' = blocks + 1
                  /\ blast' = last

\* No input is left for another block, or its header or tables are wrong: err
\* ends the kernel, and the position no longer matters.
BadBlock ==
  /\ Between
  /\ err' = TRUE
  /\ UNCHANGED <<inputVars, ringVars, queueVars, blast, blocks, dec, con, pre, decoded, out>>

\* A block of n stored bytes, which all threads copy: it begins at a byte, with
\* its length and the complement of it.
StoredBlock(n, last) ==
  LET p == ((8 * cur + bitpos + 3 + 7) \div 8) * 8 + 32 + 8 * n
  IN  /\ NewBlock(last)
      /\ p <= 8 * InputEnd
      /\ Seek(p)
      /\ UNCHANGED <<published, ringVars, queueVars, err, dec, con, pre, decoded, out>>

\* Thread 0 reads a block's header; the tables, the prefetcher and the queue
\* are set up, and __syncthreads lets the warps go.
CodedBlock(h, last) ==
  /\ NewBlock(last)
  /\ Seek(8 * cur + bitpos + h)
  /\ published' = cur'
  /\ curP' = cur' /\ run' = TRUE
  /\ batchLen' = [b \in 0 .. BatchCount - 1 |-> 0]
  /\ dec' = [pc |-> "wait", batch |-> 0, len |-> 0]
  /\ con' = [pc |-> "poll", batch |-> 0, len |-> 0, symbols |-> <<>>]
  /\ pre' = [pc |-> "look", at |-> cur']
  /\ UNCHANGED <<ring, queue, err, decoded, out>>

Terminated == Finished /\ UNCHANGED vars

\* The stream starts at any byte of its first word.
Init ==
  /\ bitpos \in {0, 8, 16, 24}
  /\ cur = 0 /\ bitbuf = <<0, 4>> /\ published = 0
  /\ ring = [s \in Words(0, PrefetchSize) |-> -1]
  /\ curP = 0 /\ run = FALSE
  /\ batchLen = [b \in 0 .. BatchCount - 1 |-> 0]
  /\ queue = [b \in 0 .. BatchCount - 1 |-> [i \in 1 .. BatchSize |-> 0]]
  /\ err = FALSE /\ blast = FALSE /\ blocks = 0
  /\ dec = [pc |-> "barrier", batch |-> 0, len |-> 0]
  /\ con = [pc |-> "barrier", batch |-> 0, len |-> 0, symbols |-> <<>>]
  /\ pre = [pc |-> "barrier", at |-> 0]
  /\ decoded = 0 /\ out = 0

Next ==
  \/ Decode \/ Consume \/ Prefetch
  \/ BadBlock \/ Terminated
  \/ \E last \in BOOLEAN :
       \/ \E h \in HeaderBits : CodedBlock(h, last)
       \/ \E n \in StoredBytes : StoredBlock(n, last)

Spec == Init /\ [][Next]_vars

\* The warps of a resident thread block all make progress, whatever the others
\* do: their busy waits rely on it.
FairSpec == /\ Spec
            /\ WF_vars(Decode) /\ WF_vars(Consume) /\ WF_vars(Prefetch)

(***************************************************************************)
(* Properties.                                                              *)
(***************************************************************************)
TypeOK ==
  /\ cur \in Nat /\ cur % 4 = 0 /\ bitpos \in 0 .. 31
  /\ bitbuf \in Int \X Int
  /\ ring \in [Words(0, PrefetchSize) -> Int]
  /\ batchLen \in [0 .. BatchCount - 1 -> -1 .. BatchSize]
  /\ queue \in [0 .. BatchCount - 1 -> [1 .. BatchSize -> Nat]]
  /\ dec.batch \in 0 .. BatchCount - 1 /\ dec.len \in 0 .. BatchSize
  /\ con.batch \in 0 .. BatchCount - 1 /\ con.len \in 0 .. BatchSize

\* The decoder's two words are those of its position in the input: none was
\* read from the ring before the prefetcher put it there or after it put
\* another in its place.
InputInOrder == bitbuf = <<cur, cur + 4>>

\* The consumer writes the symbols in the order they were decoded, each once.
OutputInOrder ==
  con.pc = "write" => con.symbols = [i \in 1 .. con.len |-> out + i]

\* When the warps meet, every symbol of the block has been written.
BlockIsComplete == AtBarrier => out = decoded

\* Every block comes to its end: no warp waits for ever for another.
BlocksEnd == dec.pc = "wait" ~> AtBarrier
=============================================================================
