------------------------------ MODULE SplitScan ------------------------------
(***************************************************************************)
(* multibyte_split of libcudf (cpp/src/io/text/multibyte_split.cu): a text is  *)
(* split at every occurrence of a delimiter.  The host reads the text chunk by *)
(* chunk and runs a kernel on each; a thread block takes a tile of the chunk.  *)
(* What a block must know of the text before its tile, how much of a delimiter *)
(* has been seen and how many delimiters were found, comes from two look-back   *)
(* scans across the blocks, which go on from one kernel to the next.           *)
(*                                                                         *)
(* Characters are numbers; those of the result are known by their position.    *)
(***************************************************************************)
EXTENDS Integers, Sequences, FiniteSets

CONSTANTS
  Requests,
    \* [text, delim, offset, size, strip: the arguments of the call;
    \*  file: <<>> or the block-gzipped file that holds the text;
    \*  resident: how many thread blocks the device runs at once;
    \*  junk: what registers hold that no byte was loaded to]
  ThreadBytes,    \* ITEMS_PER_THREAD
  TileBytes,      \* ITEMS_PER_TILE
  TilesPerChunk,  \* TILES_PER_CHUNK
  SpareTiles,     \* slots of the rings beyond those of two chunks
  LoadSize        \* of BgzipReader

\* A tile is THREADS_PER_TILE times as long as what a thread takes.
ASSUME SizesAssumption ==
  /\ ThreadBytes \in Nat \ {0} /\ TileBytes \in Nat \ {0} /\ TileBytes % ThreadBytes = 0
  /\ TilesPerChunk \in Nat \ {0} /\ SpareTiles \in Nat
\* An empty delimiter, which the code takes, has no meaning here.
ASSUME RequestsAssumption ==
  \A r \in Requests :
    /\ r.text \in Seq(Int) /\ r.delim \in Seq(Int) \ {<<>>} /\ r.junk \in Int
    /\ r.offset \in Nat /\ r.size \in Nat /\ r.strip \in BOOLEAN /\ r.resident \in Nat \ {0}

ChunkBytes == TileBytes * TilesPerChunk
MaxSegmentCount == 7
MaxSegmentValue == 15

VARIABLES
  request,
  host,     \* [pc, chunk, chunkOffset, base, tiles, first, last]: the locals of multibyte_split
  reader,   \* the source's reader
  rows,     \* row_offset_storage
  chars,    \* char_storage
  tile,     \* [pc, matches]: how far the blocks of the kernel are, thread_match_mask
  result,   \* the rows of the column returned
  stateStatus, statePartial, stateInclusive, stateFrame,  \* tile_multistates
  countStatus, countPartial, countInclusive, countFrame   \* tile_offsets
stateVars == <<stateStatus, statePartial, stateInclusive, stateFrame>>
countVars == <<countStatus, countPartial, countInclusive, countFrame>>
hostVars == <<host, reader, rows, chars, result>>
splitVars == <<request, hostVars, tile, stateVars, countVars>>

(***************************************************************************)
(* Multistates: how much of the delimiter was matched before some bytes, and  *)
(* how much is after them, for all that it may have been.                     *)
(***************************************************************************)
Start == {<<0, 0>>}
TransitionInit(delim, c) ==
  Start \cup {<<i, i + 1>> : i \in {j \in 0 .. Len(delim) - 1 : delim[j + 1] = c}}
Transition(delim, c, state) ==
  Start \cup {<<s[1], s[2] + 1>> : s \in {t \in state : t[2] < Len(delim) /\ delim[t[2] + 1] = c}}
Join(lhs, rhs) == UNION {{<<l[1], r[2]>> : r \in {s \in rhs : s[1] = l[2]}} : l \in lhs}
MaxTail(state) == CHOOSE t \in {s[2] : s \in state} : \A s \in state : s[2] <= t
Sum(m, n) == m + n

SlotCount == IF 2 * TilesPerChunk + SpareTiles > 3 THEN 2 * TilesPerChunk + SpareTiles ELSE 3
States == INSTANCE LookBack WITH
  NumTiles <- SlotCount, Plus <- Join, Seed <- Start, Garbage <- {},
  status <- stateStatus, partial <- statePartial, inclusive <- stateInclusive, frame <- stateFrame
Counts == INSTANCE LookBack WITH
  NumTiles <- SlotCount, Plus <- Sum, Seed <- 0, Garbage <- 99,
  status <- countStatus, partial <- countPartial, inclusive <- countInclusive, frame <- countFrame
Builder == INSTANCE OutputBuilder WITH MaxWrite <- ChunkBytes, MaxGrowth <- 8
Bgzip == INSTANCE BgzipReader

(***************************************************************************)
(* The source.                                                              *)
(***************************************************************************)
IsBgzip == request.file # <<>>
NewReader == IF IsBgzip THEN Bgzip!NewReader(request.file) ELSE [position |-> 0]

Lesser(a, b) == IF a < b THEN a ELSE b
Greater(a, b) == IF a < b THEN b ELSE a

\* skip_bytes and get_next_chunk of the reader; those of host and device spans read what is left.
Skip(r, n) ==
  IF IsBgzip THEN Bgzip!SkipBytes(request.file, r, n)
  ELSE [position |-> Lesser(n, Len(request.text))]
NextChunk(r) ==
  IF IsBgzip THEN Bgzip!NextChunk(request.file, r, ChunkBytes)
  ELSE LET n == Lesser(ChunkBytes, Len(request.text) - r.position)
       IN  [bytes |-> [i \in 1 .. n |-> r.position + i], reader |-> [position |-> r.position + n]]

(***************************************************************************)
(* A thread block.                                                          *)
(***************************************************************************)
\* The characters of the threads of a block; past the chunk's end, what was in the registers.
CharAt(p) == IF p <= Len(host.chunk) THEN request.text[host.chunk[p]] ELSE request.junk
Threads == 0 .. TileBytes \div ThreadBytes - 1
FirstByte(b) == (b - host.base) * TileBytes
ThreadByte(b, thread, i) == FirstByte(b) + thread * ThreadBytes + i

ThreadState(b, thread) ==
  LET after[i \in 1 .. ThreadBytes] ==
        IF i = 1 THEN TransitionInit(request.delim, CharAt(ThreadByte(b, thread, 1)))
        ELSE Transition(request.delim, CharAt(ThreadByte(b, thread, i)), after[i - 1])
  IN  after[ThreadBytes]

\* The block's scan: the state before each thread, given the one before the block, and the
\* aggregate of the threads before it.
BlockScan(b) ==
  LET before[t \in 1 .. Cardinality(Threads)] ==
        IF t = 1 THEN ThreadState(b, 0) ELSE Join(before[t - 1], ThreadState(b, t - 1))
  IN  before
StateBefore(b, thread, prefix) == IF thread = 0 THEN prefix ELSE Join(prefix, BlockScan(b)[thread])
BlockState(b) == BlockScan(b)[Cardinality(Threads)]

\* The match flags of a thread that starts in `state': the places of its last bytes of delimiters.
Matches(b, thread, state) ==
  LET after[i \in 0 .. ThreadBytes] ==
        IF i = 0 THEN state ELSE Transition(request.delim, CharAt(ThreadByte(b, thread, i)), after[i - 1])
      at(i) == ThreadByte(b, thread, i)
  IN  {at(i) : i \in {j \in 1 .. ThreadBytes : at(j) <= Len(host.chunk) /\ MaxTail(after[j]) = Len(request.delim)}}
BlockMatches(b) ==
  IF Len(request.delim) = 1
  THEN {p \in FirstByte(b) + 1 .. FirstByte(b) + TileBytes : p <= Len(host.chunk) /\ CharAt(p) = request.delim[1]}
  ELSE UNION {Matches(b, t, StateBefore(b, t, States!ExclusivePrefix(b))) : t \in Threads}

\* Blocks are dispatched in order, as earlier ones end.
Blocks == host.base .. host.base + host.tiles - 1
Dispatched(b) == Cardinality({c \in Blocks : c < b /\ tile[c].pc # "done"}) < request.resident

\* The pattern scan begins, except in byte_split_kernel.
ScanStates(b) ==
  /\ tile[b].pc = "loaded" /\ Dispatched(b) /\ Len(request.delim) > 1
  /\ States!Call(b, BlockState(b))
  /\ tile' = [tile EXCEPT ![b].pc = "states"]
  /\ UNCHANGED <<request, hostVars, countVars>>

\* Matches are flagged and the scan of their number begins.
ScanCounts(b) ==
  /\ IF Len(request.delim) = 1 THEN tile[b].pc = "loaded" /\ Dispatched(b)
     ELSE tile[b].pc = "states" /\ States!Returned(b)
  /\ tile' = [tile EXCEPT ![b] = [pc |-> "counts", matches |-> BlockMatches(b)]]
  /\ Counts!Call(b, Cardinality(tile'[b].matches))
  /\ UNCHANGED <<request, hostVars, stateVars>>

LookBackStates(b) ==
  /\ tile[b].pc = "states" /\ States!Step(b)
  /\ UNCHANGED <<request, hostVars, tile, countVars>>
LookBackCounts(b) ==
  /\ tile[b].pc = "counts" /\ Counts!Step(b)
  /\ UNCHANGED <<request, hostVars, tile, stateVars>>

\* Each match goes to the row offset of its number.
Rank(p, s) == Cardinality({q \in s : q < p})
WriteOffsets(b) ==
  LET found == tile[b].matches
      first == Counts!ExclusivePrefix(b) - rows.size
      written == [k \in first .. first + Cardinality(found) - 1 |->
                   host.chunkOffset + CHOOSE p \in found : Rank(p, found) = k - first]
  IN  /\ tile[b].pc = "counts" /\ Counts!Returned(b)
      /\ rows' = Builder!Written(rows, written)
      /\ tile' = [tile EXCEPT ![b] = [pc |-> "done", matches |-> {}]]
      /\ UNCHANGED <<request, host, reader, chars, result, stateVars, countVars>>

Block(b) ==
  \/ ScanStates(b) \/ ScanCounts(b) \/ LookBackStates(b) \/ LookBackCounts(b) \/ WriteOffsets(b)

(***************************************************************************)
(* The host.                                                                *)
(***************************************************************************)
NoOffset == -1
RangeEnd == request.offset + request.size

\* Mutant: as many duplicates as segments.
AcceptsSeven(delim) ==
  /\ \A c \in DOMAIN delim : Cardinality({i \in DOMAIN delim : delim[i] = delim[c]}) <= MaxSegmentCount
  /\ Len(delim) < MaxSegmentValue

\* "too many duplicate tokens", "too many total tokens"
Accepts(delim) ==
  /\ \A c \in DOMAIN delim : Cardinality({i \in DOMAIN delim : delim[i] = delim[c]}) < MaxSegmentCount
  /\ Len(delim) < MaxSegmentValue

Init ==
  /\ request \in Requests
  /\ host = [pc |-> "start", chunk |-> <<>>, chunkOffset |-> 0, base |-> 0, tiles |-> 0,
             first |-> NoOffset, last |-> NoOffset]
  /\ reader = NewReader /\ rows = Builder!NewBuilder /\ chars = Builder!NewBuilder
  /\ tile = <<>> /\ result = <<>>
  /\ States!Init(TilesPerChunk) /\ Counts!Init(TilesPerChunk)

Fails ==
  /\ host.pc = "start" /\ request.size > 0 /\ ~Accepts(request.delim)
  /\ host' = [host EXCEPT !.pc = "failed"]
  /\ UNCHANGED <<request, reader, rows, chars, result, tile, stateVars, countVars>>

ReturnAtOnce ==
  /\ host.pc = "start" /\ request.size = 0
  /\ host' = [host EXCEPT !.pc = "done"]
  /\ UNCHANGED <<request, reader, rows, chars, result, tile, stateVars, countVars>>

\* Mutant: reading starts where the range does.
FirstOffsetExact == request.offset

\* Where reading starts: a delimiter that ends where the range begins is found as well.
FirstOffset == Greater(0, request.offset - Len(request.delim))

Begin ==
  LET next == NextChunk(Skip(reader, FirstOffset))
  IN  /\ host.pc = "start" /\ request.size > 0 /\ Accepts(request.delim)
      /\ host' = [host EXCEPT !.pc = "loop", !.chunk = next.bytes, !.chunkOffset = FirstOffset,
                              !.first = IF request.offset = 0 THEN 0 ELSE NoOffset]
      /\ reader' = next.reader
      /\ UNCHANGED <<request, rows, chars, result, tile, stateVars, countVars>>

\* Every row that begins in the range was found, or the range has none.
RangeIsDone ==
  \/ host.last # NoOffset
  \/ host.first = NoOffset /\ host.chunkOffset >= RangeEnd

Launch ==
  LET tiles == (Len(host.chunk) + TileBytes - 1) \div TileBytes
  IN  /\ host.pc = "loop" /\ host.chunk # <<>> /\ ~RangeIsDone
      /\ rows' = Builder!NextOutput(rows)
      /\ States!Reset(host.base, tiles) /\ Counts!Reset(host.base, tiles)
      /\ tile' = [b \in host.base .. host.base + tiles - 1 |-> [pc |-> "loaded", matches |-> {}]]
      /\ host' = [host EXCEPT !.pc = "running", !.tiles = tiles]
      /\ UNCHANGED <<request, reader, chars, result>>

\* How many of the offsets that the kernel wrote are kept: all, or those up to and including
\* the first that is not in the range.
NewOffsets ==
  LET n == Counts!InclusivePrefix(host.base + host.tiles - 1) - rows.size
      outside == {i \in 0 .. n - 1 : Builder!ElementAt(rows, i) >= RangeEnd}
  IN  IF host.chunkOffset + Len(host.chunk) < RangeEnd \/ outside = {} THEN [kept |-> n, last |-> FALSE]
      ELSE [kept |-> 1 + CHOOSE i \in outside : \A j \in outside : i <= j, last |-> TRUE]

\* The kernel has ended: its offsets are counted, which may show where the first and the
\* last row begin.
Collect ==
  LET new == NewOffsets
      kept == Builder!Advanced(rows, new.kept)
  IN  /\ host.pc = "running" /\ \A b \in Blocks : tile[b].pc = "done"
      /\ rows' = kept
      /\ host' = [host EXCEPT !.pc = "copy",
                    !.first = IF @ = NoOffset /\ new.kept > 0 THEN Builder!FrontElement(kept) ELSE @,
                    !.last = IF new.last THEN Builder!BackElement(kept) ELSE @]
      /\ UNCHANGED <<request, reader, chars, result, tile, stateVars, countVars>>

\* The characters of the chunk that belong to rows of the result.
Output ==
  LET begin == Greater(0, host.first - host.chunkOffset)
      end == IF host.last = NoOffset THEN Len(host.chunk) ELSE Lesser(host.last - host.chunkOffset, Len(host.chunk))
  IN  SubSeq(host.chunk, begin + 1, end)

\* They are copied and the loop goes on with the next chunk, which was read meanwhile.
Copy ==
  /\ host.pc = "copy"
  /\ chars' = IF host.first = NoOffset THEN chars
              ELSE Builder!Advanced(Builder!Written(Builder!NextOutput(chars),
                                                    [i \in 0 .. Len(Output) - 1 |-> Output[i + 1]]),
                                    Len(Output))
  /\ reader' = NextChunk(reader).reader
  /\ host' = [host EXCEPT !.pc = "loop", !.base = @ + host.tiles,
                          !.chunkOffset = @ + Len(host.chunk), !.chunk = NextChunk(reader).bytes]
  /\ UNCHANGED <<request, rows, result, tile, stateVars, countVars>>

\* The column made of the characters and the offsets.
Column ==
  LET offsets == Builder!Gathered(rows)
      insertEnd == ~(host.last # NoOffset \/ (offsets # <<>> /\ offsets[Len(offsets)] = host.chunkOffset))
      all == (IF host.first = 0 THEN <<0>> ELSE <<>>)
               \o [i \in DOMAIN offsets |-> offsets[i] - host.first]
               \o (IF insertEnd THEN <<host.chunkOffset - host.first>> ELSE <<>>)
      count == Len(all) - 1
      stripped(i) == IF request.strip /\ ~(i = count /\ insertEnd) THEN Len(request.delim) ELSE 0
      length(i) == Greater(0, all[i + 1] - all[i] - stripped(i))
  IN  [i \in 1 .. count |-> SubSeq(Builder!Gathered(chars), all[i] + 1, all[i] + length(i))]

Return ==
  /\ host.pc = "loop" /\ (host.chunk = <<>> \/ RangeIsDone)
  /\ result' = IF host.chunkOffset = 0 \/ host.first = NoOffset \/ host.first = host.last THEN <<>> ELSE Column
  /\ host' = [host EXCEPT !.pc = "done"]
  /\ UNCHANGED <<request, reader, rows, chars, tile, stateVars, countVars>>

Next ==
  \/ Fails \/ ReturnAtOnce \/ Begin \/ Launch \/ Collect \/ Copy \/ Return
  \/ host.pc = "running" /\ \E b \in Blocks : Block(b)

Spec == Init /\ [][Next]_splitVars

\* A device that runs something goes on with something.
FairSpec == Spec /\ WF_splitVars(Next)

(***************************************************************************)
(* Properties.                                                              *)
(***************************************************************************)
\* Type invariant: no multistate has more segments than its words hold, what a kernel writes
\* has a place in the row offsets, and tiles in flight have slots of their own.
SplitTypeOK ==
  /\ host.pc \in {"start", "loop", "running", "copy", "done", "failed"}
  /\ States!ScanTypeOK /\ Counts!ScanTypeOK
  /\ \A s \in States!Slots : Cardinality(statePartial[s]) <= MaxSegmentCount
  /\ host.pc = "running" =>
       /\ \A b \in Blocks : tile[b].pc \in {"loaded", "states", "counts", "done"}
       /\ \A b, c \in (host.base - 1) .. (host.base + host.tiles - 1) :
            States!Offset(b) = States!Offset(c) => b = c
       /\ \A b \in Blocks : tile[b].pc = "counts" /\ Counts!Returned(b) =>
            \A k \in 0 .. countFrame[b].window + Cardinality(tile[b].matches) - rows.size - 1 :
               Builder!HasPlace(rows, k)

\* What is split: the text, or the part of it between the virtual offsets.
Content ==
  IF ~IsBgzip THEN [i \in DOMAIN request.text |-> i]
  ELSE LET begin == Bgzip!BytesBefore(request.file, request.file.begin[1]) + request.file.begin[2]
           last == Len(request.file.sizes)
           end == IF request.file.end[1] > last THEN Bgzip!BytesBefore(request.file, last + 1)
                  ELSE Bgzip!BytesBefore(request.file, request.file.end[1]) + request.file.end[2]
       IN  [i \in 1 .. end - begin |-> begin + i]

\* The last n bytes before p are the first n of the delimiter; nothing before `from' counts.
EndsWith(from, p, n) ==
  /\ from + n <= p
  /\ \A i \in 1 .. n : request.text[Content[p - n + i]] = request.delim[i]

\* A block that has looked back knows what is true of the bytes before its tile: how much of
\* the delimiter they end with, in all ways, and how many delimiters are in them
\* (scan_tile_state_callback, from one chunk to the next and round the ring).
PrefixesAreTrue ==
  host.pc = "running" => \A b \in Blocks :
    LET before == host.chunkOffset + FirstByte(b)
    IN  /\ tile[b].pc = "states" /\ States!Returned(b) =>
             States!ExclusivePrefix(b) =
               {<<0, n>> : n \in {m \in 0 .. Len(request.delim) : EndsWith(FirstOffset, before, m)}}
        /\ tile[b].pc = "counts" /\ Counts!Returned(b) =>
             Counts!ExclusivePrefix(b) =
               Cardinality({p \in FirstOffset .. before : EndsWith(FirstOffset, p, Len(request.delim))})

\* The rows are those of the content that begin in the range, whole and in order, whatever
\* the tiles, the chunks, the blocks of the file and the order of the thread blocks were; so
\* consecutive ranges give every row once (multibyte_split).
Ends == {p \in 1 .. Len(Content) : EndsWith(0, p, Len(request.delim))}
Begins ==
  {p \in {0} \cup Ends : p < Len(Content) /\ request.offset <= p /\ p < RangeEnd}
RowFrom(p) ==
  LET later == {q \in Ends : q > p}
      end == IF later = {} THEN Len(Content) ELSE CHOOSE q \in later : \A r \in later : q <= r
      strip == IF request.strip /\ later # {} THEN Len(request.delim) ELSE 0
  IN  SubSeq(Content, p + 1, Greater(p, end - strip))
RowsAreExact ==
  host.pc = "done" =>
    /\ Len(result) = Cardinality(Begins)
    /\ \A p \in Begins : result[Rank(p, Begins) + 1] = RowFrom(p)

\* The call returns: no thread block waits for ever for one before it.
SplitReturns == <>(host.pc \in {"done", "failed"})
=============================================================================
