----------------------------- MODULE OrcChunks -----------------------------
(***************************************************************************)
(* The chunked ORC reader (cpp/src/io/orc/reader_impl.cu,                    *)
(* reader_impl_chunking.cu, reader_impl_decode.cu).  Stripes are loaded in    *)
(* ranges, under a limit on compressed bytes; what is loaded is decoded in    *)
(* ranges, under a limit on decompressed bytes and on rows; a decoded table   *)
(* is returned in ranges of rows, under a limit on output bytes.  Each of the *)
(* three lists of ranges has a cursor, and one call advances at most one of   *)
(* each.                                                                    *)
(*                                                                         *)
(* A stripe is [rows, packed, block, out]: its rows, its bytes in the file,  *)
(* its bytes when decompressed, all in one block, and the bytes of each of    *)
(* its rows in the output.                                                  *)
(***************************************************************************)
EXTENDS Spans, FiniteSets, FiniteSetsExt

CONSTANTS
  Requests,    \* [stripes, picked, skip, num, chunkLimit, passLimit, granularity]
  ColumnLimit, \* the most rows a column can have, 2^31 - 1
  MaxEmpty     \* bound: empty tables that a program lets read_chunk return

\* Stripes asked for are those of the file (select_stripes throws otherwise), and a
\* segment has rows (find_table_splits).
ASSUME RequestsAreValid ==
  /\ ColumnLimit \in Nat
  /\ \A q \in Requests :
       /\ q.stripes \in Seq([rows : Nat, packed : Nat, block : Nat, out : Nat])
       /\ q.picked \in Seq(DOMAIN q.stripes)
       /\ {q.skip, q.num, q.chunkLimit, q.passLimit} \subseteq Nat
       /\ q.granularity \in Nat \ {0}

VARIABLES
  request,   \* the file and the options; picked: <<>> or the stripes asked for
  reader,    \* the reader's state between calls, see NewReader
  returned,  \* the chunks returned so far: [start, length]
  calls      \* "open", "done" (has_next said no), "failed" (a call threw)
orcVars == <<request, reader, returned, calls>>

Stripe(i) == request.stripes[i]
RowsBefore(i) == SumUpTo([j \in DOMAIN request.stripes |-> Stripe(j).rows], i - 1)
TotalRows == RowsBefore(Len(request.stripes) + 1)

(***************************************************************************)
(* select_stripes: the stripes to read, the rows to skip in them and the     *)
(* rows to read.                                                            *)
(***************************************************************************)
SkipRows == Least(request.skip, TotalRows)
ReadRows == Least(request.num, TotalRows - SkipRows)

\* Mutant: the loop goes on to the last stripe of the file.
ChosenToEnd ==
  LET Visited(i, last) ==
        IF RowsBefore(i + 1) > SkipRows \/ RowsBefore(i + 1) = 0
        THEN [last EXCEPT !.stripes = Append(@, i)]
        ELSE [last EXCEPT !.left = RowsBefore(i + 1)]
      loop[i \in 0 .. Len(request.stripes)] ==
        IF i = 0 THEN [stripes |-> <<>>, left |-> 0] ELSE Visited(i, loop[i - 1])
  IN  loop[Len(request.stripes)]

\* The loop over the stripes: it ends behind the last row that is wanted, and leaves out
\* a stripe before the first, except empty ones at the head of the file.
Chosen ==
  LET Visited(i, last) ==
        IF RowsBefore(i) >= SkipRows + ReadRows THEN last
        ELSE IF RowsBefore(i + 1) > SkipRows \/ RowsBefore(i + 1) = 0
             THEN [last EXCEPT !.stripes = Append(@, i)]
             ELSE [last EXCEPT !.left = RowsBefore(i + 1)]
      loop[i \in 0 .. Len(request.stripes)] ==
        IF i = 0 THEN [stripes |-> <<>>, left |-> 0] ELSE Visited(i, loop[i - 1])
  IN  loop[Len(request.stripes)]

Selection ==
  IF request.picked # <<>>
  THEN [stripes |-> request.picked, skip |-> 0,
        rows |-> SumUpTo([k \in DOMAIN request.picked |-> Stripe(request.picked[k]).rows],
                         Len(request.picked))]
  ELSE [stripes |-> Chosen.stripes, skip |-> SkipRows - Chosen.left, rows |-> ReadRows]

\* What the stripes selected have, in order.
RowsOf(r) == AsTuple([k \in DOMAIN r.selected |-> Stripe(r.selected[k]).rows])
PackedOf(r) == AsTuple([k \in DOMAIN r.selected |-> Stripe(r.selected[k]).packed])
BlocksOf(r) == AsTuple([k \in DOMAIN r.selected |-> Stripe(r.selected[k]).block])

(***************************************************************************)
(* Splitting.                                                               *)
(***************************************************************************)
Cumulative(counts, sizes, rows) ==
  AsTuple([i \in DOMAIN counts |->
    [count |-> SumUpTo(counts, i), size |-> SumUpTo(sizes, i), rows |-> SumUpTo(rows, i)]])

\* Mutant: the first position over the limit is taken.
FittingOver(sizes, pos, last, limit) ==
  LET n == Len(sizes)
      over == AsTuple([i \in DOMAIN sizes |-> Minus(sizes[i].size, last.size)])
  IN  Least(LowerBound(over, pos, n + 1 - pos, limit), n)

\* One split of find_splits: the last position that fits both limits, or else the
\* first that lies beyond what was split off before.
Fitting(sizes, pos, last, limit) ==
  LET n == Len(sizes)
      over == AsTuple([i \in DOMAIN sizes |-> Minus(sizes[i].size, last.size)])
      found == LowerBound(over, pos, n + 1 - pos, limit)
  IN  IF found > n \/ sizes[found].size > last.size + limit THEN found - 1 ELSE found
Short(sizes, last, fits) ==
  IF fits < 1 THEN fits
  ELSE Max({i \in 1 .. fits : i = 1 \/ sizes[i].rows <= last.rows + ColumnLimit})
SplitAt(sizes, pos, last, limit) ==
  Min({i \in Short(sizes, last, Fitting(sizes, pos, last, limit)) .. Len(sizes) :
         i = Len(sizes) \/ (i >= 1 /\ sizes[i].count > last.count)})

\* A last range that is at most 15% of the one before it is merged with it.
MergeLast(splits) ==
  LET n == Len(splits)
      Size(r) == r.end - r.begin
  IN  IF n > 1 /\ Size(splits[n]) <= (15 * Size(splits[n - 1])) \div 100
      THEN Append(SubSeq(splits, 1, n - 2), [begin |-> splits[n - 1].begin, end |-> splits[n].end])
      ELSE splits

\* find_splits: ranges are [begin, end), counted from zero.  Each pass takes at least one
\* position more, so there are no more of them than positions.
FindSplits(sizes, total, limit) ==
  LET Split(r) ==
        LET pos == SplitAt(sizes, r.pos, r.last, limit)
            range == [begin |-> r.last.count, end |-> sizes[pos].count]
        IN  IF r.last.count >= total THEN r
            ELSE [splits |-> Append(r.splits, range), pos |-> pos, last |-> sizes[pos]]
      loop[i \in 0 .. Len(sizes)] ==
        IF i = 0 THEN [splits |-> <<>>, pos |-> 1, last |-> [count |-> 0, size |-> 0, rows |-> 0]]
        ELSE Split(loop[i - 1])
  IN  MergeLast(loop[Len(sizes)].splits)

Ones(n) == [i \in 1 .. n |-> 1]
Zeros(n) == [i \in 1 .. n |-> 0]
\* Mutant: the ranges of a load are numbered from the load, not from the file.
ShiftedByNone(ranges, n) == ranges
ShiftedBy(ranges, n) == [k \in DOMAIN ranges |-> [begin |-> ranges[k].begin + n, end |-> ranges[k].end + n]]

(***************************************************************************)
(* The steps of the reader.                                                 *)
(***************************************************************************)
NewReader ==
  [prepared |-> FALSE, skip |-> 0, rows |-> 0, selected |-> <<>>,
   loads |-> <<>>, load |-> 1,      \* load_stripe_ranges, curr_load_stripe_range
   decodes |-> <<>>, decode |-> 1,
   outputs |-> <<>>, output |-> 1,
   raw |-> <<>>,                    \* lvl_stripe_data: the stripe in each buffer, 0 if none
   cached |-> FALSE,                \* compinfo_map is filled
   table |-> <<>>,                  \* decoded_table: the number of its first row in `selected'
   told |-> 0, error |-> "none"]    \* told: the block size given to the decompressor

HasData(r) == r.rows > 0 /\ r.selected # <<>>
MoreToLoad(r) == r.load <= Len(r.loads)
MoreToDecode(r) == r.decode <= Len(r.decodes)
MoreToOutput(r) == r.output <= Len(r.outputs)
HasNextOf(r) == MoreToLoad(r) \/ MoreToDecode(r) \/ MoreToOutput(r)

\* load_limit_ratio and decompress_and_decode_limit_ratio
LoadLimit == Greatest((request.passLimit * 25) \div 100, 1)
DecodeLimit == Greatest((request.passLimit * 60) \div 100, 1)

\* preprocess_file
WithSelection(r, all) ==
  [r EXCEPT !.prepared = TRUE, !.skip = all.skip, !.rows = all.rows, !.selected = all.stripes]
WithLoads(r) ==
  LET n == Len(r.selected)
  IN  IF ~HasData(r) THEN r
      ELSE [r EXCEPT !.loads =
              IF request.passLimit = 0 THEN <<[begin |-> 0, end |-> n]>>
              ELSE FindSplits(Cumulative(Ones(n), PackedOf(r), Zeros(n)), n, LoadLimit)]
Preprocess(r) == IF r.prepared THEN r ELSE WithLoads(WithSelection(r, Selection))

\* load_next_stripe_data: read the stripes of the next range and plan how to
\* decode them.
Planned(range, rows, blocks) ==
  LET n == Len(rows)
      Ranges(sizes, limit) == ShiftedBy(FindSplits(Cumulative(Ones(n), sizes, rows), n, limit), range.begin)
  IN  IF request.passLimit > 0 THEN Ranges(blocks, DecodeLimit)
      ELSE IF SumUpTo(rows, n) <= ColumnLimit THEN <<range>>
      ELSE Ranges(rows, ColumnLimit)
\* Mutant: the cursor stays behind the ranges of the load before.
LoadOn(r) ==
  LET range == r.loads[r.load]
      Loaded(s) == SubSeq(s, range.begin + 1, range.end)
  IN  IF ~HasData(r) THEN r
      ELSE [r EXCEPT !.load = @ + 1,
                     !.raw = [k \in 1 .. range.end - range.begin |-> range.begin + k],
                     !.decodes = Planned(range, Loaded(RowsOf(r)), Loaded(BlocksOf(r))),
                     !.cached = @ \/ request.passLimit > 0]
Load(r) ==
  LET range == r.loads[r.load]
      Loaded(s) == SubSeq(s, range.begin + 1, range.end)
  IN  IF ~HasData(r) THEN r
      ELSE [r EXCEPT !.load = @ + 1, !.decode = 1,
                     !.raw = [k \in 1 .. range.end - range.begin |-> range.begin + k],
                     !.decodes = Planned(range, Loaded(RowsOf(r)), Loaded(BlocksOf(r))),
                     !.cached = @ \/ request.passLimit > 0]

\* find_table_splits: the rows of the decoded table in segments of
\* output_row_granularity.
Segments(bytes, num) ==
  LET step == Least(request.granularity, num)
      segments == 1 .. (num + step - 1) \div step
      Length(s) == Least(step, num - step * (s - 1))
      Bytes(s) == SumUpTo(bytes, step * (s - 1) + Length(s)) - SumUpTo(bytes, step * (s - 1))
  IN  Cumulative(AsTuple([s \in segments |-> Length(s)]), AsTuple([s \in segments |-> Bytes(s)]), Zeros(num))
RowBytes(r, ends, start, num) ==
  [i \in 1 .. num |-> Stripe(r.selected[UpperBound(ends, 1, Len(ends), start + i - 1)]).out]
TableSplits(r, start, num) ==
  IF request.chunkLimit = 0 THEN <<[begin |-> 0, end |-> num]>>
  ELSE FindSplits(Segments(RowBytes(r, InclusiveScan(RowsOf(r)), start, num), num), num, request.chunkLimit)

\* decompress_and_decode_stripes.  The largest block is worked out by the parse that
\* compinfo_map makes unnecessary.
Decode(r) ==
  LET range == r.decodes[r.decode]
      stripes == range.begin + 1 .. range.end
      from == r.loads[r.load - 1].begin
      before(k) == SumUpTo(RowsOf(r), k)
      all == before(range.end) - before(range.begin)
      num == Least(all - r.skip, r.rows)
      start == before(range.begin) + r.skip
      blocks == {Stripe(r.selected[k]).block : k \in stripes}
  IN  IF ~HasData(r) THEN r
      ELSE IF all <= r.skip THEN [r EXCEPT !.decode = @ + 1, !.error = "rows"]
      ELSE IF num > ColumnLimit THEN [r EXCEPT !.decode = @ + 1, !.skip = 0, !.rows = @ - num,
                                              !.error = "overflow"]
      ELSE IF \E k \in stripes : k - from \notin DOMAIN r.raw \/ r.raw[k - from] # k THEN [r EXCEPT !.error = "undefined"]
      ELSE [r EXCEPT !.decode = @ + 1, !.skip = 0, !.rows = @ - num,
                     !.raw = [k \in DOMAIN @ |-> IF k + from \in stripes THEN 0 ELSE @[k]],
                     !.table = <<start>>,
                     !.told = IF r.cached THEN 0 ELSE Max(blocks),
                     !.outputs = TableSplits(r, start, num), !.output = 1]

LoadMore(r) == IF ~MoreToDecode(r) /\ MoreToLoad(r) THEN Load(r) ELSE r
DecodeMore(r) == IF MoreToDecode(r) THEN Decode(r) ELSE r

\* Mutant: the table decoded before is not returned in full.
PrepareEager(r) == DecodeMore(LoadMore(Preprocess(r)))

\* prepare_data
PrepareMore(r) == IF MoreToOutput(r) THEN r ELSE DecodeMore(LoadMore(r))
PrepareData(r) == PrepareMore(Preprocess(r))

Init == request \in Requests /\ reader = NewReader /\ returned = <<>> /\ calls = "open"

Fails(r) == r.error # "none" /\ reader' = r /\ calls' = "failed" /\ UNCHANGED returned

HasNext ==
  /\ calls = "open"
  /\ \E r \in {PrepareData(reader)} :
         \/ Fails(r)
         \/ /\ r.error = "none" /\ reader' = r
            /\ calls' = IF HasNextOf(r) THEN "open" ELSE "done"
            /\ UNCHANGED returned
  /\ UNCHANGED request

\* make_output_chunk: the table is given up with its last rows.
Output(r) ==
  LET range == r.outputs[r.output]
      a == [r EXCEPT !.output = @ + 1]
  IN  /\ returned' = Append(returned, [start |-> r.table[1] + range.begin - Selection.skip,
                                       length |-> range.end - range.begin])
      /\ reader' = IF MoreToOutput(a) THEN a ELSE [a EXCEPT !.table = <<>>]

EmptyTables == {k \in DOMAIN returned : returned[k].length = 0}
ReadChunk ==
  /\ calls = "open" /\ Cardinality(EmptyTables) < MaxEmpty
  /\ \E r \in {PrepareData(reader)} :
         \/ Fails(r)
         \/ r.error = "none" /\ MoreToOutput(r) /\ Output(r) /\ UNCHANGED calls
         \/ /\ r.error = "none" /\ ~MoreToOutput(r)
            /\ returned' = Append(returned, [start |-> Selection.rows, length |-> 0])
            /\ reader' = r /\ UNCHANGED calls
  /\ UNCHANGED request

Next == HasNext \/ ReadChunk
Spec == Init /\ [][Next]_orcVars

(***************************************************************************)
(* Properties.                                                              *)
(***************************************************************************)
\* The cursors lie in their lists; what remains of the rows and what was decoded make
\* up the rows selected.
OrcTypeOK ==
  /\ calls \in {"open", "done", "failed"}
  /\ reader.load \in 1 .. Len(reader.loads) + 1
  /\ reader.decode \in 1 .. Len(reader.decodes) + 1
  /\ reader.output \in 1 .. Len(reader.outputs) + 1
  /\ reader.rows \in 0 .. Selection.rows /\ reader.skip \in 0 .. Selection.skip
  /\ reader.table # <<>> <=> MoreToOutput(reader)

\* The cursors stay in their lists, and a decode finds every stripe of its range in the
\* buffer where the load put it, not yet freed by an earlier decode and not replaced by a
\* later load.
StripesAreLoaded == OrcTypeOK /\ reader.error # "undefined"

\* "overflow here should never happen because the load_next_stripe_data() step already
\* handled it" (decompress_and_decode_stripes): a table has at most ColumnLimit rows.
OverflowNeverHappens == reader.error # "overflow"

\* "Maximum size of any single uncompressed chunk" (max_uncomp_chunk_size of decompress):
\* the decompressor is told a size that no block of the stripes exceeds.
BlockBoundIsTrue ==
  reader.table # <<>> =>
    LET range == reader.decodes[reader.decode - 1]
    IN  \A k \in range.begin + 1 .. range.end : Stripe(reader.selected[k]).block <= reader.told

\* A range over its limit could not have been shorter, except for the merge of a short
\* last range: it is one stripe, or without what was merged it fits or is one stripe.
Fits(range, bytes, limit) ==
  \/ range.end - range.begin = 1
  \/ SumUpTo(bytes, range.end) - SumUpTo(bytes, range.begin) <= limit
FitsMerged(range, bytes, limit) ==
  \E end \in range.begin + 1 .. range.end - 1 :
    /\ Fits([range EXCEPT !.end = end], bytes, limit)
    /\ 100 * (range.end - end) <= 15 * (end - range.begin)
AllFit(ranges, bytes, limit) ==
  \A k \in DOMAIN ranges :
    Fits(ranges[k], bytes, limit) \/ (k = Len(ranges) /\ FitsMerged(ranges[k], bytes, limit))
RangesFit ==
  request.passLimit > 0 =>
    /\ AllFit(reader.loads, PackedOf(reader), LoadLimit)
    /\ AllFit(reader.decodes, BlocksOf(reader), DecodeLimit)

\* The rows asked for come out each once and in order: no gap, no overlap, no empty table
\* before the end, and has_next says no only there.
Pieces == INSTANCE PieceStream WITH
  total <- Selection.rows, status <- calls, pieces <- returned
ImplementsStream == Pieces!Spec

\* "Check if there is any data in the given data sources has not yet read" (has_next): when
\* all rows were returned it says no, so that a loop of has_next and read_chunk ends.
HasNextIsTrue ==
  calls = "open" /\ returned # <<>> /\ Pieces!Given = Selection.rows =>
    \A r \in {PrepareData(reader)} : ~HasNextOf(r)

\* So it is unless the last of the stripes asked for has no rows.
EndsWithRows == request.picked # <<>> => Stripe(request.picked[Len(request.picked)]).rows > 0
EndIsSeen == EndsWithRows => HasNextIsTrue
=============================================================================
