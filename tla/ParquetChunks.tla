--------------------------- MODULE ParquetChunks ---------------------------
(***************************************************************************)
(* The chunked Parquet reader (cpp/src/io/parquet/reader_impl_chunking.cu    *)
(* and its neighbours).  Row groups are read in passes, under a limit on     *)
(* compressed bytes; the pages of a pass are decompressed in subpasses,      *)
(* under a limit on temporary bytes; the rows of a subpass are returned in   *)
(* chunks, under a limit on output bytes.                                   *)
(*                                                                         *)
(* The rows that start in a page of a list column are known only once it is  *)
(* decompressed; until then the reader works with an estimate.  A row of a   *)
(* list column may go on in the next page of its row group.                  *)
(*                                                                         *)
(* A file is [lists, groups]: lists says of each column whether it is a list *)
(* column; a group is [rows, source, packed, pages], packed its compressed   *)
(* bytes, pages the pages of each column; a page is [rows, bytes, out, cont]: *)
(* the rows that start in it, its bytes before and after decoding, and       *)
(* whether it begins inside a row.                                          *)
(***************************************************************************)
EXTENDS Spans, SequencesExt

CONSTANTS
  Requests,    \* what users ask for: [file, skip, num, chunkLimit, passLimit, junk]
  MinSubpass,  \* minimum_subpass_expected_size
  HeaderBytes, \* bytes of a page header
  MaxEmpty     \* bound: empty tables that a program lets read_chunk return

VARIABLES
  request,   \* the file and options; junk: what a read past an array returns
  reader,    \* the reader's state between calls, see NewReader
  returned,  \* the chunks returned so far: [start, length, sources]
  calls      \* "open", "done" (has_next said no), "failed" (a call threw)
pqVars == <<request, reader, returned, calls>>

File == request.file
Columns == DOMAIN File.lists
Groups == DOMAIN File.groups
GroupStart(g) == SumUpTo([i \in Groups |-> File.groups[i].rows], g - 1)
TotalRows == GroupStart(Len(File.groups) + 1)
Sources == {File.groups[g].source : g \in Groups}

(***************************************************************************)
(* The whole file: select_row_groups, create_global_chunk_info,             *)
(* compute_input_passes.                                                    *)
(***************************************************************************)
\* skip_rows_num_rows_from_options
SkipRows == Least(request.skip, TotalRows)
ReadRows == Least(request.num, TotalRows - SkipRows)

\* The groups with a row that is wanted, and how many each source gives.
Selected == SelectSeq([g \in Groups |-> g],
              LAMBDA g : /\ GroupStart(g) < SkipRows + ReadRows
                         /\ GroupStart(g) + File.groups[g].rows > SkipRows)
RowsOfSource(s) ==
  SumUpTo([g \in Groups |->
             IF File.groups[g].source # s \/ ~Contains(reader.selected, g) THEN 0
             ELSE Least(GroupStart(g + 1), SkipRows + ReadRows) - Greatest(GroupStart(g), SkipRows)],
          Len(File.groups))

\* What remains of the rows asked for before the i-th selected group, and the
\* rows its chunks are described with.
Remaining ==
  LET left[i \in Nat] ==
        IF i = 1 THEN ReadRows
        ELSE LET g == reader.selected[i - 1]
                 rows == File.groups[g].rows
             IN  left[i - 1] - Least(left[i - 1],
                   IF i = 2 /\ SkipRows > 0 THEN GroupStart(g) + rows - SkipRows ELSE rows)
  IN  left
ChunkRows(i) == Least(Remaining[i], File.groups[reader.selected[i]].rows)

\* input_limit_compression_reserve: three tenths of the limit hold packed data.
PackedLimit == (request.passLimit * 3) \div 10
EffectiveRows(selected, i) ==
  LET g == selected[i]
  IN  File.groups[g].rows - (IF i = 1 /\ SkipRows > 0 THEN SkipRows - GroupStart(g) ELSE 0)

\* The passes: the last selected group of each and the rows up to its end.  The
\* first group that does not fit begins a pass, or is one when it is alone.
Passes(selected) ==
  LET n == Len(selected)
      pass[i \in Nat, from \in Nat, packed \in Nat, rows \in Nat] ==
        IF i > n THEN IF from <= n THEN <<[end |-> n, rows |-> rows]>> ELSE <<>>
        ELSE LET size == File.groups[selected[i]].packed
                 more == rows + EffectiveRows(selected, i)
             IN  IF packed + size < PackedLimit THEN pass[i + 1, from, packed + size, more]
                 ELSE IF from = i THEN <<[end |-> i, rows |-> more]>> \o pass[i + 1, i + 1, 0, more]
                 ELSE <<[end |-> i - 1, rows |-> rows]>> \o pass[i + 1, i, size, more]
  IN  IF request.passLimit > 0 THEN pass[1, 1, 0, 0]
      ELSE <<[end |-> n, rows |-> SumUpTo([i \in 1 .. n |-> File.groups[selected[i]].rows], n)]>>

NumPasses == IF ReadRows > 0 THEN Len(reader.passes) ELSE 0
PassStart(i) == IF i = 1 THEN [end |-> 0, rows |-> 0] ELSE reader.passes[i - 1]

(***************************************************************************)
(* A pass: its pages, column by column, and their row numbers.              *)
(***************************************************************************)
\* The pages of column c in selected group i.  start and chunk are fields of the
\* page's ColumnChunkDesc; first is the row that it truly starts with.
ChunkPages(c, i) ==
  LET g == reader.selected[i]
      pages == File.groups[g].pages[c]
  IN  [k \in DOMAIN pages |->
         [col |-> c, group |-> g, start |-> GroupStart(g), chunk |-> ChunkRows(i),
          first |-> GroupStart(g) + SumUpTo([j \in DOMAIN pages |-> pages[j].rows], k - 1),
          rows |-> pages[k].rows, cont |-> pages[k].cont,
          bytes |-> pages[k].bytes, out |-> pages[k].out,
          num |-> pages[k].rows, row |-> 0]]

SameChunk(p, q) == p.col = q.col /\ p.group = q.group

\* chunk_row: the rows of the chunk's pages before it, as known.
WithChunkRow(pages) ==
  LET before(i) == {j \in 1 .. i - 1 : SameChunk(pages[j], pages[i])}
      row[i \in DOMAIN pages] ==
        IF before(i) = {} THEN 0 ELSE row[i - 1] + pages[i - 1].num
  IN  AsTuple([i \in DOMAIN pages |-> [pages[i] EXCEPT !.row = row[i]]])

\* set_list_row_count_estimate: the page's share of the group's bytes.
Estimate(p) ==
  LET pages == File.groups[p.group].pages[p.col]
      total == SumUpTo([k \in DOMAIN pages |-> pages[k].bytes + HeaderBytes], Len(pages))
  IN  (p.bytes * File.groups[p.group].rows) \div total

\* generate_list_column_row_count_estimates: the last page of a chunk gets the
\* rows that are left.
WithRowsLeft(guess) ==
  AsTuple([i \in DOMAIN guess |->
    IF i < Len(guess) /\ SameChunk(guess[i], guess[i + 1]) THEN guess[i]
    ELSE [guess[i] EXCEPT !.num = guess[i].chunk - guess[i].row]])
Estimated(pages) ==
  WithRowsLeft(WithChunkRow(AsTuple([i \in DOMAIN pages |->
    IF File.lists[pages[i].col] THEN [pages[i] EXCEPT !.num = Estimate(pages[i])] ELSE pages[i]])))

\* Where the pages of column c begin.
Offset(pages, c) == 1 + Len(SelectSeq(pages, LAMBDA p : p.col < c))
PagesOf(pages, c) == Offset(pages, c + 1) - Offset(pages, c)

\* setup_next_pass
SetupNextPass(r) ==
  LET from == PassStart(r.current)
      to == reader.passes[r.current]
      pages == FlattenSeq([c \in Columns |->
                 FlattenSeq([i \in 1 .. to.end - from.end |-> ChunkPages(c, from.end + i)])])
  IN  [r EXCEPT !.pass = <<
        [skip |-> SkipRows + (IF NumPasses = 1 THEN 0 ELSE from.rows),
         num |-> IF NumPasses = 1 THEN ReadRows ELSE Least(to.rows, ReadRows) - from.rows,
         processed |-> 0,
         base |-> SumUpTo([i \in 1 .. to.end |->
                    IF i > from.end THEN File.groups[reader.selected[i]].packed ELSE 0], to.end),
         pages |-> IF request.passLimit > 0 THEN Estimated(pages) ELSE pages]>>]

(***************************************************************************)
(* Sizes and splits.                                                        *)
(***************************************************************************)
\* Cumulative bytes of each column's pages and the row each page ends at, which
\* set_row_index caps.
PageSizes(pages, bytes, maxRow) ==
  AsTuple([i \in DOMAIN pages |->
     [row |-> Least(maxRow, pages[i].start + pages[i].row + pages[i].num),
      size |-> SumUpTo([j \in 1 .. i |->
                 IF pages[j].col = pages[i].col THEN bytes[j] ELSE 0], i)]])
Rows(sizes) == AsTuple([i \in DOMAIN sizes |-> sizes[i].row])
Read(s, i) == IF i \in DOMAIN s THEN s[i] ELSE request.junk

\* adjust_cumulative_sizes: for each row at which a page ends, what it takes to
\* read all columns up to it, counting pages that go on beyond it whole.
BytesUpTo(pages, sizes, ends, row) ==
  SumUpTo([c \in Columns |->
    Read(sizes, LowerBound(ends, Offset(pages, c), PagesOf(pages, c), row))], Len(File.lists))
AdjustedTo(pages, sizes, ends) ==
  LET sorted == SortSeq(ends, LAMBDA a, b : a < b)
  IN  AsTuple([i \in DOMAIN sorted |->
        [row |-> sorted[i], size |-> BytesUpTo(pages, sizes, ends, sorted[i])]])
Adjusted(pages, sizes) == AdjustedTo(pages, [i \in DOMAIN sizes |-> sizes[i].size], Rows(sizes))

Over(sizes, size) == AsTuple([i \in DOMAIN sizes |-> Minus(sizes[i].size, size)])
Advancing(sizes, fits, row, minRows) ==
  LET n == Len(sizes)
      advances == {i \in fits .. n : i = n \/ Minus(sizes[i].row, row) >= minRows}
  IN  IF fits > n THEN fits ELSE LeastOf(advances)

\* Mutant: the first position that does not fit is taken.
LastFittingOver(over, pos, limit) ==
  LET found == LowerBound(over, pos, Len(over) + 1 - pos, limit)
  IN  IF found > Len(over) THEN found - 1 ELSE found

\* find_next_split: the last position that fits, and in any case one that advances by
\* minRows when there is one.
LastFitting(over, pos, limit) ==
  LET found == LowerBound(over, pos, Len(over) + 1 - pos, limit)
  IN  IF found > Len(over) \/ (found > pos /\ over[found] > limit) THEN found - 1 ELSE found
NextSplit(sizes, pos, row, size, limit, minRows) ==
  Advancing(sizes, LastFitting(Over(sizes, size), pos, limit), row, minRows)

\* compute_page_splits_by_row
SplitsByRow(sizes, skip, num, limit) ==
  LET maxRow == Least(skip + num, sizes[Len(sizes)].row)
      To(p) == Least(maxRow, sizes[p].row)
      split[row \in Nat, pos \in Nat, size \in Nat] ==
        LET From(p) == <<[skip |-> row, num |-> To(p) - row]>> \o split[To(p), p, sizes[p].size]
        IN  IF row >= maxRow THEN <<>> ELSE From(NextSplit(sizes, pos, row, size, limit, 1))
  IN  split[skip, LowerBound(Rows(sizes), 1, Len(sizes), skip), 0]

(***************************************************************************)
(* A subpass: the pages of each column to decompress together.              *)
(***************************************************************************)
\* get_page_span: end is the position after the last page.
PageSpan(pages, ends, c, startRow, endRow) ==
  LET first == Offset(pages, c)
      n == PagesOf(pages, c)
      s == LowerBound(ends, first, n, startRow)
      e == LowerBound(ends, first, n, endRow)
  IN  [from |-> IF Read(ends, s) = startRow /\ ~File.lists[c] THEN s + 1 ELSE s,
       end |-> IF e < first + n THEN e + 1 ELSE e]

\* The temporary bytes a subpass may use.
SubpassLimit(pass) ==
  LET least == Least(request.passLimit, MinSubpass)
  IN  IF pass.base + least >= request.passLimit THEN least ELSE request.passLimit - pass.base

\* compute_next_subpass, given the pages' sizes, also with all columns counted.
SpansTo(pass, ends, endRow) ==
  [c \in Columns |-> PageSpan(pass.pages, ends, c, pass.processed + pass.skip, endRow)]
NextSplitRow(pass, sizes) ==
  LET startRow == pass.processed + pass.skip
      start == LowerBound(Rows(sizes), 1, Len(sizes), startRow)
      size == IF startRow = 0 \/ start = 1 THEN 0 ELSE sizes[start - 1].size
  IN  sizes[NextSplit(sizes, start, startRow, size, SubpassLimit(pass), 2)].row
LimitedSpans(pass, sizes) ==
  SpansTo(pass, Rows(sizes), NextSplitRow(pass, Adjusted(pass.pages, sizes)))
NextSpans(pass) ==
  IF request.passLimit = 0
  THEN [c \in Columns |-> [from |-> Offset(pass.pages, c), end |-> Offset(pass.pages, c + 1)]]
  ELSE LimitedSpans(pass, PageSizes(pass.pages, AsTuple([i \in DOMAIN pass.pages |-> pass.pages[i].bytes]),
                                    pass.skip + pass.num))

InSpans(spans, p, i) == i >= spans[p.col].from /\ i < spans[p.col].end

\* Mutant: the pages behind a corrected row count stay where they were thought to be.
CountedInPlace(pages, spans) ==
  AsTuple([i \in DOMAIN pages |->
    IF InSpans(spans, pages[i], i) /\ File.lists[pages[i].col]
    THEN [pages[i] EXCEPT !.num = pages[i].rows] ELSE pages[i]])

\* Decompressed pages get their true row counts, and every page its chunk_row.
Counted(pages, spans) ==
  WithChunkRow(AsTuple([i \in DOMAIN pages |->
    IF InSpans(spans, pages[i], i) /\ File.lists[pages[i].col]
    THEN [pages[i] EXCEPT !.num = pages[i].rows] ELSE pages[i]]))

\* The row up to which column c can be decoded.  The last row of a list column
\* may go on in a page that is not here, except at the end of the pass.
LastRow(r, pages, span, c) ==
  LET p == pages[span.end - 1]
      end == p.start + p.row + p.num
  IN  IF File.lists[c] /\ end < reader.passes[r.current].rows THEN end - 1 ELSE end

\* "must have at least 2 rows in the subpass": otherwise preprocess_subpass_pages throws.
TooShort(r, pages, span, c) ==
  LET p == pages[span.end - 1]
      q == pages[span.from]
      end == p.start + p.row + p.num
  IN  File.lists[c] /\ end < reader.passes[r.current].rows /\ Minus(end, q.start + q.row) <= 1

\* compute_output_chunks_for_subpass
OutputChunks(pages, skip, num) ==
  IF request.chunkLimit = 0 THEN <<[skip |-> skip, num |-> num]>>
  ELSE SplitsByRow(Adjusted(pages, PageSizes(pages, AsTuple([i \in DOMAIN pages |-> pages[i].out]), skip + num)),
                   skip, num, request.chunkLimit)
SubpassPages(pages, spans) ==
  FlattenSeq([c \in Columns |-> SubSeq(pages, spans[c].from, spans[c].end - 1)])

\* preprocess_subpass_pages; num_rows may wrap around.
RowsUpTo(r, pages, spans) ==
  LeastOf({LastRow(r, pages, spans[c], c) : c \in Columns} \cup {r.pass[1].skip + r.pass[1].num})
WithRows(r, pages, spans, skip, end) ==
  IF end < skip THEN [r EXCEPT !.error = "undefined"]
  ELSE [r EXCEPT !.pass[1].pages = pages,
                 !.subpass = <<[spans |-> spans, skip |-> skip, num |-> end - skip, chunk |-> 1,
                                chunks |-> OutputChunks(SubpassPages(pages, spans), skip, end - skip)]>>]
Preprocessed(r, pages, spans) ==
  IF \E c \in Columns : TooShort(r, pages, spans[c], c) THEN [r EXCEPT !.error = "short"]
  ELSE WithRows(r, pages, spans, r.pass[1].skip + r.pass[1].processed, RowsUpTo(r, pages, spans))

\* setup_next_subpass; a column without a page is not foreseen.
WithSpans(r, spans) ==
  IF \E c \in Columns : spans[c].from >= spans[c].end THEN [r EXCEPT !.error = "undefined"]
  ELSE Preprocessed(r, Counted(r.pass[1].pages, spans), spans)
SetupNextSubpass(r) == WithSpans(r, NextSpans(r.pass[1]))

(***************************************************************************)
(* The calls.                                                               *)
(***************************************************************************)
NewReader == [selected |-> Selected, passes |-> Passes(Selected),
              current |-> 1, pass |-> <<>>, subpass |-> <<>>, count |-> 0, error |-> "none"]

\* handle_chunking: the next chunk of the subpass, or the next subpass, or the next pass.
NextSubpass(r) == SetupNextSubpass(IF r.pass = <<>> THEN SetupNextPass(r) ELSE r)
\* Mutant: the last chunk of a subpass is passed over.
ChunksAreOutEarly(r) == r.subpass[1].chunk >= Len(r.subpass[1].chunks)
ChunksAreOut(r) == r.subpass[1].chunk > Len(r.subpass[1].chunks)
AfterSubpass(r) ==
  LET processed == r.pass[1].processed + r.subpass[1].num
  IN  IF processed # r.pass[1].num THEN [r EXCEPT !.pass[1].processed = processed, !.subpass = <<>>]
      ELSE [r EXCEPT !.pass = <<>>, !.subpass = <<>>, !.current = @ + 1]
Advanced(r) == IF r.subpass # <<>> /\ ChunksAreOut(r) THEN AfterSubpass(r) ELSE r
HandleChunking(r) ==
  LET next == Advanced(r)
  IN  IF next.subpass # <<>> \/ next.current > NumPasses THEN next ELSE NextSubpass(next)

HasMoreWork(r) == r.current <= NumPasses
PrepareData(r) == IF HasMoreWork(r) THEN HandleChunking(r) ELSE r

\* Which source a row count falls in, given the sums of the rows of the sources.
SourceSums == InclusiveScan([s \in Sources |-> RowsOfSource(s)])
SourceAfter(sums, i, end) ==
  IF end = SkipRows + ReadRows THEN Len(sums) ELSE UpperBound(sums, i, Len(sums) + 1 - i, end)

\* The rows from..end by source, which begin in source i and end in j; <<>> when that writes
\* past the array.
PartsPerSource(sums, from, end, i, j) ==
  IF i = j THEN [s \in Sources |-> IF s = i THEN end - from ELSE 0]
  ELSE IF j > Len(sums) THEN <<>>
  ELSE [s \in Sources |-> CASE s = i -> sums[i] - from
                            [] s = j -> end - sums[j - 1]
                            [] s > i /\ s < j -> sums[s] - sums[s - 1]
                            [] OTHER -> 0]

\* calculate_output_num_rows_per_source
PartsBetween(sums, from, end, i) == PartsPerSource(sums, from, end, i, SourceAfter(sums, i, end))
PartsFrom(sums, from, end) == PartsBetween(sums, from, end, UpperBound(sums, 1, Len(sums), from))
RowsPerSource(start, num) ==
  IF Cardinality(Sources) = 1 THEN <<num>>
  ELSE PartsFrom(SourceSums, start - SkipRows, start - SkipRows + num)

Init ==
  /\ request \in Requests
  /\ reader = NewReader /\ returned = <<>> /\ calls = "open"

\* A call that threw, or did what C++ gives no meaning to, ends the program's use
\* of the reader.
Fails(r) == r.error # "none" /\ reader' = r /\ calls' = "failed" /\ UNCHANGED returned

\* has_next: it may set up the next subpass or pass.
HasNext ==
  /\ calls = "open"
  /\ \E r \in {PrepareData(reader)} :
         \/ Fails(r)
         \/ /\ r.error = "none" /\ reader' = r
            /\ calls' = IF HasMoreWork(r) \/ r.count = 0 THEN "open" ELSE "done"
            /\ UNCHANGED returned
  /\ UNCHANGED request

\* read_chunk_internal and finalize_output with the next chunk of the subpass.
Return(r) ==
  LET sub == r.subpass[1]
      c == sub.chunks[sub.chunk]
  IN  IF sub.chunks = <<>> THEN Fails([r EXCEPT !.error = "undefined"])
      ELSE \E per \in {RowsPerSource(c.skip, c.num)} :
             IF per = <<>> THEN Fails([r EXCEPT !.error = "undefined"])
             ELSE /\ returned' = Append(returned, [start |-> c.skip, length |-> c.num, sources |-> per])
                  /\ reader' = [r EXCEPT !.count = @ + 1, !.subpass[1].chunk = @ + 1]
                  /\ UNCHANGED calls

\* read_chunk; when there is nothing left it returns an empty table.
ReadChunk ==
  /\ calls = "open" /\ Len(SelectSeq(returned, LAMBDA p : p.length = 0)) < MaxEmpty
  /\ \E r \in {PrepareData(reader)} :
         \/ Fails(r)
         \/ r.error = "none" /\ HasMoreWork(r) /\ Return(r)
         \/ /\ r.error = "none" /\ ~HasMoreWork(r)
            /\ returned' = Append(returned, [start |-> SkipRows + ReadRows, length |-> 0,
                                             sources |-> [s \in Sources |-> 0]])
            /\ reader' = [r EXCEPT !.count = @ + 1]
            /\ UNCHANGED calls
  /\ UNCHANGED request

Next == HasNext \/ ReadChunk
Spec == Init /\ [][Next]_pqVars

(***************************************************************************)
(* Properties.                                                              *)
(***************************************************************************)
\* What the reader keeps between calls has the shape of pass_intermediate_data and
\* subpass_intermediate_data, and rows of the pass are not processed twice.
PqTypeOK ==
  /\ calls \in {"open", "done", "failed"}
  /\ reader.current \in 1 .. NumPasses + 1 /\ reader.count = Len(returned)
  /\ Len(reader.pass) <= 1 /\ Len(reader.subpass) <= Len(reader.pass)
  /\ reader.pass # <<>> => reader.pass[1].processed <= reader.pass[1].num

\* Every row that a subpass returns has all its values in pages of the subpass, in
\* every column: a list that goes on in the next page is not cut off
\* (preprocess_subpass_pages: "we know that will safely completed").
RowsAreWhole ==
  reader.subpass # <<>> =>
    LET sub == reader.subpass[1]
        pages == reader.pass[1].pages
        values(p) == (IF p.cont THEN p.first - 1 ELSE p.first) .. p.first + p.rows - 1
    IN  \A i \in DOMAIN pages :
          values(pages[i]) \cap (sub.skip .. sub.skip + sub.num - 1) # {} => InSpans(sub.spans, pages[i], i)

\* The row number at which the decoder places a page of a subpass is the page's
\* true one, whatever estimates the splits before were made with.
RowNumbersAreTrue ==
  reader.subpass # <<>> =>
    \A i \in DOMAIN reader.pass[1].pages :
      LET p == reader.pass[1].pages[i]
      IN  InSpans(reader.subpass[1].spans, p, i) => p.start + p.row = p.first

\* A chunk over the limit could not have been smaller: no page ends inside it.  The
\* limit counts the pages that begin before a row, whole.
ChunksFit ==
  reader.subpass # <<>> =>
    LET sub == reader.subpass[1]
        pages == reader.pass[1].pages
        mine == {i \in DOMAIN pages : InSpans(sub.spans, pages[i], i)}
        upTo(row) == SumUpTo([i \in DOMAIN pages |->
                       IF i \in mine /\ pages[i].first < row THEN pages[i].out ELSE 0], Len(pages))
    IN  \A k \in DOMAIN sub.chunks :
          LET c == sub.chunks[k]
              end == c.skip + c.num
          IN  \/ request.chunkLimit = 0
              \/ upTo(end) - (IF k = 1 THEN 0 ELSE upTo(c.skip)) <= request.chunkLimit
              \/ \A i \in mine : ~(pages[i].first > c.skip /\ pages[i].first < end)

\* num_rows_per_source of each chunk says how many of its rows came from each source.
SourcesAddUp ==
  \A k \in DOMAIN returned : \A s \in Sources :
    returned[k].sources[s] =
      SumUpTo([g \in Groups |->
        IF File.groups[g].source # s THEN 0
        ELSE Greatest(0, Least(GroupStart(g + 1), returned[k].start + returned[k].length)
                         - Greatest(GroupStart(g), returned[k].start))], Len(File.groups))

\* No call reads or writes past the end of an array of pages, splits or sources in a
\* way that decides what is returned.
NeverUndefined == reader.error # "undefined"

\* "we need to guarantee at least 2 rows in the included pages so that all list columns
\* have a clear start and end" (compute_next_subpass).
SubpassIsLongEnough == reader.error # "short"

\* What parquet.hpp promises of read_chunk: "An empty table will be returned if the given
\* file is empty, or all the data in the file has been read and returned".
OnlyTheEndIsEmpty ==
  \A k \in DOMAIN returned : returned[k].length = 0 => returned[k].start = SkipRows + ReadRows

\* The chunks as pieces of the rows asked for.
RowPieces == [k \in DOMAIN returned |-> [start |-> returned[k].start - SkipRows, length |-> returned[k].length]]
SaysMore == \E r \in {PrepareData(reader)} : HasMoreWork(r) \/ r.count = 0
=============================================================================
