-------------------------- MODULE ContiguousSplit --------------------------
(***************************************************************************)
(* contiguous_split and chunked_pack (cpp/src/copying/contiguous_split.cu):  *)
(* the buffers of nested columns are cut at rows, packed one behind the       *)
(* other and described by metadata, at once into one allocation per           *)
(* partition, or in steps into a buffer of the caller's that is reused.       *)
(*                                                                         *)
(* A column is [kind, offset, size, data, mask, children] like column_view:   *)
(* offset and size cut the rows out of data and mask, which are whole.  mask  *)
(* is <<>> when the column is not nullable, else a 1 for each valid row.      *)
(* kind is "fixed", "string" (data: its characters; children: its offsets),  *)
(* "list" (children: offsets and elements) or "struct".  A child's own offset *)
(* is zero.                                                                 *)
(***************************************************************************)
EXTENDS Spans, SequencesExt, FiniteSetsExt

CONSTANTS
  Requests,   \* [table, splits, userBuffer, junk]; userBuffer is 0 for contiguous_split
  BatchBytes, \* desired_batch_size, a multiple of Align
  Align,      \* split_align
  WordBits,   \* rows in a word of a null mask
  SizeLimit   \* size_type holds -SizeLimit .. SizeLimit - 1

VARIABLES
  request,
  reader,   \* contiguous_split_state; memory: what was copied, by address, in each partition
  returned, \* the chunks copied so far: [start, length]
  calls
splitVars == <<request, reader, returned, calls>>

ElementSize(type) == CASE type \in {"fixed", "offsets", "mask"} -> 4
                       [] type = "string" -> 1
                       [] OTHER -> 0
RoundUp(n, to) == ((n + to - 1) \div to) * to
Words(rows) == (rows + WordBits - 1) \div WordBits
Table == request.table
NumPartitions == Len(request.splits) + 1
RowIndices == <<0>> \o request.splits \o <<Table[1].size>>

(***************************************************************************)
(* The buffers of the table, in the order of a walk over columns and        *)
(* children that several functions have to agree on.                        *)
(***************************************************************************)
\* setup_src_buf_data
RECURSIVE SrcBufs(_)
SrcBufs(cols) ==
  FlattenSeq([c \in DOMAIN cols |->
    (IF cols[c].mask = <<>> THEN <<>> ELSE <<cols[c].mask>>)
      \o <<cols[c].data>> \o SrcBufs(cols[c].children)])

\* get_sliced_child
SlicedChildren(col) ==
  [c \in DOMAIN col.children |-> [col.children[c] EXCEPT !.offset = col.offset, !.size = col.size]]

\* setup_source_buf_info and buf_info_functor: a record per buffer.  parent is the
\* buffer of the nearest offsets above, 0 if none; stack, where the buffer keeps
\* its chain of parents; a walk is [infos, stack].
RECURSIVE Walk(_, _, _, _)
Walk(walk, cols, parent, depth) ==
  LET Add(w, type, offsets, above, used, col) ==
        [infos |-> Append(w.infos, [type |-> type, offsets |-> offsets, parent |-> above,
                                    stack |-> w.stack, offset |-> col.offset]),
         stack |-> w.stack + used]
      One(w, col) ==
        LET v == IF col.mask = <<>> THEN w ELSE Add(w, "mask", <<>>, parent, depth, col)
            below == Len(v.infos) + 2
            offsets == col.children[1].data
        IN  CASE col.kind = "fixed" -> Add(v, "fixed", <<>>, parent, depth, col)
              [] col.kind = "string" /\ col.children = <<>> -> Add(v, "string", <<>>, parent, depth, col)
              [] col.kind = "string" /\ col.children # <<>> ->
                   Add(Add(v, "string", <<>>, below, depth + 1, col), "offsets", offsets, parent, depth, col)
              [] col.kind = "list" ->
                   Walk(Add(Add(v, "list", <<>>, parent, depth, col), "offsets", offsets, parent, depth, col),
                        Tail(col.children), below, depth + 1)
              [] col.kind = "struct" ->
                   Walk(Add(v, "struct", <<>>, parent, depth, col), SlicedChildren(col), parent, depth)
  IN  IF cols = <<>> THEN walk ELSE Walk(One(walk, Head(cols)), Tail(cols), parent, depth)
SrcInfos(cols) == Walk([infos |-> <<>>, stack |-> 0], cols, 0, 0).infos

\* compute_offset_stack_size
RECURSIVE OffsetStackSize(_, _)
OffsetStackSize(cols, depth) ==
  SumUpTo([c \in DOMAIN cols |->
    depth * (IF cols[c].mask = <<>> THEN 1 ELSE 2)
      + OffsetStackSize(cols[c].children, IF cols[c].kind \in {"string", "list"} THEN depth + 1 ELSE depth)],
    Len(cols))

\* count_src_bufs
RECURSIVE CountSrcBufs(_)
CountSrcBufs(cols) ==
  SumUpTo([c \in DOMAIN cols |->
    1 + (IF cols[c].mask = <<>> THEN 0 ELSE 1) + CountSrcBufs(cols[c].children)], Len(cols))

(***************************************************************************)
(* What to copy of each buffer: compute_splits.                             *)
(***************************************************************************)
\* The buffers of the offsets above buffer b, outermost first.
RECURSIVE Parents(_, _)
Parents(infos, b) == IF infos[b].parent = 0 THEN <<>>
                     ELSE Append(Parents(infos, infos[b].parent), infos[b].parent)

\* Where row r of the table lies in buffer b: through all offsets above.
RowIn(infos, b, r) ==
  LET above == Parents(infos, b)
      root == IF above = <<>> THEN b ELSE above[1]
      row[k \in Nat] == IF k = 0 THEN r + infos[root].offset
                        ELSE LET offsets == infos[above[k]].offsets
                             IN  IF offsets = <<>> THEN row[k - 1] ELSE offsets[row[k - 1] + 1]
  IN  row[Len(above)]

\* The dst_buf_info of buffer b, cut from row `from' to row `to' of its own, without
\* its place in the partition.
DstBuf(info, b, from, to) ==
  LET rows == to - from
      isMask == info.type = "mask"
      isOffsets == info.offsets # <<>>
  IN  [buf |-> b, size |-> ElementSize(info.type), rows |-> rows,
       elements |-> IF isOffsets /\ rows > 0 THEN rows + 1 ELSE IF isMask THEN Words(rows) ELSE rows,
       src |-> IF isMask THEN from \div WordBits ELSE from,
       bits |-> IF isMask THEN from % WordBits ELSE 0,
       shift |-> IF isOffsets THEN info.offsets[from + 1] ELSE 0,
       isMask |-> isMask, isOffsets |-> isOffsets, dst |-> 0]
BytesOf(d) == RoundUp(d.elements * d.size, Align)

\* The buffers of a partition lie one behind the other.
Behind(bufs, ends) ==
  AsTuple([b \in DOMAIN bufs |-> [bufs[b] EXCEPT !.dst = ends[b] - BytesOf(bufs[b])]])
Ends(bufs) == InclusiveScan(AsTuple([b \in DOMAIN bufs |-> BytesOf(bufs[b])]))
CutAt(infos, first, end) ==
  AsTuple([b \in DOMAIN infos |-> DstBuf(infos[b], b, RowIn(infos, b, first), RowIn(infos, b, end))])
Laid(bufs) == Behind(bufs, Ends(bufs))
DstBufs(infos) ==
  AsTuple([p \in 1 .. NumPartitions |-> Laid(CutAt(infos, RowIndices[p], RowIndices[p + 1]))])
PartitionBytes(bufs) == SumUpTo([b \in DOMAIN bufs |-> BytesOf(bufs[b])], Len(bufs))

(***************************************************************************)
(* Batches of equal work, and the iterations of chunked_pack.                *)
(***************************************************************************)
\* compute_batches and the first part of chunk_iteration_state::create
BatchesOf(d) ==
  LET bytes == d.elements * d.size
      count == IF bytes = 0 THEN 1 ELSE RoundUp(bytes, BatchBytes) \div BatchBytes
      perBatch == IF bytes = 0 THEN 0 ELSE BatchBytes \div d.size
      rowsPer == IF d.isMask THEN perBatch * WordBits ELSE perBatch
      Part(all, per, k) == IF (k + 1) * per > all THEN all - k * per ELSE per
  IN  [i \in 1 .. count |->
        [d EXCEPT !.elements = Part(d.elements, perBatch, i - 1), !.rows = Part(d.rows, rowsPer, i - 1),
                  !.src = @ + (i - 1) * perBatch,
                  !.dst = @ + (i - 1) * (IF bytes = 0 THEN 0 ELSE BatchBytes)]]
Batches(bufs) == FlattenSeq([b \in DOMAIN bufs |-> BatchesOf(bufs[b])])

\* Where each batch begins in the result, and where the last one ends.
Starts(batches) == <<0>> \o InclusiveScan(AsTuple([i \in DOMAIN batches |-> BytesOf(batches[i])]))

\* Mutant: the end of the batches is taken for one more batch that did not fit.
IterationsExtra(starts) ==
  LET n == Len(starts)
      iterate[at \in Nat, done \in Nat] ==
        LET next == LowerBound(starts, at, n + 1 - at, request.userBuffer + done + 1)
            size == starts[next - 1] - done
        IN  <<[count |-> next - 1 - at, bytes |-> size]>>
              \o IF next > n THEN <<[count |-> 0, bytes |-> 0]>> ELSE iterate[next - 1, done + size]
  IN  iterate[1, 0]

\* The rest of create: as many batches as fit the user's buffer, again and again.
Iterations(starts) ==
  LET n == Len(starts)
      iterate[at \in Nat, done \in Nat] ==
        LET next == LowerBound(starts, at, n + 1 - at, request.userBuffer + done + 1)
            size == starts[next - 1] - done
        IN  <<[count |-> next - 1 - at, bytes |-> size]>>
              \o IF next > n THEN <<>> ELSE iterate[next - 1, done + size]
  IN  iterate[1, 0]

\* Mutant: the places in the whole result are kept.
PlacedForAll(batches, iterations) == batches

\* The batches with their places in the user's buffer.
Placed(batches, iterations) ==
  LET Before(ends, dst) == ends[UpperBound(ends, 1, Len(ends), dst) - 1]
      ends == InclusiveScan(AsTuple([k \in DOMAIN iterations |-> iterations[k].bytes]))
  IN  AsTuple([i \in DOMAIN batches |->
        IF i <= iterations[1].count THEN batches[i]
        ELSE [batches[i] EXCEPT !.dst = @ - Before(ends, @)]])

(***************************************************************************)
(* The copy: copy_partitions and copy_buffer.                               *)
(***************************************************************************)
\* The bits of word w of a mask; beyond its rows they can be anything.
SrcWord(mask, w) ==
  [j \in 1 .. WordBits |-> IF w * WordBits + j <= Len(mask) THEN mask[w * WordBits + j] ELSE request.junk]

\* Mutant: the next word is always read.
ReadsNextAlways(d, k) == TRUE

\* The copy of word k needs the next word of the source, except where its rows end.
ReadsNext(d, k) == k < d.elements - 1 \/ d.elements * WordBits - d.rows < d.bits

\* Mutant: the bits of the next word are dropped.
CopiedWordAlone(d, mask, k) ==
  LET word == SrcWord(mask, d.src + k)
  IN  [j \in 1 .. WordBits |-> IF j + d.bits <= WordBits THEN word[j + d.bits] ELSE 0]

CopiedWord(d, mask, k) ==
  LET word == SrcWord(mask, d.src + k)
      next == IF ReadsNext(d, k) THEN SrcWord(mask, d.src + k + 1) ELSE [j \in 1 .. WordBits |-> 0]
  IN  [j \in 1 .. WordBits |-> IF j + d.bits <= WordBits THEN word[j + d.bits] ELSE next[j + d.bits - WordBits]]

Copied(bufs, d, k) ==
  CASE d.isMask -> CopiedWord(d, bufs[d.buf], k)
    [] d.isOffsets -> bufs[d.buf][d.src + k + 1] - d.shift
    [] OTHER -> bufs[d.buf][d.src + k + 1]

\* What a batch writes, by address, and the valid rows it counts.
Written(bufs, d) ==
  [a \in {d.dst + k * d.size : k \in 0 .. d.elements - 1} |-> Copied(bufs, d, (a - d.dst) \div d.size)]

\* Mutant: the bits behind the last row are counted with it.
ValidCountOfWords(bufs, d) ==
  MapThenSumSet(LAMBDA k : LET word == CopiedWord(d, bufs[d.buf], k)
                           IN  Cardinality({j \in 1 .. WordBits : word[j] = 1}), 0 .. d.elements - 1)
ValidCount(bufs, d) ==
  MapThenSumSet(LAMBDA k : LET word == CopiedWord(d, bufs[d.buf], k)
                           IN  Cardinality({j \in 1 .. WordBits : word[j] = 1 /\ k * WordBits + j <= d.rows}),
                0 .. d.elements - 1)
AllWritten(bufs, batches, base) ==
  LET write[i \in 0 .. Len(batches)] ==
        IF i = 0 THEN << >>
        ELSE Written(bufs, [batches[i] EXCEPT !.dst = @ + base]) @@ write[i - 1]
  IN  write[Len(batches)]

(***************************************************************************)
(* The packed columns: build_output_columns, populate_metadata, unpack.      *)
(***************************************************************************)
NullCount(col) == Cardinality({i \in 1 .. col.size : col.mask # <<>> /\ col.mask[col.offset + i] = 0})

\* The dst_buf_info of a column after the first n; memory is read at most where a
\* row needs it.
RECURSIVE Output(_, _, _, _)
Output(cols, infos, n, memory) ==
  IF cols = <<>> THEN [cols |-> <<>>, used |-> n]
  ELSE
  LET src == Head(cols)
      At(info, k) == LET a == info.dst + k * info.size
                     IN  IF a \in DOMAIN memory THEN memory[a] ELSE -9
      valid == infos[n + 1]
      m == IF src.mask = <<>> THEN n ELSE n + 1
      info == infos[m + 1]
      size == CASE src.kind = "string" /\ src.children = <<>> -> 0
                [] src.kind = "string" /\ src.children # <<>> -> infos[m + 2].rows
                [] OTHER -> info.elements
      below == Output(src.children, infos, m + 1, memory)
      rest == Output(Tail(cols), infos, below.used, memory)
      nullable == src.mask # <<>> /\ valid.elements > 0
  IN  [cols |-> <<[kind |-> src.kind, offset |-> 0, size |-> size,
                   data |-> IF info.size = 0 THEN <<>> ELSE [i \in 1 .. info.elements |-> At(info, i - 1)],
                   mask |-> IF nullable THEN [i \in 1 .. size |->
                              At(valid, (i - 1) \div WordBits)[((i - 1) % WordBits) + 1]] ELSE <<>>,
                   nulls |-> IF src.mask = <<>> THEN 0
                             ELSE IF request.userBuffer > 0 THEN NullCount(src)
                             ELSE IF nullable THEN valid.rows - valid.valid ELSE 0,
                   children |-> below.cols]>> \o rest.cols,
       used |-> rest.used]

(***************************************************************************)
(* The calls.                                                               *)
(***************************************************************************)
IsEmpty == Table[1].size = 0
Infos == AsTuple(SrcInfos(Table))
Given == IF returned = <<>> THEN 0 ELSE LET c == returned[Len(returned)] IN c.start + c.length

\* The constructor of contiguous_split_state: all is planned before the first copy.
Nothing == [iterations |-> <<>>, iteration |-> 0, bufs |-> <<>>, batches |-> <<>>, total |-> 0, memory |-> <<>>]
Plan(bufs, iterations, batches, total) ==
  [iterations |-> iterations, iteration |-> 1, bufs |-> bufs, batches |-> batches, total |-> total, memory |-> <<>>]
AtOnce(bufs, batches, total) ==
  Plan(bufs, <<[count |-> Len(FlattenSeq(batches)), bytes |-> total]>>, batches, total)
InSteps(bufs, batches, iterations, total) == Plan(bufs, iterations, <<Placed(batches, iterations)>>, total)
PlanFor(bufs, batches, total) ==
  IF request.userBuffer = 0 THEN AtOnce(bufs, batches, total)
  ELSE InSteps(bufs, batches[1], Iterations(Starts(batches[1])), total)
PlanCopy(bufs) ==
  PlanFor(bufs, AsTuple([p \in DOMAIN bufs |-> AsTuple(Batches(bufs[p]))]),
          SumUpTo([p \in DOMAIN bufs |-> PartitionBytes(bufs[p])], NumPartitions))
NewState == IF IsEmpty THEN Plan(<<>>, <<>>, <<>>, 0) ELSE PlanCopy(DstBufs(Infos))

Init ==
  /\ request \in Requests /\ reader = Nothing
  /\ returned = <<>> /\ calls = "open"

Create == reader.iteration = 0 /\ reader' = NewState /\ UNCHANGED <<request, returned, calls>>
Exists == calls = "open" /\ reader.iteration > 0

HasMoreCopies == reader.iteration <= Len(reader.iterations)

\* contiguous_split: every partition in one go.
SplitAll ==
  /\ Exists /\ request.userBuffer = 0 /\ returned = <<>>
  /\ reader' = IF IsEmpty THEN reader
               ELSE [reader EXCEPT !.iteration = 2,
                      !.memory = AsTuple([p \in 1 .. NumPartitions |->
                                    AllWritten(SrcBufs(Table), reader.batches[p], 0)])]
  /\ returned' = <<[start |-> 0, length |-> reader.total]>>
  /\ UNCHANGED <<request, calls>>

\* contiguous_split_chunk returns a size_type.
Narrow(bytes) == ((bytes + SizeLimit) % (2 * SizeLimit)) - SizeLimit

\* The batches that iteration k copies: starting_batch and the number of them.
BatchesIn(k) ==
  LET first == SumUpTo([j \in DOMAIN reader.iterations |-> reader.iterations[j].count], k - 1)
  IN  SubSeq(reader.batches[1], first + 1, first + reader.iterations[k].count)

\* chunked_pack::next.  The caller moves the bytes behind those it has.
NextChunk ==
  /\ Exists /\ request.userBuffer > 0 /\ HasMoreCopies
  /\ LET k == reader.iteration
         before == IF reader.memory = <<>> THEN <<>> ELSE reader.memory[1]
     IN  /\ reader' = [reader EXCEPT !.iteration = k + 1,
                        !.memory = <<AllWritten(SrcBufs(Table), BatchesIn(k), Given) @@ before>>]
         /\ returned' = Append(returned, [start |-> Given, length |-> Narrow(reader.iterations[k].bytes)])
  /\ UNCHANGED <<request, calls>>

\* contiguous_split returned, or chunked_pack::has_next says no.
End ==
  /\ Exists /\ (request.userBuffer > 0 \/ returned # <<>>) /\ ~HasMoreCopies
  /\ calls' = "done" /\ UNCHANGED <<request, reader, returned>>

Next == Create \/ SplitAll \/ NextChunk \/ End
Spec == Init /\ [][Next]_splitVars

(***************************************************************************)
(* What a packed column holds.                                              *)
(***************************************************************************)
\* The buffers of a partition with the valid rows their batches counted.
ValidIn(src, parts) == SumUpTo([i \in DOMAIN parts |-> ValidCount(src, parts[i])], Len(parts))
Counted(src, bufs) ==
  AsTuple([b \in DOMAIN bufs |->
    bufs[b] @@ [valid |-> IF bufs[b].isMask THEN ValidIn(src, BatchesOf(bufs[b])) ELSE 0]])
Unpacked(p) == Output(Table, Counted(SrcBufs(Table), reader.bufs[p]), 0, reader.memory[p]).cols

\* Row i of a column, as a reader sees it.
Null == [null |-> TRUE]
RECURSIVE Value(_, _)
Value(col, i) ==
  LET at == col.offset + i
      from == col.children[1].data[at]
      Places == 1 .. col.children[1].data[at + 1] - from
  IN  IF col.mask # <<>> /\ col.mask[at] = 0 THEN Null
      ELSE [value |->
        CASE col.kind = "fixed" -> col.data[at]
          [] col.kind = "string" -> [k \in Places |-> col.data[from + k]]
          [] col.kind = "list" -> [k \in Places |-> Value(col.children[2], from + k)]
          [] col.kind = "struct" -> [c \in DOMAIN col.children |-> Value(SlicedChildren(col)[c], i)]]

(***************************************************************************)
(* Properties                                                              *)
(***************************************************************************)
\* Type invariant: only bytes of a partition's allocation are ever written.
SplitTypeOK ==
  /\ request \in Requests /\ calls \in {"open", "done"}
  /\ reader.iteration \in 0 .. Len(reader.iterations) + 1
  /\ DOMAIN reader.memory \subseteq 1 .. NumPartitions
  /\ \A p \in DOMAIN reader.memory :
       DOMAIN reader.memory[p] \subseteq 0 .. PartitionBytes(reader.bufs[p]) - 1
  /\ \A k \in DOMAIN returned : returned[k].start \in Nat

IsPacked == calls = "done" /\ ~IsEmpty

\* The columns hold the rows of the table from `first' up to `end'.
HasRows(cols, first, end) ==
  \A c \in DOMAIN Table :
    /\ cols[c].size = end - first
    /\ \A i \in 1 .. end - first : Value(cols[c], i) = Value(Table[c], first + i)

\* The rows that come out, read through the metadata and the packed bytes, are the
\* rows of the input, in every partition and however the table was sliced: offsets
\* are followed and shifted, mask bits moved, batches and steps put back together.
RowsSurvive ==
  IsPacked => \A p \in 1 .. NumPartitions : HasRows(Unpacked(p), RowIndices[p], RowIndices[p + 1])

RECURSIVE NullsAreCounted(_)
NullsAreCounted(cols) ==
  \A c \in DOMAIN cols : cols[c].nulls = NullCount(cols[c]) /\ NullsAreCounted(cols[c].children)

\* contiguous_split: the null count of every column, at every depth, is the number of
\* nulls it has, added up from what each batch counted while it copied.
SplitsCountNulls == IsPacked /\ request.userBuffer = 0 => \A p \in 1 .. NumPartitions : NullsAreCounted(Unpacked(p))

\* chunked_pack: likewise; "we have no splits: the null_count is just the source column's
\* null_count" (build_output_column_metadata), children of a slice included.
PackCountsNulls == IsPacked /\ request.userBuffer > 0 => NullsAreCounted(Unpacked(1))

\* What is counted and allocated ahead fits what the walks then use: a record for every
\* buffer, and for each a stack of its own for its chain of offsets (setup_source_buf_info
\* places the stacks, compute_offset_stack_size sizes them, compute_splits fills them).
StacksFit(infos, size) ==
  LET Stack(b) == infos[b].stack .. infos[b].stack + Len(Parents(infos, b)) - 1
  IN  \A b \in DOMAIN infos :
        /\ \A s \in Stack(b) : s < size
        /\ \A other \in 1 .. b - 1 : Stack(b) \cap Stack(other) = {}
ScratchFits ==
  \E infos \in {Infos} :
    /\ Len(infos) = CountSrcBufs(Table) /\ Len(SrcBufs(Table)) = Len(infos)
    /\ StacksFit(infos, OffsetStackSize(Table, 0))

\* The blocks of one kernel write to places of their own, aligned, in the user's buffer.
WritesStayApart ==
  Exists /\ request.userBuffer > 0 /\ HasMoreCopies =>
    LET batches == BatchesIn(reader.iteration)
        Bytes(d) == d.dst .. d.dst + BytesOf(d) - 1
    IN  \A i \in DOMAIN batches :
          /\ batches[i].dst % Align = 0 /\ Bytes(batches[i]) \subseteq 0 .. request.userBuffer - 1
          /\ \A j \in 1 .. i - 1 : Bytes(batches[i]) \cap Bytes(batches[j]) = {}

\* The copy of a mask reads no word past the one that holds its last row, though it
\* looks one word ahead to shift.
ReadsInside(d, mask) ==
  \A k \in 0 .. d.elements - 1 :
    (d.src + k + (IF d.bits > 0 /\ ReadsNext(d, k) THEN 1 ELSE 0)) * WordBits < Len(mask)
MaskReadsStayInside ==
  \A p \in DOMAIN reader.bufs : \A b \in DOMAIN reader.bufs[p] :
    reader.bufs[p][b].isMask =>
      \A d \in Range(BatchesOf(reader.bufs[p][b])) : ReadsInside(d, SrcBufs(Table)[b])
=============================================================================
