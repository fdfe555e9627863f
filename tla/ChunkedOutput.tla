--------------------------- MODULE ChunkedOutput ---------------------------
(***************************************************************************)
(* Two producers of libcudf that hand out a long result piece by piece, side *)
(* by side: a program works with one of them, and both implement PieceStream *)
(* (as OrcChunks does).  kind says which one it is; the other variables are  *)
(* those of the producer.                                                   *)
(***************************************************************************)
EXTENDS Integers, Sequences

CONSTANTS
  ParquetRequests, MinSubpass, HeaderBytes, MaxEmpty,     \* of ParquetChunks
  PackRequests, BatchBytes, Align, WordBits, SizeLimit    \* of ContiguousSplit

VARIABLES kind, request, reader, returned, calls
outputVars == <<kind, request, reader, returned, calls>>

Pq == INSTANCE ParquetChunks WITH Requests <- ParquetRequests
Pack == INSTANCE ContiguousSplit WITH Requests <- PackRequests

Init ==
  \/ kind = "parquet" /\ Pq!Init
  \/ kind = "pack" /\ Pack!Init

ReadParquet == kind = "parquet" /\ Pq!Next /\ UNCHANGED kind
PackTable == kind = "pack" /\ Pack!Next /\ UNCHANGED kind
Next == ReadParquet \/ PackTable

Spec == Init /\ [][Next]_outputVars

(***************************************************************************)
(* Properties of the single producers; their modules say what they mean.     *)
(***************************************************************************)
IsParquet == kind = "parquet"
IsPack == kind = "pack"

\* Type invariant: the state of each producer has the shape of its C++ objects.
OutputTypeOK ==
  /\ kind \in {"parquet", "pack"}
  /\ IsParquet => Pq!PqTypeOK
  /\ IsPack => Pack!SplitTypeOK

\* The state has its shape, and nothing depends on what lies past an array: the pages of a
\* column (page_total_size, get_page_span), the stack of offsets and the sources counted for
\* a walk over the columns (setup_source_buf_info), the words of a mask (copy_buffer).  The
\* blocks of a step write to places of their own in the user's buffer
\* (chunk_iteration_state::create).
AccessesStayInside ==
  /\ OutputTypeOK
  /\ IsParquet => Pq!NeverUndefined
  /\ IsPack => Pack!ScratchFits /\ Pack!MaskReadsStayInside /\ Pack!WritesStayApart

\* Parquet: the rows a subpass returns have all their values in its pages
\* (preprocess_subpass_pages), pages are decoded to their true rows, whatever the estimates
\* were (generate_list_column_row_count_estimates, set_final_row_count), the rows from
\* each source add up (calculate_output_num_rows_per_source), and a chunk over its limit
\* could not have been shorter (find_next_split).
ParquetChunksAreTrue ==
  IsParquet => Pq!RowsAreWhole /\ Pq!RowNumbersAreTrue /\ Pq!SourcesAddUp /\ Pq!ChunksFit

\* Packing: rows come out of every partition as they went in (contiguous_split, unpack), and
\* the null counts of contiguous_split are what the batches counted (copy_buffer).
PackRowsSurvive == IsPack => Pack!RowsSurvive /\ Pack!SplitsCountNulls

\* What was handed out so far is what the source holds, for either producer.
ChunksAreTrue == ParquetChunksAreTrue /\ PackRowsSurvive

\* chunked_pack: null counts are true as well (build_output_column_metadata).
PackCountsNulls == IsPack => Pack!PackCountsNulls

\* Parquet: empty tables are returned at the end only (chunked_parquet_reader::read_chunk).
ParquetOnlyTheEndIsEmpty == IsParquet => Pq!OnlyTheEndIsEmpty

(***************************************************************************)
(* What they have in common.                                                *)
(***************************************************************************)
Total == CASE IsParquet -> Pq!ReadRows
           [] IsPack -> reader.total
Pieces == INSTANCE PieceStream WITH
  total <- Total,
  status <- IF IsPack /\ reader.iteration = 0 THEN "new" ELSE calls,
  pieces <- IF IsParquet THEN Pq!RowPieces ELSE returned

\* The rows asked for, or the bytes packed, come out each once and in order: no gap, no
\* overlap, no empty piece before the end, and has_next says no only there.
ImplementsStream == Pieces!Spec

\* When everything was given, the next has_next says no: a loop of has_next and read_chunk
\* or next ends.
EndIsSeen ==
  calls = "open" /\ returned # <<>> /\ Pieces!Given = Total =>
    ~(CASE IsParquet -> Pq!SaysMore [] IsPack -> Pack!HasMoreCopies)
=============================================================================
